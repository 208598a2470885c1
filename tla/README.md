# squeeze2raop2 in TLA+

The bridge makes an AirPlay receiver look like a Squeezebox player to Lyrion
Music Server (LMS). For every receiver it finds it opens a slimproto control
connection, fetches the audio LMS tells it to fetch over HTTP, decodes it and
pushes it into an AirPlay sender. This directory models that program: TLA+
modules, TLC runs on small instances, and theorems TLAPS proves for every
instance. Paths below are relative to `src/src/`.

## 1. The system

| Part | State it keeps | Operations | Who calls it |
|---|---|---|---|
| `StreamCoordinator` (playback/stream_coordinator.cpp) | `track_`, `streamThread_`, per-stream flags (`autostart_`, `awaitCodc_`, `haveCodc_`, `haveCont_`, `sentStml_`, `sentStms_`, `flushed_`, `retryUsed_`, `streamActive_`) | one handler per LMS command; `streamLoop` on the stream thread | slimproto reader thread; itself |
| `PlaybackStream` (playback/playback_stream.cpp) | pause deadline, start gate, fade, skip, source socket, disconnect reason | `run`, `pause`, `unpause`, `holdStart`, `skipAhead`, `requestFadeOut`, `interrupt`, `close` | stream thread; reader thread |
| `AirplayOutput` / `RaopPlayer` (airplay/) | target, the player (session), loss flag; ring, keep-alive thread | `prepare`, `launch`, `push`, `pump`, `park`, `unpark`, `silence`, `stop`, `updateTarget` | stream thread, reader thread, discovery thread |
| `VolumeController` (playback/volume_controller.cpp) | slider, remembered level, chase (target, direction, budget, stall, pending) | `onLmsVolume`, `onReceiverVolume`, `launch`, stepper thread | reader thread, sender callback, stream thread |
| `SlimProtoClient` / `SlimProtoSession` (lms/slimproto*.cpp, playback/slimproto_session.cpp) | `sock_`, `sendMutex_`, half-read packet, heartbeat and watchdog times, host found, reconnect flag | `run` (discover, connect, greet, read), `process`, `sendStat` and other sends, `stop` | its own reader thread; everybody sends |
| `HttpStreamReader` (lms/lms_stream.cpp) over a TCP or TLS transport (common/) | transport, bytes read with the header, ICY state | `openBlocking`, `read`, `interrupt`, `close` | reader thread opens, stream thread reads, whoever stops the stream interrupts and closes |
| mDNS browser (discovery/mdns_embedded.cpp) | browse questions, a tracker per service being resolved, command queue | `start`, `stop`, the library's callbacks | its own loop thread; main thread |
| `DeviceRegistry`, `SessionManager`, `PlayerSession` (discovery/, app/session_manager.cpp, playback/player_session.cpp) | devices merged from their records; session per player | `onRaopAdded`, `onAirplayAdded`, the two `Gone`s, `onRegistryEvent`; session start and stop | mDNS loop thread; main thread for static players |
| `Persistence` (app/persistence.cpp) | config file lines, sections, `dirty_` | `resolve`, `saveCreds`, `savePlayerName`, save | mDNS thread, sender callbacks |
| `PtpClock` (airplay/ptp_clock.cpp) | peer table | `addPeer`, `removePeer`, `nowNs`, its thread | players, PTP thread |
| decoders, resampler, counters, telemetry, transports, log, config | buffers and numbers | data transformation, I/O | stream thread |

Threads of one player: the slimproto *reader* runs every LMS command to its
end before it reads the next; the *stream thread* exists for one track; the
*keep-alive* thread drives a parked session between tracks; the volume
*stepper* presses LMS volume buttons. The discovery thread and the PTP thread
are shared by all players.

The difficult behaviour, and what correctness means:

* **Reader against pump.** A command that replaces or ends a stream stops the
  pump and joins it from the reader thread, so the pump must always notice, and
  nothing the pump holds may be destroyed under it. Other commands (pause,
  unpause, cont, codc, a delegated fade) act on a running pump.
* **The receiver may go away** whenever its sender is serviced. One loss per
  stream is repaired silently, the second ends the stream; the flag that reports
  it is shared by successive sessions.
* **What LMS is told.** LMS advances its queue on what the player reports, so
  each stream must be reported once, in order, whatever coincides: stop, loss,
  retry, end of source, decode error.
* **A session outlives its track** after a flush, and has to be driven by
  somebody, exactly one somebody, until the next track.
* **Volume runs both ways.** LMS pushes its slider, the receiver reports its own
  buttons, and a stepper thread presses LMS's buttons until the two agree: three
  threads on a handful of atomics, and a fourth that launches at "the" level.
* **Bytes come in any pieces.** ICY metadata sits between the audio, packets of
  LMS between their lengths; a buffer, a TLS record or the end of the header may
  cut them anywhere, and the connection may end there.
* **The link to LMS breaks.** Three threads send on a socket that a reconnect
  replaces under them; a silent server has to be found dead.
* **Receivers come and go** while their records are still being resolved, under
  two record types and under names the user wrote players for.
* **One file holds the user's settings and the program's state**: a save rewrites
  lines of both, and may be cut short at any step.
* **Start-up is a conversation**: cont, codc, a start gate and a decoder that
  may or may not attach, in any order, for a stream that may be stopped meanwhile.

The list of hazards, each at its line and with the properties that would catch
it, is in `PROJECT.json`.

## 2. Modules

| Module | What it is |
|---|---|
| `StreamSession` | the core: handlers, stream thread, keep-alive, receiver of one player, as concurrent actors |
| `StreamReport` | abstract: what a player promises LMS about a stream |
| `MCStreamSession` | the request sets the runs use |
| `StreamSession_proofs` | invariants, action properties and the refinement to `StreamReport`, proved |
| `VolumeLevel`, `MCVolumeLevel` | the level a receiver plays at: AUDG against `launch()` |
| `VolumeLevel_proofs` | its invariants, proved |
| `VolumeChase`, `MCVolumeChase` | the receiver's own volume chased by the stepper, atomic by atomic |
| `VolumeChase_proofs` | the bound on presses, proved |
| `HttpSource`, `MCHttpSource` | the HTTP source of one track: open, read, ICY metadata, interrupt, close, over TCP and TLS |
| `HttpSource_proofs` | every safety property of the source, proved |
| `SlimLink`, `MCSlimLink` | the control connection to LMS: framing, sends of three threads, outages, reconnect, stop |
| `SlimLink_proofs` | framing in both directions, proved |
| `PlayerSections` | operators: the player sections in memory, how a device finds its own, virtual MACs |
| `Receivers`, `MCReceivers` | mDNS browser, registry, session manager and bridge, over `PlayerSections` |
| `Receivers_proofs` | every safety property of the receivers, proved |
| `PlayerStore` | abstract: sections that change one operation at a time and are saved at once |
| `ConfigStore`, `MCConfigStore` | the config and state file: parser, save and crashes, over `PlayerSections` |
| `ConfigStore_proofs` | every property of the store and its refinement of `PlayerStore`, proved |
| `SharedLemmas` | lemmas on naturals, sequences and player sections the proofs share |

### StreamSession

State: `rd` the reader thread (idle, in `shutdown()`, at the join, and for
which command), `ses` the flags of `StreamCoordinator`, `track` the
`PlaybackStream`, `th` the `jthread` with its stop token, `pump` the stream
thread's program counter and locals, `out` the `AirplayOutput` with its
session, `lms` what the server still owes, `sent` the events sent for the
current stream.

A handler that does not join (pause, unpause, cont, codc, the fade request) is
one action: the reader thread runs it without waiting. A handler that calls
`shutdown()` is three: `Begin*` (what precedes it), `Shutdown` (request stop,
unpause), `Finish*` (after the join). The stream thread moves from one point at
which it looks at shared state to the next; each point is a `pump.pc` value
(`top` the loop guard of `run()`, `paused`, `gate`, `gatewait`, `read`, `feed`,
`pace`, `ret`, then `exit`, `decide`, `retry`, `drain`, `final` in
`streamLoop`). The environment is the sender taking audio, the receiver closing
the session while somebody drives it, deadlines passing, and discovery.

Abstractions: time is "a deadline may pass"; the ring is empty, low or at the
prefill level; a fade may end with any chunk fed during it; a codec attaches or
does not; `unsupported` stands for every packet `onStreamStart` refuses
outright. `throttled` is `ringThrottled_`: it belongs to the track, not to a pass
of `run()`, is set and cleared only while the output is ready and has a player,
and so survives a loss and its retry (run `throttle_release`). A read that times out, a pause slice and a drain slice that change
nothing are stuttering steps. `strm a`, `strm t`, volume, metadata and
statistics do not touch the state modelled. A target, once known, is not
withdrawn, so `prepare()` always succeeds when there is one.

### StreamReport

Five variables and seven actions: LMS asks, the player answers; it begins
once, completes or fails once, ends once; a stream LMS has itself ended may be
reported once more. `ImplementsReport` maps the event history of
`StreamSession` to it.

### VolumeLevel

`reader` is `onLmsVolume` between its store, the output's snapshot and the
level it gives the sender; `launcher` is `launch()` between its load, `start()`
and `setVolume`; `sess` the session with the level its sender applies. The
output's mutex is held from `LaunchStart` to `LaunchSet`, so `Snapshot` waits
for it, and `Apply` does not. `asked` and `current` are history: what LMS asked
for, and the levels that were current since the launch began. The anchor table
is taken as one-to-one: only "audible" and "mute" are told apart.

### VolumeChase

`chase` holds the atomics, `driver` is `onReceiverVolume` (the stores it has
still to make, in the code's order, then the notification), `stepper` the loop of
`start()` with `pumpLocked()` inlined: each load and store is a step. The wait is
two steps, as in a condition variable whose notifier does not hold the mutex:
`StepperWaits` looks at the predicate, `StepperBlocks` falls asleep, and `Notify`
wakes only a sleeper. (A spurious wakeup, which the standard allows but does not
promise, is left out.) `lms` is the server: presses and AUDG under way, the
slider, the link. `last` abstracts `lastStepMs_` to zero, within the press window
or past it. Sliders and percents are one scale. Feedback is on; a controller
without it, like one in fixed mode, never starts a chase. A *calm* world changes
nothing while a chase goes on and answers every press within its window; the
other does what it likes.

### HttpSource

One track, from `strm s` to its end. `opener` is the slimproto reader thread in
`openBlocking()` (connect, handshake, request, header, then the start of the
pump), `pump` the stream thread in `read()` and `pullRaw()`, `stopper` the thread
in `StreamCoordinator::shutdown()`, which may be the discovery thread and so may
come at any time. `wire` and `peer` are the connection: the server sends units in
any pieces, adds TLS session tickets, and ends the connection in order (with or
without the close_notify of TLS: both transports report an end alike) or with a
reset. A unit is a header line, the header's
end, a piece of audio, an ICY length or a cell of metadata; it carries its place
in the answer, so that `AudioIsClean` and `BlocksAreWhole` compare what came out
with what the server meant. Between the pull's choice of the transport and the
transport's answer the pump is at `recv`: this is where it can be interrupted,
and where nobody may close. Left out: which certificate or server name is used,
the text of the request, intervals above 2^20 (which the code ignores), and what
becomes of the descriptor's number after a close under a read (the model lets
such a read time out or fail).

### SlimLink

`run` is the reader thread in `SlimProtoClient::run()` (discover, back off,
connect, greet, poll, handler, over) with the packet it is reading: how much of
the length prefix, the length expected, and the body so far. `out` holds each
thread's `sendRaw()`: the socket is read once, before `sendMutex_`, and the frame
is then written in two pieces. `conns` are the present connection and the one
before it, which a sender may still hold. LMS sends the packets of `script`, each
in pieces of any size; a connection ends in order, or dies without a sign until
the watchdog (`Timeout` polls of silence) or the kernel's keepalive finds it out.
A reader that has half a length prefix is in `recvFully()`: it has no heartbeat
and no watchdog, and only the keepalive ends it. Commands are one handler step:
what they do is `StreamSession`. `stream` says that there is a stream thread. The
handler of a `strm s` starts it, or that of a `cont` or `codc` after one; it outlives
its connection, and only while it exists does it send events. `RequestStop` comes
after it has ended, because `PlayerSession::stop()` ends the stream first; that a
`strm s` handled between the two starts another is left out (run `close_under_read`
is about what `StreamSession` and the source make of that). The socket's buffer may
be `full`, because LMS does not read (`Fill`, `Drain`) or is gone without a sign: the
second piece of a frame then waits, with `sendMutex_` held, until LMS reads on or
the connection fails. Left out: packet layout, `serv` (for which
nobody installs a handler), names, statistics and button ticks.

### PlayerSections, Receivers

`PlayerSections` has no state: sections are sequences of records, and
`resolve`, `ensureSection`, `assignMac` and the others are the functions of
`Persistence` on them. Both `Receivers` and `ConfigStore` keep `sections` in a
variable and use these operators, so that they speak of the same matching rules.

`Receivers` has the network (services up, addresses), the library's questions
(`asked`), the trackers (`resolvers`), the registry (`devices`), the session
manager (`sessions`) and the main thread (`main`). The library calls back on the
loop thread, and registry and session manager run inside that callback, so a
callback is one action and everything it calls is part of it. A session is its
MAC, its target, whether audio is in flight, and, as history, whether a target
was missed because of that. A `Power` step makes a service appear or disappear,
with a new address if the receiver has no other; the library reports it later, or
never if it is undone before. `SettledIsServed` speaks of the states in which the
library has reported all and no question is left. Left out: passwords, timing and
models in TXT records; a device that outlives its AirPlay record because
`onAirplayGone()` looks it up by its instance is in the model as it is in the code.

### ConfigStore, PlayerStore

The file is a sequence of lines; a line has a kind, a key, a value, whether the key's
setter takes that value (`taken`: one that does not makes `parse()` refuse the file),
and its owner, the user or the program. `ReadLine` is one turn of the loop of `parse()`:
it carries the sections, the current one, the header, `currentName` and `lines_`;
`Reading` is what the first lines make of them. `Load` parses the file, `Image` is what
`saveLocked()` writes from the lines read and the sections in memory. A save is three
steps (write the temporary file, sync it, rename it), any of which may fail; the program
or the host may stop between any two. A write or a rename that fails ends the save. A
sync that fails is not noticed (`SyncFails`): the file is renamed all the same. Nobody syncs
the directory, so a rename is on the disk only after the kernel has written it back
(`WriteBack`). Until then `older` has what a `HostCrash` may leave instead of `disk`: the
files that were replaced, and a torn one if the sync failed. `failed` remembers that it
did. `WriteTemplate` writes in place and syncs nothing, and a crash of the program may leave a
part of it (`Partial`), so that `StaysReadable` can only be claimed once a program has run on
a file that is on the disk: that is what `opened` remembers.

`PlayerStore` is the abstraction: `known`, `saved`, `older`, `up`, one action per operation
and a save that is atomic but not at once final: a `HostCrash` may bring back what was
saved before, until it has `Settle`d. `ImplementsStore` maps `saved` to the sections a start
would find in the file (`SectionsOf(disk)`) and `older` to those of the files it may
find instead. So it says at once that a save followed by a parse gives back the sections,
line by line bookkeeping or not, that no other step changes them, and that a crash, of
the host too, leaves the sections of one save and never a mixture. A save whose sync failed
may leave none.

## 3. Runs

The instances of `StreamSession`, the volume modules, `HttpSource` and
`SlimLink` have one player, which is the unit the code isolates: nothing in
these modules is shared between players. `Receivers` and `ConfigStore` are about
what is shared, and have several. A run of `StreamSession` is bounded by its set of
requests alone: the state of a stream is finite, and `sent` is reset by each
`strm s` and cannot grow within a stream because the events are once-only.
Deadlock is checked in every run but those of `VolumeChase`, `HttpSource`,
`SlimLink` and `Receivers`, which end once the stop has returned and the events
of the bound are spent.

| Run | Instance | Checks |
|---|---|---|
| `session_safety` | a held start; a start that waits for cont and codc and has a stop fade; a refused start (1.2 million states) | `TypeOK`, ownership (`TrackOutlivesPump`, `OneDriver`, `NoOrphanSession`), losses (`NoInheritedLoss`, `LaunchedWhenReady`), reports (`EndIsReported`, `ImplementsReport`), commands (`HeldUntilReleased`, `FlushKeepsStreaming`) |
| `session_live` | a held start and a plain one with a stop fade | `HandlersReturn`, `PumpEnds` |
| `throttle_release` | a plain start with a stop fade | finds `ThrottleLetsGo` violated |
| `fade_stop` | a plain start with a stop fade | finds `FadeStopCompletes` violated |
| `volume_level` | mute, two levels and a fixed one, both modes (5 thousand states) | `TypeOK`, `LevelIsCurrent` |
| `volume_chase` | two events, in a calm world and in one that is not, 2 presses, a slider of 4 positions (500 thousand states) | `PressesBounded`, `Converges`, `StopReturns`, `StepperRests` |
| `config_store` | three files to start with, two devices, everything hashing alike (100 thousand states) | `TypeOK`, `MacsDistinct`, `StaysReadable`, `KeepsUserLines`, `ImplementsStore` |
| `receivers` | a receiver with both records and one with a RAOP record only, a waiting and a pinned static player (460 thousand states) | `TypeOK`, `NoDanglingQuestion`, `MacsDistinct`, `TargetsCurrent`, `SettledIsServed`, `StopReturns` |
| `late_target` | the same, no refused questions | finds `StaticGetsTarget` violated |
| `http_source` | a plain body, an ICY body and an endless header, over TCP and TLS (100 thousand states) | `TypeOK`, `AudioIsClean`, `BlocksAreWhole`, `EndIsComplete`, `ShutdownReturns` |
| `close_under_read` | the same | finds `NoCloseUnderRead` violated |
| `slim_link` | two scripts of packets, one outage (290 thousand states) | `TypeOK`, `HandledInOrder`, `FramesWhole`, `GreetsFirst`, `StopReturns`, `StaysRegistered` |

The three requests of `session_safety` reach every branch of `onStreamStart`,
both values of every flag, and any request may follow any other, as often as
LMS likes. Two of each kind would add nothing: two streams never coexist.

`VolumeLevel` has no bound: LMS may push levels and sessions may come and go
for ever. `VolumeChase` bounds the events (`MaxEvents`: reports, slider moves,
link changes). Two events are enough for the races of `volume_chase`, which
are those of one report against a stepper that still works on another, or against
one change of slider or link. Two presses and one stall make each way out of
`pumpLocked()` reachable: reached, overshoot, exhausted, no movement, no link.
`Converges` is about what a chase leaves behind for the next one: two chases,
in a calm world, are enough for that.

`HttpSource`: buffers of 3 units, header reads of 3 and metadata pieces of 2, on a
wire that holds 3. The ICY body has audio intervals of 2, a block of 3 (more than
one piece, more than a pull) and an empty one, so that a cut can fall before,
inside and after each part, inside the bytes read with the header, and at the end
of the buffer. The third answer exceeds the header limit. `MaxTickets` is 1: what
a ticket does to a read does not depend on the one before.

`SlimLink`: the two scripts have a packet of each kind the client tells apart
(answered at once, answered and handled, handled, renaming, and a bogus length).
With prefixes of 2 and bodies of 1 or 2 units a cut falls at every place. One
outage gives two connections; a sender can hold no more than the present one and
the one before.

`Receivers`: `MaxPowers` 5 lets both records of a receiver appear, disappear and
one come back elsewhere while the other receiver is found. One refused question
is enough to lose a tracker or its TXT record, and `SettledIsServed` then promises
nothing, because the code does not ask again.

`ConfigStore`: names, credentials and devices are finite, and every operation may happen
at any time and again. `MaxOlder` 0 bounds what waits to be written back: an operation
starts when the save before it is on the disk, so that a crash chooses between the new
file, the one it replaced and, after a failed sync, a torn one. More saves in a row would
only give it more whole files to choose from (with `MaxOlder` 1, four times the states, TLC
finds no error either, the refinement checked for two of the files), and the theorems hold for every `MaxOlder`. All ids and names hash to one MAC base,
which is the hard case for `MacsDistinct`; the property speaks of no more than 256
sections, because `assignMacLocked()` tries no more MACs than that. The three files: a section without an id
and comments; one bound to the receiver, with program-managed lines and an unknown
section; and one that does not parse.

What the violations show:

* `fade_stop`: while paused, `strm q` with a fade-out configured only sets the
  fade request; the pause loop does not look at it. STMf has been sent and the
  session stays up until the next command.
* `throttle_release`: the receiver is lost while the ring is throttled. The retry begins
  with `ringThrottled_` still set, a new and empty ring and an output that is not ready.
  In this state the flag is not looked at again, the pump only paces, nothing is read
  and so the output never becomes ready: the track hangs until LMS stops it, although
  the code says that "a retry creates a fresh ring, so this re-arms per pass". `Wedged` is
  this state, and what `PumpEnds` has to except.
* `late_target`: a static player without a target has a session from the start.
  Its receiver is discovered with a RAOP record only; `Added` ends at the check
  for an existing session, and only `Updated` would pass a target on.
* `close_under_read`: the discovery thread's `shutdown()` finds no stream thread to
  join, because the reader thread is still in `openBlocking()`; that returns and
  starts the pump, and `shutdown()` closes the transport the pump reads.

Five races that the models reach have no run of their own:

* a `strm s` has started a stream, the connection ends, the reader reconnects and stores
  `sock_`; an event of the stream thread reads it and is sent; then comes HELO, although the
  tests expect it first on every connection (test_slimproto_wire.cpp:186, 569).
  `GreetsFirst` says that this is the only way;
* a `cont` that arrives after its stream was flushed starts a pump on the closed
  source (`ImplementsReport` allows a stream that LMS ended to be reported once more);
* an AUDG between `launch()`'s load and its `setVolume` is overridden by the older
  level until LMS pushes again, although the comment says that the last slider value
  wins (`LevelIsCurrent` says how old the level can be: current since the launch began);
* a thread in the middle of a frame waits for LMS to read, with `sendMutex_` held, and every
  other frame waits with it, although the comment (lms/slimproto.cpp:137-138) says that
  the send is made outside any lock. If the other is the BYE! of `stop()`, the
  `shutdown()` that would end the wait comes after it (`StopReturns` assumes `WF(Drain)`);
* a report of the receiver that is notified between the stepper's predicate and its
  wait sleeps until the receiver's next one (`Converges` is stated for the calm world).

### Fairness

`WF(StreamThread)` and `WF(Reader)`: the operating system runs both threads.
`WF(PauseDue)`, `WF(GateDue)`: a deadline that is set passes. LMS, the receiver
and discovery are not fair. `ReadNothing` is part of the stream thread, so a source
may be silent for ever as far as fairness is concerned; `PumpEnds`, `ThrottleLetsGo`
and `FadeStopCompletes` therefore have the premise `FiniteTracks` (a source that is
read again and again eventually ends; a ring that is driven again and again
eventually empties). `HandlersReturn` needs no such premise.

In `VolumeChase` the three threads, `stop()` and the press window are weakly fair:
the operating system runs threads and time passes. `LmsSteps` is fair too (LMS
handles what it received), but it may answer a press with no movement. Users, the
receiver and the link are not fair.

`HttpSource`: the opener is weakly fair, deadlines included (connect, handshake and
header each have one), and so is the stopper. The pump is weakly fair without
`Recv` of a timeout: a read that only ever times out is not progress, so
`ShutdownReturns` rests on the interrupt. The server has no fairness, and neither
has the start of the pump.

`SlimLink`: the reader thread, `stop()` and the kernel's keepalive are weakly fair,
each sender's write strongly: `sendMutex_` may be taken by others in between, but they
send a few frames a second. Of LMS one thing is assumed: it reads on in the end while it
is connected (`WF(Drain)`), because nothing in `sendAll()` bounds a send that waits.
Without it `stop()` need not return: its BYE! waits in front of its `shutdown()`.
Otherwise LMS is not fair: `StaysRegistered` asks nothing while it is down.

`Receivers`: the loop thread's teardown and the join are weakly fair (`select()` wakes
for what is posted).

## 4. Proofs

Every safety property that a passing run checks is a theorem. So is `TypeOK` of
`VolumeChase`, for which `volume_chase` spends no check of its own. Each is read off an
inductive invariant, which TLC has checked as an invariant of the run before it was
proved. One lemma per action (or per group of actions that disturb the same conjuncts)
shows that it is preserved.

The constants are restricted only by the named assumptions in the modules, which
TLC evaluates on every run: what a request, a level, a script or an answer looks
like (`RequestsAssumption`, `LevelsAssumption`, `LinkAssumption`,
`ResponsesAssumption`), that sizes and limits are numbers, the sizes not 0
(`ChaseAssumption`, `SizesAssumption`), that a service has a type, names and flags
(`ServicesAssumption`). No value of a bound is assumed, only that bounds are numbers
(`BoundsAssumption`): the theorems hold for every number of events, pieces, outages,
tickets and sections.

Of what users call things `Receivers` assumes this. `AuthoredAssumption`: a section has a
name, none that is named by a device id is bound to another id, and no virtual MAC was
written into two. `NamesAssumption`: all records of a receiver give it one name, not empty;
that name is the device id of no other receiver; and an instance name that `keyFor()` must
take as the key, because it holds no device id, is either that name or what no section and no
receiver is called. `HashAssumption`: nothing a section can be created under hashes like the
device id of another receiver. They exclude what the code would get wrong: `resolve()` takes
a section that has the MAC of an id to be that id's own, and binds it; a receiver called like
another's device id, or a section called like another's instance, is found in place of the
other's section, so that an event changes the session of the wrong player. Two hashes of 32
bits seldom meet, and a receiver is seldom called by twelve hex digits; the MACs of
`MacsDistinct` need no such luck, and its proof uses neither of the last two.

Two more are for `SettledIsServed` alone. `ReceiversAssumption`: an address is not empty, no
two services of a type have a key in common, and services of one name belong to one device.
`UnsharedAssumption`: of the sections the user wrote, once they have MACs, no two have one
key, none is claimed by two receivers (by id, name or MAC), and none is bound to what is the
name but not the id of a receiver. Without them the property fails for a reason in the code:
`resolve()` falls back on the friendly name, so two receivers of one name (two RAOP
devices, or one whose AirPlay record has no device id next to a RAOP record) share a section
and its session, and the removal of one ends the session that the other still needs. mDNS
keeps apart the instances of a type, and an AirPlay record that names its device id makes
the two records of a receiver one device.

Of the config file three things are assumed. `FilesAssumption`: a file is a sequence of
lines. `TidyAssumption`, of a file that `parse()` accepts: no two headers open one section
(the second would be looked up as the first), a key that a save manages stands in a
player's section and is not the user's own there (a save rewrites such a line: it is the
program's), or stands under no player at all; and the sections it gives are `WellFormed`:
names and ids are their own, and a section that is named by a device id is bound to it.
`DevicesAssumption`: no receiver is called `default` or `global`, nor by the device id of
another. Outside these the code does lose sections or lines: it keeps the name of a section
as that of the section a key is in even under an unknown header, it finds a section by its id
before its name, and a receiver called `default` would get a section no parse reads back.
A file that a user writes by hand as the template shows has none of this, and a save keeps
it so (`OnDisk` below).

### StreamSession

`IInv` proves the invariants of `session_safety`. None of them but `TypeOK` is
inductive; `IInv` adds what they rest on:

* `PumpState`: a thread that is not running has an idle pump and `streamActive_`
  is false; `CodecFirst`: no thread runs while a codec is awaited. Together they
  rule out that `onCodc` resets the track under a pump.
* `NeedsTarget`: a session exists only if there is a target; `LossSeen`: a
  dead session was reported lost unless the exit path has just consumed it. They
  give `NoInheritedLoss` and `LaunchedWhenReady` across a retry.
* `ReasonFits`: which disconnect reason goes with which way out of `run()`.
* `EndTold`: which events have been sent when the pump is draining or final.

`OInv` extends it for the action properties: which gates may be open (`GateKept`),
where a flush mark may be left over (`Leftover`, `Marked`), when the ring is empty
(`Quiet`). From it `HeldUntilReleased` and `FlushKeepsStreaming` follow for every step.

`RInv` extends both for the refinement `ImplementsReport`: `Speaks` says that the latest
event of the history that concerns the stream is the one its phase goes with; the other
parts say which phase goes with a start that may still come (`Superseded`, `Startable`)
and with what the track and its pump have done (`Connected`, `Begun`, `EndFits`). The initial state maps to an initial
state of `StreamReport`, and each action to one of its actions or a stutter. What
the refinement reads off the history is a position in a sequence, and how it changes when
one more event is appended is a lemma: no induction over the sequence is needed.

### Volume

`VolumeLevel`: a launch never mutes (`TypeOK`), and `LevelIsCurrent`. The
strengthening: `ChoiceFollows` (what `launch()` would choose is the last audible level
asked for, or the one before while the reader is about to remember it),
`HeldIsCurrent` (what either thread holds and has not applied is current) and
`LevelOrReplaced` (an active session's level is current, or the reader is on its way
to replace it).

`VolumeChase`: `PressesBounded`. A press is decided by loads, and the budget is stored
before the other atomics and before the press, so `Todo` fixes the order of what the
stepper has still to load and store, and `Counted` counts the presses made, owed (the
budget is stored, the button not yet sent) and still in the budget. The event thread
may refill the budget between any two of these steps.

### HttpSource

The invariant names a place in the body, the *cursor* `c`: in the audio of a round, or
in its metadata block. Of `InOrder`:

* what the pump has, `audio` and the `produced` of the read under way, is the audio up
  to `c` (`Heard`), `blocks` the complete blocks before it (`Told`), and the ICY state is
  what it must be there (`IcyAt`);
* `leftover_`, the wire and what the server has still to send are, tickets aside, in the
  order of the answer, and their first unit is the one that comes next at `c` (`Ahead`).

"In order" is stated unit by unit: each may follow (`Follow`) the one before it. So a cut
at any place, and a session ticket anywhere in between, keeps it (`TicketsAside`), and a
pull that asks for no more than the rest of a part can only bring a run of that part
(`AudioPiece`, `LengthUnit`, `MetaPiece`): the cursor moves by as much as was pulled.
`Phases` says who may be where, `Asked` that the request a pull has made is still the one
the state calls for when the transport answers. `AudioIsClean` and `BlocksAreWhole`
follow.

`EndIsComplete` is proved from a second invariant, `EInv`. All the audio of the body has
been heard or is under way, and of each block the whole has been told or its last cell is
under way, in the reader, on the wire or not yet sent (`NothingLost`); when the end has
been reported, nothing is under way but what was not sent. While nobody has called
`shutdown()` the connection is up, and only the server can have ended it
(`Undisturbed`). One lemma per action shows that what leaves the wire is taken.

### SlimLink

`FramesWhole` rests on `FramesMatch`: a frame is incomplete at LMS exactly while its sender
is in the middle of it, and the type invariant says that one is in the middle of a frame
only with `sendMutex_`. `Senders` says who may send when: the stream
thread only while it exists, and it has ended when a stop begins. `HandledInOrder` rests on what
the reader holds (`Holds`: the beginning of the packet it is in), what it has processed
(`HandledSoFar`: LMS's first packets, whole) and what is on the wire (`UnderWay`: it goes
on, without a gap, from what the reader holds).

`GreetsFirst` rests on `Greeting`: while LMS has seen nothing on a connection that stands,
the reader has its HELO still to send, everything the stopping thread sends is a goodbye,
and a stream thread exists only after a connection that was greeted (`reconnect_` is
set then). What comes first is then HELO, a goodbye, or the event of such a stream.

### Receivers and player sections

`NoDanglingQuestion`: a question is asked exactly while its tracker counts it as active
(`Asks`), and nothing is asked outside the life of the loop thread (`LoopKept`).

`MacsDistinct` needs arithmetic: `assignMac` tries the hash and what follows it, modulo 256;
among `Len(secs) + 1` tries, distinct if there are no more than 256 sections, one is free
(pigeonhole, `OneTryIsFree`). The loop over the sections after a parse is proved by
induction on the number of sections done. The library's induction theorem takes a
predicate as parameter, which the provers cannot instantiate; `SharedLemmas` has one
about a *set* of naturals, derived from `WFMin` of the library. The same lemma serves for
the concatenation of the rounds of an HTTP body.

`TypeOK` says that a session belongs to a section, `TargetsCurrent` that it has the target
its device has now, unless audio was in flight. Neither is inductive: an event of one device
may create, rename or bind a section, and any of that could make another device find another
section than before. `Players` adds what excludes this:

* `NamedRight`: a section is called as the user wrote it or as a receiver announces itself,
  and one called by a device id is bound to no other;
* `DevicesKept`: a device of the registry has a record, and an id and a name that a service
  announces (`Legal`);
* `PlayersKept`: a session belongs to a section of `sections`, by its key;
* `StaticsKept`: the static players are started while the registry is empty, under the keys
  of sections.

The main lemma is `ResolveIs`: `resolve()` leaves every section under its name and key, the
device finds the section it got, and every other legal device the one it found before. It
rests on lemmas about the three ways to match (`MatchMeans`, `MatchOnly`, `MatchStays`): a
name or an id that matched still does, and a section that was created or bound can only match
the device it was created or bound for. An event then changes the session of one key alone
(`OnlyAt`) and leaves it with the target of the device that finds this key (`EventTargets`).

`SettledIsServed` is about what an absence of events means, so its invariant, `Serving`,
follows a receiver from its first report on, as long as no question was refused:

* `TrackersThere`: what the library has reported has a tracker, and that tracker still asks
  for each record it has not got or, when it asks no more, has published its service, which
  counts as seen under the key of its complete record (`OnItsWay`);
* `AllManned`: every device of the registry is of a complete record and has a section, with
  a session unless it is disabled;
* `Alone`: no section is claimed by two receivers, so that the event that ends one session
  is never about the section of another (`FindApart`). `resolve()` keeps this, also where it
  creates or binds a section (`ResolveAlone`).

A removal takes away what the service itself published and nothing that the other record of
its device still shows (`RemovedServes`).

### ConfigStore

`FileInv` proves `TypeOK` and `StaysReadable`: what a program that runs has in `lines_` are the
lines of a file that parses to its end, and all its sections have MACs (`Running`), the temporary file is the image of what is in memory from its writing
to its rename, synced or not (`Saving`), and the file a program runs on is readable; once one
has run on a file that is on the disk, so is every file a crash of the host may bring
back, unless a sync has failed since (`Kept`).

`StoreInv` adds what the file and memory have to do with each other. `Linked`: the sections
in memory are well formed, no two share a MAC, and they extend those of the tidy file that
`lines_` was read from, each under its name and place. `Waiting`: the static players that have
not been started are the sections as filed, each once, so that starting one changes nothing
that a save would not find. `OnDisk`: every file a start may find, `disk` or one of
`older`, is tidy if it can be read. `MacsDistinct` follows as in `Receivers`.

The main lemma is about a save: `SectionsIn(Image(lines, sections)) = Durable(sections)`. The image
is read piece by piece, a piece being what `Rewritten` makes of one line, next to the lines it is
made of. After each, the parser has the same current section and name as it had after the original line, and
each section has, of what it has in memory, the part that its lines so far give (`Mirrors`); then the
appended sections follow one by one. With it the refinement mapping is direct: `Load` maps to `Start`, an operation
to `Operate`, `RenameTmp` to `Save`, `WriteBack` and the template to `Settle`, a crash of the
program to `Crash`, one of the host to `HostCrash`, and the rest stutters.

`KeepsUserLines`: to select the user's lines commutes with joining sequences, if the second is read
from where the first ended (`TheirsJoin`). Each piece of the image holds the user's line it
stands for and no other (`TheirsOfPiece`). `Preserved`, the invariant it needs, says that the file on disk, and
each one a crash may bring back untorn, has the user's lines of the file that was read, however
often it was replaced since.

### Only model-checked

* All liveness: the prover does not reach fairness and ENABLED.
* The properties of the runs that expect a violation.

## 5. Plan

Done: the core, `VolumeController`, the HTTP source, the control link, the config store and
discovery with its sessions, with every safety property proved. In order of importance,
next:

1. `PumpControls`: pause, unpause and skip against `run()` at the grain of
   `pauseUntilMs_`, `outputGateUntilMs_` and `skipFrames_` (lost pause, lost skip);
   `PumpPacing`: who services the sender, and for how long nobody does.
2. `PtpPeers`: the shared peer table.

Not modelled, and not planned: decoders and resampler (numeric transformation of
one thread's data around third-party codecs), the MP4 demuxer (a parser without
shared state), the filters of the PTP clock, the fxchain sender and the mDNS library
(external), TLS configuration, option parsing, logging, telemetry, statistics and the
debug sink.
