----------------------------- MODULE Receivers ------------------------------
(* How a receiver on the network becomes a player in LMS: the mDNS browser   *)
(* and its questions, the registry that merges the two records of a device, *)
(* and the session manager, from the static players of the start to the     *)
(* teardown.                                                                *)
(*                                                                          *)
(* A callback of the mDNS library runs on the browser's loop thread, and the *)
(* registry and the session manager are called from it: one callback is one *)
(* step.  The library, the network and the receivers are external.          *)
EXTENDS PlayerSections, SequencesExt

CONSTANTS
    Services,       \* what receivers can announce (see ServiceOK)
    Addresses,      \* the addresses a receiver can have
    Authored,       \* the sections the user wrote
    Pinned,         \* the names of those with a target
    Disabled,       \* the names of those with enabled = off
    AutoRegister,   \* the settings auto-register and discovery
    Discovery,
    MaxPowers,      \* bound: how often a receiver is switched on or off
    MaxFailures     \* bound: how many questions the library refuses

\* A service: its receiver and type, keyFor() of its instance, its friendly
\* name, and of its TXT record the device id ("" for none) and whether the
\* features have an AirPlay 2 bit.  port: the SRV record has one.
ServiceOK(s) ==
    /\ s.type \in {"raop", "airplay"}
    /\ {s.receiver, s.head, s.name, s.deviceid} \subseteq STRING
    /\ s.ap2 \in BOOLEAN /\ s.port \in BOOLEAN

ASSUME ServicesAssumption == \A s \in Services : ServiceOK(s)

ASSUME BoundsAssumption == MaxPowers \in Nat /\ MaxFailures \in Nat

\* The user wrote no virtual MAC into two sections, and bound none that is
\* named by a device id to another.
ASSUME AuthoredAssumption ==
    /\ Sections(Authored) /\ Unrepeated(Authored)
    /\ \A i \in 1 .. Len(Authored) :
        /\ Authored[i].name # ""
        /\ Authored[i].name \in HexIds => Authored[i].id \in {"", Authored[i].name}

\* The key of a service's device: the device id of an AirPlay record, where
\* there is one, merges it with the RAOP record.
DeviceKey(s) == IF s.type = "airplay" /\ s.deviceid # "" THEN s.deviceid ELSE s.head
DeviceOf(s) == [id |-> DeviceKey(s), name |-> s.name]

\* The keys the records of a service may get in the registry: an AirPlay one
\* that came without its TXT record has keyFor() of its instance.
KeysOf(s) == {s.head, DeviceKey(s)}

Announced == { s.name : s \in Services }
Written == { Authored[i].name : i \in DOMAIN Authored }

\* The records of a receiver have one name.  It is not the device id of
\* another receiver, and no section is called like an instance that is neither
\* a device id nor that name.
NamedOK(s) ==
    /\ s.name # "" /\ "" \notin KeysOf(s)
    /\ s.name \in HexIds => KeysOf(s) = {s.name}
    /\ \A k \in KeysOf(s) : k \in HexIds \/ k = s.name \/ k \notin Written \cup Announced

ASSUME NamesAssumption ==
    /\ \A s \in Services : NamedOK(s)
    /\ \A s, t \in Services : KeysOf(s) \cap KeysOf(t) # {} => s.name = t.name

\* Nothing a section can be created under hashes like the device id of another
\* receiver: resolve() takes a section with the MAC of an id to be its own.
ASSUME HashAssumption ==
    \A s, t \in Services : \A k \in KeysOf(s) \cap HexIds, x \in KeysOf(t) \cup {t.name} :
        x # k => HashOf[x] # HashOf[k]

\* Receivers can be told apart: no two services of a type have a key in common,
\* and no two devices a name.  An address is not empty.
ASSUME ReceiversAssumption ==
    /\ \A s, t \in Services : s.type = t.type /\ KeysOf(s) \cap KeysOf(t) # {} => s = t
    /\ \A s, t \in Services : s.name = t.name => DeviceKey(s) = DeviceKey(t)
    /\ "" \notin Addresses

\* The ways in which resolve() and ensureSection() take a section for a device.
Claims(sec, dev) ==
    \/ sec.id = dev.id \/ sec.name \in {dev.id, dev.name}
    \/ dev.id \in HexIds /\ sec.mac = fakeMacFor(dev.id)

\* No section is claimed by two receivers, no two sections have one key, and
\* none is bound to what is the name, but not the id, of a receiver.
Unshared(secs) ==
    /\ \A i \in DOMAIN secs, s, t \in Services :
        Claims(secs[i], DeviceOf(s)) /\ Claims(secs[i], DeviceOf(t))
            => DeviceKey(s) = DeviceKey(t)
    /\ \A i, j \in DOMAIN secs : i # j => KeyOf(secs[i]) # KeyOf(secs[j])
    /\ \A i \in DOMAIN secs, s \in Services : secs[i].id = s.name => DeviceKey(s) = s.name

\* So it is with the sections the user wrote, once they have MACs.
ASSUME UnsharedAssumption == Unshared(AssignAll(Authored))

Receivers == { s.receiver : s \in Services }

VARIABLES
    up,         \* external: the services being announced
    addr,       \* external: each receiver's address
    powers, failures,
    browsing,   \* the library has the two browse questions
    asked,      \* the library's other questions: pairs of service and type
    reported,   \* the services the library has reported as added
    resolvers,  \* Impl::resolvers: the trackers, by service
    loop,       \* the loop thread: "none", "run", "ended"
    posted,     \* a teardown is in cmdQueue
    main,       \* runBridge(): "statics", "start", "run", "joining", "done"
    starting,   \* the static players it has not started yet
    devices,    \* DeviceRegistry::devices_
    sections,   \* Persistence::sections_
    sessions    \* SessionManager::sessions_

network  == << up, addr, powers >>
browser  == << browsing, asked, reported, resolvers, failures >>
control  == << loop, posted, main, starting >>
manager  == << sections, sessions >>
vars == << network, browser, control, devices, manager >>

NoMap == [k \in {} |-> 0]
With(map, key, val) == [k \in DOMAIN map \cup {key} |-> IF k = key THEN val ELSE map[k]]
Without(map, key) == [k \in DOMAIN map \ {key} |-> map[k]]

-----------------------------------------------------------------------------
(* DeviceRegistry.  A record is published with a port only, so a port is    *)
(* there exactly while the service counts as seen.                          *)

Unseen == [name |-> "", host |-> "", raop |-> FALSE, airplay |-> FALSE, ap2 |-> FALSE]

Known(devs, key) == IF key \in DOMAIN devs THEN devs[key] ELSE Unseen

\* onRaopAdded(), onAirplayAdded(): the key of a record.
KeyOfRecord(s, txt) == IF txt THEN DeviceKey(s) ELSE s.head

\* onRaopAdded(), onAirplayAdded(): what they make of the device.
WithRecord(dev, s, host, txt) ==
    IF s.type = "raop"
    THEN [dev EXCEPT !.name = s.name, !.host = host, !.raop = TRUE]
    ELSE [dev EXCEPT !.name = IF @ = "" THEN s.name ELSE @, !.host = host,
                     !.airplay = TRUE, !.ap2 = IF txt THEN s.ap2 ELSE @]

\* markGone(), and what is left of the device.
WithoutRecord(dev, type) ==
    IF type = "raop" THEN [dev EXCEPT !.raop = FALSE] ELSE [dev EXCEPT !.airplay = FALSE]
Left(dev) == dev.raop \/ dev.airplay

useAirplay2(dev) == dev.airplay /\ dev.ap2
preferredPort(dev) ==
    IF useAirplay2(dev) \/ ~dev.raop THEN "airplay" ELSE "raop"

-----------------------------------------------------------------------------
(* SessionManager::onRegistryEvent().                                       *)

NoTarget == [host |-> "", port |-> "", ap2 |-> FALSE]

\* makeTarget(); a device of a static player has neither host nor port.
TargetOf(dev) ==
    IF Left(dev)
    THEN [host |-> dev.host, port |-> preferredPort(dev), ap2 |-> useAirplay2(dev)]
    ELSE NoTarget
PinnedTarget == [host |-> "pinned", port |-> "pinned", ap2 |-> FALSE]

\* A player session: its MAC, the target of its output, whether audio is in
\* flight, and (history) whether a new target came during that and was lost.
Session(sec, dev) ==
    [mac |-> sec.mac, playing |-> FALSE, missed |-> FALSE,
     target |-> IF sec.name \in Pinned THEN PinnedTarget ELSE TargetOf(dev)]

\* AirplayOutput::updateTarget(): audio in flight keeps its setup.
Retargeted(session, target) ==
    IF session.playing
    THEN [session EXCEPT !.missed = @ \/ session.target # target]
    ELSE [session EXCEPT !.target = target, !.missed = FALSE]

\* Mutant: the session is kept under the name that is shown.
Started_ByName(players, sec, dev) ==
    IF sec.name \in Disabled \/ KeyOf(sec) \in DOMAIN players
    THEN players
    ELSE With(players, sec.shown, Session(sec, dev))

\* A session for the section, unless it is disabled or there is one.
Started(players, sec, dev) ==
    IF sec.name \in Disabled \/ KeyOf(sec) \in DOMAIN players
    THEN players
    ELSE With(players, KeyOf(sec), Session(sec, dev))

\* Mutant: a change of the transport is left for the next session.
Updated_KeepsTransport(players, sec, dev) ==
    IF \/ KeyOf(sec) \notin DOMAIN players
       \/ sec.name \in Pinned
       \/ TargetOf(dev) = NoTarget
       \/ players[KeyOf(sec)].target.ap2 # useAirplay2(dev)
    THEN players
    ELSE [players EXCEPT ![KeyOf(sec)] = Retargeted(@, TargetOf(dev))]

\* An update of a session: a change of the transport rebuilds it.
Updated(players, sec, dev) ==
    IF \/ KeyOf(sec) \notin DOMAIN players
       \/ sec.name \in Pinned
       \/ TargetOf(dev) = NoTarget
    THEN players
    ELSE IF players[KeyOf(sec)].target.ap2 = useAirplay2(dev)
    THEN [players EXCEPT ![KeyOf(sec)] = Retargeted(@, TargetOf(dev))]
    ELSE Started(Without(players, KeyOf(sec)), sec, dev)

OnRegistryEvent(ev, key, dev) ==
    LET who   == [id |-> key, name |-> dev.name]
        auto  == ev = "Added" /\ AutoRegister
        at    == ResolvedAt(sections, who, auto)
        secs  == resolve(sections, who, auto)
    IN  /\ sections' = secs
        /\ sessions' = CASE at = 0         -> sessions
                         [] at # 0 /\ ev = "Removed" -> Without(sessions, KeyOf(secs[at]))
                         [] at # 0 /\ ev = "Updated" -> Updated(sessions, secs[at], dev)
                         [] at # 0 /\ ev = "Added"   -> Started(sessions, secs[at], dev)

-----------------------------------------------------------------------------
(* The records the browser hands to the registry.                           *)

RecordAdded(s, t) ==
    LET key == KeyOfRecord(s, t.txt)
        dev == WithRecord(Known(devices, key), s, t.address, t.txt)
    IN  /\ devices' = With(devices, key, dev)
        /\ OnRegistryEvent(IF key \in DOMAIN devices THEN "Updated" ELSE "Added", key, dev)

\* onRaopGone(), onAirplayGone(): the record is looked up by its instance.
RecordGone(s) ==
    IF s.head \notin DOMAIN devices
    THEN UNCHANGED << devices, manager >>
    ELSE LET dev == WithoutRecord(devices[s.head], s.type)
         IN  /\ devices' = IF Left(dev) THEN With(devices, s.head, dev)
                           ELSE Without(devices, s.head)
             /\ OnRegistryEvent(IF Left(dev) THEN "Updated" ELSE "Removed", s.head, dev)

-----------------------------------------------------------------------------
(* The browser: callbacks on the loop thread.                               *)

\* A tracker: its active questions and what it has learnt; host: the SRV
\* record named one.
Tracker(active) ==
    [active |-> active, port |-> FALSE, host |-> FALSE, address |-> "", txt |-> FALSE]

\* The library calls back, until the teardown that stop() posted has run.
Looping == loop = "run" /\ browsing

\* The library's view: questions of a service it has.
Questions(s) == { q \in asked : q[1] = s }

\* browseQuestionCb(), an add: startResolveForInstance().  A tracker that is
\* there is left alone, one whose SRV question is refused is erased, and the
\* TXT question is optional.
BrowseAdd(s) ==
    /\ Looping /\ s \in up \ reported
    /\ reported' = reported \cup {s}
    /\ \E active \in { {"SRV", "TXT"}, {"SRV"}, {} } :
        /\ failures + (IF active = {"SRV", "TXT"} THEN 0 ELSE 1) <= MaxFailures
        /\ failures' = failures + (IF active = {"SRV", "TXT"} THEN 0 ELSE 1)
        /\ IF s \in DOMAIN resolvers \/ active = {}
           THEN UNCHANGED << resolvers, asked >>
           ELSE /\ resolvers' = With(resolvers, s, Tracker(active))
                /\ asked' = asked \cup ({s} \X active)
    /\ UNCHANGED << network, browsing, control, devices, manager >>

\* Mutant: the address question is forgotten.
StopResolve_LeavesAddress(s) ==
    /\ resolvers' = Without(resolvers, s)
    /\ asked' = asked \ { << s, "SRV" >>, << s, "TXT" >> }

\* Mutant: the tracker is stopped but stays.
StopResolve_KeepsTracker(s) ==
    /\ resolvers' = [t \in DOMAIN resolvers |->
                        IF t = s THEN [resolvers[t] EXCEPT !.active = {}] ELSE resolvers[t]]
    /\ asked' = asked \ Questions(s)

\* stopResolveForInstance(): every question of the tracker is stopped before
\* the tracker is erased.
StopResolve(s) ==
    /\ resolvers' = Without(resolvers, s)
    /\ asked' = asked \ Questions(s)

\* browseQuestionCb(), a removal, which is passed on whether or not the record
\* was ever published.
BrowseRemove(s) ==
    /\ Looping /\ s \in reported \ up
    /\ reported' = reported \ {s}
    /\ StopResolve(s)
    /\ RecordGone(s)
    /\ UNCHANGED << network, browsing, failures, control >>

\* publishResolved(): a record without a port or an address goes nowhere.
Publish(s, t) ==
    IF t.port /\ t.address # "" THEN RecordAdded(s, t) ELSE UNCHANGED << devices, manager >>

\* The end of resolveQuestionCb(): once no question is active the address is
\* asked for, or the record is published.
Proceed(s, t) ==
    LET done  == t.active = {}
        again == done /\ t.port /\ t.host /\ t.address = ""
    IN  \/ /\ again
           /\ resolvers' = [resolvers EXCEPT ![s] = [t EXCEPT !.active = {"A"}]]
           /\ asked' = (asked \ Questions(s)) \cup { << s, "A" >> }
           /\ UNCHANGED << failures, devices, manager >>
        \/ /\ ~again \/ failures < MaxFailures
           /\ failures' = IF again THEN failures + 1 ELSE failures
           /\ resolvers' = [resolvers EXCEPT ![s] = t]
           /\ asked' = (asked \ Questions(s)) \cup ({s} \X t.active)
           /\ IF done THEN Publish(s, t) ELSE UNCHANGED << devices, manager >>

\* resolveQuestionCb(): the receiver answers a question.
Answer(s, question) ==
    /\ Looping /\ s \in up /\ << s, question >> \in asked
    /\ LET t == [resolvers[s] EXCEPT !.active = @ \ {question}]
       IN  Proceed(s, CASE question = "SRV" -> [t EXCEPT !.port = s.port, !.host = TRUE]
                        [] question = "TXT" -> [t EXCEPT !.txt = TRUE]
                        [] question = "A"   -> [t EXCEPT !.address = addr[s.receiver]])
    /\ UNCHANGED << network, browsing, reported, control >>

-----------------------------------------------------------------------------
(* runBridge() and the browser's start and stop.                            *)

\* The user's players are started first, without a host or a port.
StartStatic ==
    /\ main = "statics"
    /\ IF starting = << >>
       THEN /\ main' = "start"
            /\ UNCHANGED << starting, manager >>
       ELSE /\ starting' = Tail(starting)
            /\ OnRegistryEvent("Added", Head(starting).id,
                               [Unseen EXCEPT !.name = Head(starting).name])
            /\ UNCHANGED main
    /\ UNCHANGED << network, browser, loop, posted, devices >>

\* start(); a failure takes back the browse questions and the bridge goes on
\* without discovery.
StartBrowser(ok) ==
    /\ main = "start"
    /\ main' = "run"
    /\ ok => Discovery
    /\ browsing' = ok
    /\ loop' = IF ok THEN "run" ELSE "none"
    /\ UNCHANGED << network, asked, reported, resolvers, failures, posted, starting,
                    devices, manager >>

\* A signal: stop() posts the teardown to the loop thread and joins it.
Stop ==
    /\ main = "run"
    /\ main' = "joining"
    /\ posted' = (loop = "run")
    /\ UNCHANGED << network, browser, loop, starting, devices, manager >>

\* Mutant: the teardown does not stop its loop.
Teardown_KeepsLooping ==
    /\ loop = "run" /\ posted
    /\ browsing' = FALSE
    /\ asked' = {} /\ resolvers' = NoMap
    /\ posted' = FALSE
    /\ UNCHANGED << network, reported, failures, loop, main, starting, devices, manager >>

\* teardown(), from runCommands().
Teardown ==
    /\ loop = "run" /\ posted
    /\ browsing' = FALSE
    /\ asked' = {} /\ resolvers' = NoMap
    /\ loop' = "ended" /\ posted' = FALSE
    /\ UNCHANGED << network, reported, failures, main, starting, devices, manager >>

\* The join returns; runBridge() returns and takes the sessions with it.
Joined ==
    /\ main = "joining" /\ loop # "run"
    /\ main' = "done"
    /\ sessions' = NoMap
    /\ UNCHANGED << network, browser, loop, posted, starting, devices, sections >>

-----------------------------------------------------------------------------
(* LMS and the receivers.                                                   *)

\* A track starts or ends on a session that has a target.
Play(key) ==
    /\ sessions[key].target # NoTarget
    /\ sessions' = [sessions EXCEPT ![key].playing = ~@]
    /\ UNCHANGED << network, browser, control, devices, sections >>

\* A service appears or disappears; a receiver that has none gets a new
\* address.
Power(s, a) ==
    /\ powers < MaxPowers /\ powers' = powers + 1
    /\ up' = IF s \in up THEN up \ {s} ELSE up \cup {s}
    /\ a # addr[s.receiver] => \A other \in up : other.receiver # s.receiver
    /\ addr' = [addr EXCEPT ![s.receiver] = a]
    /\ UNCHANGED << browser, control, devices, manager >>

-----------------------------------------------------------------------------
\* The sections that are not disabled.
Enabled(secs) ==
    FlattenSeq([i \in DOMAIN secs |->
                   IF secs[i].name \in Disabled THEN << >> ELSE << secs[i] >>])

Init ==
    /\ up = {} /\ addr \in { [r \in Receivers |-> a] : a \in Addresses }
    /\ powers = 0 /\ failures = 0
    /\ browsing = FALSE /\ asked = {} /\ reported = {} /\ resolvers = NoMap
    /\ loop = "none" /\ posted = FALSE
    /\ main = "statics"
    /\ sections = AssignAll(Authored)
    /\ starting = staticPlayers(Enabled(sections))
    /\ devices = NoMap /\ sessions = NoMap

Callback(s) ==
    \/ BrowseAdd(s) \/ BrowseRemove(s)
    \/ \E question \in {"SRV", "TXT", "A"} : Answer(s, question)

Main == StartStatic \/ (\E ok \in BOOLEAN : StartBrowser(ok)) \/ Stop \/ Joined

Next ==
    \/ \E s \in Services : Callback(s)
    \/ Main \/ Teardown
    \/ \E key \in DOMAIN sessions : Play(key)
    \/ \E s \in Services, a \in Addresses : Power(s, a)

\* Both threads are scheduled; select() wakes for what is posted.
Fairness == WF_vars(Joined) /\ WF_vars(Teardown)

Spec == Init /\ [][Next]_vars /\ Fairness

-----------------------------------------------------------------------------
(* Properties.                                                              *)

\* Every variable has its type; a player session belongs to a section.
TypeOK ==
    /\ up \subseteq Services /\ reported \subseteq Services
    /\ addr \in [Receivers -> Addresses]
    /\ powers \in 0 .. MaxPowers /\ failures \in 0 .. MaxFailures
    /\ browsing \in BOOLEAN /\ posted \in BOOLEAN
    /\ loop \in {"none", "run", "ended"}
    /\ main \in {"statics", "start", "run", "joining", "done"}
    /\ DOMAIN resolvers \subseteq Services
    /\ \A key \in DOMAIN sessions :
        \E i \in DOMAIN sections : KeyOf(sections[i]) = key

\* A question of the library points at its tracker (QuestionContext): none is
\* left when the tracker is erased or the browser torn down, and a tracker
\* knows which of its questions are active.
NoDanglingQuestion ==
    /\ asked = UNION { {s} \X resolvers[s].active : s \in DOMAIN resolvers }
    /\ asked # {} => browsing /\ loop = "run"

\* No two players have the same virtual MAC, by which LMS tells them apart: not
\* those that were written, nor those created in whichever order receivers
\* appear.  256 tries are enough for as many sections.
MacsDistinct ==
    Len(sections) <= 256
        => \A i, j \in DOMAIN sections : i # j => sections[i].mac # sections[j].mac

\* The devices that belong to the player of a key.
DevicesOf(player) ==
    { key \in DOMAIN devices :
        LET at == Match(sections, [id |-> key, name |-> devices[key].name])
        IN  at # 0 /\ KeyOf(sections[at]) = player }

Pins == { KeyOf(sections[i]) : i \in { j \in DOMAIN sections : sections[j].name \in Pinned } }

\* A session that follows the registry has no target, or the present one of a
\* device of its own: the address, port and transport of its two records as
\* they are now, except that audio in flight keeps its setup.  So it ends with
\* its device, and a change of transport rebuilds it.
TargetsCurrent ==
    \A player \in DOMAIN sessions \ Pins :
        \/ sessions[player].target = NoTarget
        \/ \E key \in DevicesOf(player) :
                sessions[player].missed \/ sessions[player].target = TargetOf(devices[key])

\* A static player without a target "waits for a target" (bridge.cpp:62-64):
\* once its receiver is known it has one.
StaticGetsTarget ==
    \A player \in DOMAIN sessions :
        DevicesOf(player) # {} => sessions[player].target # NoTarget

\* The device has a section, and a session unless the section is disabled.
HasPlayer(dev) ==
    \E i \in DOMAIN sections :
        /\ i = Match(sections, dev)
        /\ sections[i].name \in Disabled \/ KeyOf(sections[i]) \in DOMAIN sessions

\* A receiver on the network gets its player, whatever was there before and in
\* whichever order its records, their answers and the removals of earlier
\* ones come: when the library has reported every change and no question is
\* left, each service that is there has one.
SettledIsServed ==
    (Looping /\ reported = up /\ asked = {} /\ failures = 0 /\ AutoRegister)
        => \A s \in up : s.port => HasPlayer(DeviceOf(s))

\* stop() returns: the posted teardown is run and ends the loop thread.
StopReturns == (main = "joining") ~> (main = "done")

=============================================================================
