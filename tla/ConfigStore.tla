---------------------------- MODULE ConfigStore -----------------------------
(* Persistence: the combined config and state file, its parser, the image a *)
(* save writes, and the temporary file and rename that replace it, with a   *)
(* crash of the program or of the host between any two of those steps.      *)
(*                                                                          *)
(* A line of the file is a record: its kind, its key, its value, whether    *)
(* the key takes that value, and `by`: "user" for a line the program        *)
(* promises to keep, "program" for one it manages or wrote itself.          *)
(* Spelling, quoting and white space are left out and so are the settings   *)
(* whose value nothing here depends on.                                     *)
EXTENDS PlayerSections

CONSTANTS
    Devices,    \* what discovery can announce: records with id and name
    Creds,      \* pairing credentials
    Names,      \* names a player can be given from LMS
    Files,      \* the files a first start may find: sequences of lines
    MaxOlder    \* bound: an operation starts with no more replaced files than
                \* this that are not written back yet

VARIABLES
    sections,   \* sections_, under mutex_
    lines,      \* lines_: each line with the section it was read in
    dirty,      \* dirty_
    disk,       \* the file at path_
    tmp,        \* the file at path_ + ".tmp"
    older,      \* what a host crash may leave at path_ instead of disk
    proc,       \* "down", "template", "up", "refused"
    starting,   \* the static players runBridge() has not started yet
    saver,      \* how far saveLocked() is, and whether flushIfDirty called it
    opened,     \* a program has run on a file that is on the disk: history
    failed      \* and since then a save could not sync its file: history

vars == << sections, lines, dirty, disk, tmp, older, proc, starting, saver,
           opened, failed >>

-----------------------------------------------------------------------------
(* Lines and files.                                                         *)

Line(kind, key, val, by) ==
    [kind |-> kind, key |-> key, val |-> val, taken |-> TRUE, by |-> by]

Header(name, by) == Line("header", "", name, by)

\* A key with a value its setter rejects.
BadLine(key, by) == [Line("key", key, "", by) EXCEPT !.taken = FALSE]

LineOK(l) == l.kind \in {"header", "unknown", "key", "text", "torn"}

\* A sequence, of whatever.
Listed(s) == Len(s) \in Nat /\ s = [i \in 1 .. Len(s) |-> s[i]]

\* A file is a sequence of lines.
ASSUME FilesAssumption ==
    \A file \in Files : Listed(file) /\ \A i \in 1 .. Len(file) : LineOK(file[i])

Missing == [there |-> FALSE, text |-> << >>]
File(text) == [there |-> TRUE, text |-> text]

\* What a host crash leaves of a file whose contents are not on the disk:
\* nothing readable.
Torn == File(<< Line("torn", "", "", "program") >>)

\* writeTemplate(), and what a crash in the middle of it may leave.
Template ==
    << Header("global", "program"), Line("key", "discovery", "ok", "program"),
       Header("default", "program"), Line("key", "protocol", "ok", "program") >>
Partial == { << >>, << Header("default", "program"), BadLine("protocol", "program") >> }

ASSUME BoundAssumption == MaxOlder \in Nat

-----------------------------------------------------------------------------
(* parse(): what its loop has made of the lines it has read.                *)

Reserved == {"global", "default"}
Outside == Line("none", "", "", "program")

\* secs and lines are sections_ and lines_; under is the header of the current
\* section, and at the position of currentSection, 0 when it is null; name is
\* currentName, which an unknown header leaves as it is.
Begin == [secs |-> << >>, at |-> 0, under |-> Outside, name |-> "",
          lines |-> << >>, ok |-> TRUE]

\* Where that section is.
HeaderAt(secs, name) ==
    LET i == findSection(secs, name) IN IF i = 0 THEN Len(secs) + 1 ELSE i

\* The section a header opens: the reserved names win over a player's.
WithHeader(secs, name) ==
    [ensureSection(secs, name, name, FALSE) EXCEPT ![HeaderAt(secs, name)].shown = name]

\* parsePlayerKey() on a section.
WithKey(sec, l) ==
    CASE l.key = "id"    -> [sec EXCEPT !.id = l.val]
      [] l.key = "mac"   -> [sec EXCEPT !.mac = l.val]
      [] l.key = "name"  -> [sec EXCEPT !.shown = l.val, !.renamed = TRUE]
      [] l.key = "creds" -> [sec EXCEPT !.creds = l.val]
      [] l.key = "auto"  -> [sec EXCEPT !.auto = TRUE]
      [] OTHER           -> sec

\* A key that is read for its value: one outside the known sections is not,
\* nor is one in [default] that only a player can have.
Heeded(under, l) ==
    /\ l.kind = "key" /\ under.kind = "header"
    /\ ~ (under.val = "default" /\ l.key \in {"id", "mac", "name", "target", "creds"})

\* One turn of the loop.  A bad value ends it, and the file is refused.
ReadLine(r, l) ==
    LET player == l.kind = "header" /\ l.val \notin Reserved
        under  == IF l.kind \in {"header", "unknown"} THEN l ELSE r.under
        name   == IF l.kind = "header" THEN l.val ELSE r.name
        secs   == IF player THEN WithHeader(r.secs, l.val)
                  ELSE IF l.kind = "key" /\ r.at # 0
                  THEN [r.secs EXCEPT ![r.at] = WithKey(@, l)]
                  ELSE r.secs
    IN  [secs  |-> secs,
         at    |-> IF player THEN HeaderAt(r.secs, l.val)
                   ELSE IF l.kind \in {"header", "unknown"} THEN 0 ELSE r.at,
         under |-> under,
         name  |-> name,
         lines |-> Append(r.lines,
                       [raw |-> l,
                        section |-> IF l.kind \in {"header", "key"} THEN name ELSE ""]),
         ok    |-> r.ok /\ l.kind # "torn" /\ (Heeded(r.under, l) => l.taken)]

\* Reading(r, text)[n]: what the first n lines make of r.
Reading(r, text) ==
    LET upTo[n \in 0 .. Len(text)] ==
            IF n = 0 THEN r
            ELSE CHOOSE next \in { ReadLine(prev, text[n]) : prev \in {upTo[n - 1]} } : TRUE
    IN  upTo

Parsed(text) == Reading(Begin, text)[Len(text)]

SectionsIn(text) == Parsed(text).secs
LinesOf(text) == Parsed(text).lines
ParseOK(text) == Parsed(text).ok

-----------------------------------------------------------------------------
(* saveLocked(): what it writes.                                            *)

Managed == {"mac", "creds", "name"}

HasValue(sec, key) ==
    CASE key = "id"    -> sec.id # ""
      [] key = "mac"   -> sec.mac # NoMac
      [] key = "creds" -> sec.creds # NoCreds
      [] key = "name"  -> sec.renamed
      [] key = "auto"  -> sec.auto

ValueOf(sec) == [id |-> sec.id, mac |-> sec.mac, creds |-> sec.creds,
                 name |-> sec.shown, auto |-> "ok"]

\* The line of a key, for one that has a value.
Entry(sec, key) ==
    IF HasValue(sec, key)
    THEN << Line("key", key, ValueOf(sec)[key], "program") >>
    ELSE << >>

\* sectionByName(): exact, unlike findSection().
sectionByName(secs, name) ==
    FirstOf({ i \in DOMAIN secs : secs[i].name = name })

\* Mutant: a key counts as present when any section has a line for it.
HasLine_Anywhere(lns, key, name) ==
    \E i \in DOMAIN lns : lns[i].raw.kind = "key" /\ lns[i].raw.key = key

HasLine(lns, key, name) ==
    \E i \in DOMAIN lns : /\ lns[i].raw.kind = "key"
                          /\ lns[i].raw.key = key
                          /\ lns[i].section = name

\* What follows a header: the keys its section has no line for.
Lacking(lns, sec) ==
    LET Absent(key) == IF HasLine(lns, key, sec.name) THEN << >> ELSE Entry(sec, key)
    IN  Absent("mac") \o Absent("creds") \o Absent("name") \o Absent("auto")

\* Mutant: a managed key outside the players' sections is dropped.
Rewritten_DropsForeign(lns, secs, l) ==
    LET at == sectionByName(secs, l.section)
    IN  CASE l.raw.kind = "key" /\ l.raw.key \in Managed ->
                IF at = 0 THEN << >> ELSE Entry(secs[at], l.raw.key)
          [] l.raw.kind = "header" /\ at # 0 -> << l.raw >> \o Lacking(lns, secs[at])
          [] OTHER -> << l.raw >>

\* What becomes of one line that was read: a managed key of a player gets its
\* present value or goes, and every other line is copied.
Rewritten(lns, secs, l) ==
    LET at == sectionByName(secs, l.section)
    IN  CASE l.raw.kind = "key" /\ l.raw.key \in Managed /\ at # 0 ->
                Entry(secs[at], l.raw.key)
          [] l.raw.kind = "header" /\ at # 0 -> << l.raw >> \o Lacking(lns, secs[at])
          [] OTHER -> << l.raw >>

\* A section without a header among the lines that were read.
Appended(lns, sec) ==
    IF \E i \in DOMAIN lns : lns[i].raw.kind = "header" /\ lns[i].section = sec.name
    THEN << >>
    ELSE << Header(sec.name, "program") >> \o Entry(sec, "id") \o Entry(sec, "mac")
             \o Entry(sec, "creds") \o Entry(sec, "name") \o Entry(sec, "auto")

Image(lns, secs) ==
    FlattenSeq([i \in DOMAIN lns |-> Rewritten(lns, secs, lns[i])])
        \o FlattenSeq([i \in DOMAIN secs |-> Appended(lns, secs[i])])

-----------------------------------------------------------------------------
(* What a user is expected to write, and receivers to be called.            *)

Unnamed == Reserved \cup {""}

\* Each section has a name of its own and an id no other has; a section that
\* is named by a device id is bound to it.
WellFormed(secs) ==
    /\ \A i \in 1 .. Len(secs) :
        /\ secs[i].name \notin Unnamed
        /\ secs[i].id \in HexIds \cup {""}
        /\ secs[i].name \in HexIds => secs[i].id = secs[i].name
        /\ secs[i].renamed \in BOOLEAN /\ secs[i].auto \in BOOLEAN
    /\ \A i, j \in 1 .. Len(secs) :
        i # j => /\ secs[i].name # secs[j].name
                 /\ secs[i].id # "" => secs[i].id # secs[j].id

\* A line where it belongs: no section has two headers, the keys a save looks
\* for are in sections, and among them the lines of the user are not a
\* player's.
Fits(r, l) ==
    /\ l.kind = "header" =>
        /\ l.val # ""
        /\ l.val \notin Reserved => findSection(r.secs, l.val) = 0
    /\ l.kind = "key" /\ l.key \in Managed \cup {"auto"} =>
        \/ r.at # 0 /\ ~ (l.by = "user" /\ l.key \in Managed)
        \/ r.name \in Unnamed

Tidy(text) == \A i \in 1 .. Len(text) : Fits(Reading(Begin, text)[i - 1], text[i])

ASSUME TidyAssumption ==
    \A file \in Files : ParseOK(file) =>
        Tidy(file) /\ WellFormed(SectionsIn(file)) /\ Unrepeated(SectionsIn(file))

\* No receiver is called like one of the other sections of the file, and none
\* by the device id of another.
ASSUME DevicesAssumption ==
    /\ "" \notin HexIds /\ HexIds \cap Reserved = {}
    /\ \A dev \in Devices : /\ dev.id \notin Unnamed /\ dev.name \notin Reserved
                            /\ dev.name \in HexIds => dev.name = dev.id

-----------------------------------------------------------------------------
(* open().                                                                  *)

Idle == [step |-> "idle", flush |-> FALSE]

\* writeTemplate(): in place, neither through a temporary file nor synced.
WriteTemplate(part) ==
    /\ proc = "down" /\ ~disk.there
    /\ disk' = File(part)
    /\ older' = older \cup {disk, Torn}
    /\ proc' = "template"
    /\ UNCHANGED << sections, lines, dirty, tmp, starting, saver, opened, failed >>

EndTemplate ==
    /\ proc = "template"
    /\ disk' = File(Template)
    /\ older' = older \cup {disk}
    /\ proc' = "down"
    /\ UNCHANGED << sections, lines, dirty, tmp, starting, saver, opened, failed >>

\* The directory cannot be written: there is nothing to read either.
OpenFails ==
    /\ proc = "down" /\ ~disk.there
    /\ proc' = "refused"
    /\ UNCHANGED << sections, lines, dirty, disk, tmp, older, starting, saver, opened, failed >>

\* The file is read.  A bad one ends the program; otherwise the MACs that
\* were missing are saved at once.
Load ==
    /\ proc = "down" /\ disk.there
    /\ LET read  == SectionsIn(disk.text)
           added == \E i \in DOMAIN read : read[i].mac = NoMac
       IN  IF ParseOK(disk.text)
           THEN /\ sections' = AssignAll(read)
                /\ lines' = LinesOf(disk.text)
                /\ dirty' = added
                /\ saver' = IF added THEN [step |-> "write", flush |-> TRUE] ELSE Idle
                /\ proc' = "up"
                /\ starting' = staticPlayers(AssignAll(read))
                /\ opened' = (opened \/ older = {})
           ELSE /\ proc' = "refused"
                /\ UNCHANGED << sections, lines, dirty, starting, saver, opened >>
    /\ UNCHANGED << disk, tmp, older, failed >>

-----------------------------------------------------------------------------
(* The operations.  mutex_ is held over the change and its save: none       *)
(* starts while a save is under way.                                        *)

\* MaxOlder bounds what waits to be written back, not the program.
Free == proc = "up" /\ saver = Idle /\ Cardinality(older) <= MaxOlder

\* resolve() and flushIfDirtyLocked().  Only a MAC that was assigned makes
\* the file dirty.
Resolve(dev, autoRegister) ==
    /\ Free
    /\ LET secs == resolve(sections, dev, autoRegister)
           macs == { secs[i].mac : i \in DOMAIN secs }
           assigned == dirty \/ macs # { sections[i].mac : i \in DOMAIN sections }
       IN  /\ sections' = secs
           /\ dirty' = assigned
           /\ saver' = IF assigned THEN [step |-> "write", flush |-> TRUE] ELSE Idle
    /\ UNCHANGED << lines, disk, tmp, older, proc, opened, failed >>

\* runBridge() starts the players the user wrote, before discovery.
StartStatic(autoRegister) ==
    /\ starting # << >>
    /\ Resolve(Head(starting), autoRegister)
    /\ starting' = Tail(starting)

\* A device that discovery announces, or that it reports gone.
Discover(dev, autoRegister) ==
    /\ starting = << >>
    /\ Resolve(dev, autoRegister)
    /\ UNCHANGED starting

\* saveCreds(), from a player's sender thread.
SaveCreds(key, creds) ==
    /\ Free
    /\ sections' = WithCreds(sections, key, creds)
    /\ saver' = [step |-> "write", flush |-> FALSE]
    /\ UNCHANGED << lines, dirty, disk, tmp, older, proc, starting, opened, failed >>

\* savePlayerName(), from a player's slimproto thread.
SavePlayerName(key, name) ==
    /\ Free
    /\ sections # WithName(sections, key, name)
    /\ sections' = WithName(sections, key, name)
    /\ saver' = [step |-> "write", flush |-> FALSE]
    /\ UNCHANGED << lines, dirty, disk, tmp, older, proc, starting, opened, failed >>

-----------------------------------------------------------------------------
(* saveLocked() step by step, and the end of flushIfDirtyLocked().          *)

\* The save is over, done or not; flushIfDirtyLocked() forgets either way.
Return == /\ saver' = Idle
          /\ dirty' = (dirty /\ ~saver.flush)

\* The temporary file is opened, which empties it, and written.
WriteTmp ==
    /\ saver.step = "write"
    /\ tmp' = File(Image(lines, sections))
    /\ saver' = [saver EXCEPT !.step = "sync"]
    /\ UNCHANGED << sections, lines, dirty, disk, older, proc, starting, opened, failed >>

\* It cannot be opened, or writing it fails.
WriteFails ==
    /\ saver.step = "write"
    /\ Return
    /\ UNCHANGED << sections, lines, disk, tmp, older, proc, starting, opened, failed >>

\* Mutant: the temporary file is renamed without fsync().
SyncTmp_Skipped ==
    /\ saver.step = "sync"
    /\ saver' = [saver EXCEPT !.step = "unsynced"]
    /\ UNCHANGED << sections, lines, dirty, disk, tmp, older, proc, starting, opened, failed >>

SyncTmp ==
    /\ saver.step = "sync"
    /\ saver' = [saver EXCEPT !.step = "rename"]
    /\ UNCHANGED << sections, lines, dirty, disk, tmp, older, proc, starting, opened, failed >>

\* The open() before it, or fsync() itself, fails: nobody looks, and the rename
\* is next all the same.
SyncFails ==
    /\ saver.step = "sync"
    /\ saver' = [saver EXCEPT !.step = "unsynced"]
    /\ failed' = TRUE
    /\ UNCHANGED << sections, lines, dirty, disk, tmp, older, proc, starting, opened >>

Renaming == saver.step \in {"rename", "unsynced"}

\* The directory is not synced: until the kernel has written it back a host
\* crash may undo the rename, and leave the contents of an unsynced file torn.
RenameTmp ==
    /\ Renaming
    /\ disk' = tmp
    /\ tmp' = Missing
    /\ older' = older \cup {disk} \cup (IF saver.step = "unsynced" THEN {Torn} ELSE {})
    /\ Return
    /\ UNCHANGED << sections, lines, proc, starting, opened, failed >>

RenameFails ==
    /\ Renaming
    /\ tmp' = Missing
    /\ Return
    /\ UNCHANGED << sections, lines, disk, older, proc, starting, opened, failed >>

-----------------------------------------------------------------------------
(* Ends.                                                                    *)

\* Mutant: open() does not clear the lines of an earlier one.
Gone_KeepsLines ==
    /\ proc' = "down"
    /\ sections' = << >> /\ dirty' = FALSE
    /\ saver' = Idle /\ starting' = << >>
    /\ tmp' = Missing
    /\ UNCHANGED lines

\* The program is gone: it was refused its file, stopped, or crashed.  A
\* temporary file it leaves is never read: the next save empties it.
Gone ==
    /\ proc' = "down"
    /\ sections' = << >> /\ lines' = << >> /\ dirty' = FALSE
    /\ saver' = Idle /\ starting' = << >>
    /\ tmp' = Missing

Crash ==
    /\ proc # "down"
    /\ Gone
    /\ UNCHANGED << disk, older, opened, failed >>

\* Nothing waits to be written back.
Written == older = {} /\ ~failed

\* The host goes down, and with it what was not written back; with nothing to
\* write back this is what Crash does.
HostCrash ==
    /\ ~Written
    /\ Gone
    /\ disk' \in older \cup {disk}
    /\ older' = {} /\ failed' = FALSE
    /\ opened' = (opened /\ ~failed)

\* The kernel writes back the directory and the files it has: what a program
\* runs on is on the disk then.
WriteBack ==
    /\ ~Written
    /\ older' = {} /\ failed' = (saver.step = "unsynced")
    /\ opened' = (opened \/ proc = "up")
    /\ UNCHANGED << sections, lines, dirty, disk, tmp, proc, starting, saver >>

-----------------------------------------------------------------------------
Init ==
    /\ sections = << >> /\ lines = << >> /\ dirty = FALSE
    /\ disk \in { File(f) : f \in Files } \cup {Missing}
    /\ tmp = Missing
    /\ older = {}
    /\ proc = "down" /\ starting = << >>
    /\ saver = Idle
    /\ opened = FALSE /\ failed = FALSE

\* The players that may have been started.
Keys == { KeyOf(sections[i]) : i \in DOMAIN sections }
            \ { starting[i].id : i \in DOMAIN starting }

Next ==
    \/ \E part \in Partial : WriteTemplate(part)
    \/ EndTemplate \/ OpenFails \/ Load
    \/ \E auto \in BOOLEAN : StartStatic(auto)
    \/ \E dev \in Devices, auto \in BOOLEAN : Discover(dev, auto)
    \/ \E key \in Keys, creds \in Creds : SaveCreds(key, creds)
    \/ \E key \in Keys, name \in Names : SavePlayerName(key, name)
    \/ WriteTmp \/ WriteFails \/ SyncTmp \/ SyncFails \/ RenameTmp \/ RenameFails
    \/ Crash \/ HostCrash \/ WriteBack

Spec == Init /\ [][Next]_vars

-----------------------------------------------------------------------------
(* Properties.                                                              *)

Readable(file) == file.there /\ ParseOK(file.text)

FileOK(file) == \A i \in DOMAIN file.text : LineOK(file.text[i])

\* Every variable has its type; while the program does not run it knows
\* nothing, and a save under way belongs to a program that runs.
TypeOK ==
    /\ proc \in {"down", "template", "up", "refused"}
    /\ saver.step \in {"idle", "write", "sync", "rename", "unsynced"}
    /\ saver.flush \in BOOLEAN /\ dirty \in BOOLEAN
    /\ opened \in BOOLEAN /\ failed \in BOOLEAN
    /\ FileOK(disk) /\ FileOK(tmp) /\ \A file \in older : FileOK(file)
    /\ proc # "up" => /\ sections = << >> /\ lines = << >>
                      /\ saver = Idle /\ starting = << >>

\* LMS identifies a player by its virtual MAC: no two sections have the same
\* one, whichever were hashed, bumped or written by the user, as long as the
\* 256 MACs assignMacLocked() tries are enough.
MacsDistinct ==
    Len(sections) <= 256 =>
    \A i, j \in DOMAIN sections : i # j => sections[i].mac # sections[j].mac

\* Once a program has run on a file that is on the disk, every later start can
\* read what it finds, whenever the program or the host stopped: a save replaces
\* the file by a whole one, and what a host crash brings back is an earlier
\* whole one (persistence.cpp:740-749).  Except for a sync that fails, which the
\* save does not notice: then a crash of the host may tear the file.
StaysReadable ==
    opened => /\ Readable(disk)
              /\ ~failed => \A file \in older : Readable(file)

\* The lines of a file the program does not manage, each with the header it is
\* under.
UserLines(text) ==
    LET read == Reading(Begin, text)
    IN  FlattenSeq([i \in DOMAIN text |->
                       IF text[i].by = "user" THEN << << text[i], read[i].under >> >>
                       ELSE << >>])

\* "preserving every other line (comments, unknown keys, ordering) verbatim"
\* (persistence.h): a save, the first one of a new program run included, leaves
\* the user's lines as they are, in order, under the header they were under, and
\* so does a crash that brings back an earlier file.
KeepsUserLines ==
    [][ disk' # disk
            => disk' = Torn \/ UserLines(disk'.text) = UserLines(disk.text) ]_vars

\* The sections a start finds in a file: none in one it refuses.
SectionsOf(file) ==
    LET read == Parsed(file.text)
    IN  IF file.there /\ read.ok THEN read.secs ELSE << >>

Store == INSTANCE PlayerStore WITH
            known    <- sections,
            saved    <- SectionsOf(disk),
            older    <- { SectionsOf(file) : file \in older },
            up       <- proc = "up",
            Authored <- { SectionsOf(file) : file \in { File(f) : f \in Files } \cup {Missing} }

\* The file and its line buffer, the temporary file and the crashes implement
\* sections that are saved all at once or not at all: what a restart reads is
\* what was last saved, after a host crash perhaps what was saved before that,
\* and each section comes back under the same id, MAC, credentials and LMS name.
ImplementsStore == Store!Spec

=============================================================================
