---------------------------- MODULE PlayerStore -----------------------------
(* What the config and state file promises, without lines, temporary files  *)
(* and renames: the sections in memory change one operation at a time, a    *)
(* save replaces all of them at once, and a start after a crash finds the    *)
(* sections of one save, whole: the last one, unless the host went down too  *)
(* before that save was written back.                                       *)
EXTENDS PlayerSections

CONSTANTS
    Devices,    \* what discovery can announce: records with id and name
    Creds,      \* pairing credentials
    Names,      \* names a player can be given from LMS
    Authored    \* the sections a user may have written before the first start

VARIABLES
    known,      \* the sections in memory
    saved,      \* the sections a start would find
    older,      \* the ones it may find instead once the host has gone down
    up          \* the program runs

vars == << up, known, saved, older >>

Init == known = << >> /\ saved \in Authored /\ older = {} /\ up = FALSE

Start == ~up /\ up' = TRUE /\ known' = AssignAll(saved) /\ UNCHANGED << saved, older >>

\* The operations, on the sections in memory.
Discover(dev, autoRegister) == known' = resolve(known, dev, autoRegister)
Pair(key, creds) == known' = WithCreds(known, key, creds)
Rename(key, name) == known' = WithName(known, key, name)

Keys == { KeyOf(known[i]) : i \in DOMAIN known }

\* The receivers on the network, and the players of the file by their keys.
Operation ==
    \/ \E dev \in Devices, auto \in BOOLEAN : Discover(dev, auto)
    \/ \E i \in DOMAIN known, auto \in BOOLEAN :
            Discover(StaticDevice(known[i]), auto)
    \/ \E key \in Keys, creds \in Creds : Pair(key, creds)
    \/ \E key \in Keys, name \in Names : Rename(key, name)

Operate == up /\ UNCHANGED << up, saved, older >> /\ Operation

\* What was saved before may come back until the save is written back, or
\* nothing at all if the save could not be synced.
Save ==
    /\ up /\ UNCHANGED << up, known >>
    /\ saved' = Durable(known)
    /\ \E torn \in SUBSET {<< >>} : older' = older \cup {saved} \cup torn

\* Some of it is written back; or what is saved is written once more.
Settle == UNCHANGED << up, known, saved >> /\ older' \subseteq older \cup {saved}

Down == up' = FALSE /\ known' = << >>

Crash == up /\ Down /\ UNCHANGED << saved, older >>

HostCrash == Down /\ saved' \in older \cup {saved} /\ older' = {}

Next == Start \/ Settle \/ Operate \/ Save \/ Crash \/ HostCrash

Spec == Init /\ [][Next]_vars

=============================================================================
