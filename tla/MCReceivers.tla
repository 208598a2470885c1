----------------------------- MODULE MCReceivers -----------------------------
(* Model-checking instances of Receivers.                                    *)
EXTENDS Receivers

Service(receiver, type, head, deviceid, ap2) ==
    [receiver |-> receiver, type |-> type, head |-> head, name |-> receiver,
     deviceid |-> deviceid, ap2 |-> ap2, port |-> TRUE]

\* An AirPlay 2 receiver with both records, and one with a RAOP record only.
Bath == { Service("bath", "raop", "aa", "", FALSE),
          Service("bath", "airplay", "bath", "aa", TRUE) }
Tv   == { Service("tv", "raop", "bb", "", FALSE) }
MCServices == Bath \cup Tv

\* Names of players the user wrote hash alike.
MCHashOf == [k \in {"aa", "bb", "bath", "tv", "attic"} |->
                CASE k = "aa" -> 2 [] k = "bb" -> 3 [] OTHER -> 1]

\* A player that waits for the receiver of its name, one with a target.
MCAuthored == << NewSection("tv", FALSE), NewSection("attic", FALSE) >>
=============================================================================
