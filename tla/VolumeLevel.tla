----------------------------- MODULE VolumeLevel -----------------------------
(***************************************************************************)
(* The level a receiver plays at (VolumeController, first half).  LMS      *)
(* pushes its slider as AUDG on the slimproto reader thread; the stream    *)
(* thread launches the receiver session at the remembered level.  Levels   *)
(* are AirPlay percents, as VolumeAnchors makes them of the slider.        *)
(***************************************************************************)
EXTENDS Integers

CONSTANTS
    Levels,         \* the percents LMS may ask for; 0 is its mute
    FixedPct,       \* fixedVolumePct_
    Modes           \* the volume modes a player may have

ASSUME LevelsAssumption ==
    /\ Levels \subseteq Nat
    /\ FixedPct \in Nat \ {0}
    /\ Modes \subseteq {"Lms", "Fixed"}

VARIABLES
    mode,           \* volumeMode_
    reader,         \* onLmsVolume on the reader thread
    launcher,       \* launch() on the stream thread
    remembered,     \* lastLmsPct_: 0 is none
    sess,           \* the receiver session and the level its sender applies
    asked,          \* history: the last audible level LMS asked for, and the one before
    current         \* history: the levels that were current since the launch

vars == <<mode, reader, launcher, remembered, sess, asked, current>>

Default == -1       \* a sender nobody has given a level: full scale
Pct == Levels \cup {FixedPct}
Audible == Pct \ {0}

\* A launch never mutes, and a mute is never remembered.
TypeOK ==
    /\ mode \in Modes
    /\ reader \in [pc : {"idle", "remember", "snapshot", "apply"}, pct : Pct,
                   player : BOOLEAN]
    /\ launcher \in [pc : {"idle", "chosen", "started"}, pct : Audible]
    /\ remembered \in Levels \cup {0}
    /\ sess \in [player : {"none", "prepared", "active", "lost"},
                 level : Pct \cup {Default}]
    /\ asked \in [last : Audible, before : Audible]
    /\ current \subseteq Pct

\* What the threads hold while they hold nothing.
IdleReader   == [pc |-> "idle", pct |-> FixedPct, player |-> FALSE]
IdleLauncher == [pc |-> "idle", pct |-> FixedPct]

\* LMS asks for pct; a mute leaves the audible level as it was.
Asked(pct) == [last |-> IF pct > 0 THEN pct ELSE asked.last, before |-> asked.last]

-----------------------------------------------------------------------------
(* Reader thread: onLmsVolume.                                             *)

\* Mutant: AUDG is followed in fixed mode too.
OnLmsVolume_Always ==
    /\ reader.pc = "idle"
    /\ \E pct \in Levels :
          /\ reader' = [reader EXCEPT !.pc = "remember", !.pct = pct]
          /\ asked' = IF mode = "Lms" THEN Asked(pct) ELSE asked
          /\ current' = IF mode = "Fixed" THEN current
                        ELSE IF launcher.pc = "idle" THEN {pct}
                        ELSE current \cup {pct}
    /\ UNCHANGED <<mode, launcher, remembered, sess>>

\* An AUDG packet; in fixed mode it is ignored.
OnLmsVolume ==
    /\ reader.pc = "idle" /\ mode = "Lms"
    /\ \E pct \in Levels :
          /\ reader' = [reader EXCEPT !.pc = "remember", !.pct = pct]
          /\ asked' = Asked(pct)
          /\ current' = IF launcher.pc = "idle" THEN {pct} ELSE current \cup {pct}
    /\ UNCHANGED <<mode, launcher, remembered, sess>>

\* Mutant: a level is remembered only while no session would take it.
Remember_NoSession ==
    /\ reader.pc = "remember"
    /\ remembered' = IF reader.pct > 0 /\ sess.player # "active"
                     THEN reader.pct ELSE remembered
    /\ reader' = [reader EXCEPT !.pc = "snapshot"]
    /\ UNCHANGED <<mode, launcher, sess, asked, current>>

\* A mute is not remembered.
Remember ==
    /\ reader.pc = "remember"
    /\ remembered' = IF reader.pct > 0 THEN reader.pct ELSE remembered
    /\ reader' = [reader EXCEPT !.pc = "snapshot"]
    /\ UNCHANGED <<mode, launcher, sess, asked, current>>

\* AirplayOutput::setVolume takes the output's mutex to look at the player ...
Snapshot ==
    /\ reader.pc = "snapshot" /\ launcher.pc # "started"
    /\ reader' = [reader EXCEPT !.pc = "apply", !.player = sess.player # "none"]
    /\ UNCHANGED <<mode, launcher, remembered, sess, asked, current>>

\* ... but not to give it the level, if it is active by then.
Apply ==
    /\ reader.pc = "apply"
    /\ sess' = IF reader.player /\ sess.player = "active"
               THEN [sess EXCEPT !.level = reader.pct] ELSE sess
    /\ reader' = IdleReader
    /\ UNCHANGED <<mode, launcher, remembered, asked, current>>

-----------------------------------------------------------------------------
(* Stream thread.                                                          *)

\* From here on a launch is under way: what LMS asked for last, what it is
\* asking for now, and until that is remembered what it asked for before, are
\* all current.
LaunchBegins ==
    current' = {asked.last}
                  \cup (IF reader.pc = "idle" THEN {} ELSE current)
                  \cup (IF reader.pc = "remember" THEN {asked.before} ELSE {})

\* Mutant: the fixed level does not stand in for a slider not yet known.
LaunchChoose_NoFallback ==
    /\ launcher.pc = "idle" /\ sess.player # "none"
    /\ launcher' = [pc |-> "chosen",
                    pct |-> IF mode = "Lms" THEN remembered ELSE FixedPct]
    /\ LaunchBegins
    /\ UNCHANGED <<mode, reader, remembered, sess, asked>>

\* launch(): choose the level.
LaunchChoose ==
    /\ launcher.pc = "idle" /\ sess.player # "none"
    /\ launcher' = [pc |-> "chosen",
                    pct |-> IF mode = "Lms" /\ remembered > 0
                            THEN remembered ELSE FixedPct]
    /\ LaunchBegins
    /\ UNCHANGED <<mode, reader, remembered, sess, asked>>

\* AirplayOutput::launch, under its mutex: start() wipes the sender's level,
LaunchStart ==
    /\ launcher.pc = "chosen"
    /\ launcher' = [launcher EXCEPT !.pc = "started"]
    /\ sess' = IF sess.player = "active" THEN sess
               ELSE [player |-> "active", level |-> Default]
    /\ UNCHANGED <<mode, reader, remembered, asked, current>>

\* which is therefore set after it.
LaunchSet ==
    /\ launcher.pc = "started"
    /\ launcher' = IdleLauncher
    /\ sess' = [sess EXCEPT !.level = launcher.pct]
    /\ UNCHANGED <<mode, reader, remembered, asked, current>>

\* A session is prepared for a track; a dead one is replaced.
Prepare ==
    /\ launcher.pc = "idle" /\ sess.player \in {"none", "lost"}
    /\ sess' = [player |-> "prepared", level |-> Default]
    /\ reader' = [reader EXCEPT !.player = FALSE]
    /\ UNCHANGED <<mode, launcher, remembered, asked, current>>

\* The receiver goes away.
SessionLost ==
    /\ sess.player = "active"
    /\ sess' = [player |-> "lost", level |-> Default]
    /\ UNCHANGED <<mode, reader, launcher, remembered, asked, current>>

\* The stream thread ends the session.
SessionEnds ==
    /\ launcher.pc = "idle" /\ sess.player # "none"
    /\ sess' = [player |-> "none", level |-> Default]
    /\ reader' = [reader EXCEPT !.player = FALSE]
    /\ UNCHANGED <<mode, launcher, remembered, asked, current>>

-----------------------------------------------------------------------------
Init ==
    /\ mode \in Modes
    /\ reader = IdleReader /\ launcher = IdleLauncher
    /\ remembered = 0
    /\ sess = [player |-> "none", level |-> Default]
    /\ asked = [last |-> FixedPct, before |-> FixedPct]
    /\ current = {}

Next ==
    \/ OnLmsVolume \/ Remember \/ Snapshot \/ Apply
    \/ LaunchChoose \/ LaunchStart \/ LaunchSet
    \/ Prepare \/ SessionLost \/ SessionEnds

Spec == Init /\ [][Next]_vars

-----------------------------------------------------------------------------
\* An active session, with nothing under way, plays at a level LMS wanted at
\* some moment since its launch began: never at the sender's own full scale,
\* never at the mute an earlier stream faded to, and in fixed mode at the fixed
\* level only.
LevelIsCurrent ==
    sess.player = "active" /\ launcher.pc = "idle" /\ reader.pc = "idle"
        => sess.level \in current

=============================================================================
