-------------------------- MODULE VolumeLevel_proofs --------------------------
(***************************************************************************)
(* A receiver never plays at a level that was not current since its launch *)
(* began, for all levels LMS may ask for and in both volume modes.         *)
(***************************************************************************)
EXTENDS VolumeLevel, TLAPS

\* What launch() would choose now.
Choice == IF mode = "Lms" /\ remembered > 0 THEN remembered ELSE FixedPct

\* The choice follows what LMS asked for, one store behind: until Remember it
\* is the audible level before the one being stored.
ChoiceFollows ==
    IF reader.pc = "remember"
    THEN /\ Choice = asked.before
         /\ asked.last = IF reader.pct > 0 THEN reader.pct ELSE asked.before
    ELSE Choice = asked.last

\* What a thread holds and has still to give the sender is current; what the
\* reader holds came from LMS.
HeldIsCurrent ==
    /\ reader.pc # "idle" => reader.pct \in Levels \cap current /\ mode = "Lms"
    /\ launcher.pc # "idle" => launcher.pct \in current

\* A level that is not current any more is about to be replaced.
LevelOrReplaced ==
    sess.player = "active" /\ launcher.pc = "idle" =>
        \/ sess.level \in current
        \/ reader.pc \in {"remember", "snapshot"}
        \/ reader.pc = "apply" /\ reader.player

IInv == TypeOK /\ ChoiceFollows /\ HeldIsCurrent /\ LevelOrReplaced

-----------------------------------------------------------------------------
\* The initial states satisfy the inductive invariant.
LEMMA InitInv == Init => IInv
  BY LevelsAssumption, SMT
     DEF Init, IInv, TypeOK, ChoiceFollows, Choice, HeldIsCurrent, LevelOrReplaced,
         IdleReader, IdleLauncher, Pct, Audible, Default

\* The reader thread's steps preserve it.
LEMMA ReaderStep ==
    ASSUME IInv, OnLmsVolume \/ Remember \/ Snapshot \/ Apply
    PROVE  IInv'
  <1> USE LevelsAssumption DEF Pct, Audible, Default, IdleReader
  <1>1. CASE OnLmsVolume
    <2>1. PICK pct \in Levels :
             /\ reader' = [reader EXCEPT !.pc = "remember", !.pct = pct]
             /\ asked' = [last |-> IF pct > 0 THEN pct ELSE asked.last,
                          before |-> asked.last]
             /\ current' = IF launcher.pc = "idle" THEN {pct} ELSE current \cup {pct}
      BY <1>1 DEF OnLmsVolume, Asked
    <2>2. reader.pc = "idle" /\ mode = "Lms" /\ UNCHANGED <<mode, launcher, remembered, sess>>
      BY <1>1 DEF OnLmsVolume
    <2>3. pct \in Nat /\ (pct > 0 => pct \in Audible)
      BY LevelsAssumption
    <2>4. TypeOK'
      <3>1. /\ reader' \in [pc : {"idle", "remember", "snapshot", "apply"}, pct : Pct,
                            player : BOOLEAN]
            /\ current' \subseteq Pct
        BY <2>1 DEF IInv, TypeOK
      <3>2. asked' \in [last : Audible, before : Audible]
        BY <2>1, <2>3 DEF IInv, TypeOK
      <3> QED BY <2>2, <3>1, <3>2 DEF IInv, TypeOK
    <2>5. ChoiceFollows'
      <3>1. Choice' = Choice /\ Choice = asked.last
        BY <2>2 DEF IInv, ChoiceFollows, Choice
      <3>2. asked'.before = asked.last /\ asked'.last = IF pct > 0 THEN pct ELSE asked.last
        BY <2>1
      <3>3. reader'.pc = "remember" /\ reader'.pct = pct
        BY <2>1 DEF IInv, TypeOK
      <3> QED BY <3>1, <3>2, <3>3 DEF ChoiceFollows
    <2>6. HeldIsCurrent' /\ LevelOrReplaced'
      BY <2>1, <2>2 DEF IInv, TypeOK, HeldIsCurrent, LevelOrReplaced
    <2> QED BY <2>4, <2>5, <2>6 DEF IInv
  <1>2. CASE Remember
    <2>1. TypeOK'
      <3>1. remembered' \in Levels \cup {0}
        BY <1>2 DEF IInv, TypeOK, HeldIsCurrent, ChoiceFollows, Remember
      <3>2. reader' \in [pc : {"idle", "remember", "snapshot", "apply"}, pct : Pct,
                         player : BOOLEAN]
        BY <1>2 DEF IInv, TypeOK, Remember
      <3> QED BY <1>2, <3>1, <3>2 DEF IInv, TypeOK, Remember
    <2>2. ChoiceFollows'
      BY <1>2 DEF IInv, TypeOK, ChoiceFollows, Choice, HeldIsCurrent, Remember
    <2>3. HeldIsCurrent' /\ LevelOrReplaced'
      BY <1>2 DEF IInv, TypeOK, HeldIsCurrent, LevelOrReplaced, Remember
    <2> QED BY <2>1, <2>2, <2>3 DEF IInv
  <1>3. CASE Snapshot
    <2>1. TypeOK'
      BY <1>3 DEF IInv, TypeOK, Snapshot
    <2>2. ChoiceFollows'
      BY <1>3 DEF IInv, TypeOK, ChoiceFollows, Choice, Snapshot
    <2>3. HeldIsCurrent' /\ LevelOrReplaced'
      BY <1>3 DEF IInv, TypeOK, HeldIsCurrent, LevelOrReplaced, Snapshot
    <2> QED BY <2>1, <2>2, <2>3 DEF IInv
  <1>4. CASE Apply
    <2>1. TypeOK'
      BY <1>4 DEF IInv, TypeOK, Apply
    <2>2. ChoiceFollows'
      BY <1>4 DEF IInv, TypeOK, ChoiceFollows, Choice, Apply
    <2>3. HeldIsCurrent' /\ LevelOrReplaced'
      BY <1>4 DEF IInv, TypeOK, HeldIsCurrent, LevelOrReplaced, Apply
    <2> QED BY <2>1, <2>2, <2>3 DEF IInv
  <1> QED BY <1>1, <1>2, <1>3, <1>4

\* The stream thread's launch preserves it.
LEMMA LaunchStep ==
    ASSUME IInv, LaunchChoose \/ LaunchStart \/ LaunchSet
    PROVE  IInv'
  <1> USE LevelsAssumption DEF Pct, Audible, Default, IdleLauncher
  <1>1. CASE LaunchChoose
    <2>1. TypeOK'
      <3>1. launcher' \in [pc : {"idle", "chosen", "started"}, pct : Audible]
        BY <1>1 DEF IInv, TypeOK, LaunchChoose
      <3>2. current' \subseteq Pct
        BY <1>1 DEF IInv, TypeOK, LaunchChoose, LaunchBegins
      <3> QED BY <1>1, <3>1, <3>2 DEF IInv, TypeOK, LaunchChoose
    <2>2. ChoiceFollows'
      BY <1>1 DEF IInv, TypeOK, ChoiceFollows, Choice, LaunchChoose
    <2>3. launcher'.pct \in current'
      BY <1>1 DEF IInv, TypeOK, ChoiceFollows, Choice, LaunchChoose, LaunchBegins
    <2>4. HeldIsCurrent' /\ LevelOrReplaced'
      BY <1>1, <2>3
         DEF IInv, TypeOK, HeldIsCurrent, LevelOrReplaced, LaunchChoose, LaunchBegins
    <2> QED BY <2>1, <2>2, <2>4 DEF IInv
  <1>2. CASE LaunchStart
    <2>1. TypeOK'
      BY <1>2 DEF IInv, TypeOK, LaunchStart
    <2>2. ChoiceFollows'
      BY <1>2 DEF IInv, TypeOK, ChoiceFollows, Choice, LaunchStart
    <2>3. HeldIsCurrent' /\ LevelOrReplaced'
      BY <1>2 DEF IInv, TypeOK, HeldIsCurrent, LevelOrReplaced, LaunchStart
    <2> QED BY <2>1, <2>2, <2>3 DEF IInv
  <1>3. CASE LaunchSet
    <2>1. TypeOK'
      BY <1>3 DEF IInv, TypeOK, LaunchSet
    <2>2. ChoiceFollows'
      BY <1>3 DEF IInv, TypeOK, ChoiceFollows, Choice, LaunchSet
    <2>3. HeldIsCurrent' /\ LevelOrReplaced'
      BY <1>3 DEF IInv, TypeOK, HeldIsCurrent, LevelOrReplaced, LaunchSet
    <2> QED BY <2>1, <2>2, <2>3 DEF IInv
  <1> QED BY <1>1, <1>2, <1>3

\* So does whatever begins or ends a session.
LEMMA SessionStep ==
    ASSUME IInv, Prepare \/ SessionLost \/ SessionEnds
    PROVE  IInv'
  <1> USE LevelsAssumption DEF Pct, Audible, Default
  <1>1. TypeOK'
    <2>1. sess' \in [player : {"none", "prepared", "active", "lost"},
                     level : Pct \cup {Default}]
      BY DEF IInv, TypeOK, Prepare, SessionLost, SessionEnds
    <2>2. reader' \in [pc : {"idle", "remember", "snapshot", "apply"}, pct : Pct,
                       player : BOOLEAN]
      BY DEF IInv, TypeOK, Prepare, SessionLost, SessionEnds
    <2> QED BY <2>1, <2>2 DEF IInv, TypeOK, Prepare, SessionLost, SessionEnds
  <1>2. ChoiceFollows'
    BY DEF IInv, TypeOK, ChoiceFollows, Choice, Prepare, SessionLost, SessionEnds
  <1>3. HeldIsCurrent' /\ LevelOrReplaced'
    BY DEF IInv, TypeOK, HeldIsCurrent, LevelOrReplaced, Prepare, SessionLost, SessionEnds
  <1> QED BY <1>1, <1>2, <1>3 DEF IInv

\* IInv is inductive.
LEMMA StepInv == IInv /\ [Next]_vars => IInv'
  <1> SUFFICES ASSUME IInv, [Next]_vars PROVE IInv'
    OBVIOUS
  <1>1. CASE UNCHANGED vars
    BY <1>1 DEF IInv, TypeOK, ChoiceFollows, Choice, HeldIsCurrent, LevelOrReplaced, vars
  <1>2. CASE Next
    BY <1>2, ReaderStep, LaunchStep, SessionStep DEF Next
  <1> QED BY <1>1, <1>2

\* Every reachable state satisfies the inductive invariant.
THEOREM Invariance == Spec => []IInv
  BY InitInv, StepInv, PTL DEF Spec

\* launch() never mutes a receiver, and every level is one of LMS's or the
\* fixed one, whatever levels LMS may ask for.
THEOREM TypeCorrect == Spec => []TypeOK
  <1>1. IInv => TypeOK BY DEF IInv
  <1> QED BY <1>1, Invariance, PTL

\* A launched receiver with nothing under way plays at a level that was current
\* since its launch began: not the full scale start() leaves it at, nor the
\* mute a stop fade ended on.
THEOREM LevelCurrent == Spec => []LevelIsCurrent
  <1>1. IInv => LevelIsCurrent
    BY DEF IInv, LevelOrReplaced, LevelIsCurrent
  <1> QED BY <1>1, Invariance, PTL
=============================================================================
