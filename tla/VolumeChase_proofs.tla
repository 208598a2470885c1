-------------------------- MODULE VolumeChase_proofs --------------------------
(***************************************************************************)
(* A receiver change costs LMS at most kMaxSteps presses and the one under *)
(* way, for all sliders, limits and reports, however the stores and loads  *)
(* of the event thread and the stepper are mixed.                          *)
(***************************************************************************)
EXTENDS VolumeChase, SequenceTheorems, TLAPS

-----------------------------------------------------------------------------
(* The types of what TypeOK leaves open: the atomics one by one, and the   *)
(* stores a thread has still to make.                                      *)

Dirs  == {-1, 0, 1}
Lasts == {"zero", "recent", "due"}

Chase == [target : Slider, slider : Slider, remembered : Slider, dir : Dirs,
          budget : 0 .. MaxSteps, stall : Nat, last : Lasts, lastLms : Slider,
          pending : BOOLEAN, stopping : {"no", "cleared", "requested"}]

Seen == [target : Slider, slider : Slider, dir : Dirs, budget : 0 .. MaxSteps, last : Lasts]

Link == [slider : Slider, buttons : Seq({"up", "down"}), audg : Slider \cup {NoAudg},
         alive : BOOLEAN]

\* A store is the name of an atomic and the value it gets.
Stores == ({"target", "lastLms"} \X Slider) \cup ({"dir"} \X Dirs) \cup ({"stall"} \X Nat)
          \cup ({"last"} \X {"zero", "recent"}) \cup ({"pending"} \X BOOLEAN)
DriverStoreSet  == Stores \cup ({"budget"} \X {MaxSteps})
StepperStoreSet == Stores \cup ({"budget"} \X (0 .. MaxSteps - 1))

Loads == {"target", "slider", "dir", "budget"}

Types ==
    /\ lms \in Link /\ chase \in Chase
    /\ driver \in [pc : {"idle", "store", "notify"}, todo : Seq(DriverStoreSet)]
    /\ driver.pc = "store" => driver.todo # << >>
    /\ stepper.seen \in Seen /\ stepper.button \in {"none", "up", "down"}
    /\ stepper = [pc |-> stepper.pc, seen |-> stepper.seen, todo |-> stepper.todo,
                  button |-> stepper.button]

\* What the stepper has still to load, the budget last, or to store: a press
\* stores the budget before three other atomics, nothing else stores it.
Todo ==
    /\ stepper.pc = "load" =>
          /\ stepper.todo \in Seq(Loads) /\ stepper.todo # << >>
          /\ stepper.todo[Len(stepper.todo)] = "budget"
    /\ stepper.pc = "store" =>
          /\ stepper.todo \in Seq(StepperStoreSet) /\ stepper.todo # << >>
          /\ \A i \in 1 .. Len(stepper.todo) :
                stepper.todo[i][1] = "budget" <=>
                    stepper.button # "none" /\ i = Len(stepper.todo) - 3
    /\ stepper.pc = "press" => stepper.button # "none"
    /\ stepper.pc \notin {"store", "press"} => stepper.button = "none"

\* A press whose budget is stored already, and that is not made yet.
Owed ==
    IF \/ stepper.pc = "press"
       \/ stepper.pc = "store" /\ stepper.button # "none" /\ Len(stepper.todo) < 4
    THEN 1 ELSE 0

\* The presses since the budget was last set, the one owed and what is left of
\* the budget are never more than kMaxSteps and one; nor are they with the
\* budget that the stepper holds, loaded and not yet stored.
Counted ==
    /\ presses + Owed + chase.budget <= MaxSteps + 1
    /\ stepper.pc = "decide" => presses + stepper.seen.budget <= MaxSteps + 1
    /\ stepper.pc = "store" =>
          \A i \in 1 .. Len(stepper.todo) :
             stepper.todo[i][1] = "budget" => presses + stepper.todo[i][2] <= MaxSteps

IInv == TypeOK /\ Types /\ Todo /\ Counted

-----------------------------------------------------------------------------
(* Lemmas about the stores.                                                *)

\* The rest of a non-empty sequence.
LEMMA TailOf ==
    ASSUME NEW S, NEW s \in Seq(S), s # << >>
    PROVE  /\ Head(s) \in S /\ Head(s) = s[1] /\ Len(s) \in Nat \ {0}
           /\ Tail(s) \in Seq(S) /\ Len(Tail(s)) = Len(s) - 1
           /\ \A i \in 1 .. Len(s) - 1 : Tail(s)[i] = s[i + 1]
           /\ Tail(s) = << >> <=> Len(s) = 1
  <1>1. Len(s) \in Nat \ {0}
    BY EmptySeq, SMT
  <1>2. /\ Tail(s) \in Seq(S) /\ Len(Tail(s)) = Len(s) - 1
        /\ \A i \in 1 .. Len(s) - 1 : Tail(s)[i] = s[i + 1]
    BY <1>1, HeadTailProperties
  <1> QED BY <1>1, <1>2, EmptySeq, SMT

\* One store leaves the atomics typed, and changes the budget only if it is
\* the budget's.
LEMMA OneStore ==
    ASSUME chase \in Chase,
           NEW w \in DriverStoreSet \cup StepperStoreSet,
           chase' = [chase EXCEPT ![w[1]] = w[2]]
    PROVE  /\ chase' \in Chase
           /\ chase'.budget = IF w[1] = "budget" THEN w[2] ELSE chase.budget
  <1> USE ChaseAssumption DEF Chase, Slider, Dirs, Lasts
  <1>1. CASE w \in {"target", "lastLms"} \X Slider
    BY <1>1
  <1>2. CASE w \in {"dir"} \X Dirs
    BY <1>2
  <1>3. CASE w \in {"stall"} \X Nat
    BY <1>3
  <1>4. CASE w \in {"last"} \X {"zero", "recent"}
    BY <1>4
  <1>5. CASE w \in {"pending"} \X BOOLEAN
    BY <1>5
  <1>6. CASE w \in {"budget"} \X (0 .. MaxSteps)
    BY <1>6
  <1>7. w \in Stores \/ w \in {"budget"} \X (0 .. MaxSteps)
    BY DEF DriverStoreSet, StepperStoreSet
  <1> QED BY <1>1, <1>2, <1>3, <1>4, <1>5, <1>6, <1>7 DEF Stores

-----------------------------------------------------------------------------
(* Init and the steps.                                                     *)

\* The initial states satisfy the inductive invariant.
LEMMA InitInv == Init => IInv
  <1> SUFFICES ASSUME Init PROVE IInv
    OBVIOUS
  <1> USE ChaseAssumption DEF Init, IdleReader, IdleDriver, IdleStepper, NothingSeen, Slider
  <1>1. TypeOK
    BY DEF TypeOK, StepperPcs
  <1>2. Types
    <2>1. lms \in Link
      BY DEF Link
    <2>2. chase \in Chase
      BY DEF Chase, Dirs, Lasts
    <2>3. driver.todo \in Seq(DriverStoreSet)
      BY EmptySeq
    <2>4. driver \in [pc : {"idle", "store", "notify"}, todo : Seq(DriverStoreSet)]
      BY <2>3
    <2> QED BY <2>1, <2>2, <2>4 DEF Types, Seen, Dirs, Lasts
  <1>3. Todo /\ Counted
    BY DEF Todo, Counted, Owed
  <1> QED BY <1>1, <1>2, <1>3 DEF IInv

\* LMS and the link touch neither the atomics nor the threads.
LEMMA LinkStep ==
    ASSUME IInv, LmsSteps \/ LmsUser \/ LinkBreaks \/ LinkReturns
    PROVE  IInv'
  <1> USE ChaseAssumption DEF Slider
  <1>1. UNCHANGED <<mode, reader, driver, stepper, chase, presses, calm>>
    BY DEF LmsSteps, LmsUser, LinkBreaks, LinkReturns
  <1>2. lms' \in Link
    <2>1. lms \in Link
      BY DEF IInv, Types
    <2>2. CASE LmsSteps
      <3>1. PICK move \in Moves : \E at :
              /\ at = LET to == IF Head(lms.buttons) = "up" THEN lms.slider + move
                                ELSE lms.slider - move
                      IN IF to > MaxSlider THEN MaxSlider ELSE IF to < 0 THEN 0 ELSE to
              /\ lms' = [lms EXCEPT !.buttons = Tail(@), !.slider = at, !.audg = at]
        BY <2>2 DEF LmsSteps
      <3>2. PICK at \in Slider :
              lms' = [lms EXCEPT !.buttons = Tail(@), !.slider = at, !.audg = at]
        <4>1. lms.slider \in 0 .. MaxSlider /\ move \in 0 .. MaxSlider
          BY <2>1 DEF Link
        <4> HIDE DEF Slider
        <4>2. PICK at : /\ at = LET to == IF Head(lms.buttons) = "up" THEN lms.slider + move
                                        ELSE lms.slider - move
                                IN IF to > MaxSlider THEN MaxSlider ELSE IF to < 0 THEN 0 ELSE to
                        /\ lms' = [lms EXCEPT !.buttons = Tail(@), !.slider = at, !.audg = at]
          BY <3>1
        <4>3. at \in 0 .. MaxSlider
          BY <4>1, <4>2
        <4> QED BY <4>2, <4>3 DEF Slider
      <3>3. Tail(lms.buttons) \in Seq({"up", "down"})
        BY <2>1, <2>2, HeadTailProperties DEF Link, LmsSteps
      <3> QED BY <2>1, <3>2, <3>3 DEF Link
    <2>3. CASE LmsUser
      BY <2>1, <2>3 DEF Link, LmsUser
    <2>4. CASE LinkBreaks
      <3>1. << >> \in Seq({"up", "down"})
        BY EmptySeq
      <3> QED BY <2>1, <2>4, <3>1 DEF Link, LinkBreaks
    <2>5. CASE LinkReturns
      <3>1. PICK at : /\ at = lms.slider \/ at = 0
                      /\ lms' = [lms EXCEPT !.alive = TRUE, !.audg = at]
        BY <2>5 DEF LinkReturns
      <3>2. at \in Slider
        BY <2>1, <3>1 DEF Link
      <3> QED BY <2>1, <3>1, <3>2 DEF Link
    <2> QED BY <2>2, <2>3, <2>4, <2>5
  <1>3. events' \in 0 .. MaxEvents
    <2>1. events' = events \/ (events < MaxEvents /\ events' = events + 1)
      BY DEF LmsSteps, LmsUser, LinkBreaks, LinkReturns, MayAct
    <2> QED BY <2>1 DEF IInv, TypeOK
  <1>4. TypeOK'
    BY <1>1, <1>2, <1>3 DEF IInv, TypeOK, Link
  <1>5. Types' /\ Todo' /\ Counted'
    BY <1>1, <1>2 DEF IInv, Types, Todo, Counted, Owed
  <1> QED BY <1>4, <1>5 DEF IInv

\* The stores of the reader thread and of the thread that stops, and the time
\* that passes, leave the budget alone.
LEMMA AtomicStep ==
    ASSUME IInv, OnLmsVolume \/ Remember \/ WindowPasses \/ StopClear \/ StopRequest
    PROVE  IInv'
  <1> USE ChaseAssumption DEF Slider
  <1>1. UNCHANGED <<mode, driver, stepper, presses, calm, events>>
    BY DEF OnLmsVolume, Remember, WindowPasses, StopClear, StopRequest
  <1>2. lms' \in Link /\ reader' \in [pc : {"idle", "remember"}, slider : Slider]
    <2>1. lms \in Link /\ reader \in [pc : {"idle", "remember"}, slider : Slider]
      BY DEF IInv, TypeOK, Types
    <2>2. CASE OnLmsVolume
      BY <2>1, <2>2 DEF OnLmsVolume, Link, IdleReader, NoAudg
    <2>3. CASE ~OnLmsVolume
      BY <2>1, <2>3 DEF Remember, WindowPasses, StopClear, StopRequest, IdleReader
    <2> QED BY <2>2, <2>3
  <1>3. chase' \in Chase /\ chase'.budget = chase.budget
    <2>1. chase \in Chase /\ lms \in Link /\ reader.slider \in Slider
      BY DEF IInv, TypeOK, Types
    <2>2. CASE OnLmsVolume
      BY <2>1, <2>2 DEF Chase, Link, OnLmsVolume, NoAudg
    <2>3. CASE Remember
      BY <2>1, <2>3 DEF Chase, Remember
    <2>4. CASE WindowPasses
      BY <2>1, <2>4 DEF Chase, Lasts, WindowPasses
    <2>5. CASE StopClear \/ StopRequest
      BY <2>1, <2>5, ZenonT(120) DEF Chase, StopClear, StopRequest
    <2> QED BY <2>2, <2>3, <2>4, <2>5
  <1>4. TypeOK'
    BY <1>1, <1>2, <1>3 DEF IInv, TypeOK, Link, Chase, Dirs, Lasts
  <1>5. Types'
    BY <1>1, <1>2, <1>3 DEF IInv, Types
  <1>6. Todo' /\ Counted'
    BY <1>1, <1>3 DEF IInv, Todo, Counted, Owed
  <1> QED BY <1>4, <1>5, <1>6 DEF IInv

\* What a receiver change makes the event thread store.
LEMMA ChaseStoresType ==
    ASSUME NEW p \in Slider
    PROVE  /\ ChaseStores(p) \in Seq(DriverStoreSet) /\ ChaseStores(p) # << >>
           /\ << <<"pending", FALSE>> >> \in Seq(DriverStoreSet)
           /\ << <<"pending", FALSE>> >> # << >>
  <1>1. /\ <<"target", p>> \in DriverStoreSet /\ <<"dir", 0>> \in DriverStoreSet
        /\ <<"budget", MaxSteps>> \in DriverStoreSet /\ <<"stall", 0>> \in DriverStoreSet
        /\ <<"last", "zero">> \in DriverStoreSet /\ <<"pending", TRUE>> \in DriverStoreSet
        /\ <<"pending", FALSE>> \in DriverStoreSet
    BY DEF DriverStoreSet, Stores, Dirs
  <1> HIDE DEF DriverStoreSet
  <1> QED BY <1>1 DEF ChaseStores

\* The event thread's steps preserve the inductive invariant: a new budget
\* comes with no press counted against it.
LEMMA DriverStep ==
    ASSUME IInv, OnReceiverVolume \/ DriverStores \/ Notify
    PROVE  IInv'
  <1> USE ChaseAssumption
  <1>1. CASE OnReceiverVolume
    <2>1. UNCHANGED <<mode, lms, reader, stepper, chase, presses, calm>>
          /\ events < MaxEvents /\ events' = events + 1
      BY <1>1 DEF OnReceiverVolume, MayAct
    <2>2. /\ driver' \in [pc : {"store"}, todo : Seq(DriverStoreSet)]
          /\ driver'.todo # << >>
      <3>1. PICK p \in Reports :
              driver' = [pc |-> "store",
                         todo |-> IF Dist(p, chase.slider) < Tolerance
                                  THEN << <<"pending", FALSE>> >> ELSE ChaseStores(p)]
        BY <1>1 DEF OnReceiverVolume
      <3>2. p \in Slider
        BY DEF Slider
      <3> QED BY <3>1, <3>2, ChaseStoresType
    <2>3. TypeOK' /\ Types'
      BY <2>1, <2>2 DEF IInv, TypeOK, Types
    <2>4. Todo' /\ Counted'
      BY <2>1 DEF IInv, Todo, Counted, Owed
    <2> QED BY <2>3, <2>4 DEF IInv
  <1>2. CASE DriverStores
    <2>1. /\ UNCHANGED <<mode, lms, reader, stepper, calm, events>> /\ driver.pc = "store"
          /\ presses' = IF Head(driver.todo)[1] = "budget" THEN 0 ELSE presses
          /\ chase' = [chase EXCEPT ![Head(driver.todo)[1]] = Head(driver.todo)[2]]
          /\ driver' = [driver EXCEPT !.todo = Tail(@),
                        !.pc = IF Tail(driver.todo) = << >> THEN "notify" ELSE "store"]
      BY <1>2 DEF DriverStores
    <2>2. driver \in [pc : {"idle", "store", "notify"}, todo : Seq(DriverStoreSet)]
          /\ driver.todo # << >>
      BY <2>1 DEF IInv, Types
    <2>3. Head(driver.todo) \in DriverStoreSet /\ Tail(driver.todo) \in Seq(DriverStoreSet)
      BY <2>2, HeadTailProperties
    <2>4. /\ driver' \in [pc : {"idle", "store", "notify"}, todo : Seq(DriverStoreSet)]
          /\ driver'.pc = "store" => driver'.todo # << >>
      BY <2>1, <2>2, <2>3
    <2>5. /\ chase' \in Chase
          /\ chase'.budget = IF Head(driver.todo)[1] = "budget" THEN MaxSteps ELSE chase.budget
      <3>1. Head(driver.todo)[1] = "budget" => Head(driver.todo)[2] = MaxSteps
        BY <2>3 DEF DriverStoreSet, Stores
      <3>2. chase \in Chase
        BY DEF IInv, Types
      <3> QED BY <2>1, <2>3, <3>1, <3>2, OneStore
    <2>6. TypeOK'
      <3>1. presses' \in Nat
        BY <2>1 DEF IInv, TypeOK
      <3>2. /\ chase'.target \in Slider /\ chase'.slider \in Slider
            /\ chase'.remembered \in Slider /\ chase'.stall \in Nat
            /\ chase'.pending \in BOOLEAN /\ chase'.dir \in {-1, 0, 1}
            /\ chase'.stopping \in {"no", "cleared", "requested"}
            /\ chase'.last \in {"zero", "recent", "due"}
            /\ chase'.budget \in 0 .. MaxSteps
        BY <2>5 DEF Chase, Dirs, Lasts
      <3> QED BY <2>1, <2>4, <3>1, <3>2 DEF IInv, TypeOK
    <2>7. Types' /\ Todo'
      BY <2>1, <2>4, <2>5 DEF IInv, Types, Todo
    <2>8. Counted'
      <3>1. CASE Head(driver.todo)[1] # "budget"
        BY <2>1, <2>5, <3>1 DEF IInv, Counted, Owed
      <3>2. CASE Head(driver.todo)[1] = "budget"
        <4>1. presses' = 0 /\ chase'.budget = MaxSteps /\ stepper' = stepper
          BY <2>1, <2>5, <3>2
        <4>2. stepper.seen.budget \in 0 .. MaxSteps
          BY DEF IInv, Types, Seen
        <4>4. Owed' = 0 \/ Owed' = 1
          BY DEF Owed
        <4>5. presses' + Owed' + chase'.budget <= MaxSteps + 1
          BY <4>1, <4>4
        <4>6. stepper'.pc = "decide" => presses' + stepper'.seen.budget <= MaxSteps + 1
          BY <4>1, <4>2
        <4>7. stepper'.pc = "store" =>
                 \A i \in 1 .. Len(stepper'.todo) :
                    stepper'.todo[i][1] = "budget" => presses' + stepper'.todo[i][2] <= MaxSteps
          <5>1. \A w \in StepperStoreSet : w[1] = "budget" => 0 + w[2] <= MaxSteps
            BY DEF StepperStoreSet, Stores
          <5>2. stepper.pc = "store" =>
                   \A i \in 1 .. Len(stepper.todo) : stepper.todo[i] \in StepperStoreSet
            BY ElementOfSeq DEF IInv, Todo
          <5> QED BY <4>1, <5>1, <5>2
        <4> QED BY <4>5, <4>6, <4>7 DEF Counted
      <3> QED BY <3>1, <3>2
    <2> QED BY <2>6, <2>7, <2>8 DEF IInv
  <1>3. CASE Notify
    <2>1. /\ UNCHANGED <<mode, lms, reader, chase, presses, calm, events>>
          /\ driver' = IdleDriver
          /\ \/ stepper.pc = "asleep" /\ stepper' = [stepper EXCEPT !.pc = "wait"]
             \/ stepper' = stepper
      BY <1>3 DEF Notify
    <2>2. << >> \in Seq(DriverStoreSet)
      BY EmptySeq
    <2>3. driver' \in [pc : {"idle"}, todo : Seq(DriverStoreSet)]
      BY <2>1, <2>2 DEF IdleDriver
    <2>4. CASE stepper' = stepper
      BY <2>1, <2>3, <2>4 DEF IInv, TypeOK, Types, Todo, Counted, Owed
    <2>5. CASE stepper.pc = "asleep" /\ stepper' = [stepper EXCEPT !.pc = "wait"]
      <3>1. /\ stepper'.pc = "wait" /\ stepper'.seen = stepper.seen
            /\ stepper'.todo = stepper.todo /\ stepper'.button = stepper.button
            /\ stepper' = [pc |-> "wait", seen |-> stepper.seen, todo |-> stepper.todo,
                           button |-> stepper.button]
        BY <2>5 DEF IInv, Types
      <3>2. TypeOK' /\ Types'
        BY <2>1, <2>3, <3>1 DEF IInv, TypeOK, Types, StepperPcs
      <3>3. Todo' /\ Counted'
        BY <2>1, <2>5, <3>1 DEF IInv, Todo, Counted, Owed
      <3> QED BY <3>2, <3>3 DEF IInv
    <2> QED BY <2>1, <2>4, <2>5
  <1> QED BY <1>1, <1>2, <1>3

\* A step of the stepper to a place where it neither presses nor holds a
\* budget preserves the inductive invariant.
LEMMA QuietStep ==
    ASSUME IInv, Others, UNCHANGED chase,
           NEW pc \in {"wait", "block", "asleep", "pace", "nap", "check", "link", "window",
                       "done"},
           \/ stepper.pc \notin {"store", "press"} /\ stepper' = [stepper EXCEPT !.pc = pc]
           \/ stepper' = [IdleStepper EXCEPT !.pc = pc]
    PROVE  IInv'
  <1> USE ChaseAssumption
  <1>1. stepper'.pc = pc /\ stepper'.seen \in Seen /\ stepper'.button = "none"
        /\ stepper' = [pc |-> stepper'.pc, seen |-> stepper'.seen, todo |-> stepper'.todo,
                       button |-> stepper'.button]
    <2>1. CASE stepper.pc \notin {"store", "press"} /\ stepper' = [stepper EXCEPT !.pc = pc]
      BY <2>1 DEF IInv, Types, Todo
    <2>2. CASE stepper' = [IdleStepper EXCEPT !.pc = pc]
      <3>1. NothingSeen \in Seen
        BY DEF NothingSeen, Seen, Slider, Dirs, Lasts
      <3> HIDE DEF NothingSeen
      <3> QED BY <2>2, <3>1 DEF IdleStepper
    <2> QED BY <2>1, <2>2
  <1>2. TypeOK' /\ Types'
    BY <1>1 DEF IInv, TypeOK, Types, Others, StepperPcs
  <1>3. Todo'
    BY <1>1 DEF Todo
  <1>4. Counted'
    <2>1. Owed' = 0 /\ (Owed = 0 \/ Owed = 1)
      BY <1>1 DEF Owed
    <2>2. presses \in Nat /\ chase.budget \in 0 .. MaxSteps
      BY DEF IInv, TypeOK, Types, Chase
    <2> QED BY <1>1, <2>1, <2>2 DEF IInv, Counted, Others
  <1> QED BY <1>2, <1>3, <1>4 DEF IInv

\* The stepper comes to store what ends a chase.
LEMMA EndStep ==
    ASSUME IInv, Others, UNCHANGED chase,
           stepper'.pc = "store", stepper'.seen \in Seen, stepper'.button = "none",
           stepper' = [pc |-> stepper'.pc, seen |-> stepper'.seen, todo |-> stepper'.todo,
                       button |-> stepper'.button],
           stepper'.todo \in Seq(Stores), stepper'.todo # << >>
    PROVE  IInv'
  <1> USE ChaseAssumption
  <1>1. TypeOK' /\ Types'
    BY DEF IInv, TypeOK, Types, Others, StepperPcs
  <1>2. \A i \in 1 .. Len(stepper'.todo) : stepper'.todo[i][1] # "budget"
    <2>1. \A w \in Stores : w[1] # "budget"
      BY DEF Stores
    <2> QED BY <2>1, ElementOfSeq
  <1>3. Todo'
    <2>1. stepper'.todo \in Seq(StepperStoreSet)
      BY SeqMonotonic DEF StepperStoreSet
    <2> QED BY <1>2, <2>1 DEF Todo
  <1>4. Counted'
    <2>1. Owed' = 0 /\ (Owed = 0 \/ Owed = 1)
      BY DEF Owed
    <2>2. presses \in Nat /\ chase.budget \in 0 .. MaxSteps
      BY DEF IInv, TypeOK, Types, Chase
    <2> QED BY <1>2, <2>1, <2>2 DEF IInv, Counted, Others
  <1> QED BY <1>1, <1>3, <1>4 DEF IInv

\* What the stepper does before it looks at the budget.
LEMMA WaitStep ==
    ASSUME IInv, \/ StepperStops \/ StepperWaits \/ StepperBlocks \/ StepperPaces
                 \/ StepperWakes \/ StepperChecks \/ StepperAsksLink
    PROVE  IInv'
  <1>1. Others /\ UNCHANGED chase
    BY DEF StepperStops, StepperWaits, StepperBlocks, StepperPaces, StepperWakes,
           StepperChecks, StepperAsksLink
  <1>2. CASE StepperAsksLink /\ ~lms.alive
    <2>1. stepper' = [stepper EXCEPT !.pc = "store", !.todo = << <<"pending", FALSE>> >>]
      BY <1>2 DEF StepperAsksLink
    <2>2. << <<"pending", FALSE>> >> \in Seq(Stores) /\ << <<"pending", FALSE>> >> # << >>
      <3>1. <<"pending", FALSE>> \in Stores
        BY DEF Stores
      <3> QED BY <3>1
    <2>3. At("link")
      BY <1>2 DEF StepperAsksLink
    <2>4. stepper.button = "none" /\ stepper.seen \in Seen
      BY <2>3 DEF IInv, Types, Todo, At
    <2>5. /\ stepper'.pc = "store" /\ stepper'.seen \in Seen /\ stepper'.button = "none"
          /\ stepper'.todo = << <<"pending", FALSE>> >>
          /\ stepper' = [pc |-> stepper'.pc, seen |-> stepper'.seen, todo |-> stepper'.todo,
                         button |-> stepper'.button]
      BY <2>1, <2>4 DEF IInv, Types
    <2> QED BY <1>1, <2>2, <2>5, EndStep
  <1>3. CASE StepperStops
    BY <1>1, <1>3, QuietStep DEF StepperStops, At
  <1>4. CASE StepperWaits
    BY <1>1, <1>4, QuietStep DEF StepperWaits, GoTo, At
  <1>5. CASE StepperBlocks \/ StepperWakes
    BY <1>1, <1>5, QuietStep DEF StepperBlocks, StepperWakes, GoTo, At
  <1>6. CASE StepperPaces
    BY <1>1, <1>6, QuietStep DEF StepperPaces, GoTo, At
  <1>7. CASE StepperChecks
    BY <1>1, <1>7, QuietStep DEF StepperChecks, GoTo, At
  <1>8. CASE StepperAsksLink /\ lms.alive
    BY <1>1, <1>8, QuietStep DEF StepperAsksLink, At
  <1> QED BY <1>2, <1>3, <1>4, <1>5, <1>6, <1>7, <1>8

\* The loads: the budget comes last, and counts when the stepper decides.
LEMMA LoadStep ==
    ASSUME IInv, StepperPacesAgain \/ StepperLoads
    PROVE  IInv'
  <1> USE ChaseAssumption
  <1>1. Others /\ UNCHANGED chase
    BY DEF StepperPacesAgain, StepperLoads
  <1>2. chase \in Chase /\ stepper.seen \in Seen /\ Owed = 0 /\ stepper.button = "none"
    BY DEF IInv, Types, Todo, Owed, StepperPacesAgain, StepperLoads, At
  <1>3. CASE StepperPacesAgain /\ chase.last = "recent"
    BY <1>1, <1>3, QuietStep DEF StepperPacesAgain, At
  <1>4. CASE StepperPacesAgain /\ chase.last # "recent"
    <2> DEFINE todo == <<"target", "slider", "dir", "budget">>
    <2>1. stepper' = [stepper EXCEPT !.pc = "load", !.seen.last = chase.last, !.todo = todo]
      BY <1>4 DEF StepperPacesAgain
    <2>2. todo \in Seq(Loads) /\ todo # << >> /\ todo[Len(todo)] = "budget"
      BY DEF Loads
    <2> HIDE DEF todo
    <2>3. [stepper.seen EXCEPT !.last = chase.last] \in Seen
      BY <1>2 DEF Seen, Chase
    <2>4. /\ stepper'.pc = "load" /\ stepper'.todo = todo /\ stepper'.button = "none"
          /\ stepper'.seen \in Seen
          /\ stepper' = [pc |-> stepper'.pc, seen |-> stepper'.seen, todo |-> stepper'.todo,
                         button |-> stepper'.button]
      BY <1>2, <2>1, <2>3 DEF IInv, Types
    <2>5. TypeOK' /\ Types'
      BY <1>1, <2>4 DEF IInv, TypeOK, Types, Others, StepperPcs
    <2>6. Todo' /\ Counted'
      BY <1>1, <1>2, <2>2, <2>4 DEF IInv, Todo, Counted, Owed, Others
    <2> QED BY <2>5, <2>6 DEF IInv
  <1>5. CASE StepperLoads
    <2> DEFINE next == Head(stepper.todo)
    <2>1. /\ stepper.pc = "load"
          /\ stepper' = [stepper EXCEPT !.seen[next] = chase[next], !.todo = Tail(@),
                         !.pc = IF Len(stepper.todo) = 1 THEN "decide" ELSE "load"]
      BY <1>5 DEF StepperLoads, At
    <2>2. /\ stepper.todo \in Seq(Loads) /\ stepper.todo # << >>
          /\ stepper.todo[Len(stepper.todo)] = "budget"
      BY <2>1 DEF IInv, Todo
    <2>3. /\ next \in Loads /\ next = stepper.todo[1]
          /\ Tail(stepper.todo) \in Seq(Loads) /\ Len(stepper.todo) \in Nat \ {0}
          /\ Len(Tail(stepper.todo)) = Len(stepper.todo) - 1
          /\ \A i \in 1 .. Len(stepper.todo) - 1 : Tail(stepper.todo)[i] = stepper.todo[i + 1]
          /\ Tail(stepper.todo) = << >> <=> Len(stepper.todo) = 1
      BY <2>2, TailOf
    <2> DEFINE seen == [stepper.seen EXCEPT ![next] = chase[next]]
    <2> HIDE DEF next
    <2>4. seen \in Seen /\ (next = "budget" => seen.budget = chase.budget)
      BY <1>2, <2>3 DEF Seen, Chase, Loads
    <2> HIDE DEF seen
    <2>5. /\ stepper'.pc = IF Len(stepper.todo) = 1 THEN "decide" ELSE "load"
          /\ stepper'.seen = seen /\ stepper'.todo = Tail(stepper.todo)
          /\ stepper'.button = "none"
          /\ stepper' = [pc |-> stepper'.pc, seen |-> stepper'.seen, todo |-> stepper'.todo,
                         button |-> stepper'.button]
      BY <1>2, <2>1 DEF IInv, Types, seen
    <2>6. TypeOK' /\ Types'
      BY <1>1, <2>4, <2>5 DEF IInv, TypeOK, Types, Others, StepperPcs
    <2>7. Todo'
      <3>1. CASE Len(stepper.todo) = 1
        BY <2>5, <3>1 DEF Todo
      <3>2. CASE Len(stepper.todo) # 1
        <4>1. Tail(stepper.todo)[Len(Tail(stepper.todo))] = "budget"
          BY <2>2, <2>3, <3>2
        <4> QED BY <2>3, <2>5, <3>2, <4>1 DEF Todo
      <3> QED BY <3>1, <3>2
    <2>8. Counted'
      <3>1. Owed' = 0 /\ stepper'.pc # "store"
        BY <2>5 DEF Owed
      <3>2. stepper'.pc = "decide" => stepper'.seen.budget = chase.budget
        BY <2>2, <2>3, <2>4, <2>5
      <3>3. presses + 0 + chase.budget <= MaxSteps + 1
        BY <1>2 DEF IInv, Counted
      <3>4. presses \in Nat /\ chase.budget \in Nat
        BY <1>2 DEF IInv, TypeOK, Chase
      <3> QED BY <1>1, <3>1, <3>2, <3>3, <3>4 DEF Counted, Others
    <2> QED BY <2>6, <2>7, <2>8 DEF IInv
  <1> QED BY <1>3, <1>4, <1>5

\* The stores of a press: five, the budget the second.
LEMMA PressStoresType ==
    ASSUME NEW seen \in Seen, seen.budget > 0, NEW button \in {"up", "down"},
           chase \in Chase
    PROVE  LET todo == PressStores(seen, button)
           IN  /\ todo \in Seq(StepperStoreSet) /\ todo # << >> /\ Len(todo) = 5
               /\ \A i \in 1 .. 5 : todo[i][1] = "budget" <=> i = 2
               /\ todo[2][2] = seen.budget - 1
  <1> USE ChaseAssumption
  <1>1. Stall(seen) \in Nat
    BY DEF Stall, Chase
  <1>2. /\ <<"stall", Stall(seen)>> \in StepperStoreSet
        /\ <<"budget", seen.budget - 1>> \in StepperStoreSet
        /\ <<"dir", IF button = "up" THEN 1 ELSE -1>> \in StepperStoreSet
        /\ <<"last", "recent">> \in StepperStoreSet
        /\ <<"lastLms", seen.slider>> \in StepperStoreSet
    <2>1. <<"stall", Stall(seen)>> \in StepperStoreSet
      BY <1>1 DEF StepperStoreSet, Stores
    <2>2. <<"budget", seen.budget - 1>> \in StepperStoreSet
      BY DEF StepperStoreSet, Seen
    <2>3. <<"dir", IF button = "up" THEN 1 ELSE -1>> \in StepperStoreSet
      BY DEF StepperStoreSet, Stores, Dirs
    <2>4. <<"last", "recent">> \in StepperStoreSet
      BY DEF StepperStoreSet, Stores
    <2>5. <<"lastLms", seen.slider>> \in StepperStoreSet
      BY DEF StepperStoreSet, Stores, Seen
    <2> QED BY <2>1, <2>2, <2>3, <2>4, <2>5
  <1> HIDE DEF StepperStoreSet
  <1>3. PressStores(seen, button) \in Seq(StepperStoreSet)
    BY <1>2 DEF PressStores
  <1>4. /\ PressStores(seen, button) # << >> /\ Len(PressStores(seen, button)) = 5
        /\ PressStores(seen, button)[1] = <<"stall", Stall(seen)>>
        /\ PressStores(seen, button)[2] = <<"budget", seen.budget - 1>>
        /\ PressStores(seen, button)[3] = <<"dir", IF button = "up" THEN 1 ELSE -1>>
        /\ PressStores(seen, button)[4] = <<"last", "recent">>
        /\ PressStores(seen, button)[5] = <<"lastLms", seen.slider>>
    BY DEF PressStores
  <1>5. \A i \in 1 .. 5 : i = 1 \/ i = 2 \/ i = 3 \/ i = 4 \/ i = 5
    BY SMT
  <1> QED BY <1>3, <1>4, <1>5

\* The decision: a press is only begun with budget left.
LEMMA DecideStep ==
    ASSUME IInv, StepperDecides
    PROVE  IInv'
  <1> USE ChaseAssumption
  <1> DEFINE nudge == DecideVolumeNudge(stepper.seen)
             stall == Stall(stepper.seen)
  <1>1. Others /\ UNCHANGED chase /\ stepper.pc = "decide"
    BY DEF StepperDecides, At
  <1>2. chase \in Chase /\ stepper.seen \in Seen /\ Owed = 0
    BY <1>1 DEF IInv, Types, Owed
  <1>3. stall \in Nat
    BY <1>2 DEF Stall, Chase
  <1>4. nudge \in {"up", "down"} => stepper.seen.budget > 0
    BY <1>2 DEF DecideVolumeNudge, Seen
  <1>5. NothingSeen \in Seen
    BY DEF NothingSeen, Seen, Slider, Dirs, Lasts
  <1>6. \/ /\ nudge \in {"up", "down"} /\ stall < MaxStall
           /\ stepper' = [IdleStepper EXCEPT !.pc = "store", !.button = nudge,
                          !.todo = PressStores(stepper.seen, nudge)]
        \/ stepper' = [IdleStepper EXCEPT !.pc = "store",
                       !.todo = << <<"stall", stall>>, <<"pending", FALSE>> >>]
        \/ stepper' = [IdleStepper EXCEPT !.pc = "store", !.todo = << <<"pending", FALSE>> >>]
        \/ stepper' = IdleStepper
    BY DEF StepperDecides
  <1> HIDE DEF NothingSeen, nudge, stall
  <1>7. CASE stepper' = IdleStepper
    <2>1. IdleStepper = [IdleStepper EXCEPT !.pc = "wait"]
      BY DEF IdleStepper
    <2> QED BY <1>1, <1>7, <2>1, QuietStep
  <1>8. ASSUME NEW todo \in Seq(Stores), todo # << >>,
               stepper' = [IdleStepper EXCEPT !.pc = "store", !.todo = todo]
        PROVE  IInv'
    <2>1. /\ stepper'.pc = "store" /\ stepper'.seen \in Seen /\ stepper'.button = "none"
          /\ stepper'.todo = todo
          /\ stepper' = [pc |-> stepper'.pc, seen |-> stepper'.seen, todo |-> stepper'.todo,
                         button |-> stepper'.button]
      BY <1>5, <1>8 DEF IdleStepper
    <2> QED BY <1>1, <1>8, <2>1, EndStep
  <1>9. /\ << <<"stall", stall>>, <<"pending", FALSE>> >> \in Seq(Stores)
        /\ << <<"pending", FALSE>> >> \in Seq(Stores)
    <2>1. <<"stall", stall>> \in Stores /\ <<"pending", FALSE>> \in Stores
      BY <1>3 DEF Stores
    <2> QED BY <2>1
  <1>10. CASE nudge \in {"up", "down"} /\ stepper' =
               [IdleStepper EXCEPT !.pc = "store", !.button = nudge,
                                   !.todo = PressStores(stepper.seen, nudge)]
    <2> DEFINE todo == PressStores(stepper.seen, nudge)
    <2>1. /\ todo \in Seq(StepperStoreSet) /\ todo # << >> /\ Len(todo) = 5
          /\ \A i \in 1 .. 5 : todo[i][1] = "budget" <=> i = 2
          /\ todo[2][2] = stepper.seen.budget - 1
      BY <1>2, <1>4, <1>10, PressStoresType
    <2>2. /\ stepper'.pc = "store" /\ stepper'.seen \in Seen /\ stepper'.button = nudge
          /\ stepper'.todo = todo
          /\ stepper' = [pc |-> stepper'.pc, seen |-> stepper'.seen, todo |-> stepper'.todo,
                         button |-> stepper'.button]
      BY <1>5, <1>10 DEF IdleStepper
    <2> HIDE DEF todo
    <2>3. TypeOK' /\ Types'
      BY <1>1, <1>10, <2>2 DEF IInv, TypeOK, Types, Others, StepperPcs
    <2>4. Todo'
      <3>1. \A i \in 1 .. 5 : todo[i][1] = "budget" <=> i = 5 - 3
        BY <2>1
      <3>2. stepper'.button # "none"
        BY <1>10, <2>2
      <3> QED BY <2>1, <2>2, <3>1, <3>2 DEF Todo
    <2>5. Counted'
      <3>1. Owed' = 0
        <4>1. Len(stepper'.todo) = 5
          <5>1. stepper'.todo = todo
            BY <2>2
          <5> QED BY <2>1, <5>1
        <4> QED BY <2>2, <4>1 DEF Owed
      <3>2. presses \in Nat /\ stepper.seen.budget \in Nat
        BY <1>2 DEF IInv, TypeOK, Seen
      <3>3. presses + stepper.seen.budget <= MaxSteps + 1
        BY <1>1 DEF IInv, Counted
      <3>4. \A i \in 1 .. Len(todo) : todo[i][1] = "budget" => presses + todo[i][2] <= MaxSteps
        <4> SUFFICES ASSUME NEW i \in 1 .. Len(todo), todo[i][1] = "budget"
                     PROVE  presses + todo[i][2] <= MaxSteps
          OBVIOUS
        <4>1. i = 2
          BY <2>1
        <4>2. todo[i][2] = stepper.seen.budget - 1
          BY <2>1, <4>1
        <4>3. MaxSteps \in Nat
          BY ChaseAssumption
        <4> QED BY <3>2, <3>3, <4>2, <4>3
      <3> QED BY <1>1, <1>2, <2>2, <3>1, <3>4 DEF IInv, Counted, Others
    <2> QED BY <2>3, <2>4, <2>5 DEF IInv
  <1> QED
    <2>1. << <<"stall", stall>>, <<"pending", FALSE>> >> # << >> /\ << <<"pending", FALSE>> >> # << >>
      OBVIOUS
    <2> QED BY <1>6, <1>7, <1>8, <1>9, <1>10, <2>1

\* One store of the stepper.  The one of the budget turns what it held into
\* what is left, and owes a press.
LEMMA StoreStep ==
    ASSUME IInv, StepperStores
    PROVE  IInv'
  <1> USE ChaseAssumption
  <1> DEFINE next == Head(stepper.todo)
             n == Len(stepper.todo)
  <1>1. /\ stepper.pc = "store" /\ Others
        /\ chase' = [chase EXCEPT ![next[1]] = next[2]]
        /\ stepper' = CASE n > 1 -> [stepper EXCEPT !.todo = Tail(@)]
                        [] n = 1 /\ stepper.button # "none" ->
                             [stepper EXCEPT !.pc = "press", !.todo = << >>]
                        [] OTHER -> IdleStepper
    BY DEF StepperStores, At
  <1>2. /\ stepper.todo \in Seq(StepperStoreSet) /\ stepper.todo # << >>
        /\ \A i \in 1 .. n : stepper.todo[i][1] = "budget" <=>
                                stepper.button # "none" /\ i = n - 3
    BY <1>1 DEF IInv, Todo
  <1>3. /\ next \in StepperStoreSet /\ next = stepper.todo[1] /\ n \in Nat \ {0}
        /\ Tail(stepper.todo) \in Seq(StepperStoreSet)
        /\ Len(Tail(stepper.todo)) = n - 1
        /\ \A i \in 1 .. n - 1 : Tail(stepper.todo)[i] = stepper.todo[i + 1]
        /\ Tail(stepper.todo) = << >> <=> n = 1
    BY <1>2, TailOf
  <1> HIDE DEF next, n
  <1>4. chase' \in Chase
        /\ chase'.budget = IF next[1] = "budget" THEN next[2] ELSE chase.budget
    BY <1>1, <1>3, OneStore DEF IInv, Types
  <1>5. NothingSeen \in Seen
    BY DEF NothingSeen, Seen, Slider, Dirs, Lasts
  <1>6. /\ stepper'.seen \in Seen /\ stepper'.button \in {"none", "up", "down"}
        /\ stepper'.pc \in {"store", "press", "wait"}
        /\ stepper'.pc = "store" => /\ n > 1 /\ stepper'.todo = Tail(stepper.todo)
                                    /\ stepper'.button = stepper.button
        /\ stepper'.pc = "press" => n = 1 /\ stepper.button # "none"
                                    /\ stepper'.button = stepper.button
        /\ stepper'.pc = "wait" => n = 1 /\ stepper.button = "none" /\ stepper'.button = "none"
        /\ stepper' = [pc |-> stepper'.pc, seen |-> stepper'.seen, todo |-> stepper'.todo,
                       button |-> stepper'.button]
    <2> HIDE DEF NothingSeen
    <2>1. CASE n > 1
      <3>1. stepper' = [stepper EXCEPT !.todo = Tail(@)]
        BY <1>1, <2>1
      <3> QED BY <1>1, <2>1, <3>1 DEF IInv, Types
    <2>2. CASE n = 1 /\ stepper.button # "none"
      <3>1. stepper' = [stepper EXCEPT !.pc = "press", !.todo = << >>]
        BY <1>1, <2>2
      <3> QED BY <1>1, <2>2, <3>1 DEF IInv, Types
    <2>3. CASE n = 1 /\ stepper.button = "none"
      <3>1. stepper' = IdleStepper
        BY <1>1, <2>3
      <3> QED BY <1>5, <2>3, <3>1 DEF IdleStepper
    <2> QED BY <1>3, <2>1, <2>2, <2>3
  <1>7. TypeOK' /\ Types'
    <2>1. /\ chase'.target \in Slider /\ chase'.slider \in Slider
          /\ chase'.remembered \in Slider /\ chase'.stall \in Nat
          /\ chase'.pending \in BOOLEAN /\ chase'.dir \in {-1, 0, 1}
          /\ chase'.stopping \in {"no", "cleared", "requested"}
          /\ chase'.last \in {"zero", "recent", "due"}
          /\ chase'.budget <= MaxSteps
      BY <1>4 DEF Chase, Dirs, Lasts
    <2> QED BY <1>1, <1>4, <1>6, <2>1 DEF IInv, TypeOK, Types, Others, StepperPcs
  <1>8. Todo'
    <2>1. CASE stepper'.pc = "store"
      <3>1. \A i \in 1 .. n - 1 : Tail(stepper.todo)[i][1] = "budget" <=>
                                     stepper.button # "none" /\ i = (n - 1) - 3
        BY <1>2, <1>3 DEF n
      <3>2. \A i \in 1 .. Len(stepper'.todo) :
               stepper'.todo[i][1] = "budget" <=>
                   stepper'.button # "none" /\ i = Len(stepper'.todo) - 3
        BY <1>3, <1>6, <2>1, <3>1
      <3>3. stepper'.todo # << >>
        BY <1>3, <1>6, <2>1
      <3> QED BY <1>3, <1>6, <2>1, <3>2, <3>3 DEF Todo
    <2>2. CASE stepper'.pc # "store"
      BY <1>6, <2>2 DEF Todo
    <2> QED BY <2>1, <2>2
  <1>9. Counted'
    <2>1. presses' = presses /\ presses \in Nat /\ chase.budget \in Nat
      BY <1>1 DEF IInv, TypeOK, Types, Others, Chase
    <2>2. presses + Owed + chase.budget <= MaxSteps + 1
      BY DEF IInv, Counted
    <2>3. next[1] = "budget" <=> stepper.button # "none" /\ n = 4
      <3>1. 1 \in 1 .. n
        BY <1>3
      <3>2. stepper.todo[1][1] = "budget" <=> stepper.button # "none" /\ 1 = n - 3
        BY <1>2, <3>1
      <3> QED BY <1>3, <3>2
    <2>4. next[1] = "budget" => presses + next[2] <= MaxSteps /\ next[2] \in Nat
      <3>1. next[1] = "budget" => next[2] \in Nat
        BY <1>3 DEF StepperStoreSet, Stores
      <3>2. 1 \in 1 .. Len(stepper.todo)
        BY <1>3 DEF n
      <3> QED BY <1>1, <1>3, <3>1, <3>2 DEF IInv, Counted
    <2>5. presses' + Owed' + chase'.budget <= MaxSteps + 1
      <3>1. Owed' = IF \/ stepper'.pc = "press"
                       \/ stepper'.pc = "store" /\ stepper.button # "none" /\ n - 1 < 4
                    THEN 1 ELSE 0
        BY <1>3, <1>6 DEF Owed
      <3>2. Owed = IF stepper.button # "none" /\ n < 4 THEN 1 ELSE 0
        BY <1>1 DEF Owed, n
      <3>3. CASE next[1] = "budget"
        <4>1. Owed' = 1 \/ Owed' = 0
          BY <3>1
        <4> QED BY <1>4, <2>1, <2>4, <3>3, <4>1
      <3>4. CASE next[1] # "budget"
        <4>1. Owed' = Owed
          BY <1>3, <1>6, <2>3, <3>1, <3>2, <3>4
        <4> QED BY <1>4, <2>1, <2>2, <3>4, <4>1
      <3> QED BY <3>3, <3>4
    <2>6. stepper'.pc # "decide"
      BY <1>6
    <2>7. ASSUME stepper'.pc = "store", NEW i \in 1 .. Len(stepper'.todo),
                 stepper'.todo[i][1] = "budget"
          PROVE  presses' + stepper'.todo[i][2] <= MaxSteps
      <3>1. stepper'.todo = Tail(stepper.todo) /\ i \in 1 .. n - 1
        BY <1>3, <1>6, <2>7
      <3>2. i + 1 \in 1 .. n
        BY <1>3, <3>1
      <3>3. stepper'.todo[i] = stepper.todo[i + 1] /\ i + 1 \in 1 .. Len(stepper.todo)
        BY <1>3, <3>1, <3>2 DEF n
      <3> QED BY <1>1, <2>1, <2>7, <3>3 DEF IInv, Counted
    <2> QED BY <2>5, <2>6, <2>7 DEF Counted
  <1> QED BY <1>7, <1>8, <1>9 DEF IInv

\* The press that was owed is counted.
LEMMA PressStep ==
    ASSUME IInv, StepperPresses
    PROVE  IInv'
  <1> USE ChaseAssumption
  <1>1. /\ stepper.pc = "press" /\ presses' = presses + 1 /\ stepper' = IdleStepper
        /\ UNCHANGED <<mode, reader, driver, chase, calm, events>>
    BY DEF StepperPresses, At
  <1>2. lms \in Link /\ stepper.button \in {"up", "down"} /\ presses \in Nat
    BY <1>1 DEF IInv, TypeOK, Types, Todo
  <1>3. lms' \in Link
    <2>1. Append(lms.buttons, stepper.button) \in Seq({"up", "down"})
      BY <1>2 DEF Link
    <2> QED BY <1>2, <2>1 DEF Link, StepperPresses
  <1>4. NothingSeen \in Seen
    BY DEF NothingSeen, Seen, Slider, Dirs, Lasts
  <1> HIDE DEF NothingSeen
  <1>5. stepper'.pc = "wait" /\ stepper'.seen \in Seen /\ stepper'.button = "none"
        /\ stepper' = [pc |-> stepper'.pc, seen |-> stepper'.seen, todo |-> stepper'.todo,
                       button |-> stepper'.button]
    BY <1>1, <1>4 DEF IdleStepper
  <1>6. TypeOK' /\ Types' /\ Todo'
    BY <1>1, <1>2, <1>3, <1>5 DEF IInv, TypeOK, Types, Todo, Link, StepperPcs
  <1>7. Counted'
    <2>1. Owed = 1 /\ Owed' = 0
      BY <1>1, <1>5 DEF Owed
    <2>2. chase.budget \in Nat
      BY DEF IInv, Types, Chase
    <2> QED BY <1>1, <1>2, <1>5, <2>1, <2>2 DEF IInv, Counted
  <1> QED BY <1>6, <1>7 DEF IInv

-----------------------------------------------------------------------------
\* IInv is inductive.
LEMMA StepInv == IInv /\ [Next]_vars => IInv'
  <1> SUFFICES ASSUME IInv, [Next]_vars PROVE IInv'
    OBVIOUS
  <1>1. CASE UNCHANGED vars
    BY <1>1 DEF IInv, TypeOK, Types, Todo, Counted, Owed, vars
  <1>2. CASE Stepper
    BY <1>2, WaitStep, LoadStep, DecideStep, StoreStep, PressStep DEF Stepper
  <1>3. CASE Next /\ ~Stepper
    BY <1>3, LinkStep, AtomicStep, DriverStep DEF Next
  <1> QED BY <1>1, <1>2, <1>3

\* Every reachable state satisfies the inductive invariant.
THEOREM Invariance == Spec => []IInv
  BY InitInv, StepInv, PTL DEF Spec

\* The atomics stay in their ranges, and the budget of a chase never exceeds
\* kMaxSteps, however the threads' stores are mixed.
THEOREM TypeCorrect == Spec => []TypeOK
  <1>1. IInv => TypeOK BY DEF IInv
  <1> QED BY <1>1, Invariance, PTL

\* A receiver change costs LMS at most kMaxSteps presses, and one that was
\* under way when it came, for every limit and every interleaving of the two
\* threads' stores.
THEOREM PressesAreBounded == Spec => []PressesBounded
  <1>1. IInv => PressesBounded
    <2> SUFFICES ASSUME IInv PROVE PressesBounded
      OBVIOUS
    <2>1. presses \in Nat /\ chase.budget \in Nat /\ (Owed = 0 \/ Owed = 1)
      BY DEF IInv, TypeOK, Types, Chase, Owed
    <2>2. presses + Owed + chase.budget <= MaxSteps + 1
      BY DEF IInv, Counted
    <2> QED BY <2>1, <2>2, ChaseAssumption DEF PressesBounded
  <1> QED BY <1>1, Invariance, PTL
=============================================================================
