----------------------------- MODULE VolumeChase -----------------------------
(***************************************************************************)
(* The receiver's own volume chased by LMS (VolumeController, second half).*)
(* The receiver reports a new volume on the sender's event thread; a       *)
(* stepper thread then presses LMS's volume buttons until the slider that  *)
(* LMS pushes back, on the slimproto reader thread, is near the target.    *)
(* The three threads share atomics, stored and loaded one at a time.  A    *)
(* slider value stands for the AirPlay percent VolumeAnchors makes of it.  *)
(***************************************************************************)
EXTENDS Integers, Sequences

CONSTANTS
    MaxSlider,      \* the slider's range is 0 .. MaxSlider
    Reports,        \* the sliders the receiver may report
    Users,          \* the sliders an LMS user may choose
    Moves,          \* how far a button press may move the slider
    Tolerance,      \* kTolerancePct
    EchoTolerance,  \* kEchoTolerancePct
    MaxSteps,       \* kMaxSteps
    MaxStall,       \* kMaxStall
    MaxEvents,      \* bound: volume changes and link events in a behaviour
    Worlds,         \* the worlds explored, calm (TRUE) or not: see Settled
    Modes           \* the volume modes a player may have

ASSUME ChaseAssumption ==
    /\ MaxSlider \in Nat \ {0} /\ MaxSteps \in Nat \ {0} /\ MaxStall \in Nat \ {0}
    /\ MaxEvents \in Nat /\ Worlds \subseteq BOOLEAN
    /\ Tolerance \in Nat /\ EchoTolerance \in Nat
    /\ Reports \subseteq 0 .. MaxSlider /\ Users \subseteq 0 .. MaxSlider
    /\ Moves \subseteq 0 .. MaxSlider
    /\ Modes \subseteq {"Lms", "Fixed"}

VARIABLES
    mode,           \* volumeMode_
    lms,            \* LMS: its slider, the presses and the AUDG under way, the link
    reader,         \* onLmsVolume on the reader thread
    driver,         \* onReceiverVolume on the sender's event thread
    stepper,        \* thread_
    chase,          \* the atomics
    presses,        \* history: presses since the budget was last set
    calm,           \* what this behaviour explores: see Settled
    events          \* volume changes and link events so far

vars == <<mode, lms, reader, driver, stepper, chase, presses, calm, events>>

Slider == 0 .. MaxSlider
NoAudg == -1

StepperPcs == {"wait", "block", "asleep", "pace", "nap", "check", "link", "window",
               "load", "decide", "store", "press", "done"}

TypeOK ==
    /\ mode \in Modes /\ calm \in Worlds
    /\ lms.slider \in Slider /\ lms.audg \in Slider \cup {NoAudg} /\ lms.alive \in BOOLEAN
    /\ lms.buttons \in Seq({"up", "down"})
    /\ reader \in [pc : {"idle", "remember"}, slider : Slider]
    /\ driver.pc \in {"idle", "store", "notify"}
    /\ stepper.pc \in StepperPcs
    /\ chase.target \in Slider /\ chase.slider \in Slider /\ chase.remembered \in Slider
    /\ chase.pending \in BOOLEAN /\ chase.stopping \in {"no", "cleared", "requested"}
    /\ chase.dir \in {-1, 0, 1} /\ chase.budget <= MaxSteps
    /\ chase.stall \in Nat
    /\ chase.last \in {"zero", "recent", "due"}
    /\ presses \in Nat /\ events \in 0 .. MaxEvents

Dist(a, b) == IF a > b THEN a - b ELSE b - a

-----------------------------------------------------------------------------
(* LMS and the link to it.  External to the code, but for onLmsVolume.     *)

NothingSeen == [target |-> 0, slider |-> 0, dir |-> 0, budget |-> 0, last |-> "zero"]

IdleReader  == [pc |-> "idle", slider |-> 0]
IdleDriver  == [pc |-> "idle", todo |-> << >>]
IdleStepper == [pc |-> "wait", seen |-> NothingSeen, todo |-> << >>, button |-> "none"]

LmsIdle == lms.buttons = << >> /\ lms.audg = NoAudg /\ reader.pc = "idle"

\* A calm world is one in which nobody touches the volume, and the link stays
\* up, while a chase goes on; what happens next finds the stepper asleep, and
\* every press moves the slider, within a press window; no greeting mutes.
Settled == driver.pc = "idle" /\ ~chase.pending /\ LmsIdle /\ stepper.pc = "asleep"
MayAct  == (calm => Settled) /\ events < MaxEvents

\* LMS takes a press and pushes the slider it leads to.
LmsSteps ==
    /\ lms.buttons # << >> /\ lms.audg = NoAudg
    /\ \E move \in IF calm THEN Moves \ {0} ELSE Moves :
          LET to == IF Head(lms.buttons) = "up" THEN lms.slider + move
                    ELSE lms.slider - move
              at == IF to > MaxSlider THEN MaxSlider ELSE IF to < 0 THEN 0 ELSE to
          IN lms' = [lms EXCEPT !.buttons = Tail(@), !.slider = at, !.audg = at]
    /\ UNCHANGED <<mode, reader, driver, stepper, chase, presses, calm, events>>

\* Somebody moves the slider in LMS.
LmsUser ==
    /\ MayAct /\ lms.alive /\ lms.audg = NoAudg
    /\ \E at \in Users \ {lms.slider} : lms' = [lms EXCEPT !.slider = at, !.audg = at]
    /\ UNCHANGED <<mode, reader, driver, stepper, chase, presses, calm>>
    /\ events' = events + 1

\* The link breaks: what is under way is lost.
LinkBreaks ==
    /\ MayAct /\ lms.alive
    /\ lms' = [lms EXCEPT !.alive = FALSE, !.buttons = << >>, !.audg = NoAudg]
    /\ UNCHANGED <<mode, reader, driver, stepper, chase, presses, calm>>
    /\ events' = events + 1

\* LMS greets a player with its volume, or with a mute.
LinkReturns ==
    /\ MayAct /\ ~lms.alive
    /\ \E at \in {lms.slider} \cup (IF calm THEN {} ELSE {0}) : lms' = [lms EXCEPT !.alive = TRUE, !.audg = at]
    /\ UNCHANGED <<mode, reader, driver, stepper, chase, presses, calm>>
    /\ events' = events + 1

\* onLmsVolume: store the slider, and in lms mode
OnLmsVolume ==
    /\ lms.audg # NoAudg /\ reader.pc = "idle"
    /\ chase' = [chase EXCEPT !.slider = lms.audg]
    /\ reader' = IF mode = "Lms" THEN [pc |-> "remember", slider |-> lms.audg]
                 ELSE IdleReader
    /\ lms' = [lms EXCEPT !.audg = NoAudg]
    /\ UNCHANGED <<mode, driver, stepper, presses, calm, events>>

\* remember an audible level.
Remember ==
    /\ reader.pc = "remember"
    /\ chase' = [chase EXCEPT !.remembered = IF reader.slider > 0 THEN reader.slider ELSE @]
    /\ reader' = IdleReader
    /\ UNCHANGED <<mode, lms, driver, stepper, presses, calm, events>>

-----------------------------------------------------------------------------
(* The sender's event thread: onReceiverVolume.                            *)

Echo(p) == chase.remembered > 0 /\ Dist(p, chase.remembered) <= EchoTolerance

\* Mutant: a new target buys one press more than kMaxSteps.
ChaseStores_OffByOne(p) ==
    << <<"target", p>>, <<"dir", 0>>, <<"budget", MaxSteps + 1>>, <<"stall", 0>>,
       <<"last", "zero">>, <<"pending", TRUE>> >>

\* The stores a new target needs, in the code's order.  Mutant: the direction
\* of the chase before is kept.
ChaseStores_KeepsDir(p) ==
    << <<"target", p>>, <<"budget", MaxSteps>>, <<"stall", 0>>,
       <<"last", "zero">>, <<"pending", TRUE>> >>

ChaseStores(p) ==
    << <<"target", p>>, <<"dir", 0>>, <<"budget", MaxSteps>>, <<"stall", 0>>,
       <<"last", "zero">>, <<"pending", TRUE>> >>

\* The receiver reports a volume that is neither ignored nor our own echo: a
\* target near enough only ends the chase, any other starts one.
OnReceiverVolume ==
    /\ MayAct /\ driver.pc = "idle" /\ mode = "Lms"
    /\ \E p \in Reports :
          /\ ~Echo(p)
          /\ driver' = [pc |-> "store",
                        todo |-> IF Dist(p, chase.slider) < Tolerance
                                 THEN << <<"pending", FALSE>> >> ELSE ChaseStores(p)]
    /\ UNCHANGED <<mode, lms, reader, stepper, chase, presses, calm>>
    /\ events' = events + 1

\* The atomics are stored one by one,
DriverStores ==
    /\ driver.pc = "store"
    /\ LET next == Head(driver.todo) IN
          /\ chase' = [chase EXCEPT ![next[1]] = next[2]]
          /\ presses' = IF next[1] = "budget" THEN 0 ELSE presses
    /\ driver' = [driver EXCEPT !.todo = Tail(@),
                  !.pc = IF Tail(driver.todo) = << >> THEN "notify" ELSE "store"]
    /\ UNCHANGED <<mode, lms, reader, stepper, calm, events>>

\* and cv_ is notified without its mutex: only a sleeper hears it.
Notify ==
    /\ driver.pc = "notify"
    /\ stepper' = IF stepper.pc = "asleep" THEN [stepper EXCEPT !.pc = "wait"] ELSE stepper
    /\ driver' = IdleDriver
    /\ UNCHANGED <<mode, lms, reader, chase, presses, calm, events>>

-----------------------------------------------------------------------------
(* The stepper thread: start()'s loop and pumpLocked().                    *)

At(pc)   == stepper.pc = pc
GoTo(pc) == stepper' = [stepper EXCEPT !.pc = pc]
Others   == UNCHANGED <<mode, lms, reader, driver, presses, calm, events>>

\* Mutant: the stop token is looked at between the waits only.
StepperStops_NoToken ==
    /\ At("wait") /\ chase.stopping = "requested"
    /\ stepper' = [IdleStepper EXCEPT !.pc = "done"]
    /\ Others /\ UNCHANGED chase

\* The stop token ends the loop at its head and wherever it waits.
StepperStops ==
    /\ At("wait") \/ At("asleep") \/ At("nap")
    /\ chase.stopping = "requested"
    /\ stepper' = [IdleStepper EXCEPT !.pc = "done"]
    /\ Others /\ UNCHANGED chase

\* cv_.wait looks at its predicate, and only then blocks.
StepperWaits ==
    /\ At("wait") /\ chase.stopping # "requested"
    /\ GoTo(IF chase.pending THEN "pace" ELSE "block")
    /\ Others /\ UNCHANGED chase

StepperBlocks == At("block") /\ GoTo("asleep") /\ Others /\ UNCHANGED chase

\* The press window: a nap to its end, then the loop again; else pumpLocked.
StepperPaces ==
    /\ At("pace")
    /\ GoTo(IF chase.last = "recent" THEN "nap" ELSE "check")
    /\ Others /\ UNCHANGED chase

\* A new target or none ends the nap early.
StepperWakes ==
    /\ At("nap") /\ (chase.last # "recent" \/ ~chase.pending)
    /\ GoTo("wait")
    /\ Others /\ UNCHANGED chase

\* pumpLocked: there may be nothing left to chase,
StepperChecks ==
    /\ At("check")
    /\ GoTo(IF chase.pending THEN "link" ELSE "wait")
    /\ Others /\ UNCHANGED chase

\* no link to press on,
StepperAsksLink ==
    /\ At("link")
    /\ stepper' = IF lms.alive THEN [stepper EXCEPT !.pc = "window"]
                  ELSE [stepper EXCEPT !.pc = "store", !.todo = << <<"pending", FALSE>> >>]
    /\ Others /\ UNCHANGED chase

\* or a press too recent (not after StepperPaces: only this thread presses);
StepperPacesAgain ==
    /\ At("window")
    /\ stepper' = IF chase.last = "recent" THEN [stepper EXCEPT !.pc = "wait"]
                  ELSE [stepper EXCEPT !.pc = "load", !.seen.last = chase.last,
                        !.todo = <<"target", "slider", "dir", "budget">>]
    /\ Others /\ UNCHANGED chase

\* the loads, one by one.
StepperLoads ==
    /\ At("load")
    /\ stepper' = [stepper EXCEPT !.seen[Head(stepper.todo)] = chase[Head(stepper.todo)],
                   !.todo = Tail(@),
                   !.pc = IF Len(stepper.todo) = 1 THEN "decide" ELSE "load"]
    /\ Others /\ UNCHANGED chase

\* decideVolumeNudge.
DecideVolumeNudge_NoBudget(seen) ==
    LET need == IF seen.target > seen.slider THEN 1 ELSE -1 IN
    IF Dist(seen.target, seen.slider) <= Tolerance THEN "Reached"
    ELSE IF seen.dir # 0 /\ need # seen.dir THEN "Overshoot"
    ELSE IF need = 1 THEN "up" ELSE "down"

DecideVolumeNudge(seen) ==
    LET need == IF seen.target > seen.slider THEN 1 ELSE -1 IN
    IF Dist(seen.target, seen.slider) <= Tolerance THEN "Reached"
    ELSE IF seen.dir # 0 /\ need # seen.dir THEN "Overshoot"
    ELSE IF seen.budget <= 0 THEN "Exhausted"
    ELSE IF need = 1 THEN "up" ELSE "down"

\* Whether the nudge ends the chase.  Mutant: a spent budget does not.
GivesUp_KeepsExhausted(nudge) == nudge \in {"Reached", "Overshoot"}
GivesUp(nudge) == nudge \in {"Reached", "Overshoot", "Exhausted"}

\* The stall guard: presses in a row that did not move LMS.
Stall(seen) ==
    IF seen.last # "zero" /\ seen.slider = chase.lastLms THEN chase.stall + 1 ELSE 0

\* The stores a press needs, in the code's order.
PressStores(seen, button) ==
    << <<"stall", Stall(seen)>>, <<"budget", seen.budget - 1>>,
       <<"dir", IF button = "up" THEN 1 ELSE -1>>, <<"last", "recent">>,
       <<"lastLms", seen.slider>> >>

StepperDecides ==
    /\ At("decide")
    /\ LET nudge == DecideVolumeNudge(stepper.seen) IN
       stepper' =
         CASE nudge \in {"up", "down"} /\ Stall(stepper.seen) < MaxStall ->
                [IdleStepper EXCEPT !.pc = "store", !.button = nudge,
                 !.todo = PressStores(stepper.seen, nudge)]
           [] nudge \in {"up", "down"} /\ Stall(stepper.seen) >= MaxStall ->
                [IdleStepper EXCEPT !.pc = "store",
                 !.todo = << <<"stall", Stall(stepper.seen)>>, <<"pending", FALSE>> >>]
           [] GivesUp(nudge) ->
                [IdleStepper EXCEPT !.pc = "store", !.todo = << <<"pending", FALSE>> >>]
           [] OTHER -> IdleStepper
    /\ Others /\ UNCHANGED chase

\* The atomics are stored one by one,
StepperStores ==
    /\ At("store")
    /\ LET next == Head(stepper.todo) IN chase' = [chase EXCEPT ![next[1]] = next[2]]
    /\ stepper' = CASE Len(stepper.todo) > 1 -> [stepper EXCEPT !.todo = Tail(@)]
                    [] Len(stepper.todo) = 1 /\ stepper.button # "none" ->
                         [stepper EXCEPT !.pc = "press", !.todo = << >>]
                    [] OTHER -> IdleStepper
    /\ Others

\* and the button is pressed; a press on a dead link is lost.
StepperPresses ==
    /\ At("press")
    /\ lms' = IF lms.alive THEN [lms EXCEPT !.buttons = Append(@, stepper.button)] ELSE lms
    /\ presses' = presses + 1
    /\ stepper' = IdleStepper
    /\ UNCHANGED <<mode, reader, driver, chase, calm, events>>

\* The press window ends; in a calm world LMS has answered by then.
WindowPasses ==
    /\ chase.last = "recent"
    /\ calm => LmsIdle /\ stepper.pc \notin {"store", "press"}
    /\ chase' = [chase EXCEPT !.last = "due"]
    /\ UNCHANGED <<mode, lms, reader, driver, stepper, presses, calm, events>>

-----------------------------------------------------------------------------
(* stop(), on the thread that ends the player.                             *)

StopClear ==
    /\ chase.stopping = "no"
    /\ chase' = [chase EXCEPT !.pending = FALSE, !.stopping = "cleared"]
    /\ UNCHANGED <<mode, lms, reader, driver, stepper, presses, calm, events>>

StopRequest ==
    /\ chase.stopping = "cleared"
    /\ chase' = [chase EXCEPT !.stopping = "requested"]
    /\ UNCHANGED <<mode, lms, reader, driver, stepper, presses, calm, events>>

-----------------------------------------------------------------------------
Init ==
    /\ mode \in Modes /\ calm \in Worlds
    /\ \E at \in Users :
          lms = [slider |-> at, buttons |-> << >>, audg |-> at, alive |-> TRUE]
    /\ reader = IdleReader /\ driver = IdleDriver /\ stepper = IdleStepper
    /\ chase = [target |-> 0, slider |-> 0, remembered |-> 0, dir |-> 0, budget |-> 0,
                stall |-> 0, last |-> "zero", lastLms |-> 0,
                pending |-> FALSE, stopping |-> "no"]
    /\ presses = 0 /\ events = 0

Stepper ==
    \/ StepperStops \/ StepperWaits \/ StepperBlocks \/ StepperPaces \/ StepperWakes
    \/ StepperChecks \/ StepperAsksLink \/ StepperPacesAgain \/ StepperLoads
    \/ StepperDecides \/ StepperStores \/ StepperPresses

Next ==
    \/ LmsSteps \/ LmsUser \/ LinkBreaks \/ LinkReturns \/ OnReceiverVolume
    \/ OnLmsVolume \/ Remember
    \/ DriverStores \/ Notify
    \/ Stepper \/ WindowPasses
    \/ StopClear \/ StopRequest

\* Every thread goes on while it can, LMS answers, time passes.
Fairness ==
    /\ WF_vars(LmsSteps) /\ WF_vars(OnLmsVolume) /\ WF_vars(Remember)
    /\ WF_vars(DriverStores) /\ WF_vars(Notify)
    /\ WF_vars(Stepper) /\ WF_vars(WindowPasses) /\ WF_vars(StopRequest)

Spec == Init /\ [][Next]_vars
FairSpec == Spec /\ Fairness

-----------------------------------------------------------------------------
\* A receiver change costs LMS at most kMaxSteps presses, and one that was
\* under way when it came: the stepper's late store never buys more.
PressesBounded == presses <= MaxSteps + 1

\* stop() returns: the join in it waits for a stepper that always ends.
StopReturns == chase.stopping = "cleared" ~> stepper.pc = "done"

\* The stepper does not spin: after the last event it comes to rest, however
\* the threads' stores were mixed before, and whether or not LMS follows the
\* buttons.
StepperRests == <>[](stepper.pc \in {"asleep", "done"})

\* In a calm world a chase brings LMS's slider near the receiver's volume, and
\* an earlier chase in the other direction does not keep it from doing so.
Converges ==
    calm /\ chase.pending /\ lms.alive /\ chase.stopping = "no" ~>
        \/ chase.stopping # "no"
        \/ Dist(chase.target, lms.slider) <= Tolerance

=============================================================================
