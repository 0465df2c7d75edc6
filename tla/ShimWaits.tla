----------------------------- MODULE ShimWaits -----------------------------
(***************************************************************************)
(* How threads of the image wait: with a time limit, by the clocks, and    *)
(* for each other, by a condition variable that was initialized at run     *)
(* time.  Nothing about a deadline depends on who waits, and Delivered     *)
(* counts on no deadline, so a behaviour takes the steps of one of the two.*)
(***************************************************************************)
EXTENDS Integers, FiniteSets

CONSTANTS NSEC, MaxPoint, Sleepers, Durations, Points, Adjustments,
          Start, LastCall, Horizon, MaxSets,
          Producers, Consumers, MaxItems, NoOwner

VARIABLES waiting, \* the part: "timed" or "condition"
          mono, wall, sets, call, stamp,
          cond, holder, place, items, produced

timedVars == <<mono, wall, sets, call, stamp>>
condVars  == <<cond, holder, place, items, produced>>

Timed == INSTANCE TimedWaits WITH Threads <- Sleepers

Conditions == INSTANCE CondShim WITH
    Skew <- 3, Static <- FALSE, Nobody <- NoOwner, owner <- holder, pc <- place

WaitsAssumption == /\ Timed!DeadlineAssumption /\ Timed!TimedAssumption
                   /\ Conditions!CondAssumption

ASSUME WaitsAssumed == WaitsAssumption

WaitingInit == waiting \in {"timed", "condition"} /\ Timed!Init /\ Conditions!Init

TimedStep(A) == waiting = "timed" /\ A /\ UNCHANGED <<waiting, condVars>>
CondStep(A)  == waiting = "condition" /\ A /\ UNCHANGED <<waiting, timedVars>>

WaitingNext == TimedStep(Timed!Next) \/ CondStep(Conditions!Next)

WaitingSpec == WaitingInit /\ [][WaitingNext]_<<waiting, timedVars, condVars>>

\* The fairness of each part, for its own steps.
FairWaitingSpec ==
    /\ WaitingSpec
    /\ WF_timedVars(TimedStep(Timed!Tick))
    /\ \A t \in Sleepers : WF_timedVars(TimedStep(Timed!Invalid(t) \/ Timed!TimedOut(t)))
    /\ \A t \in Conditions!Workers :
          /\ WF_condVars(CondStep(Conditions!CondInit(t)))
          /\ WF_condVars(CondStep(Conditions!WaitReturns(t)))
          /\ WF_condVars(CondStep(Conditions!Works(t)))
          /\ WF_condVars(CondStep(Conditions!Enter(t)))

-----------------------------------------------------------------------------
\* A deadline in progress is not further off than what is left of the time asked
\* for, a timeout comes no earlier than that, unless somebody set the clock, and
\* the time between two readings of mach_absolute_time is what passed, though
\* somebody did (stub_kernel.c:134-147, 233-240, stub_pthread.c:416-420).
TimesExact == [](Timed!TypeOK /\ Timed!NeverLate) /\ Timed!NeverEarly /\ Timed!MeasuresTime

\* While threads wait on a variable that pthread_cond_init made, each signal or
\* broadcast wakes one of them at least, and whoever is woken, by it, by the
\* deadline or for no reason, is in the monitor alone (stub_pthread.c:227-255).
\* Those of C++ are not among them (411-425): no call initialises one.
EachSignalWakes == []Conditions!Monitor /\ Conditions!SignalWakes

\* Every timed wait ends, whatever is done to the wall clock.
WaitsEnd == Timed!WaitsEnd

\* Whatever is produced is consumed in the end, without the help of deadlines, by
\* way of a variable that pthread_cond_init made
\* (stub_pthread.c:227-255).
Delivered == waiting = "condition" => Conditions!Delivered
=============================================================================
