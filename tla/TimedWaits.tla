----------------------------- MODULE TimedWaits -----------------------------
(***************************************************************************)
(* Threads of the image wait with a time limit, for a semaphore            *)
(* (stub_kernel.c:226-243) or for a condition variable of C++              *)
(* (stub_pthread.c:415-421), by the wall clock, and measure time by        *)
(* mach_absolute_time.  Both waits are converted to a deadline of Linux.   *)
(***************************************************************************)
EXTENDS Deadlines

CONSTANTS Threads,
          Durations,   \* the timespecs passed to semaphore_timedwait
          Points,      \* the instants passed to the wait of C++
          Adjustments, \* by how much somebody may set the wall clock
          Start,       \* the wall clock in the beginning
          LastCall,    \* bounds: until when threads start to wait,
          Horizon,     \* when monotonic time ends,
          MaxSets      \* how often the wall clock is set

TimedAssumption == /\ \A w \in Durations : w.tv_sec \in Nat /\ w.tv_nsec \in Nat
                   /\ Points \subseteq Int /\ Adjustments \subseteq Int
                   /\ Start \in Nat /\ LastCall \in Nat /\ Horizon \in Nat
                   /\ MaxSets \in Nat

VARIABLES mono,   \* CLOCK_MONOTONIC
          wall,   \* CLOCK_REALTIME
          sets,   \* how often it was set
          call,   \* the wait each thread is in, or NoCall
          stamp   \* what mach_absolute_time last told each thread, and when

vars == <<mono, wall, sets, call, stamp>>

NoCall == [kind |-> "none"]

Init == /\ mono = 0 /\ wall = Start /\ sets = 0
        /\ call = [t \in Threads |-> NoCall]
        /\ stamp = [t \in Threads |-> [time |-> 0, at |-> 0]]

Tick == /\ mono < Horizon
        /\ mono' = mono + 1 /\ wall' = wall + 1
        /\ UNCHANGED <<sets, call, stamp>>

SetClock(d) == /\ sets < MaxSets /\ wall + d >= 0
               /\ wall' = wall + d /\ sets' = sets + 1
               /\ UNCHANGED <<mono, call, stamp>>

\* A wait begins; `asked' is how long, or until what instant, the caller means.
Wait(t, kind, ts, asked) ==
    /\ call[t] = NoCall /\ mono < LastCall
    /\ call' = [call EXCEPT ![t] = [kind |-> kind, until |-> ts,
                                    asked |-> asked, from |-> mono, sets |-> sets]]
    /\ UNCHANGED <<mono, wall, sets, stamp>>

SemaphoreTimedwait(t, w) == Wait(t, "semaphore", SemDeadline(wall, w), Instant(w))
CondTimedWait(t, p)      == Wait(t, "condition", CondDeadline(p), Clamp(p))

Ends(t) == /\ call[t] # NoCall
           /\ call' = [call EXCEPT ![t] = NoCall]
           /\ UNCHANGED <<mono, wall, sets, stamp>>

\* Linux looks at the deadline first, then for a signal, then at the clock.
Invalid(t)   == Ends(t) /\ ~ Normal(call[t].until)
Signalled(t) == Ends(t) /\ Normal(call[t].until)
TimedOut(t)  == Ends(t) /\ Normal(call[t].until) /\ wall >= Instant(call[t].until)

MachAbsoluteTime(t) ==
    /\ stamp' = [stamp EXCEPT ![t] = [time |-> AbsoluteTime(mono), at |-> mono]]
    /\ UNCHANGED <<mono, wall, sets, call>>

Next == \/ Tick \/ \E d \in Adjustments : SetClock(d)
        \/ \E t \in Threads : \/ \E w \in Durations : SemaphoreTimedwait(t, w)
                              \/ \E p \in Points : CondTimedWait(t, p)
                              \/ Invalid(t) \/ Signalled(t) \/ TimedOut(t)
                              \/ MachAbsoluteTime(t)

Spec == Init /\ [][Next]_vars

\* Time goes on, and a wait whose deadline has come is ended.
FairSpec == Spec /\ WF_vars(Tick) /\ \A t \in Threads : WF_vars(Invalid(t) \/ TimedOut(t))

-----------------------------------------------------------------------------
\* A wait in progress has a deadline Linux accepts, but for waits of C++ to an
\* instant before 1970, which are over before they begin.
TypeOK == /\ mono \in 0 .. Horizon /\ wall \in Nat /\ sets \in 0 .. MaxSets
          /\ \A t \in Threads : call[t] # NoCall =>
                /\ call[t].kind \in {"semaphore", "condition"}
                /\ call[t].from \in 0 .. mono
                /\ Normal(call[t].until) \/ (call[t].kind = "condition" /\ call[t].asked < 0)
          /\ \A t \in Threads : stamp[t].at \in 0 .. mono

\* While nobody sets the clock, a wait for a semaphore that times out has lasted
\* as long as was asked, for any number of nanoseconds; a wait for an instant,
\* until it has come (stub_kernel.c:233-240, stub_pthread.c:416-420).
NeverEarly ==
    [][\A t \in Threads : LET c == call[t] IN
          Invalid(t) \/ TimedOut(t) =>
              IF c.kind = "condition" THEN wall >= c.asked
                                      ELSE sets = c.sets => mono - c.from >= c.asked]_vars

\* Nor is the deadline of a wait in progress further off than what is left of
\* the time asked for.
NeverLate ==
    \A t \in Threads : LET c == call[t] IN
        c # NoCall =>
            IF c.kind = "condition"
            THEN Instant(c.until) <= c.asked
            ELSE sets = c.sets => Instant(c.until) - wall <= c.asked - (mono - c.from)

\* The image measures time by mach_absolute_time: two readings differ by the
\* nanoseconds between them, across seconds, though the wall clock is set
\* (stub_kernel.c:134-147).
MeasuresTime ==
    [][\A t \in Threads : stamp'[t].time - stamp[t].time = stamp'[t].at - stamp[t].at]_vars

\* Every timed wait ends, whatever is done to the wall clock (a bounded number
\* of times).
WaitsEnd == \A t \in Threads : call[t] # NoCall ~> call[t] = NoCall
=============================================================================
