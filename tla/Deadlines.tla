------------------------------ MODULE Deadlines ------------------------------
(***************************************************************************)
(* The arithmetic of times: the deadlines of semaphore_timedwait           *)
(* (stubs/src/stub_kernel.c:232-240) and of std::condition_variable        *)
(* (stubs/src/stub_pthread.c:415-421), and mach_absolute_time              *)
(* (stub_kernel.c:142-147).  An instant is a number of nanoseconds; a      *)
(* timespec has seconds and nanoseconds.                                   *)
(***************************************************************************)
EXTENDS Integers

CONSTANTS NSEC,    \* 1000000000, the nanoseconds of a second
          MaxPoint \* 0x59682F000000E941, the last time_point waited for

DeadlineAssumption == NSEC \in Nat \ {0} /\ MaxPoint \in Nat

Timespec(sec, nsec) == [tv_sec |-> sec, tv_nsec |-> nsec]

\* What clock_gettime stores at an instant.
ClockGettime(now) == Timespec(now \div NSEC, now % NSEC)

Instant(ts) == ts.tv_sec * NSEC + ts.tv_nsec

\* pthread_cond_timedwait and sem_timedwait refuse others (EINVAL).
Normal(ts) == ts.tv_nsec \in 0 .. NSEC - 1

\* Variant with a plausible bug: one second is carried, whatever tv_nsec is.
CarryOnce(ts) == IF ts.tv_nsec >= NSEC
                 THEN Timespec(ts.tv_sec + 1, ts.tv_nsec - NSEC)
                 ELSE ts

\* tv_nsec of the caller is any unsigned number.
Carry(ts) == IF ts.tv_nsec >= NSEC
             THEN Timespec(ts.tv_sec + ts.tv_nsec \div NSEC, ts.tv_nsec % NSEC)
             ELSE ts

\* semaphore_timedwait: the time asked for, from now on.
SemDeadline(now, wait) ==
    Carry(Timespec(ClockGettime(now).tv_sec + wait.tv_sec,
                   ClockGettime(now).tv_nsec + wait.tv_nsec))

\* Division of C, towards zero.
Quotient(a, b)  == IF a >= 0 THEN a \div b ELSE - ((-a) \div b)
Remainder(a, b) == a - Quotient(a, b) * b

\* Variant with a plausible bug: any time_point is waited for.
ClampNot(t) == t

\* A later time_point, as that of a wait without end, is not waited for.
Clamp(t) == IF t <= MaxPoint THEN t ELSE MaxPoint

\* __do_timed_wait: an instant, before 1970 for negative ones.
CondDeadline(t) == Timespec(Quotient(Clamp(t), NSEC), Remainder(Clamp(t), NSEC))

\* mach_absolute_time, for a timebase of 1/1.
AbsoluteTime(now) == ClockGettime(now).tv_nsec + ClockGettime(now).tv_sec * NSEC
=============================================================================
