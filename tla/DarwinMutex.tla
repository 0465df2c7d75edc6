----------------------------- MODULE DarwinMutex -----------------------------
(***************************************************************************)
(* What the pthread mutexes promise to the code of the image, by the kind  *)
(* it made them: normal, errorcheck or recursive.  Abstract specification  *)
(* of the mutex calls of stubs/src/stub_pthread.c.                         *)
(***************************************************************************)
EXTENDS Integers

CONSTANTS Threads, Mutexes,
          MutexKinds, \* the kinds, and None
          None,       \* of memory that is no mutex
          Nobody      \* the holder of a free mutex

VARIABLES kind,   \* what the image made of each mutex
          holder,
          depth,  \* how often its holder has locked it
          result  \* of each thread's last call: ok or refused

vars == <<kind, holder, depth, result>>

Returns(t, r) == result' = [result EXCEPT ![t] = r]

Make(m, k) == /\ holder[m] = Nobody
              /\ kind' = [kind EXCEPT ![m] = k]
              /\ UNCHANGED <<holder, depth>>

\* lock and trylock of a mutex that is free, or that the thread may lock again.
Locks(t, m) == /\ kind[m] # None
               /\ \/ holder[m] = Nobody
                  \/ holder[m] = t /\ kind[m] = "recursive"
               /\ holder' = [holder EXCEPT ![m] = t]
               /\ depth' = [depth EXCEPT ![m] = @ + 1]
               /\ Returns(t, "ok")
               /\ UNCHANGED kind

\* Anybody may unlock an unchecked mutex that is locked.
Unlocks(t, m) == /\ holder[m] = t \/ (kind[m] = "unchecked" /\ holder[m] # Nobody)
                 /\ depth' = [depth EXCEPT ![m] = @ - 1]
                 /\ holder' = [holder EXCEPT ![m] = IF depth[m] = 1 THEN Nobody ELSE @]
                 /\ Returns(t, "ok")
                 /\ UNCHANGED kind

\* lock of what an errorcheck mutex knows the thread to hold, trylock of what is
\* held, unlock by another than the holder where that is checked.
Refuses(t, m) ==
    /\ \/ holder[m] # Nobody /\ ~ (holder[m] = t /\ kind[m] = "recursive")
       \/ kind[m] \in {"errorcheck", "recursive"} /\ holder[m] # t
    /\ Returns(t, "refused")
    /\ UNCHANGED <<kind, holder, depth>>

\* Calls that return 0 and concern no lock.
Other(t) == Returns(t, "ok") /\ UNCHANGED <<kind, holder, depth>>

Init == /\ kind \in [Mutexes -> MutexKinds]
        /\ holder = [m \in Mutexes |-> Nobody]
        /\ depth = [m \in Mutexes |-> 0]
        /\ result = [t \in Threads |-> "ok"]

Next == \/ \E m \in Mutexes, k \in MutexKinds :
              /\ Make(m, k)
              /\ UNCHANGED result \/ \E t \in Threads : Returns(t, "ok")
        \/ \E t \in Threads, m \in Mutexes : Locks(t, m) \/ Unlocks(t, m) \/ Refuses(t, m)
        \/ \E t \in Threads : Other(t)

Spec == Init /\ [][Next]_vars
=============================================================================
