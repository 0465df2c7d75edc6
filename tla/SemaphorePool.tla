---------------------------- MODULE SemaphorePool ----------------------------
(***************************************************************************)
(* What the Mach semaphore calls promise to the code of the image: a pool  *)
(* of names, each either free or a semaphore with a count.  A created name *)
(* was free; counts move by one; a name is freed by destroying it.         *)
(* Abstract specification of stubs/src/stub_kernel.c:149-243.              *)
(***************************************************************************)
EXTENDS Integers

CONSTANTS Slots,     \* the names of semaphores
          MaxValue,  \* SEM_VALUE_MAX
          Free       \* the state of a name that is not a semaphore

VARIABLE pool        \* pool[s]: Free, or the count of semaphore s

Create(s, v) == pool[s] = Free /\ pool' = [pool EXCEPT ![s] = v]
Destroy(s)   == pool[s] # Free /\ pool' = [pool EXCEPT ![s] = Free]
Signal(s)    == /\ pool[s] # Free /\ pool[s] < MaxValue
                /\ pool' = [pool EXCEPT ![s] = @ + 1]
Wait(s)      == /\ pool[s] # Free /\ pool[s] > 0
                /\ pool' = [pool EXCEPT ![s] = @ - 1]

Init == pool = [s \in Slots |-> Free]
Next == \E s \in Slots : \/ \E v \in 0 .. MaxValue : Create(s, v)
                         \/ Destroy(s) \/ Signal(s) \/ Wait(s)
Spec == Init /\ [][Next]_pool
=============================================================================
