--------------------------- MODULE SemaphoreTable ---------------------------
(***************************************************************************)
(* The emulation of Mach semaphores on a table of POSIX semaphores:        *)
(* semaphore_create, semaphore_destroy, semaphore_signal, semaphore_wait   *)
(* and semaphore_timedwait (stubs/src/stub_kernel.c:149-243).              *)
(*                                                                         *)
(* Threads of the image run the calls concurrently.  A step is what one    *)
(* thread does to shared memory at once: one access to _sem_bits, one call *)
(* on _sem, one lock or unlock of _sem_table_lock.                         *)
(***************************************************************************)
EXTENDS Integers, FiniteSets

CONSTANTS Threads,       \* threads of the process
          Creators,      \* those that create semaphores
          SEM_TABLE_MAX, \* entry 0 is never used
          MaxValue,      \* SEM_VALUE_MAX
          Careful,       \* the callers keep to the contract below
          NoThread,      \* the holder of a free lock
          Free           \* see SemaphorePool

ASSUME TableAssumption == /\ Creators \subseteq Threads
                          /\ NoThread \notin Threads
                          /\ SEM_TABLE_MAX \in Nat \ {0}
                          /\ MaxValue \in Nat
                          /\ Careful \in BOOLEAN
                          /\ Free \notin Nat

Slots == 1 .. SEM_TABLE_MAX - 1

VARIABLES lock,     \* holder of _sem_table_lock
          bits,     \* _sem_bits
          value,    \* the counts of _sem
          pc,       \* where each thread is
          semaphore,\* its argument, or the loop index i of create
          initial,  \* the value argument of create, or NULL for no out pointer
          panicked, \* a call went to panic("bad!")
          live      \* for each slot, the names of it the image holds (a client's
                    \* view: created and not given to destroy)

vars == <<lock, bits, value, pc, semaphore, initial, panicked, live>>

Null == -1

\* A creation past SEM_VALUE_MAX makes sem_init fail.
InitialValues == {Null} \cup 0 .. MaxValue + 1

CreateLabels  == {"create", "scan", "sem_init", "create_unlock", "publish",
                  "create_fail"}
DestroyLabels == {"destroy", "destroy_lock", "destroy_clear", "destroy_unlock"}
SignalLabels  == {"signal", "post"}
WaitLabels    == {"wait", "timedwait", "sem_wait", "sem_timedwait"}
Labels == {"idle"} \cup CreateLabels \cup DestroyLabels \cup SignalLabels
             \cup WaitLabels

Init == /\ lock = NoThread
        /\ bits = [s \in Slots |-> FALSE]
        /\ value = [s \in Slots |-> 0]
        /\ pc = [t \in Threads |-> "idle"]
        /\ semaphore = [t \in Threads |-> 0]
        /\ initial = [t \in Threads |-> 0]
        /\ panicked = FALSE
        /\ live = [s \in Slots |-> 0]

\* Thread t is inside signal or wait on s.
Using(t, s) == pc[t] \in SignalLabels \cup WaitLabels /\ semaphore[t] = s

\* The check all calls make first, without the lock.
Valid(t) == semaphore[t] \in Slots /\ bits[semaphore[t]]

Goto(t, from, to) == pc[t] = from /\ pc' = [pc EXCEPT ![t] = to]

\* The call returns, and its arguments and locals are gone.
Return(t, from) == /\ Goto(t, from, "idle")
                   /\ semaphore' = [semaphore EXCEPT ![t] = 0]
                   /\ initial' = [initial EXCEPT ![t] = 0]

Acquire(t) == lock = NoThread /\ lock' = t
Release    == lock' = NoThread

-----------------------------------------------------------------------------
(* The callers: code of the image, outside src/.  Careful ones use a name   *)
(* while they hold it and destroy it once, when no thread is using it.     *)
(* The others use and destroy any name at any time.  All may destroy 0     *)
(* (MACH_PORT_NULL) or a name out of the range of the table.               *)

CallCreate(t) ==
    /\ t \in Creators
    /\ Goto(t, "idle", "create")
    /\ \E v \in InitialValues : initial' = [initial EXCEPT ![t] = v]
    /\ UNCHANGED <<lock, bits, value, semaphore, panicked, live>>

Call(t, label, s) ==
    /\ Goto(t, "idle", label)
    /\ semaphore' = [semaphore EXCEPT ![t] = s]
    /\ UNCHANGED <<lock, bits, value, initial, panicked>>

CallUse(t) == \E s \in Slots, label \in {"signal", "wait", "timedwait"} :
                 /\ Careful => live[s] > 0
                 /\ Call(t, label, s)
                 /\ UNCHANGED live

CallDestroy(t) ==
    \E s \in Slots :
        /\ Careful => live[s] > 0 /\ \A u \in Threads : ~ Using(u, s)
        /\ Call(t, "destroy", s)
        /\ live' = [live EXCEPT ![s] = IF @ > 0 THEN @ - 1 ELSE 0]

CallDestroyNone(t) ==
    \E s \in {0, SEM_TABLE_MAX} : Call(t, "destroy", s) /\ UNCHANGED live

-----------------------------------------------------------------------------
(* Variants of the actions below, each with a plausible bug. *)

\* The scan takes the slot it is at, used or not.
ScanAny(t) ==
    /\ Goto(t, "scan", "sem_init")
    /\ semaphore[t] \in Slots
    /\ UNCHANGED <<lock, bits, value, semaphore, initial, panicked, live>>

\* The slot is given out and never marked.
PublishUnmarked(t) ==
    /\ Return(t, "publish")
    /\ live' = [live EXCEPT ![semaphore[t]] = @ + 1]
    /\ UNCHANGED <<lock, bits, value, panicked>>

\* The error path forgets the unlock.
CreateFailLocked(t) ==
    /\ Return(t, "create_fail")
    /\ UNCHANGED <<lock, bits, value, panicked, live>>

\* The slot of a destroyed semaphore stays marked.
DestroyKeepsBit(t) ==
    /\ Goto(t, "destroy_clear", "destroy_unlock")
    /\ UNCHANGED <<lock, bits, value, semaphore, initial, panicked, live>>

\* Every wait takes a unit, there or not.
TakeAlways(t) ==
    /\ Return(t, "sem_wait") \/ Return(t, "sem_timedwait")
    /\ value' = [value EXCEPT ![semaphore[t]] = @ - 1]
    /\ UNCHANGED <<lock, bits, panicked, live>>

-----------------------------------------------------------------------------
(* semaphore_create *)

\* KERN_INVALID_ARGUMENT without an out pointer.
CreateRefused(t) ==
    /\ Return(t, "create")
    /\ initial[t] = Null
    /\ UNCHANGED <<lock, bits, value, panicked, live>>

CreateLock(t) ==
    /\ Goto(t, "create", "scan")
    /\ initial[t] # Null
    /\ Acquire(t)
    /\ semaphore' = [semaphore EXCEPT ![t] = 1]
    /\ UNCHANGED <<bits, value, initial, panicked, live>>

ScanTaken(t) ==
    /\ Goto(t, "scan", "scan")
    /\ Valid(t)
    /\ semaphore' = [semaphore EXCEPT ![t] = @ + 1]
    /\ UNCHANGED <<lock, bits, value, initial, panicked, live>>

ScanFree(t) ==
    /\ Goto(t, "scan", "sem_init")
    /\ semaphore[t] \in Slots /\ ~ Valid(t)
    /\ UNCHANGED <<lock, bits, value, semaphore, initial, panicked, live>>

ScanFull(t) ==
    /\ Goto(t, "scan", "create_fail")
    /\ semaphore[t] \notin Slots
    /\ UNCHANGED <<lock, bits, value, semaphore, initial, panicked, live>>

SemInit(t) ==
    /\ Goto(t, "sem_init", "create_unlock")
    /\ initial[t] <= MaxValue
    /\ value' = [value EXCEPT ![semaphore[t]] = initial[t]]
    /\ UNCHANGED <<lock, bits, semaphore, initial, panicked, live>>

\* EINVAL for a value past SEM_VALUE_MAX: the loop is left.
SemInitFails(t) ==
    /\ Goto(t, "sem_init", "create_fail")
    /\ initial[t] > MaxValue
    /\ UNCHANGED <<lock, bits, value, semaphore, initial, panicked, live>>

CreateUnlock(t) ==
    /\ Goto(t, "create_unlock", "publish")
    /\ Release
    /\ UNCHANGED <<bits, value, semaphore, initial, panicked, live>>

\* _sem_bits[i] = 1, after the unlock; the name goes to the caller.
CreatePublish(t) ==
    /\ Return(t, "publish")
    /\ bits' = [bits EXCEPT ![semaphore[t]] = TRUE]
    /\ live' = [live EXCEPT ![semaphore[t]] = @ + 1]
    /\ UNCHANGED <<lock, value, panicked>>

\* KERN_NOT_SUPPORTED
CreateFail(t) ==
    /\ Return(t, "create_fail")
    /\ Release
    /\ UNCHANGED <<bits, value, panicked, live>>

-----------------------------------------------------------------------------
(* semaphore_destroy *)

\* KERN_SUCCESS for 0, KERN_SEMAPHORE_DESTROYED for what is not a semaphore.
DestroyRefused(t) ==
    /\ Return(t, "destroy")
    /\ ~ Valid(t)
    /\ UNCHANGED <<lock, bits, value, panicked, live>>

DestroyCheck(t) ==
    /\ Goto(t, "destroy", "destroy_lock")
    /\ Valid(t)
    /\ UNCHANGED <<lock, bits, value, semaphore, initial, panicked, live>>

DestroyLock(t) ==
    /\ Goto(t, "destroy_lock", "destroy_clear")
    /\ Acquire(t)
    /\ UNCHANGED <<bits, value, semaphore, initial, panicked, live>>

\* sem_close does nothing to an unnamed semaphore.
DestroyClear(t) ==
    /\ Goto(t, "destroy_clear", "destroy_unlock")
    /\ bits' = [bits EXCEPT ![semaphore[t]] = FALSE]
    /\ UNCHANGED <<lock, value, semaphore, initial, panicked, live>>

DestroyUnlock(t) ==
    /\ Return(t, "destroy_unlock")
    /\ Release
    /\ UNCHANGED <<bits, value, panicked, live>>

-----------------------------------------------------------------------------
(* semaphore_signal, semaphore_wait, semaphore_timedwait *)

UseCheck(t, label, next) ==
    /\ Goto(t, label, next)
    /\ Valid(t)
    /\ UNCHANGED <<lock, bits, value, semaphore, initial, panicked, live>>

\* panic("bad!"): the process is gone, no thread takes another step.
Panic(t) ==
    /\ pc[t] \in {"signal", "wait", "timedwait"}
    /\ ~ Valid(t)
    /\ panicked' = TRUE
    /\ UNCHANGED <<lock, bits, value, pc, semaphore, initial, live>>

\* sem_post, or EOVERFLOW (KERN_NOT_SUPPORTED) at SEM_VALUE_MAX.
Post(t) ==
    /\ Return(t, "post")
    /\ value' = [value EXCEPT ![semaphore[t]] = IF @ < MaxValue THEN @ + 1 ELSE @]
    /\ UNCHANGED <<lock, bits, panicked, live>>

\* The wait is over: a unit was there, and is taken.
Take(t) ==
    /\ Return(t, "sem_wait") \/ Return(t, "sem_timedwait")
    /\ value[semaphore[t]] > 0
    /\ value' = [value EXCEPT ![semaphore[t]] = @ - 1]
    /\ UNCHANGED <<lock, bits, panicked, live>>

\* It is over without one: EINTR (KERN_ABORTED), or ETIMEDOUT
\* (KERN_OPERATION_TIMED_OUT) of sem_timedwait.  Neither takes a unit.
GiveUp(t) ==
    /\ Return(t, "sem_wait") \/ Return(t, "sem_timedwait")
    /\ value[semaphore[t]] = 0
    /\ UNCHANGED <<lock, bits, value, panicked, live>>

-----------------------------------------------------------------------------
CreateStep(t) == \/ CreateRefused(t) \/ CreateLock(t)
                 \/ ScanTaken(t) \/ ScanFree(t) \/ ScanFull(t)
                 \/ SemInit(t) \/ SemInitFails(t)
                 \/ CreateUnlock(t) \/ CreatePublish(t) \/ CreateFail(t)

DestroyStep(t) == \/ DestroyRefused(t) \/ DestroyCheck(t) \/ DestroyLock(t)
                  \/ DestroyClear(t) \/ DestroyUnlock(t)

UseStep(t) == \/ UseCheck(t, "signal", "post")
              \/ UseCheck(t, "wait", "sem_wait")
              \/ UseCheck(t, "timedwait", "sem_timedwait")
              \/ Panic(t) \/ Post(t) \/ Take(t) \/ GiveUp(t)

Step(t) == ~ panicked /\ (CreateStep(t) \/ DestroyStep(t) \/ UseStep(t))

CallStep(t) == /\ ~ panicked
               /\ \/ CallCreate(t) \/ CallUse(t)
                  \/ CallDestroy(t) \/ CallDestroyNone(t)

Next == \E t \in Threads : CallStep(t) \/ Step(t)

Spec == Init /\ [][Next]_vars

\* A thread inside a call keeps being scheduled; none is made to call.
Fairness == \A t \in Threads : WF_vars(Step(t))
FairSpec == Spec /\ Fairness

-----------------------------------------------------------------------------
\* Slot numbers stay within the table, entry 0 apart, and counts within
\* SEM_VALUE_MAX, whatever the calls are given (stub_kernel.c:157-243).
TypeOK == /\ lock \in Threads \cup {NoThread}
          /\ bits \in [Slots -> BOOLEAN]
          /\ value \in [Slots -> 0 .. MaxValue]
          /\ pc \in [Threads -> Labels]
          /\ semaphore \in [Threads -> 0 .. SEM_TABLE_MAX]
          /\ initial \in [Threads -> InitialValues]
          /\ panicked \in BOOLEAN
          /\ live \in [Slots -> Nat]

\* signal, wait and timedwait are never handed a dead semaphore by a caller
\* that only uses the names it holds: panic("bad!") is not reached
\* (stub_kernel.c:209-210, 218-219, 227-228).
NoPanic == ~ panicked

\* Two calls of create never return the same slot while both are held: what
\* the table lock and _sem_bits are for (stub_kernel.c:157-174).
HandlesUnique == \A s \in Slots : live[s] <= 1

\* Thread t is destroying s and has not cleared its bit yet.
Destroying(t, s) == /\ pc[t] \in {"destroy", "destroy_lock", "destroy_clear"}
                    /\ semaphore[t] = s

\* No slot leaks and none is lost: a slot is marked used exactly while its name
\* is held or is being destroyed, whatever creations failed in between.
BitsMatchHandles ==
    \A s \in Slots : bits[s] <=> live[s] > 0 \/ \E t \in Threads : Destroying(t, s)

\* The refinement mapping: a marked slot is a semaphore.
PoolOfTable == [s \in Slots |-> IF bits[s] THEN value[s] ELSE Free]

Pool == INSTANCE SemaphorePool WITH pool <- PoolOfTable

\* The calls implement the abstract pool: create initialises free names only,
\* and the count of a semaphore changes by one unit per signal and wait.
ImplementsPool == Pool!Spec

\* The table lock is never kept: no call blocks or returns while holding it,
\* with a full table, a refused value and a name destroyed twice included.
LockReleased == \A t \in Threads : lock = t ~> lock # t \/ panicked
=============================================================================
