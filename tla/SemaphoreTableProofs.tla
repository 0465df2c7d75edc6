------------------------ MODULE SemaphoreTableProofs ------------------------
(***************************************************************************)
(* With one creating thread, for any number of other threads and any size  *)
(* of the table: careful callers never reach panic("bad!"), no slot is     *)
(* given out twice or leaked, and the table implements the abstract pool   *)
(* whatever the callers do.                                                *)
(***************************************************************************)
EXTENDS SemaphoreTable, TLAPS

\* The hypothesis the code needs: see the README for the race without it.
SingleCreator == \A c, d \in Creators : c = d

\* A thread between finding a slot free and marking it.
Claims(t, s) == /\ pc[t] \in {"sem_init", "create_unlock", "publish"}
                /\ semaphore[t] = s

\* What each label says of the arguments and locals of its call.
Locals == \A t \in Threads :
    /\ pc[t] \in CreateLabels => t \in Creators
    /\ pc[t] = "scan" => semaphore[t] # 0
    /\ pc[t] \in CreateLabels \ {"create"} => initial[t] # Null
    /\ pc[t] \in {"sem_init", "create_unlock", "publish"} => semaphore[t] \in Slots
    /\ pc[t] \in {"destroy_lock", "destroy_clear"} => semaphore[t] \in Slots
    /\ pc[t] \in SignalLabels \cup WaitLabels => semaphore[t] \in Slots

\* The slot the creator is about to mark is free: nobody else can mark it.
ClaimsFree == \A t \in Threads, s \in Slots : Claims(t, s) => ~ bits[s]

\* What holds of the table whatever its callers do.
TableInv == TypeOK /\ Locals /\ ClaimsFree

\* A name in use is held.
UsingLive == \A t \in Threads, s \in Slots : Using(t, s) => live[s] > 0

\* A name being destroyed is no longer held, and is destroyed by one thread.
DestroyOnce ==
    \A t \in Threads, s \in Slots :
        Destroying(t, s) => /\ live[s] = 0
                            /\ \A u \in Threads : Destroying(u, s) => u = t

ClientInv == /\ NoPanic /\ HandlesUnique /\ BitsMatchHandles
             /\ UsingLive /\ DestroyOnce

-----------------------------------------------------------------------------
\* At the start no slot is taken and no thread is in a call (stub_kernel.c:150-152).
LEMMA TableInit == Init => TableInv
<1> SUFFICES ASSUME Init PROVE TableInv
  OBVIOUS
<1>1. TypeOK
  <2>1. panicked \in BOOLEAN
    BY Zenon DEF Init
  <2>2. bits \in [Slots -> BOOLEAN]
    BY Zenon DEF Init
  <2>3. /\ value \in [Slots -> 0 .. MaxValue] /\ live \in [Slots -> Nat]
        /\ semaphore \in [Threads -> 0 .. SEM_TABLE_MAX]
        /\ initial \in [Threads -> InitialValues]
        /\ pc \in [Threads -> Labels] /\ lock \in Threads \cup {NoThread}
    BY TableAssumption DEF Init, InitialValues, Labels
  <2> QED BY <2>1, <2>2, <2>3 DEF TypeOK
<1>2. Locals /\ ClaimsFree
  BY DEF Init, Locals, ClaimsFree, Claims, CreateLabels, SignalLabels, WaitLabels
<1> QED BY <1>1, <1>2 DEF TableInv

\* Every step keeps the types.
LEMMA TypeStep == ASSUME TableInv, [Next]_vars PROVE TypeOK'
<1> USE TableAssumption
    DEF TypeOK, Labels, CreateLabels, DestroyLabels, SignalLabels, WaitLabels, Goto,
        Return, Acquire, Release
<1>1. TypeOK /\ Locals
  BY DEF TableInv
<1>2. ASSUME NEW t \in Threads, CallStep(t) PROVE TypeOK'
  <2>1. CASE CallCreate(t)
    BY <1>1, <2>1 DEF CallCreate
  <2>2. ASSUME NEW s \in 0 .. SEM_TABLE_MAX, NEW label \in Labels, Call(t, label, s),
               live' \in [Slots -> Nat]
        PROVE  TypeOK'
    BY <1>1, <2>2 DEF Call
  <2>3. CASE CallUse(t)
    <3>1. PICK s \in Slots, label \in {"signal", "wait", "timedwait"} :
             Call(t, label, s) /\ live' = live
      BY <2>3 DEF CallUse
    <3>2. s \in 0 .. SEM_TABLE_MAX /\ label \in Labels /\ live' \in [Slots -> Nat]
      BY <1>1, <3>1 DEF Slots
    <3> QED BY <2>2, <3>1, <3>2
  <2>4. CASE CallDestroy(t)
    <3>1. PICK s \in Slots :
             /\ Call(t, "destroy", s)
             /\ live' = [live EXCEPT ![s] = IF @ > 0 THEN @ - 1 ELSE 0]
      BY <2>4 DEF CallDestroy
    <3>2. live' \in [Slots -> Nat]
      BY <1>1, <3>1
    <3> QED BY <2>2, <3>1, <3>2 DEF Slots
  <2>5. CASE CallDestroyNone(t)
    <3>1. PICK s \in {0, SEM_TABLE_MAX} : Call(t, "destroy", s) /\ live' = live
      BY <2>5 DEF CallDestroyNone
    <3> QED BY <1>1, <2>2, <3>1
  <2> QED BY <1>2, <2>1, <2>3, <2>4, <2>5 DEF CallStep
<1>3. ASSUME NEW t \in Threads, CreateStep(t) PROVE TypeOK'
  <2>1. CASE CreateRefused(t)
    BY <1>1, <2>1 DEF CreateRefused, InitialValues
  <2>2. CASE CreateLock(t)
    BY <1>1, <2>2 DEF CreateLock
  <2>3. CASE ScanTaken(t)
    <3>1. semaphore[t] + 1 \in 0 .. SEM_TABLE_MAX
      BY <1>1, <2>3 DEF ScanTaken, Valid, Slots
    <3> QED BY <1>1, <2>3, <3>1 DEF ScanTaken
  <2>4. CASE ScanFree(t)
    BY <1>1, <2>4 DEF ScanFree
  <2>5. CASE ScanFull(t)
    BY <1>1, <2>5 DEF ScanFull
  <2>6. CASE SemInit(t)
    <3>1. initial[t] \in 0 .. MaxValue
      BY <1>1, <2>6 DEF SemInit, Locals, InitialValues, Null
    <3> QED BY <1>1, <2>6, <3>1 DEF SemInit
  <2>7. CASE SemInitFails(t)
    BY <1>1, <2>7 DEF SemInitFails
  <2>8. CASE CreateUnlock(t)
    BY <1>1, <2>8 DEF CreateUnlock
  <2>9. CASE CreatePublish(t)
    <3>1. bits' \in [Slots -> BOOLEAN]
      BY <1>1, <2>9, Zenon DEF CreatePublish
    <3>2. semaphore[t] \in Slots /\ live' \in [Slots -> Nat]
      BY <1>1, <2>9 DEF CreatePublish, Locals
    <3>3. /\ pc' \in [Threads -> Labels]
          /\ semaphore' \in [Threads -> 0 .. SEM_TABLE_MAX]
          /\ initial' \in [Threads -> InitialValues]
          /\ value' = value /\ lock' = lock /\ panicked' = panicked
      BY <1>1, <2>9 DEF CreatePublish, InitialValues
    <3> QED BY <1>1, <3>2, <3>1, <3>3
  <2>10. CASE CreateFail(t)
    BY <1>1, <2>10 DEF CreateFail, InitialValues
  <2> QED BY <1>3, <2>1, <2>2, <2>3, <2>4, <2>5, <2>6, <2>7, <2>8, <2>9, <2>10
          DEF CreateStep
<1>4. ASSUME NEW t \in Threads, DestroyStep(t) PROVE TypeOK'
  <2>1. CASE DestroyRefused(t)
    BY <1>1, <2>1 DEF DestroyRefused, InitialValues
  <2>2. CASE DestroyCheck(t)
    BY <1>1, <2>2 DEF DestroyCheck
  <2>3. CASE DestroyLock(t)
    BY <1>1, <2>3 DEF DestroyLock
  <2>4. CASE DestroyClear(t)
    <3>1. bits' \in [Slots -> BOOLEAN]
      BY <1>1, <2>4, Zenon DEF DestroyClear
    <3>2. /\ pc' \in [Threads -> Labels]
          /\ UNCHANGED <<lock, value, semaphore, initial, panicked, live>>
      BY <1>1, <2>4 DEF DestroyClear
    <3> QED BY <1>1, <3>1, <3>2
  <2>5. CASE DestroyUnlock(t)
    BY <1>1, <2>5 DEF DestroyUnlock, InitialValues
  <2> QED BY <1>4, <2>1, <2>2, <2>3, <2>4, <2>5 DEF DestroyStep
<1>5. ASSUME NEW t \in Threads, UseStep(t) PROVE TypeOK'
  <2>1. CASE \/ UseCheck(t, "signal", "post")
             \/ UseCheck(t, "wait", "sem_wait")
             \/ UseCheck(t, "timedwait", "sem_timedwait")
    BY <1>1, <2>1 DEF UseCheck
  <2>2. CASE Panic(t)
    <3>1. panicked' \in BOOLEAN
      BY <2>2, Zenon DEF Panic
    <3> QED BY <1>1, <2>2, <3>1 DEF Panic
  <2>3. CASE Post(t)
    <3>1. semaphore[t] \in Slots
      BY <1>1, <2>3 DEF Post, Locals
    <3>2. value' \in [Slots -> 0 .. MaxValue]
      BY <1>1, <2>3, <3>1 DEF Post
    <3> QED BY <1>1, <2>3, <3>2 DEF Post, InitialValues
  <2>4. CASE Take(t)
    <3>1. semaphore[t] \in Slots
      BY <1>1, <2>4 DEF Take, Locals
    <3>2. value' \in [Slots -> 0 .. MaxValue]
      BY <1>1, <2>4, <3>1 DEF Take
    <3> QED BY <1>1, <2>4, <3>2 DEF Take, InitialValues
  <2>5. CASE GiveUp(t)
    BY <1>1, <2>5 DEF GiveUp, InitialValues
  <2> QED BY <1>5, <2>1, <2>2, <2>3, <2>4, <2>5 DEF UseStep
<1>6. CASE UNCHANGED vars
  BY <1>1, <1>6 DEF vars
<1> QED BY <1>2, <1>3, <1>4, <1>5, <1>6 DEF Next, Step

-----------------------------------------------------------------------------
\* The steps of a thread, one by one: what a proof by cases goes through.
LEMMA StepCases ==
    ASSUME NEW t \in Threads, CallStep(t) \/ Step(t)
    PROVE  \/ CallCreate(t) \/ CallUse(t) \/ CallDestroy(t) \/ CallDestroyNone(t)
           \/ CreateRefused(t) \/ CreateLock(t) \/ ScanTaken(t) \/ ScanFree(t)
           \/ ScanFull(t) \/ SemInit(t) \/ SemInitFails(t) \/ CreateUnlock(t)
           \/ CreatePublish(t) \/ CreateFail(t)
           \/ DestroyRefused(t) \/ DestroyCheck(t) \/ DestroyLock(t)
           \/ DestroyClear(t) \/ DestroyUnlock(t)
           \/ UseCheck(t, "signal", "post") \/ UseCheck(t, "wait", "sem_wait")
           \/ UseCheck(t, "timedwait", "sem_timedwait")
           \/ Panic(t) \/ Post(t) \/ Take(t) \/ GiveUp(t)
BY DEF CallStep, Step, CreateStep, DestroyStep, UseStep

\* A step of one thread leaves the frames of the others alone.
LEMMA OthersKept ==
    ASSUME TypeOK, NEW t \in Threads, CallStep(t) \/ Step(t),
           NEW u \in Threads, u # t
    PROVE  pc'[u] = pc[u] /\ semaphore'[u] = semaphore[u] /\ initial'[u] = initial[u]
<1> USE DEF TypeOK, Goto, Return
<1>1. CASE \/ CallCreate(t) \/ CallUse(t) \/ CallDestroy(t) \/ CallDestroyNone(t)
  BY <1>1 DEF CallCreate, CallUse, CallDestroy, CallDestroyNone, Call
<1>2. CASE \/ CreateRefused(t) \/ CreateLock(t) \/ ScanTaken(t) \/ ScanFree(t)
           \/ ScanFull(t) \/ SemInit(t) \/ SemInitFails(t) \/ CreateUnlock(t)
           \/ CreatePublish(t) \/ CreateFail(t)
  BY <1>2 DEF CreateRefused, CreateLock, ScanTaken, ScanFree, ScanFull, SemInit,
              SemInitFails, CreateUnlock, CreatePublish, CreateFail
<1>3. CASE \/ DestroyRefused(t) \/ DestroyCheck(t) \/ DestroyLock(t)
           \/ DestroyClear(t) \/ DestroyUnlock(t)
  BY <1>3 DEF DestroyRefused, DestroyCheck, DestroyLock, DestroyClear, DestroyUnlock
<1>4. CASE \/ UseCheck(t, "signal", "post") \/ UseCheck(t, "wait", "sem_wait")
           \/ UseCheck(t, "timedwait", "sem_timedwait")
           \/ Panic(t) \/ Post(t) \/ Take(t) \/ GiveUp(t)
  BY <1>4 DEF UseCheck, Panic, Post, Take, GiveUp
<1> QED BY <1>1, <1>2, <1>3, <1>4, StepCases

\* What the step of t leaves in its own frame is what its new label demands.
LocalsOf(t) ==
    /\ pc[t] \in CreateLabels => t \in Creators
    /\ pc[t] = "scan" => semaphore[t] # 0
    /\ pc[t] \in CreateLabels \ {"create"} => initial[t] # Null
    /\ pc[t] \in {"sem_init", "create_unlock", "publish"} => semaphore[t] \in Slots
    /\ pc[t] \in {"destroy_lock", "destroy_clear"} => semaphore[t] \in Slots
    /\ pc[t] \in SignalLabels \cup WaitLabels => semaphore[t] \in Slots

\* Every step leaves the locals of the calls within their ranges.
LEMMA LocalsStep == ASSUME TableInv, [Next]_vars PROVE Locals'
<1>1. TypeOK /\ Locals
  BY DEF TableInv
<1>2. ASSUME NEW t \in Threads, CallStep(t) \/ Step(t) PROVE Locals'
  <2> USE TableAssumption DEF TypeOK, LocalsOf, CreateLabels, SignalLabels, WaitLabels,
          Goto, Return, Slots, Null
  <2>1. LocalsOf(t)
    BY <1>1 DEF Locals
  <2>2. CASE \/ CallCreate(t) \/ CallUse(t) \/ CallDestroy(t) \/ CallDestroyNone(t)
    <3>1. LocalsOf(t)'
      BY <1>1, <2>2 DEF CallCreate, CallUse, CallDestroy, CallDestroyNone, Call
    <3> QED BY <1>1, <1>2, <3>1, OthersKept DEF Locals
  <2>3. CASE \/ CreateRefused(t) \/ CreateLock(t) \/ ScanTaken(t) \/ ScanFree(t)
             \/ ScanFull(t) \/ SemInit(t) \/ SemInitFails(t) \/ CreateUnlock(t)
             \/ CreatePublish(t) \/ CreateFail(t)
    <3>1. LocalsOf(t)'
      <4>1. CASE CreateRefused(t) \/ CreateLock(t) \/ CreatePublish(t) \/ CreateFail(t)
        BY <1>1, <2>1, <4>1 DEF CreateRefused, CreateLock, CreatePublish, CreateFail
      <4>2. CASE ScanTaken(t)
        <5>1. semaphore[t] \in Slots /\ semaphore[t] + 1 # 0
          BY <1>1, <4>2 DEF ScanTaken, Valid
        <5> QED BY <1>1, <2>1, <4>2, <5>1 DEF ScanTaken
      <4>3. CASE ScanFree(t) \/ ScanFull(t) \/ SemInit(t) \/ SemInitFails(t)
                 \/ CreateUnlock(t)
        BY <1>1, <2>1, <4>3 DEF ScanFree, ScanFull, SemInit, SemInitFails, CreateUnlock
      <4> QED BY <2>3, <4>1, <4>2, <4>3
    <3> QED BY <1>1, <1>2, <3>1, OthersKept DEF Locals
  <2>4. CASE \/ DestroyRefused(t) \/ DestroyCheck(t) \/ DestroyLock(t)
             \/ DestroyClear(t) \/ DestroyUnlock(t)
    <3>1. LocalsOf(t)'
      BY <1>1, <2>1, <2>4 DEF DestroyRefused, DestroyCheck, DestroyLock, DestroyClear,
         DestroyUnlock, Valid
    <3> QED BY <1>1, <1>2, <3>1, OthersKept DEF Locals
  <2>5. CASE \/ UseCheck(t, "signal", "post") \/ UseCheck(t, "wait", "sem_wait")
             \/ UseCheck(t, "timedwait", "sem_timedwait")
             \/ Panic(t) \/ Post(t) \/ Take(t) \/ GiveUp(t)
    <3>1. LocalsOf(t)'
      BY <1>1, <2>1, <2>5 DEF UseCheck, Panic, Post, Take, GiveUp
    <3> QED BY <1>1, <1>2, <3>1, OthersKept DEF Locals
  <2> QED BY <1>2, <2>2, <2>3, <2>4, <2>5, StepCases
<1>3. CASE UNCHANGED vars
  BY <1>1, <1>3 DEF Locals, vars
<1> QED BY <1>2, <1>3 DEF Next

\* A slot a creator claims stays free: only creators mark slots, there is one
\* of them, and it marks the slot it claims when it stops claiming it.
LEMMA ClaimsStep == ASSUME SingleCreator, TableInv, [Next]_vars PROVE ClaimsFree'
<1>1. TypeOK /\ Locals /\ ClaimsFree
  BY DEF TableInv
<1>2. ASSUME NEW t \in Threads, CallStep(t) \/ Step(t),
             NEW u \in Threads, NEW s \in Slots, Claims(u, s)'
      PROVE  ~ bits'[s]
  <2>1. CASE CreatePublish(t)
    <3>1. u # t
      BY <1>1, <1>2, <2>1 DEF CreatePublish, Return, Goto, Claims, TypeOK
    <3>2. pc[u] \in CreateLabels /\ pc[t] \in CreateLabels
      BY <1>1, <1>2, <2>1, <3>1, OthersKept
         DEF CreatePublish, Return, Goto, Claims, CreateLabels
    <3>3. u = t
      BY <1>1, <3>2 DEF Locals, SingleCreator
    <3> QED BY <3>1, <3>3
  <2>2. CASE ScanFree(t) /\ u = t
    BY <1>1, <1>2, <2>2 DEF ScanFree, Valid, Goto, Claims, TypeOK
  <2>3. CASE ~ CreatePublish(t) /\ ~ (ScanFree(t) /\ u = t)
    <3>1. Claims(u, s)
      <4>1. CASE u # t
        BY <1>1, <1>2, <4>1, OthersKept DEF Claims
      <4>2. CASE u = t
        <5> USE <1>1, <1>2, <2>3, <4>2 DEF TypeOK, Claims, Goto, Return
        <5>1. CASE \/ CallCreate(t) \/ CallUse(t) \/ CallDestroy(t)
                   \/ CallDestroyNone(t)
          BY <5>1 DEF CallCreate, CallUse, CallDestroy, CallDestroyNone, Call
        <5>2. CASE \/ CreateRefused(t) \/ CreateLock(t) \/ ScanTaken(t)
                   \/ ScanFull(t) \/ SemInit(t) \/ SemInitFails(t) \/ CreateUnlock(t)
                   \/ CreateFail(t)
          BY <5>2 DEF CreateRefused, CreateLock, ScanTaken, ScanFull, SemInit,
             SemInitFails, CreateUnlock, CreateFail
        <5>3. CASE \/ DestroyRefused(t) \/ DestroyCheck(t) \/ DestroyLock(t)
                   \/ DestroyClear(t) \/ DestroyUnlock(t)
          BY <5>3 DEF DestroyRefused, DestroyCheck, DestroyLock, DestroyClear,
             DestroyUnlock
        <5>4. CASE \/ UseCheck(t, "signal", "post") \/ UseCheck(t, "wait", "sem_wait")
                   \/ UseCheck(t, "timedwait", "sem_timedwait")
                   \/ Panic(t) \/ Post(t) \/ Take(t) \/ GiveUp(t)
          BY <5>4 DEF UseCheck, Panic, Post, Take, GiveUp
        <5> QED BY <5>1, <5>2, <5>3, <5>4, StepCases
      <4> QED BY <4>1, <4>2
    <3>2. ~ bits[s]
      BY <1>1, <3>1 DEF ClaimsFree
    <3>3. bits' = bits \/ DestroyClear(t)
      BY <1>2, <2>3, StepCases
         DEF CallCreate, CallUse, CallDestroy, CallDestroyNone, Call, CreateRefused,
             CreateLock, ScanTaken, ScanFree, ScanFull, SemInit, SemInitFails,
             CreateUnlock, CreateFail, DestroyRefused, DestroyCheck, DestroyLock,
             DestroyUnlock, UseCheck, Panic, Post, Take, GiveUp
    <3> QED BY <1>1, <3>2, <3>3 DEF DestroyClear, TypeOK
  <2> QED BY <2>1, <2>2, <2>3
<1>3. CASE UNCHANGED vars
  BY <1>1, <1>3 DEF ClaimsFree, Claims, vars
<1> QED BY <1>2, <1>3 DEF Next, ClaimsFree

\* What the table guarantees whatever its callers do.
LEMMA TableStep == ASSUME SingleCreator, TableInv, [Next]_vars PROVE TableInv'
BY TypeStep, LocalsStep, ClaimsStep DEF TableInv

-----------------------------------------------------------------------------
(* Careful callers. *)

\* At the start no caller holds a name.
LEMMA ClientInit == Init => ClientInv
BY DEF Init, ClientInv, NoPanic, HandlesUnique, BitsMatchHandles, UsingLive,
       DestroyOnce, Using, Destroying, SignalLabels, WaitLabels

\* The steps that touch neither the table nor what callers hold: they start no
\* use of a slot, and neither start nor end a destruction.
Quiet == /\ bits' = bits /\ live' = live /\ panicked' = panicked
         /\ \A u \in Threads, s \in Slots : /\ Using(u, s)' => Using(u, s)
                                            /\ Destroying(u, s)' <=> Destroying(u, s)

\* A step that touches neither the bit map nor any name keeps what careful callers
\* rely on.
LEMMA QuietKept == ASSUME ClientInv, Quiet PROVE ClientInv'
<1>1. /\ bits' = bits /\ live' = live /\ panicked' = panicked
      /\ \A u \in Threads, s \in Slots : /\ Using(u, s)' => Using(u, s)
                                         /\ Destroying(u, s)' <=> Destroying(u, s)
  BY DEF Quiet
<1>2. NoPanic' /\ HandlesUnique'
  BY <1>1 DEF ClientInv, NoPanic, HandlesUnique
<1>3. UsingLive'
  <2> SUFFICES ASSUME NEW u \in Threads, NEW s \in Slots, Using(u, s)'
               PROVE  live'[s] > 0
    BY DEF UsingLive
  <2>1. Using(u, s)
    BY <1>1
  <2> QED BY <1>1, <2>1 DEF ClientInv, UsingLive
<1>4. DestroyOnce'
  BY <1>1 DEF ClientInv, DestroyOnce
<1>5. BitsMatchHandles'
  BY <1>1 DEF ClientInv, BitsMatchHandles
<1> QED BY <1>2, <1>3, <1>4, <1>5 DEF ClientInv

\* A careful call on a name, and a signal or wait on it, find its bit set.
LEMMA UsingValid ==
    ASSUME TableInv, ClientInv, NEW t \in Threads,
           pc[t] \in SignalLabels \cup WaitLabels
    PROVE  Valid(t)
<1>1. semaphore[t] \in Slots
  BY DEF TableInv, Locals
<1>2. live[semaphore[t]] > 0
  BY <1>1 DEF ClientInv, UsingLive, Using
<1> QED BY <1>1, <1>2 DEF ClientInv, BitsMatchHandles, Valid

\* With callers that use only what they hold, no step hands a slot out twice, loses
\* one or panics (stub_kernel.c:154-240).
LEMMA ClientStep ==
    ASSUME Careful, TableInv, ClientInv, [Next]_vars
    PROVE  ClientInv'
<1>1. TypeOK /\ Locals /\ ClaimsFree
  BY DEF TableInv
<1> USE DEF TypeOK, Goto, Return
<1>2. ASSUME NEW t \in Threads, CallStep(t) \/ Step(t) PROVE ClientInv'
  <2>p. \A u \in Threads \ {t}, s \in Slots :
           /\ Using(u, s)' <=> Using(u, s)
           /\ Destroying(u, s)' <=> Destroying(u, s)
    BY <1>1, <1>2, OthersKept DEF Using, Destroying
  <2>1. CASE CallUse(t)
    <3>1. PICK s \in Slots, label \in {"signal", "wait", "timedwait"} :
             live[s] > 0 /\ Call(t, label, s) /\ live' = live
      BY <2>1 DEF CallUse
    <3>2. /\ bits' = bits /\ panicked' = panicked /\ live' = live
          /\ \A r \in Slots : /\ ~ Destroying(t, r) /\ ~ Destroying(t, r)'
                              /\ Using(t, r)' => r = s
      BY <1>1, <3>1 DEF Call, Destroying, Using
    <3>3. ASSUME NEW u \in Threads, NEW r \in Slots
          PROVE  Destroying(u, r)' <=> Destroying(u, r)
      <4>1. CASE u = t
        BY <3>2, <4>1 DEF Destroying
      <4>2. CASE u # t
        BY <2>p, <4>2
      <4> QED BY <4>1, <4>2
    <3>4. UsingLive'
      BY <2>p, <3>1, <3>2 DEF ClientInv, UsingLive, Using, Destroying
    <3> QED BY <3>2, <3>3, <3>4
            DEF ClientInv, NoPanic, HandlesUnique, BitsMatchHandles, DestroyOnce
  <2>2. CASE CallDestroy(t)
    <3>1. PICK s \in Slots :
             /\ live[s] > 0 /\ \A u \in Threads : ~ Using(u, s)
             /\ Call(t, "destroy", s)
             /\ live' = [live EXCEPT ![s] = IF @ > 0 THEN @ - 1 ELSE 0]
      BY <2>2 DEF CallDestroy
    <3>2. /\ bits' = bits /\ panicked' = panicked
          /\ live'[s] = 0 /\ \A r \in Slots \ {s} : live'[r] = live[r]
      BY <1>1, <3>1 DEF Call, ClientInv, HandlesUnique
    <3>3. /\ Destroying(t, s)'
          /\ \A r \in Slots : /\ ~ Destroying(t, r) /\ ~ Using(t, r)'
                              /\ Destroying(t, r)' => r = s
      BY <1>1, <3>1 DEF Call, Destroying, Using, SignalLabels, WaitLabels
    <3>4. \A u \in Threads : ~ Destroying(u, s)
      BY <3>1 DEF ClientInv, DestroyOnce
    <3>5. bits[s]
      BY <3>1 DEF ClientInv, BitsMatchHandles
    <3>6. HandlesUnique' /\ NoPanic'
      BY <3>2 DEF ClientInv, HandlesUnique, NoPanic
    <3>7. UsingLive'
      BY <2>p, <3>1, <3>2, <3>3 DEF ClientInv, UsingLive, Using, Destroying
    <3>8. DestroyOnce'
      BY <2>p, <3>2, <3>3, <3>4 DEF ClientInv, DestroyOnce, Using, Destroying
    <3>9. BitsMatchHandles'
      BY <2>p, <3>2, <3>3, <3>5 DEF ClientInv, BitsMatchHandles, Using, Destroying
    <3> QED BY <3>6, <3>7, <3>8, <3>9 DEF ClientInv
  <2>3. CASE CreatePublish(t)
    <3> DEFINE s == semaphore[t]
    <3>1. s \in Slots /\ ~ bits[s]
      BY <1>1, <2>3 DEF CreatePublish, Locals, ClaimsFree, Claims
    <3>2. live[s] = 0 /\ \A u \in Threads : ~ Destroying(u, s)
      BY <1>1, <3>1 DEF ClientInv, BitsMatchHandles
    <3>3. /\ panicked' = panicked
          /\ live'[s] = 1 /\ \A r \in Slots \ {s} : live'[r] = live[r]
          /\ bits'[s] /\ \A r \in Slots \ {s} : bits'[r] = bits[r]
      BY <1>1, <2>3, <3>1, <3>2 DEF CreatePublish
    <3>4. \A r \in Slots : /\ ~ Destroying(t, r) /\ ~ Destroying(t, r)'
                           /\ ~ Using(t, r)'
      BY <1>1, <2>3 DEF CreatePublish, Destroying, Using, SignalLabels, WaitLabels
    <3> HIDE DEF s
    <3>5. HandlesUnique' /\ NoPanic'
      BY <3>3 DEF ClientInv, HandlesUnique, NoPanic
    <3>6. UsingLive'
      BY <2>p, <3>1, <3>2, <3>3, <3>4 DEF ClientInv, UsingLive
    <3>7. DestroyOnce'
      BY <2>p, <3>2, <3>3, <3>4 DEF ClientInv, DestroyOnce
    <3>8. BitsMatchHandles'
      BY <2>p, <3>1, <3>3, <3>4 DEF ClientInv, BitsMatchHandles
    <3> QED BY <3>5, <3>6, <3>7, <3>8 DEF ClientInv
  <2>4. CASE DestroyClear(t)
    <3> DEFINE s == semaphore[t]
    <3>1. s \in Slots /\ Destroying(t, s)
      BY <1>1, <2>4 DEF DestroyClear, Locals, Destroying
    <3>2. live[s] = 0 /\ \A u \in Threads : Destroying(u, s) => u = t
      BY <3>1 DEF ClientInv, DestroyOnce
    <3>3. /\ panicked' = panicked /\ live' = live
          /\ ~ bits'[s] /\ \A r \in Slots \ {s} : bits'[r] = bits[r]
      BY <1>1, <2>4, <3>1 DEF DestroyClear
    <3>4. \A r \in Slots : /\ Destroying(t, r) => r = s
                           /\ ~ Destroying(t, r)' /\ ~ Using(t, r)'
      BY <1>1, <2>4 DEF DestroyClear, Destroying, Using, SignalLabels, WaitLabels
    <3> HIDE DEF s
    <3>5. HandlesUnique' /\ NoPanic'
      BY <3>3 DEF ClientInv, HandlesUnique, NoPanic
    <3>6. UsingLive'
      BY <2>p, <3>3, <3>4 DEF ClientInv, UsingLive
    <3>7. DestroyOnce'
      BY <2>p, <3>3, <3>4 DEF ClientInv, DestroyOnce
    <3>8. BitsMatchHandles'
      BY <1>1, <2>p, <3>1, <3>2, <3>3, <3>4 DEF ClientInv, BitsMatchHandles
    <3> QED BY <3>5, <3>6, <3>7, <3>8 DEF ClientInv
  <2>5. CASE Panic(t)
    BY <2>5, UsingValid DEF Panic, SignalLabels, WaitLabels
  <2>6. CASE DestroyRefused(t)
    <3>1. \A r \in Slots : ~ Destroying(t, r)
      BY <1>1, <2>6 DEF DestroyRefused, Valid, ClientInv, BitsMatchHandles, Destroying
    <3>2. \A r \in Slots : ~ Destroying(t, r)' /\ ~ Using(t, r)'
      BY <1>1, <2>6 DEF DestroyRefused, Destroying, Using, SignalLabels, WaitLabels
    <3>3. Quiet
      BY <2>p, <2>6, <3>1, <3>2 DEF DestroyRefused, Quiet
    <3> QED BY <3>3, QuietKept
  <2>7. CASE CallCreate(t) \/ CallDestroyNone(t)
    <3>1. \A r \in Slots : /\ ~ Destroying(t, r) /\ ~ Destroying(t, r)'
                           /\ ~ Using(t, r)'
      BY <1>1, <2>7, TableAssumption
         DEF CallCreate, CallDestroyNone, Call, Destroying, Using, SignalLabels,
             WaitLabels, Slots
    <3>2. Quiet
      BY <2>p, <2>7, <3>1 DEF CallCreate, CallDestroyNone, Call, Quiet
    <3> QED BY <3>2, QuietKept
  <2>8. CASE \/ CreateRefused(t) \/ CreateLock(t) \/ ScanTaken(t) \/ ScanFree(t)
             \/ ScanFull(t) \/ SemInit(t) \/ SemInitFails(t) \/ CreateUnlock(t)
             \/ CreateFail(t) \/ DestroyUnlock(t)
    <3>1. \A r \in Slots : /\ ~ Destroying(t, r) /\ ~ Destroying(t, r)'
                           /\ ~ Using(t, r)'
      BY <1>1, <2>8
         DEF CreateRefused, CreateLock, ScanTaken, ScanFree, ScanFull, SemInit,
             SemInitFails, CreateUnlock, CreateFail, DestroyUnlock, Destroying, Using,
             SignalLabels, WaitLabels
    <3>2. Quiet
      BY <2>p, <2>8, <3>1
         DEF CreateRefused, CreateLock, ScanTaken, ScanFree, ScanFull, SemInit,
             SemInitFails, CreateUnlock, CreateFail, DestroyUnlock, Quiet
    <3> QED BY <3>2, QuietKept
  <2>9. CASE DestroyCheck(t) \/ DestroyLock(t)
    <3>1. \A r \in Slots : /\ Destroying(t, r)' <=> Destroying(t, r)
                           /\ ~ Using(t, r)'
      BY <1>1, <2>9
         DEF DestroyCheck, DestroyLock, Destroying, Using, SignalLabels, WaitLabels
    <3>2. Quiet
      BY <2>p, <2>9, <3>1 DEF DestroyCheck, DestroyLock, Quiet
    <3> QED BY <3>2, QuietKept
  <2>10. CASE \/ UseCheck(t, "signal", "post") \/ UseCheck(t, "wait", "sem_wait")
              \/ UseCheck(t, "timedwait", "sem_timedwait")
              \/ Post(t) \/ Take(t) \/ GiveUp(t)
    <3>1. \A r \in Slots : /\ ~ Destroying(t, r) /\ ~ Destroying(t, r)'
                           /\ Using(t, r)' => Using(t, r)
      BY <1>1, <2>10
         DEF UseCheck, Post, Take, GiveUp, Destroying, Using, SignalLabels, WaitLabels
    <3>2. Quiet
      BY <2>p, <2>10, <3>1 DEF UseCheck, Post, Take, GiveUp, Quiet, Using, Destroying
    <3> QED BY <3>2, QuietKept
  <2> QED BY <1>2, <2>1, <2>2, <2>3, <2>4, <2>5, <2>6, <2>7, <2>8, <2>9, <2>10, StepCases
<1>3. CASE UNCHANGED vars
  BY <1>3, QuietKept DEF vars, Quiet, Using, Destroying
<1> QED BY <1>2, <1>3 DEF Next

-----------------------------------------------------------------------------
(* The table implements the pool. *)

\* An empty table is an empty pool.
LEMMA PoolInit == Init => Pool!Init
BY DEF Init, Pool!Init, PoolOfTable

\* A step that leaves the bits alone, and the count of marked slots too, is not
\* seen by the pool.
LEMMA PoolStutter ==
    ASSUME bits' = bits, \A s \in Slots : bits[s] => value'[s] = value[s]
    PROVE  PoolOfTable' = PoolOfTable
BY DEF PoolOfTable

\* Each access of the calls is a step of the pool of semaphores or none
\* (stub_kernel.c:154-240).
LEMMA PoolStep ==
    ASSUME TableInv, [Next]_vars
    PROVE  Pool!Next \/ PoolOfTable' = PoolOfTable
<1>1. TypeOK /\ Locals /\ ClaimsFree
  BY DEF TableInv
<1> USE DEF TypeOK
<1>2. ASSUME NEW t \in Threads, CallStep(t) \/ Step(t)
      PROVE  Pool!Next \/ PoolOfTable' = PoolOfTable
  <2> DEFINE s == semaphore[t]
  <2>1. CASE SemInit(t)
    <3>1. s \in Slots /\ ~ bits[s]
      BY <1>1, <2>1 DEF SemInit, Goto, Locals, ClaimsFree, Claims
    <3>2. bits' = bits /\ \A r \in Slots : bits[r] => value'[r] = value[r]
      BY <1>1, <2>1, <3>1 DEF SemInit
    <3> QED BY <3>2, PoolStutter
  <2>2. CASE CreatePublish(t)
    <3>1. s \in Slots /\ ~ bits[s]
      BY <1>1, <2>2 DEF CreatePublish, Return, Goto, Locals, ClaimsFree, Claims
    <3>2. bits' = [bits EXCEPT ![s] = TRUE] /\ value' = value
      BY <2>2 DEF CreatePublish
    <3>3. PoolOfTable[s] = Free /\ PoolOfTable' = [PoolOfTable EXCEPT ![s] = value[s]]
      <4> HIDE DEF s
      <4> QED BY <1>1, <3>1, <3>2 DEF PoolOfTable
    <3>4. value[s] \in 0 .. MaxValue
      BY <1>1, <3>1
    <3> QED BY <3>1, <3>3, <3>4 DEF Pool!Next, Pool!Create
  <2>3. CASE DestroyClear(t)
    <3>1. s \in Slots
      BY <1>1, <2>3 DEF DestroyClear, Goto, Locals
    <3>2. bits' = [bits EXCEPT ![s] = FALSE] /\ value' = value
      BY <2>3 DEF DestroyClear
    <3>3. CASE bits[s]
      <4>1. /\ PoolOfTable[s] # Free
            /\ PoolOfTable' = [PoolOfTable EXCEPT ![s] = Free]
        <5> HIDE DEF s
        <5>1. PoolOfTable[s] = value[s] /\ value[s] \in Nat
          BY <1>1, <3>1, <3>3, TableAssumption DEF PoolOfTable
        <5>2. value[s] # Free
          BY <5>1, TableAssumption
        <5>3. PoolOfTable' = [PoolOfTable EXCEPT ![s] = Free]
          BY <1>1, <3>1, <3>2, <3>3 DEF PoolOfTable
        <5> QED BY <3>2, <3>3, <5>1, <5>2, <5>3
      <4> QED BY <3>1, <4>1 DEF Pool!Next, Pool!Destroy
    <3>4. CASE ~ bits[s]
      <4>1. bits' = bits
        BY <1>1, <3>1, <3>2, <3>4
      <4> QED BY <3>2, <4>1, PoolStutter
    <3> QED BY <3>3, <3>4
  <2>4. CASE Post(t)
    <3>1. s \in Slots
      BY <1>1, <2>4 DEF Post, Return, Goto, Locals, SignalLabels
    <3>2. /\ bits' = bits
          /\ value' = [value EXCEPT ![s] = IF @ < MaxValue THEN @ + 1 ELSE @]
      BY <2>4 DEF Post
    <3>3. CASE bits[s] /\ value[s] < MaxValue
      <4>1. /\ PoolOfTable[s] # Free /\ PoolOfTable[s] < MaxValue
            /\ PoolOfTable' = [PoolOfTable EXCEPT ![s] = @ + 1]
        <5> HIDE DEF s
        <5>1. PoolOfTable[s] = value[s] /\ value[s] \in Nat
          BY <1>1, <3>1, <3>3, TableAssumption DEF PoolOfTable
        <5>2. value[s] # Free
          BY <5>1, TableAssumption
        <5>3. PoolOfTable' = [PoolOfTable EXCEPT ![s] = @ + 1]
          BY <1>1, <3>1, <3>2, <3>3 DEF PoolOfTable
        <5> QED BY <3>2, <3>3, <5>1, <5>2, <5>3
      <4> QED BY <3>1, <4>1 DEF Pool!Next, Pool!Signal
    <3>4. CASE ~ (bits[s] /\ value[s] < MaxValue)
      <4>1. \A r \in Slots : bits[r] => value'[r] = value[r]
        <5> HIDE DEF s
        <5> QED BY <1>1, <3>1, <3>2, <3>4
      <4> QED BY <3>2, <4>1, PoolStutter
    <3> QED BY <3>3, <3>4
  <2>5. CASE Take(t)
    <3>1. s \in Slots
      BY <1>1, <2>5 DEF Take, Return, Goto, Locals, WaitLabels
    <3>2. /\ bits' = bits /\ value[s] > 0
          /\ value' = [value EXCEPT ![s] = @ - 1]
      BY <2>5 DEF Take
    <3>3. CASE bits[s]
      <4>1. /\ PoolOfTable[s] # Free /\ PoolOfTable[s] > 0
            /\ PoolOfTable' = [PoolOfTable EXCEPT ![s] = @ - 1]
        <5> HIDE DEF s
        <5>1. PoolOfTable[s] = value[s] /\ value[s] \in Nat
          BY <1>1, <3>1, <3>3, TableAssumption DEF PoolOfTable
        <5>2. value[s] # Free
          BY <5>1, TableAssumption
        <5>3. PoolOfTable' = [PoolOfTable EXCEPT ![s] = @ - 1]
          BY <1>1, <3>1, <3>2, <3>3 DEF PoolOfTable
        <5> QED BY <3>2, <3>3, <5>1, <5>2, <5>3
      <4> QED BY <3>1, <4>1 DEF Pool!Next, Pool!Wait
    <3>4. CASE ~ bits[s]
      <4>1. \A r \in Slots : bits[r] => value'[r] = value[r]
        <5> HIDE DEF s
        <5> QED BY <1>1, <3>1, <3>2, <3>4
      <4> QED BY <3>2, <4>1, PoolStutter
    <3> QED BY <3>3, <3>4
  <2>6. CASE bits' = bits /\ value' = value
    BY <2>6, PoolStutter
  <2> QED BY <1>2, <2>1, <2>2, <2>3, <2>4, <2>5, <2>6, StepCases
      DEF CallCreate, CallUse, CallDestroy, CallDestroyNone, Call, CreateRefused,
          CreateLock, ScanTaken, ScanFree, ScanFull, SemInitFails, CreateUnlock,
          CreateFail, DestroyRefused, DestroyCheck, DestroyLock, DestroyUnlock,
          UseCheck, Panic, GiveUp
<1>3. CASE UNCHANGED vars
  BY <1>3, PoolStutter DEF vars
<1> QED BY <1>2, <1>3 DEF Next

-----------------------------------------------------------------------------
\* With one creating thread, the calls keep their types and their locks-free
\* claims whatever the callers do (stub_kernel.c:149-243).
THEOREM TableInvariant == ASSUME SingleCreator PROVE Spec => []TableInv
<1>1. Init => TableInv
  BY TableInit
<1>2. TableInv /\ [Next]_vars => TableInv'
  BY TableStep
<1> QED BY <1>1, <1>2, PTL DEF Spec

\* The variables of the table keep their types.
THEOREM TypeCorrect == ASSUME SingleCreator PROVE Spec => []TypeOK
<1>1. TableInv => TypeOK
  BY DEF TableInv
<1> QED BY <1>1, TableInvariant, PTL

\* With one creating thread the table implements the abstract pool, with any
\* number of callers using and destroying any names at any time.
THEOREM TableImplementsPool == ASSUME SingleCreator PROVE Spec => ImplementsPool
<1>1. Init => Pool!Init
  BY PoolInit
<1>2. TableInv /\ [Next]_vars => [Pool!Next]_PoolOfTable
  BY PoolStep
<1> QED BY <1>1, <1>2, TableInvariant, PTL DEF Spec, ImplementsPool, Pool!Spec

\* With one creating thread and careful callers, everything ClientInv says.
THEOREM ClientInvariant ==
    ASSUME SingleCreator, Careful PROVE Spec => []ClientInv
<1>1. Init => ClientInv
  BY ClientInit
<1>2. TableInv /\ ClientInv /\ [Next]_vars => ClientInv'
  BY ClientStep
<1> QED BY <1>1, <1>2, TableInvariant, PTL DEF Spec

\* Callers that keep to the contract never reach panic("bad!"), however many
\* threads they are and however their calls interleave.
THEOREM NeverPanics == ASSUME SingleCreator, Careful PROVE Spec => []NoPanic
<1>1. ClientInv => NoPanic
  BY DEF ClientInv
<1> QED BY <1>1, ClientInvariant, PTL

\* No two semaphores held at once share a slot.
THEOREM NamesUnique == ASSUME SingleCreator, Careful PROVE Spec => []HandlesUnique
<1>1. ClientInv => HandlesUnique
  BY DEF ClientInv
<1> QED BY <1>1, ClientInvariant, PTL

\* No slot is leaked or lost.
THEOREM NoSlotLeaks == ASSUME SingleCreator, Careful PROVE Spec => []BitsMatchHandles
<1>1. ClientInv => BitsMatchHandles
  BY DEF ClientInv
<1> QED BY <1>1, ClientInvariant, PTL
=============================================================================
