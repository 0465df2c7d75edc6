------------------------- MODULE ShimThreadsProofs -------------------------
(***************************************************************************)
(* For any number of threads, mutexes, ids, handles and identifiers: what  *)
(* ShimThreads says of what threads share, and what ShimWaits says of how  *)
(* they wait, for any clocks and durations.  A behaviour of a composition  *)
(* is, seen through the variables of each part, a behaviour of that part.  *)
(***************************************************************************)
EXTENDS ShimThreads, ShimWaits, Sequences, FiniteSetTheorems, TLAPS

-----------------------------------------------------------------------------
(* Mutexes.                                                                *)

\* The Linux kind that pthread_mutexattr_settype has for each of Darwin's.
LinuxKind == [k \in {"normal", "errorcheck", "recursive"} |->
                 CASE k = "normal" -> Fast
                   [] k = "errorcheck" -> Errorcheck
                   [] k = "recursive" -> Recursive]

\* Attributes have the kind that was asked for, and so has a mutex that
\* pthread_mutex_init made of them; any other mutex is a plain one for Linux.
KindsAgree ==
    /\ \A t \in Threads : attr[t] = LinuxKind[askedFor[t]]
    /\ \A m \in Mutexes :
          /\ m \in inited => /\ asked[m] # None
                             /\ native[m].kind = LinuxKind[asked[m]]
          /\ m \notin inited => native[m].kind \in {Fast, Destroyed}

\* What is locked or waited for is a mutex of the image.
InUse == /\ \A m \in Mutexes : native[m].owner # Nobody => asked[m] # None
         /\ \A t \in Threads : wants[t] # NoMutex => asked[wants[t]] # None

MutexInv == TypeOK /\ KindsAgree /\ InUse /\ StuckOnlyOnNormal

\* Mutexes begin as their initializers left them, locked by nobody.
LEMMA InitMutexInv == Init => MutexInv
<1> SUFFICES ASSUME NEW statics \in [Mutexes -> Statics \cup {None}],
                    sig = statics,
                    native = [m \in Mutexes |-> Zeros],
                    asked = [m \in Mutexes |-> IF statics[m] = None THEN None
                                               ELSE Promise(statics[m])],
                    attr = [t \in Threads |-> Fast],
                    askedFor = [t \in Threads |-> "normal"],
                    wants = [t \in Threads |-> NoMutex],
                    result = [t \in Threads |-> "ok"],
                    inited = {}, panicked = FALSE
             PROVE  MutexInv
  BY Zenon DEF Init
<1>1. panicked \in BOOLEAN
  BY Zenon
<1>2. /\ native \in [Mutexes -> [kind: {Destroyed, Fast, Recursive, Errorcheck, Adaptive},
                                 owner: Threads \cup {Nobody},
                                 count: 0 .. MaxDepth]]
      /\ \A m \in Mutexes : /\ native[m].owner = Nobody /\ native[m].count = 0
                            /\ native[m].kind = Fast
  BY ShimAssumption DEF Zeros, Fresh
<1>3. asked \in [Mutexes -> {"normal", "errorcheck", "recursive", None}]
  BY ShimAssumption DEF Promise, Signatures
<1>4. TypeOK
  BY <1>1, <1>2, <1>3, ShimAssumption DEF TypeOK
<1>5. KindsAgree
  BY <1>2 DEF KindsAgree, LinuxKind
<1>6. InUse /\ StuckOnlyOnNormal
  BY <1>2 DEF InUse, StuckOnlyOnNormal, Stuck
<1> QED BY <1>4, <1>5, <1>6 DEF MutexInv

\* A mutex of Linux, as TypeOK has it.
NativeMutexes == [kind: {Destroyed, Fast, Recursive, Errorcheck, Adaptive},
                  owner: Threads \cup {Nobody}, count: 0 .. MaxDepth]

\* The kinds of mutexes of Linux, for those of Darwin
\* (pthread_mutexattr_settype, stub_pthread.c).
LEMMA Kinds ==
    /\ DOMAIN LinuxKind = {"normal", "errorcheck", "recursive"}
    /\ LinuxKind["normal"] = Fast /\ LinuxKind["errorcheck"] = Errorcheck
    /\ LinuxKind["recursive"] = Recursive
    /\ \A type \in 0 .. 2 : /\ DarwinType[type] \in {"normal", "errorcheck", "recursive"}
                            /\ NativeType(type) = LinuxKind[DarwinType[type]]
                            /\ NativeType(type) \in {Fast, Recursive, Errorcheck}
    /\ \A k \in {"normal", "errorcheck", "recursive"} : k # None
BY ShimAssumption DEF LinuxKind, DarwinType, NativeType

\* Taking a mutex is one more lock of it by its holder, whose it becomes.
LEMMA TakeChanges ==
    ASSUME TypeOK, NEW t \in Threads, NEW m \in Mutexes, Take(t, m)
    PROVE  /\ native' \in [Mutexes -> NativeMutexes]
           /\ native'[m].owner = t /\ native'[m].count = native[m].count + 1
           /\ native'[m].kind = native[m].kind
           /\ native[m].count + 1 \in 1 .. MaxDepth
           /\ \A n \in Mutexes : n # m => native'[n] = native[n]
           /\ t # Nobody
<1>1. native \in [Mutexes -> NativeMutexes] /\ t # Nobody
  BY ShimAssumption DEF TypeOK, NativeMutexes
<1>2. /\ native' = [native EXCEPT ![m].owner = t, ![m].count = @ + 1]
      /\ native[m].count < MaxDepth
  BY DEF Take
<1>3. native[m].count + 1 \in 1 .. MaxDepth
  BY <1>1, <1>2, ShimAssumption DEF NativeMutexes
<1>4. native' \in [Mutexes -> NativeMutexes]
  BY <1>1, <1>2, <1>3 DEF NativeMutexes
<1> QED BY <1>1, <1>2, <1>3, <1>4 DEF NativeMutexes

\* Making a mutex of free memory, by whatever call, leaves it free.
LEMMA MutexMade ==
    ASSUME TypeOK, NEW m \in Mutexes, Unused(m), NEW n,
           n.owner = Nobody, n.count = 0,
           n \in NativeMutexes, native' = [native EXCEPT ![m] = n]
    PROVE  /\ native' \in [Mutexes -> NativeMutexes]
           /\ \A l \in Mutexes : native'[l].owner = Nobody <=> native'[l].count = 0
           /\ \A l \in Mutexes : /\ native'[l].owner = native[l].owner
                                 /\ native'[l].count = native[l].count
                                 /\ l # m => native'[l] = native[l]
           /\ native'[m] = n
<1>1. native \in [Mutexes -> NativeMutexes]
  BY DEF TypeOK, NativeMutexes
<1>2. native' \in [Mutexes -> NativeMutexes]
  BY <1>1
<1>3. native[m].owner = Nobody /\ native[m].count = 0
  BY DEF Unused, TypeOK
<1> QED BY <1>1, <1>2, <1>3 DEF TypeOK

\* What pthread_mutex_init of Linux makes.
LEMMA InitMakes ==
    ASSUME TypeOK, NEW m \in Mutexes, NEW k \in {Fast, Recursive, Errorcheck}
    PROVE  LET n == NativeInit(Fixup(native[m], sig[m]), k)
           IN  n \in NativeMutexes /\ n.owner = Nobody /\ n.count = 0 /\ n.kind = k
<1>1. native[m] \in NativeMutexes
  BY DEF TypeOK, NativeMutexes
<1>2. \A j \in {Fast, Errorcheck, Adaptive} : Fresh(j) \in NativeMutexes
  BY ShimAssumption DEF Fresh, NativeMutexes
<1>3. Fixup(native[m], sig[m]) \in NativeMutexes
  BY <1>1, <1>2 DEF Fixup
<1>4. ASSUME NEW f \in NativeMutexes
      PROVE  LET n == NativeInit(f, k)
             IN  n \in NativeMutexes /\ n.owner = Nobody /\ n.count = 0 /\ n.kind = k
  <2>1. k \in {Destroyed, Fast, Recursive, Errorcheck, Adaptive} /\ 0 \in 0 .. MaxDepth
    BY ShimAssumption
  <2> DEFINE f1 == [f EXCEPT !.kind = k]
             f2 == [f1 EXCEPT !.owner = Nobody]
             f3 == [f2 EXCEPT !.count = 0]
  <2>2. f1 \in NativeMutexes /\ f1.kind = k
    BY <2>1 DEF NativeMutexes
  <2> HIDE DEF f1
  <2>3. f2 \in NativeMutexes /\ f2.kind = k /\ f2.owner = Nobody
    BY <2>1, <2>2 DEF NativeMutexes
  <2> HIDE DEF f2
  <2>4. f3 \in NativeMutexes /\ f3.kind = k /\ f3.owner = Nobody /\ f3.count = 0
    BY <2>1, <2>3 DEF NativeMutexes
  <2> HIDE DEF f3
  <2>5. NativeInit(f, k) = f3
    BY DEF NativeInit, f3, f2, f1
  <2> QED BY <2>4, <2>5
<1> QED BY <1>3, <1>4

\* The calls that work on attributes alone.
LEMMA AttrStep ==
    ASSUME MutexInv, NEW t \in Threads,
           AttrInit(t) \/ \E type \in 0 .. 2 : AttrSettype(t, type)
    PROVE  MutexInv'
<1>1. /\ sig' = sig /\ native' = native /\ wants' = wants /\ asked' = asked
      /\ inited' = inited /\ panicked' = panicked
  BY Zenon DEF AttrInit, AttrSettype
<1>2. PICK k \in {"normal", "errorcheck", "recursive"} :
              /\ attr' = [attr EXCEPT ![t] = LinuxKind[k]]
              /\ askedFor' = [askedFor EXCEPT ![t] = k]
              /\ result' = [result EXCEPT ![t] = "ok"]
  BY Kinds DEF AttrInit, AttrSettype, Returns, NativeType
<1>3. /\ attr' \in [Threads -> {Fast, Recursive, Errorcheck}]
      /\ askedFor' \in [Threads -> {"normal", "errorcheck", "recursive"}]
      /\ result' \in [Threads -> {"ok", "refused"}]
  BY <1>2, Kinds DEF MutexInv, TypeOK
<1>4. TypeOK'
  <2>1. panicked' \in BOOLEAN
    BY <1>1, Zenon DEF MutexInv, TypeOK
  <2> QED BY <1>1, <1>3, <2>1 DEF MutexInv, TypeOK
<1>5. KindsAgree'
  <2>1. \A u \in Threads : attr'[u] = LinuxKind[askedFor'[u]]
    BY <1>2 DEF MutexInv, TypeOK, KindsAgree
  <2> QED BY <1>1, <2>1 DEF MutexInv, KindsAgree
<1> QED BY <1>1, <1>4, <1>5 DEF MutexInv, InUse, StuckOnlyOnNormal, Stuck

\* The calls that make a mutex and destroy it: what the memory, the signature and
\* the attributes were before makes no difference.
LEMMA MakeStep ==
    ASSUME MutexInv, NEW t \in Threads, NEW m \in Mutexes, Make(t, m)
    PROVE  MutexInv'
<1> USE DEF MutexInv
<1>1. PICK n \in NativeMutexes, k \in {"normal", "errorcheck", "recursive", None} :
              /\ n.owner = Nobody /\ n.count = 0
              /\ native' = [native EXCEPT ![m] = n]
              /\ asked' = [asked EXCEPT ![m] = k]
              /\ \/ /\ inited' = inited \cup {m}
                    /\ k # None /\ n.kind = LinuxKind[k]
                 \/ /\ inited' = inited \ {m}
                    /\ n.kind \in {Fast, Destroyed}
  <2>1. ASSUME NEW j \in {"normal", "errorcheck", "recursive"},
               MutexInit(t, m, LinuxKind[j], j)
        PROVE  \E n \in NativeMutexes :
                  /\ n.owner = Nobody /\ n.count = 0 /\ n.kind = LinuxKind[j]
                  /\ native' = [native EXCEPT ![m] = n]
                  /\ asked' = [asked EXCEPT ![m] = j]
                  /\ inited' = inited \cup {m} /\ j # None
    <3>1. LinuxKind[j] \in {Fast, Recursive, Errorcheck} /\ j # None
      BY Kinds
    <3> DEFINE n == NativeInit(Fixup(native[m], sig[m]), LinuxKind[j])
    <3>2. n \in NativeMutexes /\ n.owner = Nobody /\ n.count = 0 /\ n.kind = LinuxKind[j]
      BY <3>1, InitMakes
    <3>3. /\ native' = [native EXCEPT ![m] = n]
          /\ asked' = [asked EXCEPT ![m] = j]
          /\ inited' = inited \cup {m}
      BY <2>1 DEF MutexInit
    <3> QED BY <3>1, <3>2, <3>3
  <2>2. CASE MutexInit(t, m, attr[t], askedFor[t])
    <3>1. askedFor[t] \in {"normal", "errorcheck", "recursive"}
          /\ attr[t] = LinuxKind[askedFor[t]]
      BY DEF TypeOK, KindsAgree
    <3> QED BY <2>1, <2>2, <3>1
  <2>3. CASE MutexInit(t, m, Fast, "normal")
    BY <2>1, <2>3, Kinds
  <2>4. CASE RecursiveTimedMutex(t, m)
    <3>1. Zeros \in NativeMutexes /\ Zeros.owner = Nobody /\ Zeros.count = 0
          /\ Zeros.kind = Fast
      BY ShimAssumption DEF Zeros, Fresh, NativeMutexes
    <3> QED BY <2>4, <3>1 DEF RecursiveTimedMutex
  <2>5. CASE MutexDestroy(t, m)
    <3> DEFINE n == [native[m] EXCEPT !.kind = Destroyed]
    <3>1. native[m] \in NativeMutexes /\ native[m].owner = Nobody /\ native[m].count = 0
      BY <2>5 DEF TypeOK, NativeMutexes, MutexDestroy, Unused
    <3>2. n \in NativeMutexes /\ n.owner = Nobody /\ n.count = 0 /\ n.kind = Destroyed
      BY <3>1 DEF NativeMutexes
    <3>3. native' = [native EXCEPT ![m] = n]
      BY <2>5 DEF MutexDestroy
    <3> QED BY <2>5, <3>2, <3>3 DEF MutexDestroy
  <2> QED BY <2>2, <2>3, <2>4, <2>5 DEF Make
<1>2. /\ Unused(m) /\ wants' = wants /\ attr' = attr /\ askedFor' = askedFor
      /\ panicked' = panicked
      /\ result' \in [Threads -> {"ok", "refused"}]
      /\ sig' \in [Mutexes -> Signatures \cup {None}]
  <2>1. panicked' = panicked
    BY Zenon DEF Make, MutexInit, RecursiveTimedMutex, MutexDestroy
  <2> QED BY <2>1 DEF Make, MutexInit, RecursiveTimedMutex, MutexDestroy, Returns,
                      TypeOK, Signatures
<1>3. /\ native' \in [Mutexes -> NativeMutexes]
      /\ \A l \in Mutexes : native'[l].owner = Nobody <=> native'[l].count = 0
      /\ \A l \in Mutexes : /\ native'[l].owner = native[l].owner
                            /\ native'[l].count = native[l].count
                            /\ l # m => native'[l] = native[l]
      /\ native'[m] = n
  BY <1>1, <1>2, MutexMade
<1>4. TypeOK'
  <2>1. panicked' \in BOOLEAN
    BY <1>2, Zenon DEF TypeOK
  <2>2. inited' \subseteq Mutexes
    BY <1>1 DEF TypeOK
  <2>3. asked' \in [Mutexes -> {"normal", "errorcheck", "recursive", None}]
    BY <1>1 DEF TypeOK
  <2> QED BY <1>2, <1>3, <2>1, <2>2, <2>3 DEF TypeOK, NativeMutexes
<1>5. KindsAgree'
  <2>1. \A l \in Mutexes :
           /\ l \in inited' => asked'[l] # None /\ native'[l].kind = LinuxKind[asked'[l]]
           /\ l \notin inited' => native'[l].kind \in {Fast, Destroyed}
    BY <1>1, <1>3 DEF KindsAgree, TypeOK
  <2> QED BY <1>2, <2>1 DEF KindsAgree
<1>6. \A u \in Threads : wants[u] # m
  BY <1>2 DEF Unused
<1>7. InUse'
  <2>1. native[m].owner = Nobody
    BY <1>2 DEF Unused
  <2> QED BY <1>1, <1>2, <1>3, <1>6, <2>1 DEF InUse, TypeOK
<1>8. StuckOnlyOnNormal'
  BY <1>1, <1>2, <1>3, <1>6 DEF StuckOnlyOnNormal, Stuck, TypeOK
<1> QED BY <1>4, <1>5, <1>7, <1>8

\* A thread gets a mutex, at once or when it was waiting for it: it waits for no
\* other then, and nobody else holds it.
LEMMA TakeStep ==
    ASSUME MutexInv, NEW t \in Threads, NEW m \in Mutexes,
           \/ LockTakes(t, m)
           \/ LockGranted(t) /\ wants[t] = m
    PROVE  MutexInv'
<1> USE DEF MutexInv
<1>1. /\ Take(t, m) /\ asked[m] # None /\ wants' = [wants EXCEPT ![t] = NoMutex]
      /\ sig' = sig /\ attr' = attr /\ asked' = asked /\ askedFor' = askedFor
      /\ inited' = inited /\ result' = [result EXCEPT ![t] = "ok"]
      /\ panicked' = panicked
  <2>1. panicked' = panicked
    BY Zenon DEF LockTakes, LockGranted
  <2>2. CASE LockTakes(t, m)
    BY <2>1, <2>2 DEF LockTakes, Running, Take, Returns, TypeOK
  <2>3. CASE LockGranted(t) /\ wants[t] = m
    BY <2>1, <2>3, ShimAssumption DEF LockGranted, Take, Returns, InUse, TypeOK
  <2> QED BY <2>2, <2>3
<1>2. /\ native' \in [Mutexes -> NativeMutexes]
      /\ native'[m].owner = t /\ native'[m].count = native[m].count + 1
      /\ native'[m].kind = native[m].kind
      /\ native[m].count + 1 \in 1 .. MaxDepth
      /\ \A n \in Mutexes : n # m => native'[n] = native[n]
      /\ t # Nobody
  BY <1>1, TakeChanges
<1>3. TypeOK'
  <2>1. panicked' \in BOOLEAN
    BY <1>1, Zenon DEF TypeOK
  <2>2. native'[m].owner = Nobody <=> native'[m].count = 0
    BY <1>2
  <2>3. \A n \in Mutexes : native'[n].owner = Nobody <=> native'[n].count = 0
    BY <1>2, <2>2 DEF TypeOK
  <2> QED BY <1>1, <1>2, <2>1, <2>3 DEF TypeOK, NativeMutexes
<1>4. KindsAgree' /\ InUse'
  BY <1>1, <1>2 DEF KindsAgree, InUse, TypeOK
<1>5. StuckOnlyOnNormal'
  <2> SUFFICES ASSUME NEW u \in Threads, Stuck(u)'
               PROVE  asked[wants'[u]] = "normal" \/ wants'[u] \notin inited
    BY <1>1 DEF StuckOnlyOnNormal
  <2>1. u # t /\ wants'[u] = wants[u] /\ wants[u] \in Mutexes
    BY <1>1 DEF Stuck, TypeOK
  <2>2. wants[u] # m
    BY <1>2, <2>1 DEF Stuck
  <2> QED BY <1>2, <2>1, <2>2 DEF Stuck, StuckOnlyOnNormal
<1> QED BY <1>3, <1>4, <1>5

\* A thread that locks what it holds waits for itself only on a plain mutex of
\* Linux: one that is asked to be normal, or that init did not make.
LEMMA BlockStep ==
    ASSUME MutexInv, NEW t \in Threads, NEW m \in Mutexes, LockBlocks(t, m)
    PROVE  MutexInv'
<1> USE DEF MutexInv
<1>1. /\ asked[m] # None /\ wants' = [wants EXCEPT ![t] = m]
      /\ native[m].owner = t => native[m].kind \in {Fast, Adaptive}
      /\ sig' = sig /\ attr' = attr /\ asked' = asked /\ askedFor' = askedFor
      /\ native' = native /\ inited' = inited /\ result' = result
      /\ panicked' = panicked
  <2>1. panicked' = panicked
    BY Zenon DEF LockBlocks
  <2> QED BY <2>1 DEF LockBlocks
<1>2. TypeOK'
  <2>1. panicked' \in BOOLEAN
    BY <1>1, Zenon DEF TypeOK
  <2> QED BY <1>1, <2>1 DEF TypeOK
<1>3. KindsAgree' /\ InUse'
  BY <1>1 DEF KindsAgree, InUse, TypeOK
<1>4. StuckOnlyOnNormal'
  <2> SUFFICES ASSUME NEW u \in Threads, Stuck(u)'
               PROVE  asked[wants'[u]] = "normal" \/ wants'[u] \notin inited
    BY <1>1 DEF StuckOnlyOnNormal
  <2>1. CASE u = t
    <3>1. wants'[u] = m /\ native[m].kind \in {Fast, Adaptive}
      BY <1>1, <2>1 DEF Stuck, TypeOK
    <3>2. m \in inited => asked[m] \in {"normal", "errorcheck", "recursive"}
                          /\ native[m].kind = LinuxKind[asked[m]]
      BY DEF KindsAgree, TypeOK
    <3> QED BY <3>1, <3>2, Kinds DEF Fast, Adaptive, Errorcheck, Recursive
  <2>2. CASE u # t
    BY <1>1, <2>2 DEF Stuck, StuckOnlyOnNormal, TypeOK
  <2> QED BY <2>1, <2>2
<1> QED BY <1>2, <1>3, <1>4

\* A mutex is given back, or a call refused.
LEMMA UnlockStep ==
    ASSUME MutexInv, NEW t \in Threads, NEW m \in Mutexes,
           LockRefused(t, m) \/ TrylockRefused(t, m) \/ Unlock(t, m)
    PROVE  MutexInv'
<1> USE DEF MutexInv
<1>1. /\ wants' = wants /\ sig' = sig /\ attr' = attr /\ asked' = asked
      /\ askedFor' = askedFor /\ inited' = inited /\ panicked' = panicked
      /\ \E r \in {"ok", "refused"} : result' = [result EXCEPT ![t] = r]
      /\ \/ native' = native
         \/ /\ native[m].owner # Nobody
            /\ native' = [native EXCEPT ![m] = Released(@)]
  <2>1. panicked' = panicked
    BY Zenon DEF LockRefused, TrylockRefused, Unlock
  <2> QED BY <2>1 DEF LockRefused, TrylockRefused, Unlock, Returns
<1>2. /\ native' \in [Mutexes -> NativeMutexes]
      /\ \A n \in Mutexes :
            /\ native'[n].kind = native[n].kind
            /\ native'[n].owner \in {native[n].owner, Nobody}
            /\ native'[n].owner = Nobody <=> native'[n].count = 0
  <2>1. native \in [Mutexes -> NativeMutexes]
    BY DEF TypeOK, NativeMutexes
  <2>2. CASE native' = native
    BY <2>1, <2>2 DEF TypeOK
  <2>3. CASE /\ native[m].owner # Nobody
             /\ native' = [native EXCEPT ![m] = Released(@)]
    <3> DEFINE o == native[m]
    <3>1. o \in NativeMutexes /\ o.count \in 1 .. MaxDepth
      BY <2>1, <2>3, ShimAssumption DEF TypeOK, NativeMutexes
    <3>2. o.count - 1 \in 0 .. MaxDepth /\ (o.count - 1 = 0 <=> o.count = 1)
      BY <3>1, ShimAssumption
    <3> DEFINE o1 == [o EXCEPT !.count = @ - 1]
               o2 == [o1 EXCEPT !.owner = IF o.count = 1 THEN Nobody ELSE @]
    <3> HIDE DEF o
    <3>3. o1 \in NativeMutexes /\ o1.count = o.count - 1 /\ o1.kind = o.kind
          /\ o1.owner = o.owner
      BY <3>1, <3>2 DEF NativeMutexes
    <3> HIDE DEF o1
    <3>4. /\ o2 \in NativeMutexes /\ o2.count = o1.count /\ o2.kind = o1.kind
          /\ o2.owner = IF o.count = 1 THEN Nobody ELSE o1.owner
      BY <3>3 DEF NativeMutexes
    <3> HIDE DEF o2
    <3>5. native' = [native EXCEPT ![m] = o2]
      BY <2>3 DEF Released, o2, o1, o
    <3>6. o2.owner = Nobody <=> o2.count = 0
      BY <2>3, <3>2, <3>3, <3>4 DEF o
    <3> QED BY <2>1, <3>3, <3>4, <3>5, <3>6 DEF TypeOK, o
  <2> QED BY <1>1, <2>2, <2>3
<1>3. TypeOK'
  <2>1. panicked' \in BOOLEAN
    BY <1>1, Zenon DEF TypeOK
  <2> QED BY <1>1, <1>2, <2>1 DEF TypeOK, NativeMutexes
<1>4. KindsAgree' /\ InUse'
  BY <1>1, <1>2 DEF KindsAgree, InUse
<1>5. StuckOnlyOnNormal'
  <2> SUFFICES ASSUME NEW u \in Threads, Stuck(u)'
               PROVE  asked[wants[u]] = "normal" \/ wants[u] \notin inited
    BY <1>1 DEF StuckOnlyOnNormal
  <2>1. wants[u] \in Mutexes /\ native'[wants[u]].owner = u /\ u # Nobody
    BY <1>1, ShimAssumption DEF Stuck, TypeOK
  <2>2. Stuck(u)
    BY <1>1, <1>2, <2>1 DEF Stuck
  <2> QED BY <2>2 DEF StuckOnlyOnNormal
<1> QED BY <1>3, <1>4, <1>5

\* Every call on a mutex, an attribute or a mutex of C++ keeps the invariant.
LEMMA MutexStep == MutexInv /\ [Next]_vars => MutexInv'
<1> SUFFICES ASSUME MutexInv, [Next]_vars PROVE MutexInv'
  OBVIOUS
<1>1. ASSUME NEW t \in Threads, RecursiveMutex(t)
      PROVE  MutexInv'
  <2>1. /\ sig' = sig /\ native' = native /\ attr' = attr /\ wants' = wants
        /\ result' = result /\ asked' = asked /\ askedFor' = askedFor
        /\ inited' = inited
    BY <1>1 DEF RecursiveMutex
  <2>2. panicked' \in BOOLEAN
    BY <1>1, Zenon DEF RecursiveMutex
  <2> QED BY <2>1, <2>2 DEF MutexInv, TypeOK, KindsAgree, InUse, StuckOnlyOnNormal, Stuck
<1>2. ASSUME NEW t \in Threads, LockGranted(t)
      PROVE  MutexInv'
  <2>1. wants[t] \in Mutexes
    BY <1>2 DEF LockGranted, MutexInv, TypeOK
  <2> QED BY <1>2, <2>1, TakeStep
<1>3. ASSUME UNCHANGED vars
      PROVE  MutexInv'
  <2>1. /\ sig' = sig /\ native' = native /\ attr' = attr /\ wants' = wants
        /\ result' = result /\ asked' = asked /\ askedFor' = askedFor
        /\ inited' = inited
    BY <1>3 DEF vars
  <2>2. panicked' \in BOOLEAN
    BY <1>3, Zenon DEF vars, MutexInv, TypeOK
  <2> QED BY <2>1, <2>2 DEF MutexInv, TypeOK, KindsAgree, InUse, StuckOnlyOnNormal, Stuck
<1> QED BY <1>1, <1>2, <1>3, AttrStep, MakeStep, TakeStep, BlockStep, UnlockStep DEF Next

\* The mutexes are, for the image, those of Darwin that it asked for: the initial
\* states map to initial states.
LEMMA InitDarwin == Init => Darwin!Init
<1> SUFFICES ASSUME Init PROVE Darwin!Init
  OBVIOUS
<1>1. MutexInv
  BY InitMutexInv
<1>2. \A m \in Mutexes : native[m].owner = Nobody /\ native[m].count = 0
  BY DEF Init, Zeros, Fresh
<1>3. \A m \in Mutexes : Kind(m) \in {"normal", "errorcheck", "recursive", "unchecked", None}
  BY <1>1 DEF Kind, MutexInv, TypeOK
<1>4. result = [t \in Threads |-> "ok"]
  BY DEF Init
<1> QED BY <1>2, <1>3, <1>4 DEF Darwin!Init

\* The kind the image sees is one Linux treats as such.
LEMMA KindFacts ==
    ASSUME MutexInv, NEW m \in Mutexes
    PROVE  /\ Kind(m) = "recursive" => native[m].kind = Recursive
           /\ Kind(m) = "errorcheck" => native[m].kind = Errorcheck
           /\ native[m].kind = Recursive => Kind(m) = "recursive"
           /\ native[m].kind = Errorcheck => Kind(m) = "errorcheck"
           /\ asked[m] # None => Kind(m) # None
           /\ asked[m] \in {"errorcheck", "recursive"}
              /\ native[m].kind \notin {Errorcheck, Recursive} => Kind(m) = "unchecked"
           /\ Kind(m) \in {"normal", "errorcheck", "recursive", "unchecked", None}
<1>1. asked[m] \in {"normal", "errorcheck", "recursive", None}
  BY DEF MutexInv, TypeOK
<1>2. /\ m \in inited => asked[m] # None /\ native[m].kind = LinuxKind[asked[m]]
      /\ m \notin inited => native[m].kind \in {Fast, Destroyed}
  BY DEF MutexInv, KindsAgree
<1>3. Fast = 0 /\ Recursive = 1 /\ Errorcheck = 2 /\ Destroyed = -1
  BY DEF Fast, Recursive, Errorcheck, Destroyed
<1>4. None # "errorcheck" /\ None # "recursive" /\ None # "normal"
  BY ShimAssumption
<1>5. CASE m \in inited
  <2>1. Kind(m) = asked[m] /\ asked[m] \in {"normal", "errorcheck", "recursive"}
    BY <1>1, <1>2, <1>5 DEF Kind
  <2> QED BY <1>2, <1>3, <1>4, <1>5, <2>1, Kinds
<1>6. CASE m \notin inited
  <2>1. Kind(m) = IF asked[m] \in {"normal", None} THEN asked[m] ELSE "unchecked"
    BY <1>6 DEF Kind
  <2>2. Kind(m) \in {"normal", "unchecked", None} /\ native[m].kind \in {0, -1}
    BY <1>1, <1>2, <1>3, <1>6, <2>1
  <2>3. asked[m] # None => Kind(m) # None
    BY <2>1, ShimAssumption
  <2> QED BY <1>1, <1>3, <1>4, <2>1, <2>2, <2>3
<1> QED BY <1>5, <1>6

\* The kinds the image sees change with what it asked of a mutex and with how the
\* mutex was made, and with nothing else.
LEMMA KindsKept ==
    ASSUME asked' = asked, inited' = inited
    PROVE  [m \in Mutexes |-> Kind(m)]' = [m \in Mutexes |-> Kind(m)]
BY DEF Kind

\* A lock that is taken, at once or after waiting, is one that Darwin's mutex of
\* that kind would give.
LEMMA TakeRefines ==
    ASSUME MutexInv, NEW t \in Threads, NEW m \in Mutexes,
           \/ LockTakes(t, m)
           \/ LockGranted(t) /\ wants[t] = m
    PROVE  Darwin!Locks(t, m)
<1>1. /\ Take(t, m) /\ asked[m] # None
      /\ asked' = asked /\ inited' = inited /\ result' = [result EXCEPT ![t] = "ok"]
  BY DEF LockTakes, LockGranted, Take, Returns, InUse, MutexInv
<1>2. /\ native'[m].owner = t /\ native'[m].count = native[m].count + 1
      /\ \A n \in Mutexes : n # m => native'[n] = native[n]
  BY <1>1, TakeChanges DEF MutexInv
<1>3. [n \in Mutexes |-> Kind(n)]' = [n \in Mutexes |-> Kind(n)]
  BY <1>1, KindsKept
<1>4. Kind(m) # None
  BY <1>1, KindFacts
<1>5. native[m].owner = Nobody \/ (native[m].owner = t /\ Kind(m) = "recursive")
  BY <1>1, KindFacts DEF Take, Reenters
<1>6. [n \in Mutexes |-> native[n].owner]' = [[n \in Mutexes |-> native[n].owner] EXCEPT ![m] = t]
  BY <1>2
<1>7. [n \in Mutexes |-> native[n].count]'
         = [[n \in Mutexes |-> native[n].count] EXCEPT ![m] = @ + 1]
  BY <1>2
<1> QED BY <1>1, <1>3, <1>4, <1>5, <1>6, <1>7 DEF Darwin!Locks, Darwin!Returns

\* A call is refused, or gives a lock back, as Darwin's mutex of that kind does.
LEMMA UnlockRefines ==
    ASSUME MutexInv, NEW t \in Threads, NEW m \in Mutexes,
           LockRefused(t, m) \/ TrylockRefused(t, m) \/ Unlock(t, m)
    PROVE  Darwin!Refuses(t, m) \/ Darwin!Unlocks(t, m)
<1>1. /\ asked[m] # None /\ asked' = asked /\ inited' = inited
      /\ native[m].owner # Nobody
      /\ t # Nobody
  BY ShimAssumption DEF LockRefused, TrylockRefused, Unlock
<1>2. [n \in Mutexes |-> Kind(n)]' = [n \in Mutexes |-> Kind(n)]
  BY <1>1, KindsKept
<1>3. ASSUME native' = native, result' = [result EXCEPT ![t] = "refused"],
             \/ ~ (native[m].owner = t /\ Kind(m) = "recursive")
             \/ Kind(m) \in {"errorcheck", "recursive"} /\ native[m].owner # t
      PROVE  Darwin!Refuses(t, m)
  BY <1>1, <1>2, <1>3 DEF Darwin!Refuses, Darwin!Returns
<1>4. CASE LockRefused(t, m)
  <2>1. Kind(m) = "errorcheck"
    BY <1>4, KindFacts DEF LockRefused
  <2> QED BY <1>3, <1>4, <2>1 DEF LockRefused, Returns
<1>5. CASE TrylockRefused(t, m)
  <2>1. ~ (native[m].owner = t /\ Kind(m) = "recursive")
    BY <1>5, KindFacts DEF TrylockRefused, Reenters
  <2> QED BY <1>3, <1>5, <2>1 DEF TrylockRefused, Returns
<1>6. CASE Unlock(t, m) /\ native[m].owner # t /\ native[m].kind \in {Errorcheck, Recursive}
  BY <1>3, <1>6 DEF Unlock, Returns
<1>7. CASE Unlock(t, m) /\ ~ (native[m].owner # t /\ native[m].kind \in {Errorcheck, Recursive})
  <2>1. /\ result' = [result EXCEPT ![t] = "ok"]
        /\ native' = [native EXCEPT ![m] = Released(@)]
    BY <1>7 DEF Unlock, Returns
  <2>2. native[m].owner = t \/ Kind(m) = "unchecked"
    BY <1>7, KindFacts DEF Unlock
  <2>3. /\ native'[m].owner = IF native[m].count = 1 THEN Nobody ELSE native[m].owner
        /\ native'[m].count = native[m].count - 1
        /\ \A n \in Mutexes : n # m => native'[n] = native[n]
    <3> DEFINE o  == native[m]
               o1 == [o EXCEPT !.count = @ - 1]
               o2 == [o1 EXCEPT !.owner = IF o.count = 1 THEN Nobody ELSE @]
    <3>1. native \in [Mutexes -> NativeMutexes] /\ o \in NativeMutexes
      BY DEF MutexInv, TypeOK, NativeMutexes
    <3>2. native' = [native EXCEPT ![m] = o2]
      BY <2>1 DEF Released
    <3> HIDE DEF o
    <3>3. o1.count = o.count - 1 /\ o1.owner = o.owner
          /\ o1 \in [kind: {Destroyed, Fast, Recursive, Errorcheck, Adaptive},
                     owner: Threads \cup {Nobody}, count: Int]
      BY <3>1 DEF NativeMutexes
    <3> HIDE DEF o1
    <3>4. o2.count = o1.count /\ o2.owner = IF o.count = 1 THEN Nobody ELSE o1.owner
      BY <3>3
    <3> HIDE DEF o2
    <3>5. native'[m] = o2 /\ \A n \in Mutexes : n # m => native'[n] = native[n]
      BY <3>1, <3>2
    <3> QED BY <3>3, <3>4, <3>5 DEF o
  <2>4. [n \in Mutexes |-> native[n].owner]'
           = [[n \in Mutexes |-> native[n].owner]
                EXCEPT ![m] = IF native[m].count = 1 THEN Nobody ELSE @]
    BY <2>3
  <2>5. [n \in Mutexes |-> native[n].count]'
           = [[n \in Mutexes |-> native[n].count] EXCEPT ![m] = @ - 1]
    BY <2>3
  <2>6. Darwin!Unlocks(t, m)
    BY <1>1, <1>2, <2>1, <2>2, <2>4, <2>5 DEF Darwin!Unlocks, Darwin!Returns
  <2> QED BY <2>6
<1> QED BY <1>4, <1>5, <1>6, <1>7

\* A mutex is made and destroyed as Darwin's are: of the kind that was asked for,
\* when nobody holds it.
LEMMA MakeRefines ==
    ASSUME MutexInv, NEW t \in Threads, NEW m \in Mutexes, Make(t, m)
    PROVE  \E k \in {"normal", "errorcheck", "recursive", "unchecked", None} :
              /\ Darwin!Make(m, k)
              /\ UNCHANGED result \/ \E u \in Threads : Darwin!Returns(u, "ok")
<1> USE DEF MutexInv
<1>1. /\ native[m].owner = Nobody
      /\ result' = result \/ result' = [result EXCEPT ![t] = "ok"]
      /\ \A l \in Mutexes : l # m => asked'[l] = asked[l] /\ (l \in inited' <=> l \in inited)
  BY DEF Make, MutexInit, RecursiveTimedMutex, MutexDestroy, Unused, Returns, TypeOK
<1>2. MutexInv'
  BY MakeStep
<1>3. \A l \in Mutexes : /\ native'[l].owner = native[l].owner
                         /\ native'[l].count = native[l].count
  <2>1. ASSUME NEW n, native' = [native EXCEPT ![m] = n], n.owner = Nobody, n.count = 0
        PROVE  \A l \in Mutexes : /\ native'[l].owner = native[l].owner
                                  /\ native'[l].count = native[l].count
    BY <1>1, <2>1 DEF TypeOK
  <2>2. ASSUME NEW k \in {Fast, Recursive, Errorcheck}, NEW promised, MutexInit(t, m, k, promised)
        PROVE  \A l \in Mutexes : /\ native'[l].owner = native[l].owner
                                  /\ native'[l].count = native[l].count
    <3> DEFINE n == NativeInit(Fixup(native[m], sig[m]), k)
    <3>1. n.owner = Nobody /\ n.count = 0
      BY InitMakes
    <3>2. native' = [native EXCEPT ![m] = n]
      BY <2>2 DEF MutexInit
    <3> HIDE DEF n
    <3> QED BY <2>1, <3>1, <3>2
  <2>3. attr[t] \in {Fast, Recursive, Errorcheck}
    BY DEF TypeOK
  <2>4. CASE RecursiveTimedMutex(t, m)
    <3>1. Zeros.owner = Nobody /\ Zeros.count = 0
      BY DEF Zeros, Fresh
    <3>2. native' = [native EXCEPT ![m] = Zeros]
      BY <2>4 DEF RecursiveTimedMutex
    <3> QED BY <2>1, <3>1, <3>2
  <2>5. CASE MutexDestroy(t, m)
    <3> DEFINE n == [native[m] EXCEPT !.kind = Destroyed]
    <3>1. native[m] \in NativeMutexes /\ native[m].owner = Nobody /\ native[m].count = 0
      BY <1>1 DEF TypeOK, NativeMutexes
    <3>2. n.owner = Nobody /\ n.count = 0
      BY <3>1 DEF NativeMutexes
    <3> QED BY <2>1, <2>5, <3>2 DEF MutexDestroy
  <2> QED BY <2>2, <2>3, <2>4, <2>5 DEF Make
<1>4. /\ [n \in Mutexes |-> native[n].owner]' = [n \in Mutexes |-> native[n].owner]
      /\ [n \in Mutexes |-> native[n].count]' = [n \in Mutexes |-> native[n].count]
  BY <1>3
<1>5. \A l \in Mutexes : l # m => Kind(l)' = Kind(l)
  BY <1>1 DEF Kind
<1>6. Kind(m)' \in {"normal", "errorcheck", "recursive", "unchecked", None}
  BY <1>2 DEF Kind, TypeOK
<1>7. [n \in Mutexes |-> Kind(n)]' = [[n \in Mutexes |-> Kind(n)] EXCEPT ![m] = Kind(m)']
  BY <1>5
<1>8. Darwin!Make(m, Kind(m)')
  BY <1>1, <1>4, <1>7 DEF Darwin!Make
<1> QED BY <1>1, <1>6, <1>8 DEF Darwin!Returns

\* Every step of the mutexes is one of Darwin's, or is not seen there: a thread
\* that begins to wait, and a constructor that panics.
LEMMA DarwinStep == MutexInv /\ [Next]_vars => [Darwin!Next]_(Darwin!vars)
<1> SUFFICES ASSUME MutexInv, [Next]_vars PROVE [Darwin!Next]_(Darwin!vars)
  OBVIOUS
<1>1. ASSUME NEW t \in Threads,
             AttrInit(t) \/ \E type \in 0 .. 2 : AttrSettype(t, type)
      PROVE  Darwin!Other(t)
  <2>1. /\ native' = native /\ asked' = asked /\ inited' = inited
        /\ result' = [result EXCEPT ![t] = "ok"]
    BY <1>1 DEF AttrInit, AttrSettype, Returns
  <2>2. [n \in Mutexes |-> Kind(n)]' = [n \in Mutexes |-> Kind(n)]
    BY <2>1, KindsKept
  <2> QED BY <2>1, <2>2 DEF Darwin!Other, Darwin!Returns
<1>2. ASSUME \/ UNCHANGED vars
             \/ \E t \in Threads : RecursiveMutex(t)
             \/ \E t \in Threads, m \in Mutexes : LockBlocks(t, m)
      PROVE  UNCHANGED Darwin!vars
  <2>1. native' = native /\ asked' = asked /\ inited' = inited /\ result' = result
    BY <1>2 DEF vars, RecursiveMutex, LockBlocks
  <2>2. [n \in Mutexes |-> Kind(n)]' = [n \in Mutexes |-> Kind(n)]
    BY <2>1, KindsKept
  <2> QED BY <2>1, <2>2 DEF Darwin!vars
<1>3. ASSUME NEW t \in Threads, LockGranted(t)
      PROVE  \E m \in Mutexes : Darwin!Locks(t, m)
  <2>1. PICK m \in Mutexes : m = wants[t]
    BY <1>3 DEF LockGranted, MutexInv, TypeOK
  <2>2. Darwin!Locks(t, m)
    BY <1>3, <2>1, TakeRefines
  <2> QED BY <2>2
<1>4. ASSUME NEW t \in Threads, NEW m \in Mutexes, Make(t, m)
      PROVE  Darwin!Next
  BY <1>4, MakeRefines DEF Darwin!Next
<1>5. ASSUME NEW t \in Threads, NEW m \in Mutexes,
             \/ LockTakes(t, m) \/ LockRefused(t, m)
             \/ TrylockRefused(t, m) \/ Unlock(t, m)
      PROVE  Darwin!Next
  <2>1. Darwin!Locks(t, m) \/ Darwin!Refuses(t, m) \/ Darwin!Unlocks(t, m)
    BY <1>5, TakeRefines, UnlockRefines
  <2> QED BY <2>1 DEF Darwin!Next
<1>6. (\E t \in Threads : Darwin!Other(t)) => Darwin!Next
  BY DEF Darwin!Next
<1>7. (\E t \in Threads, m \in Mutexes : Darwin!Locks(t, m)) => Darwin!Next
  BY DEF Darwin!Next
<1>8. CASE UNCHANGED vars
  BY <1>2, <1>8
<1>9. CASE Next
  <2>1. PICK t \in Threads :
           \/ AttrInit(t) \/ RecursiveMutex(t) \/ LockGranted(t)
           \/ \E type \in 0 .. 2 : AttrSettype(t, type)
           \/ \E m \in Mutexes : \/ Make(t, m)
                                 \/ LockTakes(t, m) \/ LockRefused(t, m) \/ LockBlocks(t, m)
                                 \/ TrylockRefused(t, m) \/ Unlock(t, m)
    BY <1>9, Zenon DEF Next
  <2>2. Darwin!Next \/ UNCHANGED Darwin!vars
    BY <1>1, <1>2, <1>3, <1>4, <1>5, <1>6, <1>7, <2>1
  <2> QED BY <2>2
<1> QED BY <1>8, <1>9

\* Through the variables of the mutexes, the threads and the identifiers stand
\* still.
LEMMA SharedMutexes == SharedSpec => Spec
<1>1. SharedInit => Init
  BY DEF SharedInit
<1>2. [SharedNext]_<<part, mutexVars, threadVars, uuidVars>> => [Next]_vars
  BY DEF SharedNext, mutexVars
<1> QED BY <1>1, <1>2, PTL DEF SharedSpec, Spec

\* However many threads and mutexes there are, a mutex that pthread_mutex_init
\* made is locked again, refused, released and given on as its kind has it, in
\* memory that was any mutex before and by attributes that were used for any other
\* (stub_pthread.c:130-170, 382-395).
THEOREM SharedMutexesAsMade == SharedSpec => MutexesAsMade
<1>1. MutexInv => TypeOK /\ StuckOnlyOnNormal
  BY DEF MutexInv
<1> QED BY <1>1, SharedMutexes, InitMutexInv, MutexStep, InitDarwin, DarwinStep, PTL
        DEF Spec, MutexesAsMade, ImplementsDarwin, Darwin!Spec

-----------------------------------------------------------------------------
(* Threads.                                                                *)

\* What a handle holds that holds a thread.
HandleValues == [id: Ids, nr: Nat, spent: BOOLEAN, asked: {"joinable", "detached"}]

\* A handle the image may still join or detach.
Live(h) == handle[h] # Null /\ ~ handle[h].spent /\ handle[h].asked = "joinable"

\* No two handles were given the same thread.
NumbersDiffer ==
    \A g, h \in Handles :
        handle[g] # Null /\ handle[h] # Null /\ handle[g].nr = handle[h].nr => g = h

\* A join that waits has its handle for itself, one that was not used before
\* unless it is a std::thread.
JoinsAlone ==
    \A c \in Pthreads!Callers : joining[c] # Null =>
        /\ handle[joining[c]] # Null
        /\ ~ Live(joining[c]) => (strayed \/ misread) /\ joining[c] \in CxxHandles
        /\ \A u \in Pthreads!Callers : joining[u] = joining[c] => u = c

\* Such a handle's id is still its thread's, which a join can wait for.
LiveNamed ==
    ~ strayed /\ ~ misread =>
        \A h \in Handles : Live(h) => /\ thread[handle[h].id].nr = handle[h].nr
                                     /\ thread[handle[h].id].state # "free"
                                     /\ ~ thread[handle[h].id].detached

\* The thread of a handle that was used is gone or detached, if it still has the id.
SpentGone ==
    ~ strayed /\ ~ misread =>
        \A h \in Handles : handle[h] # Null /\ handle[h].spent /\ Pthreads!Current(h) =>
            \/ thread[handle[h].id].state = "free"
            \/ handle[h].asked = "detached" /\ thread[handle[h].id].detached

\* Only the number of a joinable thread makes attributes that Linux has for those
\* of a detached one.
AttrsJoinable == ~ misread => detach = Pthreads!Joinable

ThreadInv == /\ Pthreads!TypeOK /\ handle \in [Handles -> HandleValues \cup {Null}]
             /\ NumbersDiffer /\ JoinsAlone /\ LiveNamed /\ SpentGone /\ AttrsJoinable
             /\ Pthreads!JoinedEnded

\* No thread and no handle is there at the beginning.
LEMMA InitThreadInv == Pthreads!Init => ThreadInv /\ Pthreads!ZeroExplained
<1> SUFFICES ASSUME Pthreads!Init PROVE ThreadInv /\ Pthreads!ZeroExplained
  OBVIOUS
<1>1. misread = FALSE /\ early = FALSE /\ status = "running"
  BY Zenon DEF Pthreads!Init
<1>2. misread \in BOOLEAN
  BY <1>1, Zenon
<1>3. thread \in [Ids -> [nr: 0 .. MaxThreads, state: {"free", "running", "ended"},
                         detached: BOOLEAN]]
  BY PartsAssumption DEF Pthreads!Init, Pthreads!ThreadAssumption
<1>4. Pthreads!TypeOK
  BY <1>2, <1>3, PartsAssumption
     DEF Pthreads!Init, Pthreads!TypeOK, Pthreads!ThreadAssumption
<1>5. \A h \in Handles : handle[h] = Null
  BY DEF Pthreads!Init
<1>6. NumbersDiffer /\ JoinsAlone /\ LiveNamed /\ SpentGone
  BY <1>5 DEF Pthreads!Init, NumbersDiffer, JoinsAlone, LiveNamed, SpentGone, Live
<1>7. handle \in [Handles -> HandleValues \cup {Null}] /\ AttrsJoinable
  BY DEF Pthreads!Init, AttrsJoinable
<1> QED BY <1>1, <1>4, <1>6, <1>7
        DEF ThreadInv, Pthreads!JoinedEnded, Pthreads!ZeroExplained

\* Steps that concern no thread and no handle.
LEMMA AsideStep ==
    ASSUME ThreadInv,
           UNCHANGED <<thread, created, handle, joining, early, strayed>>,
           misread => misread', misread' \in BOOLEAN,
           detach' \in {Pthreads!Joinable, Pthreads!Detached},
           detachAsked' \in {"joinable", "detached"},
           ~ misread' => detach' = Pthreads!Joinable,
           written' \in 0 .. Lines, status' \in {"running", "exit0", "trap"}
    PROVE  ThreadInv'
<1>1. Pthreads!TypeOK'
  BY DEF ThreadInv, Pthreads!TypeOK, Pthreads!Callers, Pthreads!Joinable, Pthreads!Detached
<1>2. NumbersDiffer' /\ JoinsAlone'
  BY DEF ThreadInv, NumbersDiffer, JoinsAlone, Live
<1>3. LiveNamed' /\ SpentGone'
  BY DEF ThreadInv, LiveNamed, SpentGone, Live, Pthreads!Current
<1>4. AttrsJoinable' /\ Pthreads!JoinedEnded'
  BY DEF ThreadInv, AttrsJoinable, Pthreads!JoinedEnded, Pthreads!Joinable
<1> QED BY <1>1, <1>2, <1>3, <1>4 DEF ThreadInv

\* The attributes, the uses of stubs, and what main does.
LEMMA AsideSteps ==
    ASSUME ThreadInv,
           \/ \E c \in Pthreads!Callers :
                 \/ Pthreads!AttrInit(c)
                 \/ \E d \in DetachStates : Pthreads!AttrSetdetachstate(c, d)
                 \/ \E h \in Handles : Pthreads!Destroy(c, h)
                 \/ \E n \in Uses : Pthreads!Use(c, n)
           \/ Pthreads!WriteLine \/ Pthreads!Finish
           \/ UNCHANGED Pthreads!vars
    PROVE  ThreadInv'
<1>1. UNCHANGED <<thread, created, handle, joining, early, strayed>>
  BY DEF Pthreads!AttrInit, Pthreads!AttrSetdetachstate, Pthreads!Destroy, Pthreads!Use,
         Pthreads!WriteLine, Pthreads!Finish, Pthreads!vars
<1>2. misread' = misread \/ \E d \in DetachStates : misread' = (misread \/ d = Pthreads!DarwinJoinable)
  BY Zenon DEF Pthreads!AttrInit, Pthreads!AttrSetdetachstate, Pthreads!Destroy, Pthreads!Use,
         Pthreads!WriteLine, Pthreads!Finish, Pthreads!vars
<1>3. misread \in BOOLEAN
  BY Zenon DEF ThreadInv, Pthreads!TypeOK
<1>4. misread' \in BOOLEAN /\ (misread => misread')
  <2>1. CASE misread' = misread
    BY <1>3, <2>1, Zenon
  <2>2. ASSUME NEW d, misread' = (misread \/ d = Pthreads!DarwinJoinable)
        PROVE  misread' \in BOOLEAN
    BY <2>2, Zenon
  <2>3. ASSUME NEW d, misread' = (misread \/ d = Pthreads!DarwinJoinable)
        PROVE  misread => misread'
    BY <2>3, Zenon
  <2> QED BY <1>2, <2>1, <2>2, <2>3, Zenon
<1>5. /\ detach' \in {Pthreads!Joinable, Pthreads!Detached}
      /\ detachAsked' \in {"joinable", "detached"}
  BY DEF Pthreads!AttrInit, Pthreads!AttrSetdetachstate, Pthreads!Destroy, Pthreads!Use,
         Pthreads!WriteLine, Pthreads!Finish, Pthreads!vars, ThreadInv, Pthreads!TypeOK,
         Pthreads!LinuxDetachState
<1>6. ASSUME ~ misread'
      PROVE  detach' = Pthreads!Joinable
  <2>1. detach = Pthreads!Joinable
    BY <1>4, <1>6 DEF ThreadInv, AttrsJoinable
  <2>2. ASSUME NEW c \in Pthreads!Callers, NEW d \in DetachStates,
               Pthreads!AttrSetdetachstate(c, d)
        PROVE  detach' = Pthreads!Joinable
    <3>1. d # Pthreads!DarwinJoinable
      BY <1>6, <2>2, Zenon DEF Pthreads!AttrSetdetachstate
    <3>2. d = Pthreads!DarwinDetached
      BY <3>1, PartsAssumption DEF Pthreads!ThreadAssumption
    <3>3. Pthreads!LinuxDetachState(d, detach) = detach
      BY <3>2 DEF Pthreads!LinuxDetachState, Pthreads!DarwinDetached, Pthreads!Joinable,
                  Pthreads!Detached
    <3> QED BY <2>1, <2>2, <3>3 DEF Pthreads!AttrSetdetachstate
  <2> QED BY <2>1, <2>2
          DEF Pthreads!AttrInit, Pthreads!Destroy, Pthreads!Use,
              Pthreads!WriteLine, Pthreads!Finish, Pthreads!vars
<1>7. written' \in 0 .. Lines
  BY PartsAssumption
     DEF Pthreads!AttrInit, Pthreads!AttrSetdetachstate, Pthreads!Destroy, Pthreads!Use,
         Pthreads!WriteLine, Pthreads!Finish, Pthreads!vars, ThreadInv, Pthreads!TypeOK,
         Pthreads!ThreadAssumption
<1>8. status' \in {"running", "exit0", "trap"}
  BY DEF Pthreads!AttrInit, Pthreads!AttrSetdetachstate, Pthreads!Destroy, Pthreads!Use,
         Pthreads!WriteLine, Pthreads!Finish, Pthreads!vars, ThreadInv, Pthreads!TypeOK,
         Pthreads!StatusOfPanic
<1> QED BY <1>1, <1>4, <1>5, <1>6, <1>7, <1>8, AsideStep

\* A thread is made with an id that is free, which is no live handle's.
LEMMA CreateStep ==
    ASSUME ThreadInv, NEW c \in Pthreads!Callers, NEW h \in Handles, NEW byAttr \in BOOLEAN,
           Pthreads!Create(c, h, byAttr)
    PROVE  ThreadInv'
<1> USE DEF ThreadInv
<1>1. /\ handle[h] = Null /\ created < MaxThreads /\ created' = created + 1
      /\ detach' = detach /\ detachAsked' = detachAsked /\ joining' = joining
      /\ written' = written /\ status' = status
  BY DEF Pthreads!Create
<1>2. early' = early /\ strayed' = strayed /\ misread' = misread
  BY Zenon DEF Pthreads!Create
<1>3. PICK i \in Ids, d \in BOOLEAN, a \in {"joinable", "detached"} :
              /\ thread[i].state = "free"
              /\ thread' = [thread EXCEPT ![i] = [nr |-> created + 1, state |-> "running",
                                                  detached |-> d]]
              /\ handle' = [handle EXCEPT ![h] = [id |-> i, nr |-> created + 1,
                                                  spent |-> FALSE, asked |-> a]]
              /\ ~ misread => d = FALSE
  <2>1. PICK i \in Ids :
              /\ thread[i].state = "free"
              /\ thread' = [thread EXCEPT ![i] = [nr |-> created + 1, state |-> "running",
                                 detached |-> byAttr /\ detach = Pthreads!Detached]]
              /\ handle' = [handle EXCEPT ![h] =
                                [id |-> i, nr |-> created + 1, spent |-> FALSE,
                                 asked |-> IF byAttr THEN detachAsked ELSE "joinable"]]
    BY Zenon DEF Pthreads!Create
  <2> DEFINE d == byAttr /\ detach = Pthreads!Detached
             a == IF byAttr THEN detachAsked ELSE "joinable"
  <2>2. d \in BOOLEAN /\ a \in {"joinable", "detached"}
    BY DEF Pthreads!TypeOK
  <2>3. ASSUME ~ misread
        PROVE  d = FALSE
    <3>1. detach # Pthreads!Detached
      BY <2>3 DEF AttrsJoinable, Pthreads!Joinable, Pthreads!Detached
    <3> QED BY <3>1, Zenon
  <2>4. /\ thread' = [thread EXCEPT ![i] = [nr |-> created + 1, state |-> "running",
                                            detached |-> d]]
        /\ handle' = [handle EXCEPT ![h] = [id |-> i, nr |-> created + 1,
                                            spent |-> FALSE, asked |-> a]]
    BY <2>1, Zenon
  <2> HIDE DEF d, a
  <2> QED BY <2>1, <2>2, <2>3, <2>4
<1>4. created \in Nat /\ created + 1 \in 1 .. MaxThreads
  BY <1>1, PartsAssumption DEF Pthreads!TypeOK, Pthreads!ThreadAssumption
<1> DEFINE New == [id |-> i, nr |-> created + 1, spent |-> FALSE, asked |-> a]
           T   == [nr |-> created + 1, state |-> "running", detached |-> d]
<1>5. New \in HandleValues /\ New.id = i /\ New.nr = created + 1 /\ ~ New.spent
  BY <1>3, <1>4 DEF HandleValues
<1>6. /\ T \in [nr: 0 .. MaxThreads, state: {"free", "running", "ended"}, detached: BOOLEAN]
      /\ T.nr = created + 1 /\ T.state = "running" /\ (~ misread => ~ T.detached)
  BY <1>3, <1>4
<1>7. handle' = [handle EXCEPT ![h] = New] /\ thread' = [thread EXCEPT ![i] = T]
  BY <1>3
<1> HIDE DEF New, T
<1>8. /\ handle' \in [Handles -> HandleValues \cup {Null}]
      /\ handle'[h] = New /\ \A g \in Handles : g # h => handle'[g] = handle[g]
      /\ \A g \in Handles : g # h /\ handle[g] # Null => handle[g].nr \in 1 .. created
  BY <1>5, <1>7 DEF Pthreads!TypeOK
<1>9. /\ thread' \in [Ids -> [nr: 0 .. MaxThreads, state: {"free", "running", "ended"},
                               detached: BOOLEAN]]
      /\ thread'[i] = T /\ \A j \in Ids : j # i => thread'[j] = thread[j]
  BY <1>6, <1>7 DEF Pthreads!TypeOK
<1>10. Pthreads!TypeOK'
  <2>1. misread' \in BOOLEAN
    BY <1>2, Zenon DEF Pthreads!TypeOK
  <2>2. \A g \in Handles : handle'[g] # Null => handle'[g].nr \in 1 .. created'
    BY <1>1, <1>4, <1>5, <1>8
  <2> QED BY <1>1, <1>4, <1>9, <2>1, <2>2
          DEF Pthreads!TypeOK, Pthreads!Callers, Pthreads!Joinable, Pthreads!Detached
<1>11. NumbersDiffer'
  BY <1>4, <1>5, <1>8 DEF NumbersDiffer
<1>12. JoinsAlone'
  <2>1. \A u \in Pthreads!Callers : joining[u] # Null => joining[u] \in Handles /\ joining[u] # h
    BY <1>1 DEF JoinsAlone, Pthreads!TypeOK
  <2> QED BY <1>1, <1>2, <1>8, <2>1 DEF JoinsAlone, Live
<1>13. LiveNamed'
  <2> SUFFICES ASSUME ~ strayed', ~ misread', NEW g \in Handles, Live(g)'
               PROVE  /\ thread'[handle'[g].id].nr = handle'[g].nr
                      /\ thread'[handle'[g].id].state # "free"
                      /\ ~ thread'[handle'[g].id].detached
    BY DEF LiveNamed
  <2>1. CASE g = h
    BY <1>2, <1>5, <1>6, <1>8, <1>9, <2>1
  <2>2. CASE g # h
    <3>1. Live(g) /\ handle[g] \in HandleValues
      BY <1>8, <2>2 DEF Live
    <3>2. /\ thread[handle[g].id].nr = handle[g].nr
          /\ thread[handle[g].id].state # "free"
          /\ ~ thread[handle[g].id].detached
      BY <1>2, <3>1 DEF LiveNamed
    <3>3. handle[g].id \in Ids /\ handle[g].id # i
      BY <1>3, <3>1, <3>2 DEF HandleValues
    <3> QED BY <1>8, <1>9, <2>2, <3>2, <3>3
  <2> QED BY <2>1, <2>2
<1>14. SpentGone'
  <2> SUFFICES ASSUME ~ strayed', ~ misread', NEW g \in Handles,
                      handle'[g] # Null, handle'[g].spent, Pthreads!Current(g)'
               PROVE  \/ thread'[handle'[g].id].state = "free"
                      \/ handle'[g].asked = "detached" /\ thread'[handle'[g].id].detached
    BY DEF SpentGone
  <2>1. g # h /\ handle'[g] = handle[g] /\ handle[g].nr \in 1 .. created
    BY <1>5, <1>8
  <2>2. handle[g].id \in Ids /\ thread'[handle[g].id].nr = handle[g].nr
    BY <1>8, <2>1 DEF HandleValues, Pthreads!Current
  <2>3. handle[g].id # i
    BY <1>4, <1>6, <1>9, <2>1, <2>2
  <2> QED BY <1>2, <1>9, <2>1, <2>2, <2>3 DEF SpentGone, Pthreads!Current
<1>15. AttrsJoinable' /\ Pthreads!JoinedEnded'
  BY <1>1, <1>2 DEF AttrsJoinable, Pthreads!JoinedEnded, Pthreads!Joinable
<1> QED BY <1>8, <1>10, <1>11, <1>12, <1>13, <1>14, <1>15

\* Of live handles each has an id of its own.
LEMMA LiveApart ==
    ASSUME ThreadInv, ~ strayed, ~ misread, NEW g \in Handles, NEW h \in Handles,
           Live(g), Live(h), handle[g].id = handle[h].id
    PROVE  g = h
BY DEF ThreadInv, LiveNamed, NumbersDiffer, Live

\* A thread ends: a live handle's waits for its join.
LEMMA ReturnStep ==
    ASSUME ThreadInv, NEW i \in Ids, Pthreads!Return(i)
    PROVE  ThreadInv'
<1> USE DEF ThreadInv
<1>1. /\ detach' = detach /\ detachAsked' = detachAsked /\ joining' = joining
      /\ written' = written /\ status' = status /\ created' = created /\ handle' = handle
  BY DEF Pthreads!Return
<1>2. early' = early /\ strayed' = strayed /\ misread' = misread
  BY Zenon DEF Pthreads!Return
<1>3. PICK s \in {"free", "ended"} : /\ thread' = [thread EXCEPT ![i].state = s]
                                     /\ ~ thread[i].detached => s = "ended"
  BY DEF Pthreads!Return
<1>4. /\ thread' \in [Ids -> [nr: 0 .. MaxThreads, state: {"free", "running", "ended"},
                               detached: BOOLEAN]]
      /\ \A j \in Ids : /\ thread'[j].nr = thread[j].nr
                        /\ thread'[j].detached = thread[j].detached
                        /\ thread'[j].state = IF j = i THEN s ELSE thread[j].state
  BY <1>3 DEF Pthreads!TypeOK
<1>5. Pthreads!TypeOK'
  <2>1. misread' \in BOOLEAN
    BY <1>2, Zenon DEF Pthreads!TypeOK
  <2> QED BY <1>1, <1>4, <2>1
          DEF Pthreads!TypeOK, Pthreads!Callers, Pthreads!Joinable, Pthreads!Detached
<1>6. NumbersDiffer' /\ JoinsAlone'
  BY <1>1, <1>2 DEF NumbersDiffer, JoinsAlone, Live
<1>7. LiveNamed'
  <2> SUFFICES ASSUME ~ strayed', ~ misread', NEW g \in Handles, Live(g)'
               PROVE  /\ thread'[handle'[g].id].nr = handle'[g].nr
                      /\ thread'[handle'[g].id].state # "free"
                      /\ ~ thread'[handle'[g].id].detached
    BY DEF LiveNamed
  <2>1. Live(g) /\ handle[g].id \in Ids
    BY <1>1 DEF Live, HandleValues
  <2>2. /\ thread[handle[g].id].nr = handle[g].nr
        /\ thread[handle[g].id].state # "free"
        /\ ~ thread[handle[g].id].detached
    BY <1>2, <2>1 DEF LiveNamed
  <2> QED BY <1>1, <1>3, <1>4, <2>1, <2>2
<1>8. SpentGone'
  <2> SUFFICES ASSUME ~ strayed', ~ misread', NEW g \in Handles,
                      handle'[g] # Null, handle'[g].spent, Pthreads!Current(g)'
               PROVE  \/ thread'[handle'[g].id].state = "free"
                      \/ handle'[g].asked = "detached" /\ thread'[handle'[g].id].detached
    BY DEF SpentGone
  <2>1. handle[g].id \in Ids /\ handle[g] # Null /\ handle[g].spent /\ Pthreads!Current(g)
    BY <1>1, <1>4 DEF HandleValues, Pthreads!Current
  <2>2. \/ thread[handle[g].id].state = "free"
        \/ handle[g].asked = "detached" /\ thread[handle[g].id].detached
    BY <1>2, <2>1 DEF SpentGone
  <2>3. thread[i].state # "free"
    BY DEF Pthreads!Return
  <2> QED BY <1>1, <1>4, <2>1, <2>2, <2>3
<1>9. AttrsJoinable' /\ Pthreads!JoinedEnded'
  BY <1>1, <1>2 DEF AttrsJoinable, Pthreads!JoinedEnded, Pthreads!Joinable
<1> QED BY <1>1, <1>5, <1>6, <1>7, <1>8, <1>9

\* A handle that was joined keeps its id, and the others theirs.
LEMMA Spent ==
    ASSUME handle \in [Handles -> HandleValues \cup {Null}], NEW h \in Handles,
           handle[h] # Null, handle' = [handle EXCEPT ![h].spent = TRUE]
    PROVE  /\ handle' \in [Handles -> HandleValues \cup {Null}]
           /\ handle'[h].spent /\ handle'[h].nr = handle[h].nr
           /\ \A g \in Handles : g # h => handle'[g] = handle[g]
<1> DEFINE v == handle[h]
           w == [v EXCEPT !.spent = TRUE]
<1>1. v \in HandleValues
  OBVIOUS
<1>2. handle' = [handle EXCEPT ![h] = w]
  OBVIOUS
<1> HIDE DEF v
<1>3. w \in HandleValues /\ w.spent /\ w.nr = v.nr
  BY <1>1 DEF HandleValues
<1> HIDE DEF w
<1> QED BY <1>2, <1>3 DEF v

\* A join strays that is of a detached handle, or of one whose id is another
\* thread's.
LEMMA Strayed ==
    ASSUME NEW h, Pthreads!JoinStrays(h)
    PROVE  /\ strayed => strayed'
           /\ ~ strayed' => Pthreads!Current(h) /\ handle[h].asked # "detached"
BY Zenon DEF Pthreads!JoinStrays

\* Until one did, or something was misread, there is no thread to join by a handle
\* that was used.
LEMMA UsedUp ==
    ASSUME ThreadInv, ~ strayed, ~ misread, NEW h \in Handles,
           handle[h] # Null, ~ Live(h), Pthreads!Current(h), handle[h].asked # "detached"
    PROVE  /\ handle[h].spent /\ thread[handle[h].id].state = "free"
           /\ ~ Pthreads!Attached(handle[h].id)
BY DEF ThreadInv, SpentGone, Live, HandleValues, Pthreads!Attached

\* Only a join of a thread that still runs returns too early.
LEMMA EarlyOnly ==
    ASSUME NEW c, NEW h, Pthreads!Joined(c, h)
    PROVE  early' => early \/ Pthreads!Running(h)
BY Zenon DEF Pthreads!Joined

\* And nobody else waits for the thread of a live handle.
LEMMA LiveAttached ==
    ASSUME ThreadInv, ~ strayed, ~ misread, NEW h \in Handles, Live(h),
           \A u \in Pthreads!Callers : joining[u] # h
    PROVE  Pthreads!Attached(handle[h].id)
<1> SUFFICES ASSUME ~ Pthreads!Attached(handle[h].id) PROVE FALSE
  OBVIOUS
<1> USE DEF ThreadInv
<1>1. thread[handle[h].id].state # "free" /\ ~ thread[handle[h].id].detached
  BY DEF LiveNamed
<1>2. PICK u \in Pthreads!Callers : joining[u] # Null /\ handle[joining[u]].id = handle[h].id
  BY <1>1 DEF Pthreads!Attached
<1>3. joining[u] \in Handles /\ Live(joining[u])
  BY <1>2 DEF JoinsAlone, Pthreads!TypeOK
<1>4. joining[u] = h
  BY <1>2, <1>3, LiveApart
<1> QED BY <1>4

\* A join is refused of a handle whose thread was joined already: it changes
\* nothing.
LEMMA RefusedWhenUsed ==
    ASSUME ThreadInv, NEW c \in Pthreads!Callers, NEW h \in Handles,
           Pthreads!JoinRefused(c, h), ~ strayed', ~ misread
    PROVE  ~ strayed /\ ~ Live(h) /\ ~ Pthreads!Running(h)
<1> USE DEF ThreadInv
<1>1. /\ Pthreads!MayJoin(c, h) /\ ~ Pthreads!Waitable(c, handle[h].id)
      /\ Pthreads!JoinStrays(h)
  BY DEF Pthreads!JoinRefused
<1>2. ~ strayed /\ Pthreads!Current(h) /\ handle[h].asked # "detached"
  BY <1>1, Strayed, Zenon
<1>3. /\ handle[h] # Null /\ \A u \in Pthreads!Callers : joining[u] # h
      /\ ~ Pthreads!Circular(c, h)
  BY <1>1 DEF Pthreads!MayJoin, Pthreads!MayUse
<1>4. ASSUME Live(h)
      PROVE  FALSE
  <2>1. Pthreads!Deadlocks(c, handle[h].id)
    BY <1>1, <1>2, <1>3, <1>4, LiveAttached DEF Pthreads!Waitable
  <2>2. handle[h].id \in Pthreads!Callers
    BY <1>4 DEF Live, HandleValues, Pthreads!Callers
  <2>3. joining[handle[h].id] # Null => Pthreads!Current(joining[handle[h].id])
    <3> SUFFICES ASSUME joining[handle[h].id] # Null
                 PROVE  Pthreads!Current(joining[handle[h].id])
      OBVIOUS
    <3>1. joining[handle[h].id] \in Handles /\ Live(joining[handle[h].id])
      BY <1>2, <2>2 DEF JoinsAlone, Pthreads!TypeOK
    <3> QED BY <1>2, <3>1 DEF LiveNamed, Pthreads!Current
  <2> QED BY <1>2, <1>3, <2>1, <2>3 DEF Pthreads!Circular
<1>5. thread[handle[h].id].state = "free"
  BY <1>2, <1>3, <1>4, UsedUp
<1> QED BY <1>2, <1>4, <1>5 DEF Pthreads!Running

\* pthread_join of an id that no thread can be waited for under returns at once,
\* and the handle is used up (stub_pthread.c:272-275).
LEMMA JoinRefusedStep ==
    ASSUME ThreadInv, NEW c \in Pthreads!Callers, NEW h \in Handles,
           Pthreads!JoinRefused(c, h)
    PROVE  ThreadInv'
<1> USE DEF ThreadInv
<1>1. /\ detach' = detach /\ detachAsked' = detachAsked /\ joining' = joining
      /\ written' = written /\ status' = status /\ created' = created /\ thread' = thread
      /\ handle' = [handle EXCEPT ![h].spent = TRUE]
      /\ Pthreads!MayUse(h)
  BY DEF Pthreads!JoinRefused, Pthreads!Joined, Pthreads!MayJoin
<1>2. /\ misread' = misread /\ (strayed => strayed')
      /\ early' => early \/ Pthreads!Running(h)
  <2>1. misread' = misread /\ Pthreads!JoinStrays(h) /\ Pthreads!Joined(c, h)
    BY Zenon DEF Pthreads!JoinRefused
  <2> QED BY <2>1, Strayed, EarlyOnly, Zenon
<1>3. ASSUME ~ strayed', ~ misread'
      PROVE  handle' = handle /\ ~ strayed /\ ~ misread /\ (early' => early)
  <2>1. ~ strayed /\ ~ Live(h) /\ ~ Pthreads!Running(h)
    BY <1>2, <1>3, RefusedWhenUsed
  <2>2. handle[h] \in HandleValues /\ handle[h] # Null
    BY <1>1 DEF Pthreads!MayUse
  <2>3. handle[h].spent
    <3>1. Pthreads!Current(h) /\ handle[h].asked # "detached"
      <4>1. Pthreads!JoinStrays(h)
        BY Zenon DEF Pthreads!JoinRefused
      <4> QED BY <1>3, <4>1, Strayed, Zenon
    <3> QED BY <1>2, <1>3, <2>1, <2>2, <3>1, UsedUp
  <2>4. [handle[h] EXCEPT !.spent = TRUE] = handle[h]
    <3>1. handle[h].spent = TRUE
      BY <2>2, <2>3 DEF HandleValues
    <3> QED BY <2>2, <3>1 DEF HandleValues
  <2>5. handle' = handle
    BY <1>1, <2>4
  <2> QED BY <1>2, <1>3, <2>1, <2>5, Zenon
<1>4. /\ handle' \in [Handles -> HandleValues \cup {Null}]
      /\ handle'[h].nr = handle[h].nr
      /\ \A g \in Handles : g # h => handle'[g] = handle[g]
      /\ handle[h] # Null
  BY <1>1, Spent DEF Pthreads!MayUse
<1>5. Pthreads!TypeOK'
  <2>1. misread' \in BOOLEAN
    BY <1>2, Zenon DEF Pthreads!TypeOK
  <2>2. \A g \in Handles : handle'[g] # Null => handle'[g].nr \in 1 .. created'
    BY <1>1, <1>4 DEF Pthreads!TypeOK
  <2> QED BY <1>1, <2>1, <2>2
          DEF Pthreads!TypeOK, Pthreads!Callers, Pthreads!Joinable, Pthreads!Detached
<1>6. NumbersDiffer'
  BY <1>4 DEF NumbersDiffer
<1>7. JoinsAlone'
  <2>1. \A u \in Pthreads!Callers : joining[u] # Null => joining[u] \in Handles /\ joining[u] # h
    BY <1>1 DEF Pthreads!MayUse, Pthreads!TypeOK
  <2> QED BY <1>1, <1>2, <1>4, <2>1 DEF JoinsAlone, Live
<1>8. LiveNamed' /\ SpentGone' /\ Pthreads!JoinedEnded'
  BY <1>1, <1>3 DEF LiveNamed, SpentGone, Live, Pthreads!Current, Pthreads!JoinedEnded
<1>9. AttrsJoinable'
  BY <1>1, <1>2 DEF AttrsJoinable, Pthreads!Joinable
<1> QED BY <1>4, <1>5, <1>6, <1>7, <1>8, <1>9

\* A join that waits has the handle for itself.
LEMMA JoinWaitsStep ==
    ASSUME ThreadInv, NEW c \in Pthreads!Callers, NEW h \in Handles,
           Pthreads!JoinWaits(c, h)
    PROVE  ThreadInv'
<1> USE DEF ThreadInv
<1>1. /\ detach' = detach /\ detachAsked' = detachAsked
      /\ joining' = [joining EXCEPT ![c] = h]
      /\ written' = written /\ status' = status /\ created' = created /\ thread' = thread
      /\ handle' = handle /\ Pthreads!MayUse(h) /\ Pthreads!Attached(handle[h].id)
  BY DEF Pthreads!JoinWaits, Pthreads!MayJoin, Pthreads!Waitable
<1>2. /\ misread' = misread /\ early' = early /\ (strayed => strayed')
      /\ ~ strayed' => Pthreads!Current(h) /\ handle[h].asked # "detached"
  <2>1. misread' = misread /\ early' = early /\ Pthreads!JoinStrays(h)
    BY Zenon DEF Pthreads!JoinWaits
  <2> QED BY <2>1, Strayed, Zenon
<1>3. /\ joining' \in [Pthreads!Callers -> Handles \cup {Null}]
      /\ joining'[c] = h /\ \A u \in Pthreads!Callers : u # c => joining'[u] = joining[u]
  BY <1>1 DEF Pthreads!TypeOK
<1>4. Pthreads!TypeOK'
  <2>1. misread' \in BOOLEAN
    BY <1>2, Zenon DEF Pthreads!TypeOK
  <2> QED BY <1>1, <1>3, <2>1
          DEF Pthreads!TypeOK, Pthreads!Callers, Pthreads!Joinable, Pthreads!Detached
<1>5. NumbersDiffer' /\ LiveNamed' /\ SpentGone'
  BY <1>1, <1>2 DEF NumbersDiffer, LiveNamed, SpentGone, Live, Pthreads!Current
<1>6. ~ Live(h) => strayed' \/ misread
  BY <1>1, <1>2, UsedUp DEF Pthreads!MayUse
<1>7. JoinsAlone'
  <2> SUFFICES ASSUME NEW u \in Pthreads!Callers, joining'[u] # Null
               PROVE  /\ handle[joining'[u]] # Null
                      /\ ~ Live(joining'[u]) => /\ strayed' \/ misread'
                                                /\ joining'[u] \in CxxHandles
                      /\ \A v \in Pthreads!Callers : joining'[v] = joining'[u] => v = u
    BY <1>1 DEF JoinsAlone, Pthreads!Callers, Live
  <2>1. \A v \in Pthreads!Callers : joining[v] # h
    BY <1>1 DEF Pthreads!MayUse
  <2>2. CASE u = c
    BY <1>1, <1>2, <1>3, <1>6, <2>1, <2>2 DEF Pthreads!MayUse, Live
  <2>3. CASE u # c
    <3>1. joining'[u] = joining[u] /\ joining[u] # Null
      BY <1>3, <2>3
    <3>2. \A v \in Pthreads!Callers : joining'[v] = joining'[u] => v = u
      BY <1>3, <2>1, <3>1 DEF JoinsAlone
    <3> QED BY <1>2, <3>1, <3>2 DEF JoinsAlone
  <2> QED BY <2>2, <2>3
<1>8. AttrsJoinable' /\ Pthreads!JoinedEnded'
  BY <1>1, <1>2 DEF AttrsJoinable, Pthreads!JoinedEnded, Pthreads!Joinable
<1> QED BY <1>1, <1>4, <1>5, <1>7, <1>8

\* A join returns: the id is free again, and no live handle has it.
LEMMA JoinReturnsStep ==
    ASSUME ThreadInv, NEW c \in Pthreads!Callers, Pthreads!JoinReturns(c)
    PROVE  ThreadInv'
<1> USE DEF ThreadInv
<1>1. PICK h \in Handles : h = joining[c]
  BY DEF Pthreads!JoinReturns, Pthreads!TypeOK
<1>2. /\ detach' = detach /\ detachAsked' = detachAsked
      /\ joining' = [joining EXCEPT ![c] = Null]
      /\ written' = written /\ status' = status /\ created' = created
      /\ handle' = [handle EXCEPT ![h].spent = TRUE]
      /\ thread[handle[h].id].state = "ended"
      /\ thread' = [thread EXCEPT ![handle[h].id].state = "free"]
      /\ joining[c] # Null
  BY <1>1 DEF Pthreads!JoinReturns, Pthreads!Joined
<1>3. strayed' = strayed /\ misread' = misread /\ (early' => early \/ Pthreads!Running(h))
  <2>1. strayed' = strayed /\ misread' = misread /\ Pthreads!Joined(c, h)
    BY <1>1, Zenon DEF Pthreads!JoinReturns
  <2> QED BY <2>1, EarlyOnly
<1>4. /\ handle[h] # Null /\ (~ Live(h) => strayed \/ misread)
      /\ \A u \in Pthreads!Callers : joining[u] = h => u = c
  BY <1>1, <1>2 DEF JoinsAlone
<1>5. /\ handle' \in [Handles -> HandleValues \cup {Null}]
      /\ handle'[h].nr = handle[h].nr /\ handle'[h].spent
      /\ \A g \in Handles : g # h => handle'[g] = handle[g]
  BY <1>2, <1>4, Spent
<1>6. handle[h].id \in Ids
  BY <1>4 DEF HandleValues
<1>7. /\ thread' \in [Ids -> [nr: 0 .. MaxThreads, state: {"free", "running", "ended"},
                               detached: BOOLEAN]]
      /\ \A j \in Ids : j # handle[h].id => thread'[j] = thread[j]
  BY <1>2, <1>6 DEF Pthreads!TypeOK
<1>8. /\ joining' \in [Pthreads!Callers -> Handles \cup {Null}]
      /\ joining'[c] = Null /\ \A u \in Pthreads!Callers : u # c => joining'[u] = joining[u]
  BY <1>2 DEF Pthreads!TypeOK
<1>9. Pthreads!TypeOK'
  <2>1. misread' \in BOOLEAN
    BY <1>3, Zenon DEF Pthreads!TypeOK
  <2>2. \A g \in Handles : handle'[g] # Null => handle'[g].nr \in 1 .. created'
    BY <1>2, <1>4, <1>5 DEF Pthreads!TypeOK
  <2> QED BY <1>2, <1>7, <1>8, <2>1, <2>2
          DEF Pthreads!TypeOK, Pthreads!Callers, Pthreads!Joinable, Pthreads!Detached
<1>10. NumbersDiffer'
  BY <1>4, <1>5 DEF NumbersDiffer
<1>11. JoinsAlone'
  <2>1. \A u \in Pthreads!Callers : u # c /\ joining[u] # Null
                                    => joining[u] \in Handles /\ joining[u] # h
    BY <1>4 DEF Pthreads!TypeOK
  <2> QED BY <1>2, <1>3, <1>5, <1>8, <2>1 DEF JoinsAlone, Live
<1>12. LiveNamed'
  <2> SUFFICES ASSUME ~ strayed', ~ misread', NEW g \in Handles, Live(g)'
               PROVE  /\ thread'[handle'[g].id].nr = handle'[g].nr
                      /\ thread'[handle'[g].id].state # "free"
                      /\ ~ thread'[handle'[g].id].detached
    BY DEF LiveNamed
  <2>1. g # h /\ handle'[g] = handle[g] /\ Live(g)
    BY <1>5 DEF Live
  <2>2. Live(h)
    BY <1>3, <1>4
  <2>3. handle[g].id \in Ids /\ handle[g].id # handle[h].id
    BY <1>3, <2>1, <2>2, LiveApart DEF Live, HandleValues
  <2> QED BY <1>3, <1>7, <2>1, <2>3 DEF LiveNamed
<1>13. SpentGone'
  <2> SUFFICES ASSUME ~ strayed', ~ misread', NEW g \in Handles,
                      handle'[g] # Null, handle'[g].spent, Pthreads!Current(g)'
               PROVE  \/ thread'[handle'[g].id].state = "free"
                      \/ handle'[g].asked = "detached" /\ thread'[handle'[g].id].detached
    BY DEF SpentGone
  <2>1. /\ handle'[g].id = handle[g].id /\ handle'[g].asked = handle[g].asked
        /\ handle[g] # Null /\ handle[g].id \in Ids
    <3>1. CASE g = h
      BY <1>2, <1>4, <1>6, <3>1 DEF HandleValues
    <3>2. CASE g # h
      BY <1>5, <3>2 DEF HandleValues
    <3> QED BY <3>1, <3>2
  <2>2. CASE handle[g].id = handle[h].id
    BY <1>2, <1>6, <2>1, <2>2 DEF Pthreads!TypeOK
  <2>3. CASE handle[g].id # handle[h].id
    <3>1. g # h /\ handle'[g] = handle[g] /\ thread'[handle[g].id] = thread[handle[g].id]
      BY <1>5, <1>7, <2>1, <2>3
    <3>2. Pthreads!Current(g)
      BY <3>1 DEF Pthreads!Current
    <3> QED BY <1>3, <2>1, <3>1, <3>2 DEF SpentGone
  <2> QED BY <2>2, <2>3
<1>14. Pthreads!JoinedEnded'
  BY <1>2, <1>3 DEF Pthreads!JoinedEnded, Pthreads!Running
<1>15. AttrsJoinable'
  BY <1>2, <1>3 DEF AttrsJoinable, Pthreads!Joinable
<1> QED BY <1>5, <1>9, <1>10, <1>11, <1>12, <1>13, <1>14, <1>15

\* A handle that is detached is used up, and its thread detached, if it was live;
\* detaching one that was used does nothing, unless its id is another thread's.
LEMMA DetachStep ==
    ASSUME ThreadInv, NEW c \in Pthreads!Callers, NEW h \in Handles, Pthreads!Detach(c, h)
    PROVE  ThreadInv'
<1> USE DEF ThreadInv
<1>1. /\ detach' = detach /\ detachAsked' = detachAsked /\ joining' = joining
      /\ written' = written /\ status' = status /\ created' = created
      /\ handle' = [handle EXCEPT ![h].spent = TRUE, ![h].asked = "detached"]
      /\ handle[h] # Null
      /\ \A u \in Pthreads!Callers : joining[u] # h
  BY DEF Pthreads!Detach, Pthreads!MayUse
<1>2. /\ early' = early /\ misread' = misread /\ (strayed => strayed')
      /\ ~ strayed' => Pthreads!Current(h)
  BY Zenon DEF Pthreads!Detach
<1>3. handle[h] \in HandleValues /\ handle[h].id \in Ids /\ handle[h] # Null
  BY <1>1 DEF HandleValues
<1>4. /\ handle' \in [Handles -> HandleValues \cup {Null}]
      /\ handle'[h].nr = handle[h].nr /\ handle'[h].id = handle[h].id
      /\ handle'[h].spent /\ handle'[h].asked = "detached"
      /\ \A g \in Handles : g # h => handle'[g] = handle[g]
  <2> DEFINE v  == handle[h]
             v1 == [v EXCEPT !.spent = TRUE]
             v2 == [v1 EXCEPT !.asked = "detached"]
  <2>1. v \in HandleValues /\ handle' = [handle EXCEPT ![h] = v2]
    BY <1>1, <1>3
  <2> HIDE DEF v
  <2>2. v1 \in HandleValues /\ v1.spent /\ v1.nr = v.nr /\ v1.id = v.id
    BY <2>1 DEF HandleValues
  <2> HIDE DEF v1
  <2>3. /\ v2 \in HandleValues /\ v2.spent /\ v2.nr = v.nr /\ v2.id = v.id
        /\ v2.asked = "detached"
    BY <2>2 DEF HandleValues
  <2> HIDE DEF v2
  <2> QED BY <2>1, <2>3 DEF v
<1>5. /\ thread' \in [Ids -> [nr: 0 .. MaxThreads, state: {"free", "running", "ended"},
                               detached: BOOLEAN]]
      /\ \A j \in Ids : j # handle[h].id => thread'[j] = thread[j]
      /\ thread'[handle[h].id].nr = thread[handle[h].id].nr
      /\ IF Pthreads!Attached(handle[h].id) THEN thread'[handle[h].id].detached
                                            ELSE thread' = thread
  <2> DEFINE i  == handle[h].id
             v  == thread[i]
             v1 == [v EXCEPT !.detached = TRUE]
             v2 == [v1 EXCEPT !.state = IF @ = "ended" THEN "free" ELSE @]
             T  == [nr: 0 .. MaxThreads, state: {"free", "running", "ended"}, detached: BOOLEAN]
  <2>1. thread' = IF Pthreads!Attached(i)
                  THEN [thread EXCEPT ![i].detached = TRUE,
                                      ![i].state = IF @ = "ended" THEN "free" ELSE @]
                  ELSE thread
    BY DEF Pthreads!Detach
  <2>2. v \in T /\ i \in Ids /\ thread \in [Ids -> T]
    BY <1>3 DEF Pthreads!TypeOK
  <2>3. thread' = IF Pthreads!Attached(i) THEN [thread EXCEPT ![i] = v2] ELSE thread
    BY <2>1, <2>2
  <2>4. v = thread[i]
    OBVIOUS
  <2> HIDE DEF v, i
  <2>5. v1 \in T /\ v1.detached /\ v1.nr = v.nr
    BY <2>2
  <2> HIDE DEF v1
  <2>6. v2 \in T /\ v2.detached /\ v2.nr = v.nr
    BY <2>5
  <2> HIDE DEF v2
  <2>7. /\ thread' \in [Ids -> T] /\ \A j \in Ids : j # i => thread'[j] = thread[j]
        /\ thread'[i].nr = thread[i].nr
        /\ IF Pthreads!Attached(i) THEN thread'[i].detached ELSE thread' = thread
    <3>1. CASE Pthreads!Attached(i)
      BY <2>2, <2>3, <2>4, <2>6, <3>1
    <3>2. CASE ~ Pthreads!Attached(i)
      BY <2>2, <2>3, <3>2
    <3> QED BY <3>1, <3>2
  <2> QED BY <2>7 DEF i
<1>6. Pthreads!TypeOK'
  <2>1. misread' \in BOOLEAN
    BY <1>2, Zenon DEF Pthreads!TypeOK
  <2>2. \A g \in Handles : handle'[g] # Null => handle'[g].nr \in 1 .. created'
    BY <1>1, <1>3, <1>4 DEF Pthreads!TypeOK
  <2> QED BY <1>1, <1>5, <2>1, <2>2
          DEF Pthreads!TypeOK, Pthreads!Callers, Pthreads!Joinable, Pthreads!Detached
<1>7. NumbersDiffer'
  BY <1>3, <1>4 DEF NumbersDiffer
<1>8. JoinsAlone'
  <2>1. \A u \in Pthreads!Callers : joining[u] # Null => joining[u] \in Handles /\ joining[u] # h
    BY <1>1 DEF Pthreads!TypeOK
  <2> QED BY <1>1, <1>2, <1>4, <2>1 DEF JoinsAlone, Live
<1>9. ASSUME ~ strayed', ~ misread'
      PROVE  /\ Live(h) => Pthreads!Attached(handle[h].id)
             /\ ~ Live(h) => /\ thread' = thread
                             /\ \/ thread[handle[h].id].state = "free"
                                \/ thread[handle[h].id].detached
  <2>1. ~ strayed /\ ~ misread /\ Pthreads!Current(h)
    BY <1>2, <1>9
  <2>2. ASSUME ~ Live(h)
        PROVE  \/ thread[handle[h].id].state = "free"
               \/ thread[handle[h].id].detached
    <3>1. handle[h].spent
      BY <1>3, <2>2 DEF Live, HandleValues, Pthreads!Detach, Pthreads!MayUse
    <3> QED BY <1>3, <2>1, <3>1 DEF SpentGone
  <2> QED BY <1>1, <1>5, <2>1, <2>2, LiveAttached DEF Pthreads!Attached
<1>10. LiveNamed'
  <2> SUFFICES ASSUME ~ strayed', ~ misread', NEW g \in Handles, Live(g)'
               PROVE  /\ thread'[handle'[g].id].nr = handle'[g].nr
                      /\ thread'[handle'[g].id].state # "free"
                      /\ ~ thread'[handle'[g].id].detached
    BY DEF LiveNamed
  <2>1. g # h /\ handle'[g] = handle[g] /\ Live(g)
    BY <1>4 DEF Live
  <2>2. /\ thread[handle[g].id].nr = handle[g].nr
        /\ thread[handle[g].id].state # "free"
        /\ ~ thread[handle[g].id].detached
    BY <1>2, <2>1 DEF LiveNamed
  <2>3. CASE Live(h)
    <3>1. handle[g].id \in Ids /\ handle[g].id # handle[h].id
      BY <1>2, <2>1, <2>3, LiveApart DEF Live, HandleValues
    <3> QED BY <1>5, <2>1, <2>2, <3>1
  <2>4. CASE ~ Live(h)
    BY <1>9, <2>1, <2>2, <2>4
  <2> QED BY <2>3, <2>4
<1>11. SpentGone'
  <2> SUFFICES ASSUME ~ strayed', ~ misread', NEW g \in Handles,
                      handle'[g] # Null, handle'[g].spent, Pthreads!Current(g)'
               PROVE  \/ thread'[handle'[g].id].state = "free"
                      \/ handle'[g].asked = "detached" /\ thread'[handle'[g].id].detached
    BY DEF SpentGone
  <2>1. CASE g = h
    BY <1>4, <1>5, <1>9, <2>1
  <2>2. CASE g # h
    <3>1. handle'[g] = handle[g] /\ handle[g].id \in Ids
      BY <1>4, <2>2 DEF HandleValues
    <3>2. Pthreads!Current(g)
      BY <1>5, <3>1 DEF Pthreads!Current
    <3>3. \/ thread[handle[g].id].state = "free"
          \/ handle[g].asked = "detached" /\ thread[handle[g].id].detached
      BY <1>2, <3>1, <3>2 DEF SpentGone
    <3>4. CASE Live(h)
      <4>1. handle[h].nr # handle[g].nr
        BY <1>3, <2>2, <3>1 DEF NumbersDiffer
      <4>2. handle[g].id # handle[h].id
        BY <1>2, <3>2, <4>1 DEF Pthreads!Current
      <4> QED BY <1>5, <3>1, <3>3, <4>2
    <3>5. CASE ~ Live(h)
      BY <1>9, <3>1, <3>3, <3>5
    <3> QED BY <3>4, <3>5
  <2> QED BY <2>1, <2>2
<1>12. AttrsJoinable' /\ Pthreads!JoinedEnded'
  BY <1>1, <1>2 DEF AttrsJoinable, Pthreads!JoinedEnded, Pthreads!Joinable
<1> QED BY <1>4, <1>6, <1>7, <1>8, <1>10, <1>11, <1>12

\* What the image forgets no join waits for.
LEMMA ForgetStep ==
    ASSUME ThreadInv, NEW c \in Pthreads!Callers, NEW h \in Handles, Pthreads!Forget(c, h)
    PROVE  ThreadInv'
<1> USE DEF ThreadInv
<1>1. /\ detach' = detach /\ detachAsked' = detachAsked /\ joining' = joining
      /\ written' = written /\ status' = status /\ created' = created /\ thread' = thread
      /\ handle' = [handle EXCEPT ![h] = Null]
      /\ h \notin CxxHandles
      /\ handle[h].spent \/ handle[h].asked = "detached"
  BY DEF Pthreads!Forget
<1>2. early' = early /\ strayed' = strayed /\ misread' = misread
  BY Zenon DEF Pthreads!Forget
<1>3. /\ handle' \in [Handles -> HandleValues \cup {Null}]
      /\ handle'[h] = Null
      /\ \A g \in Handles : g # h => handle'[g] = handle[g]
  BY <1>1
<1>4. Pthreads!TypeOK'
  <2>1. misread' \in BOOLEAN
    BY <1>2, Zenon DEF Pthreads!TypeOK
  <2>2. \A g \in Handles : handle'[g] # Null => handle'[g].nr \in 1 .. created'
    BY <1>1, <1>3 DEF Pthreads!TypeOK
  <2> QED BY <1>1, <2>1, <2>2
          DEF Pthreads!TypeOK, Pthreads!Callers, Pthreads!Joinable, Pthreads!Detached
<1>5. NumbersDiffer' /\ LiveNamed' /\ SpentGone'
  BY <1>1, <1>2, <1>3 DEF NumbersDiffer, LiveNamed, SpentGone, Live, Pthreads!Current
<1>6. JoinsAlone'
  <2>1. \A u \in Pthreads!Callers : joining[u] # Null => joining[u] \in Handles /\ joining[u] # h
    BY <1>1 DEF JoinsAlone, Live, Pthreads!TypeOK
  <2> QED BY <1>1, <1>2, <1>3, <2>1 DEF JoinsAlone, Live
<1>7. AttrsJoinable' /\ Pthreads!JoinedEnded'
  BY <1>1, <1>2 DEF AttrsJoinable, Pthreads!JoinedEnded, Pthreads!Joinable
<1> QED BY <1>3, <1>4, <1>5, <1>6, <1>7

\* Every call on threads keeps the invariant
\* (stub_pthread.c:90-93, 187-195, 257-275, 397-408).
LEMMA ThreadStep == ThreadInv /\ [Pthreads!Next]_(Pthreads!vars) => ThreadInv'
BY AsideSteps, CreateStep, ReturnStep, JoinRefusedStep, JoinWaitsStep, JoinReturnsStep,
   DetachStep, ForgetStep
   DEF Pthreads!Next

\* Nothing happens after the end of the process, and it ends with status 0 when
\* the document is written or a std::thread that is not zero is destroyed.
LEMMA ZeroStep ==
    Pthreads!ZeroExplained /\ [Pthreads!Next]_(Pthreads!vars) => Pthreads!ZeroExplained'
<1> SUFFICES ASSUME Pthreads!ZeroExplained, [Pthreads!Next]_(Pthreads!vars)
             PROVE  Pthreads!ZeroExplained'
  OBVIOUS
<1>1. CASE UNCHANGED Pthreads!vars
  BY <1>1 DEF Pthreads!ZeroExplained, Pthreads!vars
<1>2. CASE Pthreads!Next
  <2> DEFINE Explained == \/ status = "running" /\ status' = "running"
                          \/ status' = "trap"
                          \/ written' = written /\ written = Lines
                          \/ \E h \in CxxHandles : handle'[h] # Null
  <2> USE DEF Pthreads!InImage
  <2>1. ASSUME NEW c \in Pthreads!Callers, NEW h \in Handles,
               \/ \E byAttr \in BOOLEAN : Pthreads!Create(c, h, byAttr)
               \/ Pthreads!JoinRefused(c, h) \/ Pthreads!JoinWaits(c, h)
               \/ Pthreads!Detach(c, h) \/ Pthreads!Forget(c, h)
        PROVE  Explained
    BY <2>1 DEF Pthreads!Create, Pthreads!JoinRefused, Pthreads!JoinWaits,
                Pthreads!MayJoin, Pthreads!Detach, Pthreads!Forget
  <2>2. ASSUME NEW c \in Pthreads!Callers, NEW h \in Handles, Pthreads!Destroy(c, h)
        PROVE  Explained
    BY <2>2 DEF Pthreads!Destroy
  <2>3. ASSUME NEW c \in Pthreads!Callers,
               \/ Pthreads!AttrInit(c) \/ Pthreads!JoinReturns(c)
               \/ \E d \in DetachStates : Pthreads!AttrSetdetachstate(c, d)
        PROVE  Explained
    BY <2>3 DEF Pthreads!AttrInit, Pthreads!JoinReturns, Pthreads!AttrSetdetachstate
  <2>4. ASSUME NEW c \in Pthreads!Callers, NEW n \in Uses, Pthreads!Use(c, n)
        PROVE  Explained
    BY <2>4 DEF Pthreads!Use, Pthreads!StatusOfPanic
  <2>5. ASSUME \/ \E i \in Ids : Pthreads!Return(i)
               \/ Pthreads!WriteLine \/ Pthreads!Finish
        PROVE  Explained
    BY <2>5 DEF Pthreads!Return, Pthreads!WriteLine, Pthreads!Finish
  <2>6. Explained
    BY <1>2, <2>1, <2>2, <2>3, <2>4, <2>5 DEF Pthreads!Next
  <2> QED BY <2>6, PartsAssumption DEF Pthreads!ZeroExplained, Pthreads!ThreadAssumption
<1> QED BY <1>1, <1>2

\* Through the variables of the threads, the other parts stand still.
LEMMA SharedThreads == SharedSpec => [](ThreadInv /\ Pthreads!ZeroExplained)
<1>1. SharedInit => ThreadInv /\ Pthreads!ZeroExplained
  BY InitThreadInv DEF SharedInit
<1>2. [SharedNext]_<<part, mutexVars, threadVars, uuidVars>> => [Pthreads!Next]_(Pthreads!vars)
  BY DEF SharedNext, threadVars, Pthreads!vars
<1> QED BY <1>1, <1>2, ThreadStep, ZeroStep, PTL DEF SharedSpec

\* However many threads are made with however few ids: a handle that was neither
\* joined nor detached names its thread, a join returns when that has ended, but
\* for an image that used a std::thread once more when its id was another thread's,
\* joined one it had detached, or asked for joinable threads by number; and a status
\* of 0 without a document is explained (stub_pthread.c:192-195, 257-275, 397-408).
THEOREM SharedThreadsAccounted == SharedSpec => []ThreadsAccounted
<1>1. ThreadInv /\ Pthreads!ZeroExplained => ThreadsAccounted
  <2> SUFFICES ASSUME ThreadInv PROVE Pthreads!HandlesNameTheirs
    BY Zenon DEF ThreadsAccounted, ThreadInv
  <2> SUFFICES ASSUME NEW h \in Handles, handle[h] # Null, ~ handle[h].spent,
                      handle[h].asked # "detached", ~ strayed, ~ misread
               PROVE  Pthreads!Current(h) /\ thread[handle[h].id].state # "free"
    BY DEF Pthreads!HandlesNameTheirs
  <2>1. Live(h)
    BY DEF Live, ThreadInv, HandleValues
  <2> QED BY <2>1 DEF ThreadInv, LiveNamed, Pthreads!Current
<1> QED BY <1>1, SharedThreads, PTL

-----------------------------------------------------------------------------
(* Identifiers.                                                            *)

\* What an identifier is made of.
Words == Int \cup Randoms

\* The word the first step of the counter gives the k-th identifier.
Tick(k) == (2 * k - 1) % TickWrap

\* While calls did not overlap, one thread at most is in a call, and it finds the
\* counter stepped twice for each identifier before its own.
OneCall ==
    /\ \A t, u \in Threads : pc[t] # "idle" /\ pc[u] # "idle" => t = u
    /\ (\A t \in Threads : pc[t] = "idle") => ticking = 2 * Len(uuids)
    /\ \A t \in Threads :
          /\ pc[t] = "tick" => seen[t] = 2 * Len(uuids)
          /\ pc[t] \in {"roll", "again"} => ticking = 2 * Len(uuids) + 1
          /\ pc[t] = "tock" => seen[t] = 2 * Len(uuids) + 1
          /\ pc[t] = "done" => ticking = 2 * Len(uuids) + 2

\* The first word of each identifier, made and in the making, tells its number.
FirstWords ==
    /\ \A t \in Threads : pc[t] \in {"roll", "again", "tock", "done"} =>
          Len(out[t]) > 0 /\ out[t][1] = Tick(Len(uuids) + 1)
    /\ \A i \in DOMAIN uuids : uuids[i][1] = Tick(i)

UuidTypes == /\ pc \in [Threads -> {"idle", "tick", "roll", "again", "tock", "done"}]
             /\ ticking \in Int /\ seen \in [Threads -> Int]
             /\ out \in [Threads -> Seq(Words)]
             /\ \A t \in Threads : pc[t] \in {"idle", "tick"} => out[t] = << >>
             /\ uuids \in Seq(Seq(Words))

UuidInv == UuidTypes /\ (~ raced => OneCall /\ FirstWords)

\* Numbers that leave the same remainder are a divisor apart.
LEMMA SameRemainder ==
    ASSUME NEW a \in Int, NEW b \in Int, NEW w \in Nat \ {0}, a < b, (a % w) = (b % w)
    PROVE  b - a >= w
<1>1. PICK p \in Int : p = a \div w
  OBVIOUS
<1>2. PICK q \in Int : q = b \div w
  OBVIOUS
<1>3. a = w * p + (a % w)
  BY <1>1
<1>4. b = w * q + (b % w)
  BY <1>2
<1>5. b - a = w * (q - p)
  BY <1>3, <1>4
<1>6. CASE q - p <= 0
  BY <1>5, <1>6
<1>7. CASE q - p >= 1
  BY <1>5, <1>7
<1> QED BY <1>6, <1>7

\* No thread has begun a call of uuid_generate.
LEMMA InitUuidInv == Uuids!Init => UuidInv
BY DEF Uuids!Init, UuidInv, UuidTypes, OneCall, FirstWords

\* The first half of a call: it reads the counter.
LEMMA CallStep ==
    ASSUME UuidInv, NEW t \in Threads, Uuids!Call(t)
    PROVE  UuidInv'
<1> USE DEF UuidInv
<1>1. /\ pc[t] = "idle" /\ pc' = [pc EXCEPT ![t] = "tick"]
      /\ seen' = [seen EXCEPT ![t] = ticking]
      /\ ticking' = ticking /\ out' = out /\ uuids' = uuids
  BY DEF Uuids!Call, Uuids!ReadTicking
<1>2. ~ raced' => ~ raced /\ Uuids!InProgress = {}
  BY Zenon DEF Uuids!Call
<1>3. UuidTypes'
  BY <1>1 DEF UuidTypes
<1>4. ASSUME ~ raced'
      PROVE  OneCall' /\ FirstWords'
  <2>1. ~ raced /\ \A u \in Threads : pc[u] = "idle"
    BY <1>2, <1>4 DEF Uuids!InProgress
  <2>2. ticking = 2 * Len(uuids)
    BY <2>1 DEF OneCall
  <2>3. pc'[t] = "tick" /\ seen'[t] = ticking /\ \A u \in Threads : u # t => pc'[u] = "idle"
    BY <1>1, <2>1 DEF UuidTypes
  <2>4. OneCall'
    BY <1>1, <2>2, <2>3 DEF OneCall
  <2>5. FirstWords'
    BY <1>1, <2>1, <2>3 DEF FirstWords
  <2> QED BY <2>4, <2>5
<1> QED BY <1>3, <1>4

\* The steps of the counter and of random, within a call.
LEMMA WithinStep ==
    ASSUME UuidInv, NEW t \in Threads,
           \/ Uuids!WriteTicking(t, "tick", "roll") \/ Uuids!Roll(t)
           \/ Uuids!ReadTicking(t, "again", "tock") /\ UNCHANGED raced
           \/ Uuids!WriteTicking(t, "tock", "done")
    PROVE  UuidInv'
<1> USE DEF UuidInv
<1>1. raced' = raced
  BY Zenon DEF Uuids!WriteTicking, Uuids!Roll
<1>2. uuids' = uuids
  BY DEF Uuids!WriteTicking, Uuids!Roll, Uuids!ReadTicking
<1>3. TickWrap \in Nat \ {0}
  BY PartsAssumption DEF Uuids!UuidAssumption
<1>4. Len(uuids) \in Nat
  BY DEF UuidTypes
<1> DEFINE n == Len(uuids)
<1>5. CASE Uuids!WriteTicking(t, "tick", "roll") \/ Uuids!WriteTicking(t, "tock", "done")
  <2>1. PICK to \in {"roll", "done"} :
           /\ pc[t] = IF to = "roll" THEN "tick" ELSE "tock"
           /\ pc' = [pc EXCEPT ![t] = to]
           /\ ticking' = seen[t] + 1 /\ seen' = seen
           /\ out' = [out EXCEPT ![t] = Append(@, (seen[t] + 1) % TickWrap)]
    BY <1>5 DEF Uuids!WriteTicking
  <2>2. seen[t] + 1 \in Int /\ (seen[t] + 1) % TickWrap \in Words
    BY <1>3 DEF UuidTypes, Words
  <2>3. /\ out' \in [Threads -> Seq(Words)]
        /\ \A u \in Threads : u # t => out'[u] = out[u]
        /\ out'[t] = Append(out[t], (seen[t] + 1) % TickWrap)
    BY <2>1, <2>2 DEF UuidTypes
  <2>4. UuidTypes'
    BY <1>2, <2>1, <2>2, <2>3 DEF UuidTypes
  <2>5. ASSUME ~ raced
        PROVE  OneCall' /\ FirstWords'
    <3>1. \A u \in Threads : u # t => pc[u] = "idle" /\ pc'[u] = "idle"
      BY <2>1, <2>5 DEF OneCall, UuidTypes
    <3>2. pc'[t] = to /\ seen[t] = IF to = "roll" THEN 2 * n ELSE 2 * n + 1
      BY <2>1, <2>5 DEF OneCall, UuidTypes
    <3>3. OneCall'
      <4> HIDE DEF n
      <4>1. ticking' = IF to = "roll" THEN 2 * n + 1 ELSE 2 * n + 2
        BY <1>4, <2>1, <3>2 DEF n
      <4> QED BY <1>2, <3>1, <3>2, <4>1 DEF OneCall, n
    <3>4. Len(out'[t]) > 0 /\ out'[t][1] = Tick(n + 1)
      <4>1. CASE to = "roll"
        <5>1. out[t] = << >>
          BY <2>1, <4>1 DEF UuidTypes
        <5>2. seen[t] + 1 = 2 * (n + 1) - 1
          BY <1>4, <3>2, <4>1
        <5> QED BY <2>3, <5>1, <5>2 DEF Tick
      <4>2. CASE to = "done"
        <5>1. Len(out[t]) > 0 /\ out[t][1] = Tick(n + 1) /\ out[t] \in Seq(Words)
          BY <2>1, <2>5, <4>2 DEF FirstWords, UuidTypes
        <5> QED BY <2>2, <2>3, <5>1
      <4> QED BY <4>1, <4>2
    <3>5. FirstWords'
      BY <1>2, <2>5, <3>1, <3>4 DEF FirstWords
    <3> QED BY <3>3, <3>5
  <2> QED BY <1>1, <2>4, <2>5
<1>6. CASE Uuids!Roll(t)
  <2>1. PICK r \in Words :
           /\ pc[t] = "roll" /\ pc' = [pc EXCEPT ![t] = "again"]
           /\ ticking' = ticking /\ seen' = seen
           /\ out' = [out EXCEPT ![t] = Append(@, r)]
    BY <1>6 DEF Uuids!Roll, Words
  <2>2. /\ out' \in [Threads -> Seq(Words)]
        /\ \A u \in Threads : u # t => out'[u] = out[u]
        /\ out'[t] = Append(out[t], r)
    BY <2>1 DEF UuidTypes
  <2>3. UuidTypes'
    BY <1>2, <2>1, <2>2 DEF UuidTypes
  <2>4. ASSUME ~ raced
        PROVE  OneCall' /\ FirstWords'
    <3>1. \A u \in Threads : u # t => pc[u] = "idle" /\ pc'[u] = "idle"
      BY <2>1, <2>4 DEF OneCall, UuidTypes
    <3>2. pc'[t] = "again" /\ ticking = 2 * n + 1
      BY <2>1, <2>4 DEF OneCall, UuidTypes
    <3>3. OneCall'
      BY <1>2, <2>1, <3>1, <3>2 DEF OneCall
    <3>4. Len(out[t]) > 0 /\ out[t][1] = Tick(n + 1) /\ out[t] \in Seq(Words)
      BY <2>1, <2>4 DEF FirstWords, UuidTypes
    <3>5. Len(out'[t]) > 0 /\ out'[t][1] = Tick(n + 1)
      BY <2>2, <3>4
    <3>6. FirstWords'
      BY <1>2, <2>4, <3>1, <3>5 DEF FirstWords
    <3> QED BY <3>3, <3>6
  <2> QED BY <1>1, <2>3, <2>4
<1>7. CASE Uuids!ReadTicking(t, "again", "tock")
  <2>1. /\ pc[t] = "again" /\ pc' = [pc EXCEPT ![t] = "tock"]
        /\ ticking' = ticking /\ seen' = [seen EXCEPT ![t] = ticking] /\ out' = out
    BY <1>7 DEF Uuids!ReadTicking
  <2>2. UuidTypes'
    BY <1>2, <2>1 DEF UuidTypes
  <2>3. ASSUME ~ raced
        PROVE  OneCall' /\ FirstWords'
    <3>1. \A u \in Threads : u # t => pc[u] = "idle" /\ pc'[u] = "idle"
      BY <2>1, <2>3 DEF OneCall, UuidTypes
    <3>2. pc'[t] = "tock" /\ seen'[t] = 2 * n + 1
      BY <2>1, <2>3 DEF OneCall, UuidTypes
    <3>3. OneCall'
      BY <1>2, <2>1, <3>1, <3>2 DEF OneCall
    <3>4. FirstWords'
      BY <1>2, <2>1, <2>3, <3>1 DEF FirstWords
    <3> QED BY <3>3, <3>4
  <2> QED BY <1>1, <2>2, <2>3
<1> QED BY <1>5, <1>6, <1>7

\* A call returns its identifier.
LEMMA UuidReturnStep ==
    ASSUME UuidInv, NEW t \in Threads, Uuids!Return(t)
    PROVE  UuidInv'
<1> USE DEF UuidInv
<1>1. raced' = raced
  BY Zenon DEF Uuids!Return
<1>2. /\ pc[t] = "done" /\ pc' = [pc EXCEPT ![t] = "idle"]
      /\ ticking' = ticking /\ seen' = seen
      /\ out' = [out EXCEPT ![t] = << >>]
      /\ uuids' = Append(uuids, out[t])
  BY DEF Uuids!Return
<1>3. out[t] \in Seq(Words) /\ uuids \in Seq(Seq(Words)) /\ Len(uuids) \in Nat
  BY DEF UuidTypes
<1>4. /\ uuids' \in Seq(Seq(Words)) /\ Len(uuids') = Len(uuids) + 1
      /\ uuids'[Len(uuids) + 1] = out[t]
      /\ \A i \in DOMAIN uuids : uuids'[i] = uuids[i]
      /\ \A i \in DOMAIN uuids' : i \in DOMAIN uuids \/ i = Len(uuids) + 1
  BY <1>2, <1>3
<1>5. UuidTypes'
  BY <1>2, <1>4 DEF UuidTypes
<1>6. ASSUME ~ raced
      PROVE  OneCall' /\ FirstWords'
  <2>1. ticking = 2 * Len(uuids) + 2 /\ \A u \in Threads : pc'[u] = "idle"
    BY <1>2, <1>6 DEF OneCall, UuidTypes
  <2>2. out[t][1] = Tick(Len(uuids) + 1)
    BY <1>2, <1>6 DEF FirstWords
  <2>3. OneCall'
    BY <1>2, <1>3, <1>4, <2>1 DEF OneCall
  <2>4. FirstWords'
    BY <1>4, <1>6, <2>1, <2>2 DEF FirstWords
  <2> QED BY <2>3, <2>4
<1> QED BY <1>1, <1>5, <1>6

\* uuid_generate, at the grain of its accesses to the static counter (stub_sys.c).
LEMMA UuidStep == UuidInv /\ [Uuids!Next]_(Uuids!vars) => UuidInv'
<1> SUFFICES ASSUME UuidInv, [Uuids!Next]_(Uuids!vars) PROVE UuidInv'
  OBVIOUS
<1>1. CASE UNCHANGED Uuids!vars
  <2>1. raced' = raced
    BY <1>1, Zenon DEF Uuids!vars
  <2>2. /\ ticking' = ticking /\ pc' = pc /\ seen' = seen /\ out' = out /\ uuids' = uuids
    BY <1>1 DEF Uuids!vars
  <2> QED BY <2>1, <2>2 DEF UuidInv, UuidTypes, OneCall, FirstWords
<1>2. CASE Uuids!Next
  BY <1>2, CallStep, WithinStep, UuidReturnStep DEF Uuids!Next
<1> QED BY <1>1, <1>2

\* However many threads ask for identifiers, two that are equal are made only after
\* calls overlapped, or so far apart that the word of the counter came round
\* (stub_sys.c:79-86).
THEOREM SharedAllDiffer == SharedSpec => []AllDiffer
<1>1. SharedInit => UuidInv
  BY InitUuidInv DEF SharedInit
<1>2. [SharedNext]_<<part, mutexVars, threadVars, uuidVars>> => [Uuids!Next]_(Uuids!vars)
  BY DEF SharedNext, uuidVars, Uuids!vars
<1>3. UuidInv => AllDiffer
  <2> SUFFICES ASSUME UuidInv, NEW i \in DOMAIN uuids, NEW j \in DOMAIN uuids,
                      i < j, uuids[i] = uuids[j], ~ raced
               PROVE  2 * (j - i) >= TickWrap
    BY Zenon DEF AllDiffer, Uuids!AllDiffer
  <2>1. i \in Int /\ j \in Int /\ TickWrap \in Nat \ {0}
    BY PartsAssumption DEF UuidInv, UuidTypes, Uuids!UuidAssumption
  <2>2. Tick(i) = Tick(j)
    BY DEF UuidInv, FirstWords
  <2>3. 2 * i - 1 \in Int /\ 2 * j - 1 \in Int /\ 2 * i - 1 < 2 * j - 1
    BY <2>1
  <2>4. (2 * j - 1) - (2 * i - 1) >= TickWrap
    BY <2>1, <2>2, <2>3, SameRemainder DEF Tick
  <2> QED BY <2>1, <2>4
<1> QED BY <1>1, <1>2, <1>3, UuidStep, PTL DEF SharedSpec

-----------------------------------------------------------------------------
(* Deadlines and clocks.                                                    *)

\* Seconds and nanoseconds make the number they were split from.
LEMMA Splits ==
    ASSUME NEW x \in Int
    PROVE  \E q \in Int, r \in 0 .. NSEC - 1 :
              q = x \div NSEC /\ r = x % NSEC /\ q * NSEC + r = x
<1>1. NSEC \in Nat \ {0}
  BY WaitsAssumed DEF WaitsAssumption, Timed!DeadlineAssumption
<1>2. PICK q, r : q = x \div NSEC /\ r = x % NSEC
  OBVIOUS
<1>3. x = NSEC * q + r
  BY <1>1, <1>2
<1>4. q \in Int /\ r \in 0 .. NSEC - 1
  BY <1>1, <1>2
<1>5. q * NSEC + r = x
  <2>1. q * NSEC = NSEC * q
    BY <1>1, <1>4
  <2> QED BY <1>1, <1>3, <1>4, <2>1
<1> QED BY <1>2, <1>4, <1>5

\* mach_absolute_time is the time.
LEMMA TimeIsTold == ASSUME NEW now \in Nat PROVE Timed!AbsoluteTime(now) = now
<1>1. NSEC \in Nat \ {0} /\ now \in Int
  BY WaitsAssumed DEF WaitsAssumption, Timed!DeadlineAssumption
<1>2. PICK q \in Int, r \in 0 .. NSEC - 1 :
         q = now \div NSEC /\ r = now % NSEC /\ q * NSEC + r = now
  BY <1>1, Splits
<1>3. Timed!AbsoluteTime(now) = r + q * NSEC
  BY <1>2 DEF Timed!AbsoluteTime, Timed!ClockGettime, Timed!Timespec
<1>4. q * NSEC \in Int /\ r \in Int
  BY <1>1, <1>2
<1> QED BY <1>2, <1>3, <1>4

\* The deadline of semaphore_timedwait is the time asked for, from now on, and
\* Linux accepts it.
LEMMA SemDeadlineExact ==
    ASSUME NEW now \in Nat, NEW w \in Durations
    PROVE  /\ Timed!Normal(Timed!SemDeadline(now, w))
           /\ Timed!Instant(Timed!SemDeadline(now, w)) = now + Timed!Instant(w)
<1>1. /\ w.tv_sec \in Nat /\ w.tv_nsec \in Nat /\ NSEC \in Nat \ {0}
  BY WaitsAssumed DEF WaitsAssumption, Timed!TimedAssumption, Timed!DeadlineAssumption
<1> DEFINE q == now \div NSEC
           r == now % NSEC
           sec == q + w.tv_sec
           nsec == r + w.tv_nsec
           p == nsec \div NSEC
           s == nsec % NSEC
<1>2. /\ q \in Int /\ r \in 0 .. NSEC - 1 /\ q * NSEC + r = now
  BY <1>1
<1>3. nsec \in Nat
  BY <1>1, <1>2
<1>4. /\ p \in Int /\ s \in 0 .. NSEC - 1 /\ p * NSEC + s = nsec
  <2> HIDE DEF nsec
  <2> QED BY <1>1, <1>3
<1>5. Timed!SemDeadline(now, w) = IF nsec >= NSEC THEN Timed!Timespec(sec + p, s)
                                                  ELSE Timed!Timespec(sec, nsec)
  BY DEF Timed!SemDeadline, Timed!Carry, Timed!ClockGettime, Timed!Timespec
<1>6. Timed!Instant(w) = w.tv_sec * NSEC + w.tv_nsec
  BY DEF Timed!Instant
<1> HIDE DEF p, s
<1>7. CASE nsec >= NSEC
  <2>1. Timed!SemDeadline(now, w) = [tv_sec |-> sec + p, tv_nsec |-> s]
    BY <1>5, <1>7 DEF Timed!Timespec
  <2>2. (sec + p) * NSEC + s = q * NSEC + w.tv_sec * NSEC + p * NSEC + s
    BY <1>1, <1>2, <1>4
  <2> QED BY <2>1, <2>2, <1>1, <1>2, <1>4, <1>6 DEF Timed!Instant, Timed!Normal
<1>8. CASE ~ (nsec >= NSEC)
  <2>1. Timed!SemDeadline(now, w) = [tv_sec |-> sec, tv_nsec |-> nsec]
    BY <1>5, <1>8 DEF Timed!Timespec
  <2>2. sec * NSEC + nsec = q * NSEC + w.tv_sec * NSEC + nsec
    BY <1>1, <1>2
  <2> QED BY <2>1, <2>2, <1>1, <1>2, <1>3, <1>6, <1>8 DEF Timed!Instant, Timed!Normal
<1> QED BY <1>7, <1>8

\* The deadline of a wait of C++ is the instant, or the last that is waited for;
\* Linux refuses it before 1970 only.
LEMMA CondDeadlineExact ==
    ASSUME NEW p \in Points
    PROVE  /\ Timed!Clamp(p) \in Int
           /\ Timed!Instant(Timed!CondDeadline(p)) = Timed!Clamp(p)
           /\ Timed!Normal(Timed!CondDeadline(p)) \/ Timed!Clamp(p) < 0
<1>1. p \in Int /\ MaxPoint \in Nat /\ NSEC \in Nat \ {0}
  BY WaitsAssumed DEF WaitsAssumption, Timed!TimedAssumption, Timed!DeadlineAssumption
<1>2. PICK x : x = Timed!Clamp(p)
  OBVIOUS
<1>3. x \in Int
  BY <1>1, <1>2 DEF Timed!Clamp
<1>4. PICK q : q = Timed!Quotient(x, NSEC)
  OBVIOUS
<1>5. q \in Int /\ (x >= 0 => q = x \div NSEC)
  <2>1. x \div NSEC \in Int /\ (-x) \div NSEC \in Int
    BY <1>1, <1>3
  <2> QED BY <1>4, <2>1, <1>3 DEF Timed!Quotient
<1>6. Timed!CondDeadline(p) = [tv_sec |-> q, tv_nsec |-> x - q * NSEC]
  BY <1>2, <1>4 DEF Timed!CondDeadline, Timed!Remainder, Timed!Timespec
<1>7. q * NSEC \in Int
  BY <1>1, <1>5
<1>8. Timed!Instant(Timed!CondDeadline(p)) = x
  BY <1>3, <1>6, <1>7 DEF Timed!Instant
<1>9. x >= 0 => x - q * NSEC \in 0 .. NSEC - 1
  <2>1. PICK d \in Int, m \in 0 .. NSEC - 1 :
           d = x \div NSEC /\ m = x % NSEC /\ d * NSEC + m = x
    BY <1>3, Splits
  <2>2. x >= 0 => q = d
    BY <1>5, <2>1
  <2>3. d * NSEC \in Int /\ m \in 0 .. NSEC - 1
    BY <1>1, <2>1
  <2>4. x - d * NSEC = m
    BY <1>3, <2>1, <2>3
  <2> QED BY <2>2, <2>3, <2>4
<1> QED BY <1>2, <1>3, <1>6, <1>8, <1>9 DEF Timed!Normal

\* A wait in progress ends, by the deadline that Linux was given, when the caller
\* means it to: exactly, as long as nobody sets the clock.
CallRight(c) ==
    c # Timed!NoCall =>
        /\ c.kind \in {"semaphore", "condition"}
        /\ c.from \in 0 .. mono /\ c.sets \in 0 .. sets /\ c.asked \in Int
        /\ Timed!Instant(c.until) \in Int
        /\ c.kind = "condition" => /\ Timed!Instant(c.until) = c.asked
                                   /\ Timed!Normal(c.until) \/ c.asked < 0
        /\ c.kind = "semaphore" =>
              /\ Timed!Normal(c.until)
              /\ sets = c.sets => Timed!Instant(c.until) - wall = c.asked - (mono - c.from)

StampRight(s) == s.at \in 0 .. mono /\ s.time = s.at

TimedInv == /\ mono \in 0 .. Horizon /\ wall \in Nat /\ sets \in 0 .. MaxSets
            /\ DOMAIN call = Sleepers /\ DOMAIN stamp = Sleepers
            /\ \A t \in Sleepers : CallRight(call[t]) /\ StampRight(stamp[t])

\* In the beginning nobody waits.
LEMMA InitTimedInv == Timed!Init => TimedInv
<1>1. Start \in Nat /\ Horizon \in Nat /\ MaxSets \in Nat
  BY WaitsAssumed DEF WaitsAssumption, Timed!TimedAssumption
<1> QED BY <1>1 DEF Timed!Init, TimedInv, CallRight, StampRight

\* The clocks advance together, and a clock that is set is counted.
LEMMA ClockStep ==
    ASSUME TimedInv, Timed!Tick \/ \E d \in Adjustments : Timed!SetClock(d)
    PROVE  TimedInv'
<1>1. /\ mono \in Nat /\ wall \in Nat /\ sets \in Nat /\ Horizon \in Nat /\ MaxSets \in Nat
      /\ Adjustments \subseteq Int
  BY WaitsAssumed DEF WaitsAssumption, Timed!TimedAssumption, TimedInv
<1>2. /\ call' = call /\ stamp' = stamp
      /\ mono' \in 0 .. Horizon /\ wall' \in Nat /\ sets' \in 0 .. MaxSets
      /\ mono <= mono' /\ sets <= sets'
      /\ sets' = sets => wall' - wall = mono' - mono
  BY <1>1 DEF TimedInv, Timed!Tick, Timed!SetClock
<1>3. ASSUME NEW c, CallRight(c)
      PROVE  CallRight(c)'
  <2>1. CASE c # Timed!NoCall
    <3>1. /\ c.from \in 0 .. mono' /\ c.sets \in 0 .. sets'
          /\ sets' = c.sets => sets' = sets
      BY <1>1, <1>2, <1>3, <2>1 DEF CallRight
    <3>2. ASSUME c.kind = "semaphore", sets' = c.sets
          PROVE  Timed!Instant(c.until) - wall' = c.asked - (mono' - c.from)
      <4>1. Timed!Instant(c.until) - wall = c.asked - (mono - c.from)
        BY <3>1, <3>2, <1>3, <2>1 DEF CallRight
      <4>2. PICK i \in Int : i = Timed!Instant(c.until)
        BY <1>3, <2>1 DEF CallRight
      <4>3. c.asked \in Int /\ c.from \in Int
        BY <1>3, <2>1 DEF CallRight
      <4>4. wall' - wall = mono' - mono /\ mono' \in Int /\ wall' \in Int
        BY <1>2, <3>1, <3>2
      <4>5. PICK a \in Int, f \in Int : a = c.asked /\ f = c.from
        BY <4>3
      <4>6. i - wall = a - (mono - f)
        BY <4>1, <4>2, <4>5
      <4>7. i - wall' = a - (mono' - f)
        BY <1>1, <4>4, <4>6
      <4> QED BY <4>2, <4>5, <4>7
    <3> QED BY <1>3, <2>1, <3>1, <3>2 DEF CallRight
  <2> QED BY <2>1 DEF CallRight
<1>4. ASSUME NEW t \in Sleepers
      PROVE  CallRight(call[t])' /\ StampRight(stamp[t])'
  <2>1. CallRight(call[t]) /\ StampRight(stamp[t])
    BY DEF TimedInv
  <2>2. PICK c, s : c = call[t] /\ s = stamp[t]
    OBVIOUS
  <2>3. CallRight(c)'
    BY <1>3, <2>1, <2>2
  <2>4. StampRight(s)'
    BY <1>1, <1>2, <2>1, <2>2 DEF StampRight
  <2> QED BY <1>2, <2>2, <2>3, <2>4
<1>5. (\A t \in Sleepers : CallRight(call[t]) /\ StampRight(stamp[t]))'
  BY <1>4
<1> QED BY <1>2, <1>5 DEF TimedInv

\* A wait begins with the deadline it means, or ends; somebody asks for the time.
LEMMA SleeperStep ==
    ASSUME TimedInv, NEW t \in Sleepers,
           \/ \E w \in Durations : Timed!SemaphoreTimedwait(t, w)
           \/ \E p \in Points : Timed!CondTimedWait(t, p)
           \/ Timed!Ends(t) \/ Timed!MachAbsoluteTime(t)
    PROVE  TimedInv'
<1>1. mono \in Nat /\ wall \in Nat /\ sets \in Nat
  BY DEF TimedInv
<1>2. mono' = mono /\ wall' = wall /\ sets' = sets
  BY DEF Timed!SemaphoreTimedwait, Timed!CondTimedWait, Timed!Wait, Timed!Ends,
         Timed!MachAbsoluteTime
<1>3. \A c, s : CallRight(c)' = CallRight(c) /\ StampRight(s)' = StampRight(s)
  BY <1>2 DEF CallRight, StampRight
<1>4. ASSUME NEW c, CallRight(c), call' = [call EXCEPT ![t] = c], stamp' = stamp
      PROVE  TimedInv'
  <2>1. DOMAIN call' = Sleepers /\ \A u \in Sleepers : CallRight(call'[u])
    BY <1>4 DEF TimedInv
  <2>2. (\A u \in Sleepers : CallRight(call[u]) /\ StampRight(stamp[u]))'
    BY <1>3, <1>4, <2>1 DEF TimedInv
  <2> QED BY <1>2, <1>4, <2>1, <2>2 DEF TimedInv
<1>5. ASSUME NEW w \in Durations, Timed!SemaphoreTimedwait(t, w)
      PROVE  TimedInv'
  <2> DEFINE new == [kind |-> "semaphore", until |-> Timed!SemDeadline(wall, w),
                     asked |-> Timed!Instant(w), from |-> mono, sets |-> sets]
  <2>1. /\ Timed!Normal(Timed!SemDeadline(wall, w))
        /\ Timed!Instant(Timed!SemDeadline(wall, w)) = wall + Timed!Instant(w)
    BY <1>1, SemDeadlineExact
  <2>2. Timed!Instant(w) \in Int
    <3>1. w.tv_sec \in Nat /\ w.tv_nsec \in Nat /\ NSEC \in Nat
      BY WaitsAssumed DEF WaitsAssumption, Timed!TimedAssumption, Timed!DeadlineAssumption
    <3> QED BY <3>1 DEF Timed!Instant
  <2>3. call' = [call EXCEPT ![t] = new] /\ stamp' = stamp
    BY <1>5 DEF Timed!SemaphoreTimedwait, Timed!Wait
  <2>4. PICK c : c = new
    OBVIOUS
  <2>5. CallRight(c)
    BY <1>1, <2>1, <2>2, <2>4 DEF CallRight
  <2> QED BY <1>4, <2>3, <2>4, <2>5
<1>6. ASSUME NEW p \in Points, Timed!CondTimedWait(t, p)
      PROVE  TimedInv'
  <2> DEFINE new == [kind |-> "condition", until |-> Timed!CondDeadline(p),
                     asked |-> Timed!Clamp(p), from |-> mono, sets |-> sets]
  <2>1. call' = [call EXCEPT ![t] = new] /\ stamp' = stamp
    BY <1>6 DEF Timed!CondTimedWait, Timed!Wait
  <2>2. PICK c : c = new
    OBVIOUS
  <2>3. CallRight(c)
    BY <1>1, <2>2, CondDeadlineExact DEF CallRight
  <2> QED BY <1>4, <2>1, <2>2, <2>3
<1>7. CASE Timed!Ends(t)
  BY <1>4, <1>7 DEF Timed!Ends, CallRight
<1>8. CASE Timed!MachAbsoluteTime(t)
  <2>1. PICK s : s = [time |-> Timed!AbsoluteTime(mono), at |-> mono]
    OBVIOUS
  <2>2. StampRight(s)
    BY <1>1, <2>1, TimeIsTold DEF StampRight
  <2>3. call' = call /\ stamp' = [stamp EXCEPT ![t] = s]
    BY <1>8, <2>1 DEF Timed!MachAbsoluteTime
  <2>4. DOMAIN stamp' = Sleepers /\ \A u \in Sleepers : StampRight(stamp'[u])
    BY <2>2, <2>3 DEF TimedInv
  <2>5. (\A u \in Sleepers : CallRight(call[u]) /\ StampRight(stamp[u]))'
    BY <1>3, <2>3, <2>4 DEF TimedInv
  <2> QED BY <1>2, <2>3, <2>4, <2>5 DEF TimedInv
<1> QED BY <1>5, <1>6, <1>7, <1>8

\* The steps of either part keep the deadlines right.
LEMMA TimedStays ==
    ASSUME TimedInv, [WaitingNext]_<<waiting, timedVars, condVars>>
    PROVE  TimedInv'
<1>1. CASE UNCHANGED timedVars
  BY <1>1 DEF timedVars, TimedInv, CallRight, StampRight
<1>2. CASE Timed!Next
  BY <1>2, ClockStep, SleeperStep DEF Timed!Next, Timed!Invalid, Timed!Signalled,
                                      Timed!TimedOut
<1> QED BY <1>1, <1>2 DEF WaitingNext, TimedStep, CondStep

\* Deadlines are neither later nor earlier than what was asked for, unless
\* somebody sets the clock, and mach_absolute_time tells what passed
\* (stub_kernel.c:134-147, 233-240, stub_pthread.c:416-420).
THEOREM WaitsTimesExact == WaitingSpec => TimesExact
<1>1. WaitingInit => TimedInv
  BY InitTimedInv DEF WaitingInit
<1>2. TimedInv /\ [WaitingNext]_<<waiting, timedVars, condVars>> => TimedInv'
  BY TimedStays
<1>3. TimedInv => Timed!TypeOK /\ Timed!NeverLate
  <2> SUFFICES ASSUME TimedInv PROVE Timed!TypeOK /\ Timed!NeverLate
    OBVIOUS
  <2>1. \A t \in Sleepers : CallRight(call[t]) /\ StampRight(stamp[t])
    BY DEF TimedInv
  <2>2. Timed!TypeOK
    BY <2>1 DEF TimedInv, CallRight, StampRight, Timed!TypeOK
  <2>3. ASSUME NEW c, CallRight(c), c # Timed!NoCall
        PROVE  IF c.kind = "condition"
               THEN Timed!Instant(c.until) <= c.asked
               ELSE sets = c.sets => Timed!Instant(c.until) - wall <= c.asked - (mono - c.from)
    <3>1. /\ c.asked \in Int /\ c.from \in Int /\ mono \in Int /\ wall \in Int
      BY <2>3 DEF CallRight, TimedInv
    <3> QED BY <2>3, <3>1 DEF CallRight
  <2>4. Timed!NeverLate
    BY <2>1, <2>3 DEF Timed!NeverLate
  <2> QED BY <2>2, <2>4
<1>4. TimedInv =>
         \A t \in Sleepers : LET c == call[t] IN
            Timed!Invalid(t) \/ Timed!TimedOut(t) =>
                IF c.kind = "condition" THEN wall >= c.asked
                                        ELSE sets = c.sets => mono - c.from >= c.asked
  <2> SUFFICES ASSUME TimedInv, NEW t \in Sleepers, Timed!Invalid(t) \/ Timed!TimedOut(t)
               PROVE  IF call[t].kind = "condition" THEN wall >= call[t].asked
                      ELSE sets = call[t].sets => mono - call[t].from >= call[t].asked
    OBVIOUS
  <2>1. PICK c : c = call[t]
    OBVIOUS
  <2>2. /\ CallRight(c) /\ c # Timed!NoCall
        /\ Timed!Normal(c.until) => wall >= Timed!Instant(c.until)
    BY <2>1 DEF TimedInv, Timed!Invalid, Timed!TimedOut, Timed!Ends
  <2>3. /\ c.asked \in Int /\ c.from \in Int /\ mono \in Int /\ wall \in Nat
        /\ Timed!Instant(c.until) \in Int
    BY <2>2 DEF CallRight, TimedInv
  <2>4. CASE c.kind = "condition"
    BY <2>1, <2>2, <2>3, <2>4 DEF CallRight
  <2>5. CASE c.kind = "semaphore"
    BY <2>1, <2>2, <2>3, <2>5 DEF CallRight
  <2> QED BY <2>2, <2>4, <2>5 DEF CallRight
<1>5. TimedInv /\ TimedInv' =>
         \A t \in Sleepers : stamp'[t].time - stamp[t].time = stamp'[t].at - stamp[t].at
  BY DEF TimedInv, StampRight
<1>6. WaitingSpec => []TimedInv
  BY <1>1, <1>2, PTL DEF WaitingSpec
<1> QED BY <1>3, <1>4, <1>5, <1>6, PTL
        DEF TimesExact, Timed!NeverEarly, Timed!MeasuresTime

-----------------------------------------------------------------------------
(* Condition variables.                                                     *)

Workers == Conditions!Workers

Within == {"in", "filled", "done"}

Outside == {"out", "owes", "waits", "awake"}

CondType == [older: SUBSET Workers, size: Int, newer: SUBSET Workers, skew: Int,
             made: BOOLEAN]

\* The variable counts exactly those of the older group, which it would not with
\* a signature for its memory; the threads wait that are in one of its groups.
GroupsCounted(c) ==
    /\ c \in CondType
    /\ c.older \cap c.newer = {}
    /\ c.size = Cardinality(c.older)
    /\ c.made => c.skew = 0

Waits(c, at) == \A t \in Workers : at[t] = "waits" <=> t \in c.older \cup c.newer

Holds1(owner, at) == /\ owner \in Workers \cup {NoOwner}
                     /\ \A t \in Workers : at[t] \in Within <=> t = owner

CondInv == /\ GroupsCounted(cond)
           /\ place \in [Workers -> Within \cup Outside]
           /\ Waits(cond, place)
           /\ Holds1(holder, place)
           /\ cond.made \/ \A t \in Workers : place[t] = "out"
           /\ produced \in Nat /\ items \in 0 .. produced

\* Sets are counted in CondShim as they are here.
LEMMA SameCount ==
    ASSUME NEW S
    PROVE  /\ Conditions!IsFiniteSet(S) = IsFiniteSet(S)
           /\ Conditions!Cardinality(S) = Cardinality(S)
<1>1. Conditions!IsFiniteSet(S) = IsFiniteSet(S)
  BY DEF Conditions!IsFiniteSet, IsFiniteSet
<1>2. Conditions!Cardinality(S) = Cardinality(S)
  BY Zenon DEF Conditions!Cardinality, Cardinality
<1> QED BY <1>1, <1>2

\* The image has finitely many threads.
LEMMA WorkersFinite ==
    /\ IsFiniteSet(Workers) /\ NoOwner \notin Workers
    /\ \A S \in SUBSET Workers : IsFiniteSet(S) /\ Cardinality(S) \in Nat
<1>1. IsFiniteSet(Workers) /\ NoOwner \notin Workers
  BY WaitsAssumed, SameCount DEF WaitsAssumption, Conditions!CondAssumption, Workers
<1>2. ASSUME NEW S \in SUBSET Workers
      PROVE  IsFiniteSet(S) /\ Cardinality(S) \in Nat
  <2>1. IsFiniteSet(S)
    BY <1>1, FS_Subset
  <2> QED BY <2>1, FS_CardinalityType
<1> QED BY <1>1, <1>2

\* Memory that pthread_cond_init cleared counts nobody.
LEMMA ClearedCounted ==
    /\ GroupsCounted(Conditions!Cleared) /\ Conditions!Cleared.made
    /\ Conditions!Cleared.older = {} /\ Conditions!Cleared.newer = {}
BY FS_EmptySet DEF GroupsCounted, CondType, Conditions!Cleared

\* Before it is initialized nobody uses the variable.
LEMMA InitCondInv == Conditions!Init => CondInv
<1> SUFFICES ASSUME Conditions!Init PROVE CondInv
  OBVIOUS
<1>1. /\ holder = NoOwner /\ place = [t \in Workers |-> "out"]
      /\ items = 0 /\ produced = 0
  BY DEF Conditions!Init, Workers
<1>2. /\ cond \in CondType /\ cond.older = {} /\ cond.newer = {} /\ cond.size = 0
      /\ cond.made = FALSE
  <2>1. PICK c \in CondType : c = Conditions!Cleared
    BY ClearedCounted DEF GroupsCounted
  <2>2. c.older = {} /\ c.newer = {} /\ c.size = 0
    BY <2>1, ClearedCounted DEF Conditions!Cleared
  <2>3. cond = [c EXCEPT !.skew = 3, !.made = FALSE]
    BY <2>1, Zenon DEF Conditions!Init, Conditions!Signature
  <2>4. PICK d : d = [c EXCEPT !.skew = 3]
    OBVIOUS
  <2>5. /\ d \in CondType /\ d.older = {} /\ d.newer = {} /\ d.size = 0
    BY <2>2, <2>4 DEF CondType
  <2>6. cond = [d EXCEPT !.made = FALSE]
    BY <2>3, <2>4, Zenon
  <2> QED BY <2>5, <2>6 DEF CondType
<1>3. GroupsCounted(cond)
  BY <1>2, FS_EmptySet DEF GroupsCounted
<1> QED BY <1>1, <1>2, <1>3, WorkersFinite DEF CondInv, Waits, Holds1, Within, Outside

\* Where the threads are when t goes on and ws are woken.
LEMMA GoesAt ==
    ASSUME CondInv, NEW t \in Workers, NEW where \in Within \cup Outside,
           NEW ws \in SUBSET Workers, Conditions!Goes(t, where, ws)
    PROVE  /\ place' \in [Workers -> Within \cup Outside]
           /\ place'[t] = where
           /\ \A u \in Workers : u # t => place'[u] = IF u \in ws THEN "awake" ELSE place[u]
BY DEF CondInv, Conditions!Goes, Workers, Within, Outside

\* A thread is at one of its places.
LEMMA WhoIsMade == ASSUME CondInv, NEW t \in Workers, place[t] # "out" PROVE cond.made
BY DEF CondInv

\* Made and destroyed, the variable has nobody waiting.
LEMMA CondMakeStep ==
    ASSUME CondInv, NEW t \in Workers, Conditions!CondInit(t) \/ Conditions!CondDestroy(t)
    PROVE  CondInv'
<1>1. /\ place' = place /\ holder' = holder /\ items' = items /\ produced' = produced
      /\ \A u \in Workers : place[u] = "out"
  BY DEF Conditions!CondInit, Conditions!CondDestroy, CondInv, Workers
<1>2. cond.older \cup cond.newer = {}
  BY <1>1 DEF CondInv, Waits, GroupsCounted, CondType
<1>3. cond' = Conditions!Cleared \/ cond' = [cond EXCEPT !.made = FALSE]
  BY DEF Conditions!CondInit, Conditions!CondDestroy
<1>4. GroupsCounted(cond') /\ cond'.older = {} /\ cond'.newer = {}
  <2>1. CASE cond' = Conditions!Cleared
    BY <2>1, ClearedCounted
  <2>2. CASE cond' = [cond EXCEPT !.made = FALSE]
    <3>1. /\ cond' \in CondType /\ cond'.older = {} /\ cond'.newer = {}
          /\ cond'.size = cond.size /\ cond'.made = FALSE /\ cond.older = {}
      BY <1>2, <2>2 DEF CondInv, GroupsCounted, CondType
    <3> QED BY <3>1 DEF CondInv, GroupsCounted
  <2> QED BY <1>3, <2>1, <2>2
<1>5. Waits(cond', place') /\ Holds1(holder', place')
  BY <1>1, <1>4 DEF CondInv, Waits, Holds1
<1>6. /\ GroupsCounted(cond)' /\ Waits(cond, place)' /\ Holds1(holder, place)'
  BY <1>4, <1>5 DEF GroupsCounted, Waits, Holds1
<1> QED BY <1>1, <1>6 DEF CondInv

\* A thread leaves the monitor and waits in one step, or its wait ends.
LEMMA WaitStep ==
    ASSUME CondInv, NEW t \in Workers, Conditions!CondWait(t) \/ Conditions!TimedOut(t)
    PROVE  CondInv'
<1>1. /\ GroupsCounted(cond) /\ Waits(cond, place) /\ Holds1(holder, place)
      /\ cond \in CondType /\ cond.older \in SUBSET Workers /\ cond.newer \in SUBSET Workers
  BY DEF CondInv, GroupsCounted, CondType
<1>2. CASE Conditions!CondWait(t)
  <2>1. /\ place[t] = "in" /\ holder' = NoOwner /\ items' = items /\ produced' = produced
        /\ cond' = [cond EXCEPT !.newer = cond.newer \cup {t}]
        /\ Conditions!Goes(t, "waits", {})
    BY <1>2 DEF Conditions!CondWait
  <2>2. cond.made /\ holder = t /\ t \notin cond.older
    BY <2>1, <1>1, WhoIsMade DEF Holds1, Within, Waits
  <2>3. /\ cond' \in CondType /\ cond'.older = cond.older /\ cond'.newer = cond.newer \cup {t}
        /\ cond'.size = cond.size /\ cond'.skew = cond.skew /\ cond'.made = cond.made
    BY <1>1, <2>1 DEF CondType
  <2>4. GroupsCounted(cond')
    BY <1>1, <2>2, <2>3 DEF GroupsCounted
  <2>5. /\ place' \in [Workers -> Within \cup Outside] /\ place'[t] = "waits"
        /\ \A u \in Workers : u # t => place'[u] = place[u]
    BY <2>1, GoesAt DEF Outside
  <2>6. Waits(cond', place') /\ Holds1(holder', place')
    BY <1>1, <2>1, <2>2, <2>3, <2>5, WorkersFinite DEF Waits, Holds1, Within
  <2>7. /\ GroupsCounted(cond)' /\ Waits(cond, place)' /\ Holds1(holder, place)'
    BY <2>4, <2>6 DEF GroupsCounted, Waits, Holds1
  <2> QED BY <2>1, <2>2, <2>3, <2>5, <2>7 DEF CondInv
<1>3. CASE Conditions!TimedOut(t)
  <2>1. /\ place[t] = "waits" /\ holder' = holder /\ items' = items /\ produced' = produced
        /\ cond' = [cond EXCEPT !.older = cond.older \ {t}, !.newer = cond.newer \ {t},
                                !.size = IF t \in cond.older THEN cond.size - 1 ELSE cond.size]
        /\ Conditions!Goes(t, "awake", {})
    BY <1>3 DEF Conditions!TimedOut, Conditions!Left
  <2>2. cond.made
    BY <2>1, WhoIsMade
  <2>3. /\ cond' \in CondType /\ cond'.older = cond.older \ {t}
        /\ cond'.newer = cond.newer \ {t} /\ cond'.skew = cond.skew /\ cond'.made = cond.made
        /\ cond'.size = IF t \in cond.older THEN cond.size - 1 ELSE cond.size
    <3>1. PICK o, n, z : /\ o = cond.older \ {t} /\ n = cond.newer \ {t}
                         /\ z = IF t \in cond.older THEN cond.size - 1 ELSE cond.size
      OBVIOUS
    <3>2. cond' = [cond EXCEPT !.older = o, !.newer = n, !.size = z]
      BY <2>1, <3>1, Zenon
    <3>3. o \in SUBSET Workers /\ n \in SUBSET Workers /\ z \in Int
      BY <1>1, <3>1 DEF CondType
    <3>4. /\ cond' \in CondType /\ cond'.older = o /\ cond'.newer = n /\ cond'.size = z
          /\ cond'.skew = cond.skew /\ cond'.made = cond.made
      BY <1>1, <3>2, <3>3 DEF CondType
    <3> QED BY <3>1, <3>4
  <2>4. Cardinality(cond.older \ {t})
           = IF t \in cond.older THEN Cardinality(cond.older) - 1 ELSE Cardinality(cond.older)
    BY <1>1, WorkersFinite, FS_RemoveElement
  <2>5. GroupsCounted(cond')
    BY <1>1, <2>3, <2>4 DEF GroupsCounted
  <2>6. /\ place' \in [Workers -> Within \cup Outside] /\ place'[t] = "awake"
        /\ \A u \in Workers : u # t => place'[u] = place[u]
    BY <2>1, GoesAt DEF Outside
  <2>7. Waits(cond', place') /\ Holds1(holder', place')
    BY <1>1, <2>1, <2>3, <2>6 DEF Waits, Holds1, Within
  <2>8. /\ GroupsCounted(cond)' /\ Waits(cond, place)' /\ Holds1(holder, place)'
    BY <2>5, <2>7 DEF GroupsCounted, Waits, Holds1
  <2> QED BY <2>1, <2>2, <2>3, <2>6, <2>8 DEF CondInv
<1> QED BY <1>2, <1>3

\* A thread that enters the monitor, works in it or leaves it wakes nobody.
LEMMA MonitorStep ==
    ASSUME CondInv, NEW t \in Workers,
           \/ Conditions!WaitReturns(t) \/ Conditions!Enter(t) \/ Conditions!Put(t)
           \/ Conditions!Take(t) \/ Conditions!Leave(t)
    PROVE  /\ CondInv'
           /\ \A p \in Conditions!NotifyPlaces : ~ (place[t] = p[1] /\ place'[t] = p[2])
           /\ \A u \in Workers : u # t => place'[u] = place[u]
<1>1. /\ GroupsCounted(cond) /\ Waits(cond, place) /\ Holds1(holder, place)
      /\ t # NoOwner
  BY WorkersFinite DEF CondInv
<1>2. PICK where : /\ Conditions!Goes(t, where, {})
                   /\ \/ place[t] \in {"awake", "out"} /\ where = "in"
                      \/ place[t] = "in" /\ where \in {"filled", "done"}
                      \/ place[t] = "done" /\ where = "out"
                      \/ place[t] = "filled" /\ where = "owes"
  BY DEF Conditions!WaitReturns, Conditions!Enter, Conditions!Put, Conditions!Take,
         Conditions!Leave
<1>3. /\ where \in Within \cup Outside /\ where # "waits" /\ place[t] # "waits"
      /\ place' \in [Workers -> Within \cup Outside] /\ place'[t] = where
      /\ \A u \in Workers : u # t => place'[u] = place[u]
  BY <1>2, GoesAt DEF Within, Outside
<1>4. cond' = cond /\ cond.made
  <2>1. cond' = cond
    BY DEF Conditions!WaitReturns, Conditions!Enter, Conditions!Put, Conditions!Take,
           Conditions!Leave
  <2>2. CASE place[t] = "out"
    <3>1. Conditions!Enter(t)
      BY <2>2 DEF Conditions!WaitReturns, Conditions!Put, Conditions!Take, Conditions!Leave
    <3> QED BY <2>1, <3>1 DEF Conditions!Enter
  <2>3. CASE place[t] # "out"
    BY <2>1, <2>3, WhoIsMade
  <2> QED BY <2>2, <2>3
<1>5. Waits(cond, place)'
  BY <1>1, <1>3, <1>4 DEF Waits
<1>6. \/ holder = NoOwner /\ holder' = t /\ place'[t] \in Within
      \/ holder = t /\ holder' = t /\ place'[t] \in Within
      \/ holder = t /\ holder' = NoOwner /\ place'[t] \notin Within
  <2>1. CASE Conditions!WaitReturns(t)
    BY <2>1, <1>3, GoesAt DEF Conditions!WaitReturns, Within, Outside
  <2>2. CASE Conditions!Enter(t)
    BY <2>2, <1>3, GoesAt DEF Conditions!Enter, Within, Outside
  <2>3. CASE Conditions!Put(t)
    <3>1. place[t] \in Within /\ holder' = holder /\ Conditions!Goes(t, "filled", {})
      BY <2>3 DEF Conditions!Put, Within
    <3> QED BY <3>1, <1>1, GoesAt DEF Holds1, Within
  <2>4. CASE Conditions!Take(t)
    <3>1. place[t] \in Within /\ holder' = holder /\ Conditions!Goes(t, "done", {})
      BY <2>4 DEF Conditions!Take, Within
    <3> QED BY <3>1, <1>1, GoesAt DEF Holds1, Within
  <2>5. CASE Conditions!Leave(t)
    <3>1. /\ holder' = NoOwner /\ place[t] \in {"done", "filled"}
          /\ (Conditions!Goes(t, "out", {}) \/ Conditions!Goes(t, "owes", {}))
      BY <2>5 DEF Conditions!Leave
    <3>2. holder = t
      BY <3>1, <1>1 DEF Holds1, Within
    <3>3. place'[t] \in {"out", "owes"}
      BY <3>1, GoesAt DEF Outside
    <3> QED BY <3>1, <3>2, <3>3 DEF Within
  <2> QED BY <2>1, <2>2, <2>3, <2>4, <2>5
<1>7. Holds1(holder, place)'
  <2>1. \A u \in Workers : u # t => (place'[u] \in Within <=> place[u] \in Within)
    BY <1>3
  <2>2. \A u \in Workers : place[u] \in Within <=> u = holder
    BY <1>1 DEF Holds1
  <2>3. NoOwner \notin Workers
    BY WorkersFinite
  <2>4. \A u \in Workers : place'[u] \in Within <=> u = holder'
    <3>1. CASE holder = NoOwner /\ holder' = t /\ place'[t] \in Within
      BY <2>1, <2>2, <2>3, <3>1
    <3>2. CASE holder = t /\ holder' = t /\ place'[t] \in Within
      BY <2>1, <2>2, <3>2
    <3>3. CASE holder = t /\ holder' = NoOwner /\ place'[t] \notin Within
      BY <2>1, <2>2, <2>3, <3>3
    <3> QED BY <1>6, <3>1, <3>2, <3>3
  <2>5. holder' \in Workers \cup {NoOwner}
    BY <1>6
  <2> QED BY <2>4, <2>5 DEF Holds1
<1>8. GroupsCounted(cond)'
  BY <1>1, <1>4 DEF GroupsCounted
<1>9. /\ produced' \in Nat /\ items' \in 0 .. produced'
  BY DEF CondInv, Conditions!WaitReturns, Conditions!Enter, Conditions!Put,
         Conditions!Take, Conditions!Leave
<1>10. CondInv'
  BY <1>3, <1>4, <1>5, <1>7, <1>8, <1>9 DEF CondInv
<1>11. \A p \in Conditions!NotifyPlaces : ~ (place[t] = p[1] /\ place'[t] = p[2])
  BY <1>2, <1>3 DEF Conditions!NotifyPlaces
<1> QED BY <1>3, <1>10, <1>11

\* What a signal goes by: of those waiting the older group, and of that as many as
\* there are; it is empty when nobody waits.
LEMMA SwitchedCounted ==
    ASSUME CondInv, cond.made
    PROVE  LET c == Conditions!Switched
           IN  /\ GroupsCounted(c) /\ c.made
               /\ c.older \cup c.newer = cond.older \cup cond.newer
               /\ cond.older \cup cond.newer # {} => c.older # {}
<1>1. /\ cond \in CondType /\ cond.older \in SUBSET Workers /\ cond.newer \in SUBSET Workers
      /\ cond.size = Cardinality(cond.older) /\ cond.skew = 0
      /\ cond.older \cap cond.newer = {}
  BY DEF CondInv, GroupsCounted, CondType
<1>2. cond.size = 0 <=> cond.older = {}
  BY <1>1, WorkersFinite, FS_EmptySet
<1>3. CASE cond.size = 0
  <2>1. PICK o, n, z : /\ o = cond.newer /\ n = {} /\ z = Cardinality(cond.newer)
    OBVIOUS
  <2>2. z \in Int
    BY <1>1, <2>1, WorkersFinite
  <2>3. Conditions!Cardinality(cond.newer) + cond.skew = z
    BY <1>1, <2>1, <2>2, SameCount
  <2>4. PICK d : d = [cond EXCEPT !.older = o, !.newer = n, !.size = z]
    OBVIOUS
  <2>5. Conditions!Switched = [d EXCEPT !.skew = 0]
    BY <1>3, <2>1, <2>3, <2>4, Zenon DEF Conditions!Switched
  <2>6. d \in CondType /\ d.older = o /\ d.newer = n /\ d.size = z /\ d.made = cond.made
    BY <1>1, <2>1, <2>2, <2>4 DEF CondType
  <2>7. PICK c : c = Conditions!Switched
    OBVIOUS
  <2>8. c = [d EXCEPT !.skew = 0]
    BY <2>5, <2>7, Zenon
  <2>9. /\ c \in CondType /\ c.older = o /\ c.newer = n /\ c.size = z /\ c.skew = 0
        /\ c.made = cond.made
    <3>1. c \in CondType /\ c.older = d.older /\ c.newer = d.newer /\ c.size = d.size
      BY <2>6, <2>8 DEF CondType
    <3>2. c.skew = 0
      BY <2>6, <2>8 DEF CondType
    <3>3. c.made = d.made
      BY <2>6, <2>8 DEF CondType
    <3>4. d.made = cond.made
      BY <2>6
    <3> QED BY <2>6, <3>1, <3>2, <3>3, <3>4, Zenon
  <2>10. GroupsCounted(c)
    BY <2>1, <2>9 DEF GroupsCounted
  <2> QED BY <1>2, <1>3, <2>1, <2>7, <2>9, <2>10
<1>4. CASE cond.size # 0
  <2>1. Conditions!Switched = cond
    BY <1>4 DEF Conditions!Switched
  <2> QED BY <1>2, <1>4, <2>1 DEF CondInv
<1> QED BY <1>3, <1>4

\* A signal or broadcast: while threads wait, it wakes one of them at least.
LEMMA NotifyStep ==
    ASSUME CondInv, NEW t \in Workers, Conditions!Notify(t)
    PROVE  /\ CondInv'
           /\ cond.older \cup cond.newer # {} =>
                 \E w \in cond.older \cup cond.newer : place'[w] = "awake"
           /\ \A u \in Workers : u # t => place'[u] \in {place[u], "awake"}
<1>1. /\ GroupsCounted(cond) /\ Waits(cond, place) /\ Holds1(holder, place)
      /\ cond \in CondType /\ cond.older \in SUBSET Workers /\ cond.newer \in SUBSET Workers
  BY DEF CondInv, GroupsCounted, CondType
<1>2. PICK p \in Conditions!NotifyPlaces :
         place[t] = p[1] /\ (Conditions!CondSignal(t, p[2]) \/ Conditions!CondBroadcast(t, p[2]))
  BY DEF Conditions!Notify
<1>3. PICK next : next = p[2]
  OBVIOUS
<1>4. \/ place[t] = "filled" /\ next = "done"
      \/ place[t] = "owes" /\ next = "out"
  BY <1>2, <1>3 DEF Conditions!NotifyPlaces
<1>5. /\ cond.made /\ holder' = holder /\ items' = items /\ produced' = produced
      /\ next \in Within \cup Outside
  BY <1>4, WhoIsMade DEF Conditions!Notify, Within, Outside
<1> DEFINE waiters == cond.older \cup cond.newer
<1>6. Conditions!Waiting = waiters /\ waiters \in SUBSET Workers
  BY <1>1 DEF Conditions!Waiting
<1>7. PICK ws \in SUBSET waiters :
         /\ Conditions!Goes(t, next, ws) /\ (waiters # {} => ws # {})
         /\ GroupsCounted(cond') /\ cond'.made
         /\ cond'.older \cup cond'.newer = waiters \ ws
  <2>1. CASE waiters = {}
    <3>1. Conditions!Goes(t, next, {}) /\ cond' = cond
      BY <1>2, <1>3, <1>6, <2>1 DEF Conditions!CondSignal, Conditions!CondBroadcast
    <3> QED BY <3>1, <1>1, <1>5, <2>1
  <2>2. CASE waiters # {} /\ Conditions!CondBroadcast(t, next)
    <3>1. Conditions!Goes(t, next, waiters) /\ cond' = Conditions!Cleared
      BY <1>6, <2>2 DEF Conditions!CondBroadcast
    <3> QED BY <3>1, <2>2, ClearedCounted
  <2>3. CASE waiters # {} /\ Conditions!CondSignal(t, next)
    <3>1. PICK c : c = Conditions!Switched
      OBVIOUS
    <3>2. /\ GroupsCounted(c) /\ c.made /\ c.older \cup c.newer = waiters /\ c.older # {}
      BY <1>5, <2>3, <3>1, SwitchedCounted
    <3>3. PICK ws \in SUBSET c.older :
             Conditions!Signalled(c, ws) /\ Conditions!Goes(t, next, ws)
      BY <1>6, <2>3, <3>1 DEF Conditions!CondSignal
    <3>4. Cardinality(ws) = 1
      BY <3>2, <3>3, SameCount DEF Conditions!Signalled
    <3>5. ws \in SUBSET Workers /\ c.older \in SUBSET Workers
      BY <1>6, <3>2, <3>3
    <3>6. PICK w : ws = {w}
      BY <3>4, <3>5, WorkersFinite, FS_Singleton
    <3>7. Cardinality(c.older \ {w}) = Cardinality(c.older) - 1
      BY <3>3, <3>5, <3>6, WorkersFinite, FS_RemoveElement
    <3>8. c \in CondType /\ c.size \in Int /\ c.size = Cardinality(c.older)
      BY <3>2 DEF GroupsCounted, CondType
    <3>9. PICK o, z : o = c.older \ {w} /\ z = c.size - 1
      OBVIOUS
    <3>10. cond' = [c EXCEPT !.older = o, !.size = z]
      BY <3>3, <3>6, <3>9, Zenon DEF Conditions!Signalled
    <3>11. o \in SUBSET Workers /\ z \in Int
      BY <3>5, <3>8, <3>9
    <3>12. /\ cond' \in CondType /\ cond'.older = o /\ cond'.newer = c.newer
           /\ cond'.size = z /\ cond'.skew = c.skew /\ cond'.made = c.made
      BY <3>8, <3>10, <3>11 DEF CondType
    <3>13. GroupsCounted(cond')
      BY <3>2, <3>7, <3>8, <3>9, <3>12 DEF GroupsCounted
    <3>14. cond'.older \cup cond'.newer = waiters \ ws
      <4>1. c.older \cap c.newer = {} /\ w \in c.older
        BY <3>2, <3>3, <3>6 DEF GroupsCounted
      <4> QED BY <3>2, <3>6, <3>9, <3>12, <4>1
    <3>15. ws \in SUBSET waiters /\ ws # {}
      BY <3>2, <3>3, <3>6
    <3> QED BY <3>2, <3>3, <3>12, <3>13, <3>14, <3>15
  <2> QED BY <1>2, <1>3, <2>1, <2>2, <2>3
<1>8. /\ place' \in [Workers -> Within \cup Outside] /\ place'[t] = next
      /\ \A u \in Workers : u # t => place'[u] = IF u \in ws THEN "awake" ELSE place[u]
  BY <1>5, <1>6, <1>7, GoesAt
<1>9. t \notin waiters /\ \A u \in ws : place[u] = "waits"
  BY <1>1, <1>4, <1>6, <1>7 DEF Waits
<1>10. Waits(cond', place')
  BY <1>1, <1>4, <1>6, <1>7, <1>8, <1>9 DEF Waits
<1>11. Holds1(holder', place')
  BY <1>1, <1>4, <1>5, <1>6, <1>7, <1>8, <1>9 DEF Holds1, Within
<1>12. /\ GroupsCounted(cond)' /\ Waits(cond, place)' /\ Holds1(holder, place)'
  BY <1>7, <1>10, <1>11 DEF GroupsCounted, Waits, Holds1
<1>13. CondInv'
  BY <1>5, <1>7, <1>8, <1>12 DEF CondInv
<1>14. waiters # {} => \E w \in waiters : place'[w] = "awake"
  BY <1>6, <1>7, <1>8, <1>9
<1> QED BY <1>8, <1>13, <1>14

\* A step of the monitor, and whom it wakes.
SignalHeard ==
    \A t \in Workers, p \in Conditions!NotifyPlaces :
        place[t] = p[1] /\ place'[t] = p[2] /\ holder' = holder /\ Conditions!Waiting # {} =>
            \E w \in Conditions!Waiting : place'[w] = "awake"

\* Every step of the monitor, and any of the clocks, keeps the invariant, and a
\* signal is heard.
LEMMA CondStays ==
    ASSUME CondInv, [WaitingNext]_<<waiting, timedVars, condVars>>
    PROVE  CondInv' /\ (SignalHeard \/ UNCHANGED condVars)
<1>1. CASE UNCHANGED condVars
  BY <1>1 DEF condVars, CondInv, GroupsCounted, Waits, Holds1
<1>2. ASSUME NEW t \in Workers,
             \/ Conditions!CondInit(t) \/ Conditions!CondDestroy(t)
             \/ Conditions!TimedOut(t) \/ Conditions!CondWait(t)
             \/ Conditions!WaitReturns(t) \/ Conditions!Enter(t)
             \/ Conditions!Put(t) \/ Conditions!Take(t) \/ Conditions!Leave(t)
             \/ Conditions!Notify(t)
      PROVE  CondInv' /\ SignalHeard
  <2>1. \A p \in Conditions!NotifyPlaces :
           /\ p[1] # p[2] /\ p[1] \in {"filled", "owes"} /\ p[2] \in {"done", "out"}
    BY DEF Conditions!NotifyPlaces
  <2>2. CASE Conditions!CondInit(t) \/ Conditions!CondDestroy(t)
    <3>1. place' = place
      BY <2>2 DEF Conditions!CondInit, Conditions!CondDestroy
    <3>2. CondInv'
      BY <2>2, CondMakeStep
    <3> QED BY <2>1, <3>1, <3>2 DEF SignalHeard
  <2>3. CASE Conditions!TimedOut(t) \/ Conditions!CondWait(t)
    <3>1. CondInv'
      BY <2>3, WaitStep
    <3>2. place[t] \in {"in", "waits"} /\ \A u \in Workers : u # t => place'[u] = place[u]
      BY <2>3, GoesAt DEF Conditions!TimedOut, Conditions!CondWait, Outside
    <3> QED BY <2>1, <3>1, <3>2 DEF SignalHeard
  <2>4. CASE \/ Conditions!WaitReturns(t) \/ Conditions!Enter(t)
             \/ Conditions!Put(t) \/ Conditions!Take(t) \/ Conditions!Leave(t)
    <3>1. /\ CondInv'
          /\ \A p \in Conditions!NotifyPlaces : ~ (place[t] = p[1] /\ place'[t] = p[2])
          /\ \A u \in Workers : u # t => place'[u] = place[u]
      BY <2>4, MonitorStep
    <3> QED BY <2>1, <3>1 DEF SignalHeard
  <2>5. CASE Conditions!Notify(t)
    BY <2>5, NotifyStep DEF SignalHeard, Conditions!Waiting
  <2> QED BY <1>2, <2>2, <2>3, <2>4, <2>5
<1>3. CASE Conditions!Next
  <2>1. PICK t \in Workers :
           \/ Conditions!CondInit(t) \/ Conditions!CondDestroy(t)
           \/ Conditions!TimedOut(t) \/ Conditions!WaitReturns(t)
           \/ Conditions!Enter(t) \/ Conditions!Works(t)
    BY <1>3 DEF Conditions!Next, Workers
  <2> QED BY <1>2, <2>1 DEF Conditions!Works
<1> QED BY <1>1, <1>3 DEF WaitingNext, TimedStep, CondStep

\* On a condition variable that was initialized at run time no signal is lost:
\* while threads wait, each wakes one of them at least, and every way out of a wait
\* leads into the monitor alone (stub_pthread.c:227-255).
THEOREM WaitsSignalsWake == WaitingSpec => EachSignalWakes
<1>1. WaitingInit => CondInv
  BY InitCondInv DEF WaitingInit
<1>2. CondInv /\ [WaitingNext]_<<waiting, timedVars, condVars>>
         => CondInv' /\ (SignalHeard \/ UNCHANGED condVars)
  BY CondStays
<1>3. CondInv => Conditions!Monitor
  <2> SUFFICES ASSUME CondInv PROVE Conditions!Monitor
    OBVIOUS
  <2>1. /\ GroupsCounted(cond) /\ Waits(cond, place) /\ Holds1(holder, place)
        /\ cond.older \in SUBSET Workers /\ cond.newer \in SUBSET Workers
    BY DEF CondInv, GroupsCounted, CondType
  <2>2. Conditions!Inside = {holder} \ {NoOwner}
    BY <2>1, WorkersFinite DEF Conditions!Inside, Holds1, Within, Workers
  <2>3. {t \in Workers : place[t] = "waits"} = cond.older \cup cond.newer
    BY <2>1 DEF Waits
  <2>4. cond.size >= Conditions!Cardinality(cond.older)
    BY <2>1, SameCount, WorkersFinite DEF GroupsCounted
  <2> QED BY <2>1, <2>2, <2>3, <2>4 DEF Conditions!Monitor, Conditions!Waiting, CondInv,
                                         GroupsCounted, Workers
<1>4. WaitingSpec => []CondInv
  BY <1>1, <1>2, PTL DEF WaitingSpec
<1>5. SignalHeard =>
         \A t \in Conditions!Workers, p \in Conditions!NotifyPlaces :
             place[t] = p[1] /\ place'[t] = p[2] /\ holder' = holder
                /\ Conditions!Waiting # {} =>
                   \E w \in Conditions!Waiting : place'[w] = "awake"
  BY DEF SignalHeard, Workers
<1>6. CondInv /\ [WaitingNext]_<<waiting, timedVars, condVars>>
         => [\A t \in Conditions!Workers, p \in Conditions!NotifyPlaces :
                place[t] = p[1] /\ place'[t] = p[2] /\ holder' = holder
                   /\ Conditions!Waiting # {} =>
                      \E w \in Conditions!Waiting : place'[w] = "awake"]_condVars
  BY <1>2, <1>5
<1> QED BY <1>3, <1>4, <1>6, PTL
        DEF WaitingSpec, EachSignalWakes, Conditions!SignalWakes, Conditions!vars, condVars
=============================================================================
