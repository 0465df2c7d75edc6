------------------------------ MODULE MutexShim ------------------------------
(***************************************************************************)
(* The pthread mutexes of the image on those of Linux, and the C++ mutexes *)
(* made of them (stubs/src/stub_pthread.c:62-170, 356-395).                *)
(*                                                                         *)
(* A Darwin mutex is a signature followed by a Linux mutex.  One that its  *)
(* data or an inline constructor initialises is a signature and zeros.     *)
(***************************************************************************)
EXTENDS Integers

CONSTANTS Threads, Mutexes,
          Statics,      \* the signatures of the mutexes in data of the image
          RecursiveCxx, \* the image makes recursive mutexes of C++
          MaxDepth,     \* bound on how often a mutex is locked by its holder
          None, Nobody, NoMutex

Signatures == {"plain", "firstfit", "errorcheck", "recursive"}

ASSUME ShimAssumption == /\ Statics \subseteq Signatures
                         /\ RecursiveCxx \in BOOLEAN
                         /\ MaxDepth \in Nat \ {0}
                         /\ Nobody \notin Threads /\ NoMutex \notin Mutexes
                         /\ None \notin {"normal", "errorcheck", "recursive", "unchecked"}

VARIABLES sig,     \* the signature in the memory of each mutex, or None
          native,  \* the Linux mutex in it: kind, owner, count
          attr,    \* attr[t]: the kind in the attributes t works with
          wants,   \* wants[t]: the mutex whose lock t is blocked in
          result,  \* what the last call of t returned
          asked,   \* the kind the image asked of each mutex (its view)
          askedFor,\* the kind it last asked of its attributes
          inited,  \* the mutexes made by pthread_mutex_init
          panicked

vars == <<sig, native, attr, wants, result, asked, askedFor, inited, panicked>>

\* PTHREAD_MUTEX_FAST_NP, RECURSIVE_NP, ERRORCHECK_NP, ADAPTIVE_NP; -1 is what
\* pthread_mutex_destroy of Linux leaves.
Fast       == 0
Recursive  == 1
Errorcheck == 2
Adaptive   == 3
Destroyed  == -1

\* What the image means by the types it passes to settype.
DarwinType == [n \in 0 .. 2 |-> CASE n = 0 -> "normal"
                                  [] n = 1 -> "errorcheck"
                                  [] n = 2 -> "recursive"]

\* And by a signature.
Promise(s) == IF s \in {"plain", "firstfit"} THEN "normal" ELSE s

Fresh(k) == [kind |-> k, owner |-> Nobody, count |-> 0]
Zeros    == Fresh(Fast)

Init == \E statics \in [Mutexes -> Statics \cup {None}] :
           /\ sig = statics
           /\ native = [m \in Mutexes |-> Zeros]
           /\ asked = [m \in Mutexes |-> IF statics[m] = None THEN None ELSE Promise(statics[m])]
           /\ attr = [t \in Threads |-> Fast]
           /\ askedFor = [t \in Threads |-> "normal"]
           /\ wants = [t \in Threads |-> NoMutex]
           /\ result = [t \in Threads |-> "ok"]
           /\ inited = {}
           /\ panicked = FALSE

Returns(t, r) == result' = [result EXCEPT ![t] = r]

\* Thread t runs code of the image.
Running(t) == ~ panicked /\ wants[t] = NoMutex

\* The image makes, remakes and destroys a mutex only when nobody uses it.
Unused(m) == native[m].owner = Nobody /\ \A t \in Threads : wants[t] # m

-----------------------------------------------------------------------------
(* Attributes *)

\* Variant with a plausible bug: the two systems number the types alike.
NativeTypeUnswapped(type) == type

\* The switch of pthread_mutexattr_settype; types it does not know go through.
NativeType(type) == CASE type = 0 -> Fast
                      [] type = 1 -> Errorcheck
                      [] type = 2 -> Recursive
                      [] OTHER    -> type

AttrInit(t) == /\ Running(t)
               /\ attr' = [attr EXCEPT ![t] = Fast]
               /\ askedFor' = [askedFor EXCEPT ![t] = "normal"]
               /\ Returns(t, "ok")
               /\ UNCHANGED <<sig, native, wants, asked, inited, panicked>>

AttrSettype(t, type) == /\ Running(t)
                        /\ attr' = [attr EXCEPT ![t] = NativeType(type)]
                        /\ askedFor' = [askedFor EXCEPT ![t] = DarwinType[type]]
                        /\ Returns(t, "ok")
                        /\ UNCHANGED <<sig, native, wants, asked, inited, panicked>>

-----------------------------------------------------------------------------
(* Making mutexes *)

\* pthread_mutex_fixup: the Linux mutex a signature stands for.  A signature it
\* does not know leaves what is there.
Fixup(n, s) == CASE s = "plain"      -> Fresh(Fast)
                 [] s = "errorcheck" -> Fresh(Errorcheck)
                 [] s = "recursive"  -> Fresh(Errorcheck)
                 [] s = "firstfit"   -> Fresh(Adaptive)
                 [] OTHER            -> n

\* pthread_mutex_init of Linux, by attributes or without.
NativeInit(n, k) == [n EXCEPT !.kind = k, !.owner = Nobody, !.count = 0]

\* The signature in the memory stays what it was.
MutexInit(t, m, k, promised) ==
    /\ Running(t) /\ Unused(m)
    /\ native' = [native EXCEPT ![m] = NativeInit(Fixup(@, sig[m]), k)]
    /\ asked' = [asked EXCEPT ![m] = promised]
    /\ Returns(t, "ok")
    /\ inited' = inited \cup {m}
    /\ UNCHANGED <<sig, attr, wants, askedFor, panicked>>

MutexDestroy(t, m) ==
    /\ Running(t) /\ Unused(m) /\ asked[m] # None
    /\ native' = [native EXCEPT ![m].kind = Destroyed]
    /\ asked' = [asked EXCEPT ![m] = None]
    /\ Returns(t, "ok")
    /\ inited' = inited \ {m}
    /\ UNCHANGED <<sig, attr, wants, askedFor, panicked>>

\* The constructors of recursive_timed_mutex: the signature of a plain mutex.
RecursiveTimedMutex(t, m) ==
    /\ Running(t) /\ RecursiveCxx /\ Unused(m)
    /\ sig' = [sig EXCEPT ![m] = "plain"]
    /\ native' = [native EXCEPT ![m] = Zeros]
    /\ asked' = [asked EXCEPT ![m] = "recursive"]
    /\ inited' = inited \ {m}
    /\ UNCHANGED <<attr, wants, result, askedFor, panicked>>

\* Those of recursive_mutex panic.
RecursiveMutex(t) == /\ Running(t) /\ RecursiveCxx
                     /\ panicked' = TRUE
                     /\ UNCHANGED <<sig, native, attr, wants, result, asked, askedFor, inited>>

-----------------------------------------------------------------------------
(* Locking: the Linux mutex is taken for what it is, signature or not.      *)

\* What the thread may lock once more, as the Linux mutex has it.
Reenters(t, m) == native[m].owner = t /\ native[m].kind = Recursive

Take(t, m) == /\ native[m].owner = Nobody \/ Reenters(t, m)
              /\ native[m].count < MaxDepth
              /\ native' = [native EXCEPT ![m].owner = t, ![m].count = @ + 1]
              /\ Returns(t, "ok")

LockTakes(t, m) == /\ Running(t) /\ asked[m] # None
                   /\ Take(t, m)
                   /\ UNCHANGED <<sig, attr, wants, asked, askedFor, inited, panicked>>

\* EDEADLK
LockRefused(t, m) == /\ Running(t) /\ asked[m] # None
                     /\ native[m].owner = t /\ native[m].kind = Errorcheck
                     /\ Returns(t, "refused")
                     /\ UNCHANGED <<sig, native, attr, wants, asked, askedFor, inited, panicked>>

\* A thread that locks again a mutex of its own that Linux has for a plain one
\* waits too.
LockBlocks(t, m) == /\ Running(t) /\ asked[m] # None
                    /\ native[m].owner # Nobody
                    /\ native[m].owner = t => native[m].kind \in {Fast, Adaptive}
                    /\ wants' = [wants EXCEPT ![t] = m]
                    /\ UNCHANGED <<sig, native, attr, result, asked, askedFor, inited, panicked>>

LockGranted(t) == /\ ~ panicked /\ wants[t] # NoMutex
                  /\ native[wants[t]].owner = Nobody
                  /\ Take(t, wants[t])
                  /\ wants' = [wants EXCEPT ![t] = NoMutex]
                  /\ UNCHANGED <<sig, attr, asked, askedFor, inited, panicked>>

\* EBUSY
TrylockRefused(t, m) == /\ Running(t) /\ asked[m] # None
                        /\ native[m].owner # Nobody /\ ~ Reenters(t, m)
                        /\ Returns(t, "refused")
                        /\ UNCHANGED <<sig, native, attr, wants, asked, askedFor, inited, panicked>>

\* The last unlock of as many as there were locks frees the mutex.
Released(n) == [n EXCEPT !.count = @ - 1,
                         !.owner = IF n.count = 1 THEN Nobody ELSE @]

\* The image unlocks what it holds, or what another holds if that is checked.
Unlock(t, m) ==
    /\ Running(t) /\ asked[m] # None
    /\ native[m].owner # Nobody
    /\ native[m].owner = t \/ asked[m] \in {"errorcheck", "recursive"}
    /\ IF native[m].owner # t /\ native[m].kind \in {Errorcheck, Recursive}
       THEN Returns(t, "refused") /\ UNCHANGED native
       ELSE /\ Returns(t, "ok")
            /\ native' = [native EXCEPT ![m] = Released(@)]
    /\ UNCHANGED <<sig, attr, wants, asked, askedFor, inited, panicked>>

-----------------------------------------------------------------------------
Make(t, m) == \/ MutexInit(t, m, attr[t], askedFor[t])
              \/ MutexInit(t, m, Fast, "normal")      \* no attributes
              \/ RecursiveTimedMutex(t, m)
              \/ MutexDestroy(t, m)

Next == \E t \in Threads :
           \/ AttrInit(t) \/ RecursiveMutex(t) \/ LockGranted(t)
           \/ \E type \in 0 .. 2 : AttrSettype(t, type)
           \/ \E m \in Mutexes : \/ Make(t, m)
                                 \/ LockTakes(t, m) \/ LockRefused(t, m) \/ LockBlocks(t, m)
                                 \/ TrylockRefused(t, m) \/ Unlock(t, m)

Spec == Init /\ [][Next]_vars

-----------------------------------------------------------------------------
\* A mutex is owned exactly while it is locked, whatever it was made from and
\* whoever unlocked it (stub_pthread.c:146-170).
TypeOK == /\ sig \in [Mutexes -> Signatures \cup {None}]
          /\ native \in [Mutexes -> [kind: {Destroyed, Fast, Recursive, Errorcheck, Adaptive},
                                     owner: Threads \cup {Nobody},
                                     count: 0 .. MaxDepth]]
          /\ \A m \in Mutexes : native[m].owner = Nobody <=> native[m].count = 0
          /\ attr \in [Threads -> {Fast, Recursive, Errorcheck}]
          /\ wants \in [Threads -> Mutexes \cup {NoMutex}]
          /\ result \in [Threads -> {"ok", "refused"}]
          /\ asked \in [Mutexes -> {"normal", "errorcheck", "recursive", None}]
          /\ askedFor \in [Threads -> {"normal", "errorcheck", "recursive"}]
          /\ inited \subseteq Mutexes
          /\ panicked \in BOOLEAN

\* What a mutex is that pthread_mutex_init did not make, or a normal one.
Kind(m) == IF m \in inited \/ asked[m] \in {"normal", None} THEN asked[m] ELSE "unchecked"

\* The mutexes are those the image asked for: a mutex of each kind is locked
\* again, refused, released and given on as its kind has it, by whatever
\* attributes and signatures it was made, remade and destroyed before; only one
\* that is in data, or of C++, is an unchecked one (stub_pthread.c:130-170).
Darwin == INSTANCE DarwinMutex
             WITH MutexKinds <- {"normal", "errorcheck", "recursive", "unchecked", None},
                  kind   <- [m \in Mutexes |-> Kind(m)],
                  holder <- [m \in Mutexes |-> native[m].owner],
                  depth  <- [m \in Mutexes |-> native[m].count]

ImplementsDarwin == Darwin!Spec

\* Thread t waits for itself.
Stuck(t) == wants[t] # NoMutex /\ native[wants[t]].owner = t

\* A thread that locks a mutex it holds waits for ever only when it asked for a
\* normal mutex, or made it without pthread_mutex_init: the types of attributes
\* are never confused, over any number of reuses of memory and attributes
\* (stub_pthread.c:130-170).
StuckOnlyOnNormal ==
    \A t \in Threads : Stuck(t) => asked[wants[t]] = "normal" \/ wants[t] \notin inited

\* Locking a recursive mutex again succeeds, however it was made: lock converts
\* what its argument is before it is locked (stub_pthread.c:157-160, 382-395).
RecursiveRelocks == \A t \in Threads : Stuck(t) => asked[wants[t]] # "recursive"
=============================================================================
