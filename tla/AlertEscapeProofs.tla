-------------------------- MODULE AlertEscapeProofs --------------------------
(***************************************************************************)
(* For every image that makes its alert on the main thread: the jump out   *)
(* of it is the main thread's, into a frame that is still there.           *)
(***************************************************************************)
EXTENDS AlertEscape, TLAPS

USE EscapeAssumption

-----------------------------------------------------------------------------
(* The types. *)

\* What the steps of the loader preserve.
LEMMA LoaderType == TypeOK /\ Loader => TypeOK'
<1> SUFFICES ASSUME TypeOK, Loader PROVE TypeOK'
  OBVIOUS
<1>1. UNCHANGED <<alerting, jumps, running, held, wants, abandoned, taken>>
  BY DEF Loader, InitDone, Arm, SetJmp, EntryReturns, Disarm, Dump, DumpDone, locking
<1>2. phase' \in Phases
  BY DEF Loader, InitDone, Arm, SetJmp, EntryReturns, Disarm, Dump, DumpDone, Phases
<1>3. has_hack' \in BOOLEAN
  BY Zenon DEF Loader, InitDone, Arm, SetJmp, EntryReturns, Disarm, Dump, DumpDone, TypeOK
<1>4. frame' \in {"none", "live", "dead"}
  BY DEF Loader, InitDone, Arm, SetJmp, EntryReturns, Disarm, Dump, DumpDone, TypeOK
<1> QED
  BY <1>1, <1>2, <1>3, <1>4 DEF TypeOK, HeldBy

\* A mutex that changes hands is not one of the abandoned.
LEMMA LockType ==
    ASSUME TypeOK, NEW t \in Threads,
           \/ Locked(t)
           \/ \E l \in Locks : Lock(t, l) \/ Unlock(t, l)
    PROVE  TypeOK'
<1>1. UNCHANGED <<phase, has_hack, frame, running, abandoned, alerting, jumps>>
  BY DEF Lock, Locked, Unlock, loading
<1>2. CASE Locked(t)
  <2>1. wants[t] \in Locks /\ held[wants[t]] = Nobody
    BY <1>2 DEF Locked, TypeOK
  <2>2. held' = [held EXCEPT ![wants[t]] = t] /\ wants' = [wants EXCEPT ![t] = NoLock]
    BY <1>2 DEF Locked
  <2>3. held' \in [Locks -> Threads \cup {Nobody}] /\ wants' \in [Threads -> Locks \cup {NoLock}]
    BY <2>1, <2>2 DEF TypeOK
  <2>4. abandoned' \subseteq HeldBy(Main)'
    BY <1>1, <2>1, <2>2 DEF TypeOK, HeldBy, Threads
  <2> QED
    BY <1>1, <1>2, <2>3, <2>4 DEF TypeOK, Locked
<1>3. ASSUME NEW l \in Locks, Lock(t, l) PROVE TypeOK'
  <2>1. wants' \in [Threads -> Locks \cup {NoLock}] /\ held' = held
    BY <1>3 DEF Lock, TypeOK
  <2>2. taken' \in 0 .. MaxLocks
    BY <1>3 DEF Lock, TypeOK
  <2> QED
    BY <1>1, <2>1, <2>2 DEF TypeOK, HeldBy
<1>4. ASSUME NEW l \in Locks, Unlock(t, l) PROVE TypeOK'
  <2>1. held' = [held EXCEPT ![l] = Nobody] /\ l \notin abandoned /\ UNCHANGED <<wants, taken>>
    BY <1>4 DEF Unlock
  <2>2. held' \in [Locks -> Threads \cup {Nobody}]
    BY <2>1 DEF TypeOK
  <2>3. abandoned' \subseteq HeldBy(Main)'
    BY <1>1, <2>1 DEF TypeOK, HeldBy
  <2> QED
    BY <1>1, <2>1, <2>2, <2>3 DEF TypeOK
<1> QED
  BY <1>2, <1>3, <1>4

\* An alert and the jump it makes.
LEMMA AlertType ==
    ASSUME TypeOK, NEW t \in Threads, Alert(t) \/ LongJmp(t)
    PROVE  TypeOK'
<1>1. UNCHANGED <<has_hack, frame, running, held, wants, taken>>
  BY DEF Alert, LongJmp, loading, locking
<1>2. CASE Alert(t)
  BY <1>1, <1>2 DEF Alert, TypeOK, HeldBy, loading, locking
<1>3. CASE LongJmp(t)
  <2>1. phase' \in Phases
    BY <1>3 DEF LongJmp, Phases
  <2>2. /\ alerting' \subseteq Threads
        /\ jumps' \subseteq [by: Threads, into: {"none", "live", "dead"}]
    BY <1>3 DEF LongJmp, TypeOK
  <2>3. abandoned' \subseteq HeldBy(Main)'
    BY <1>1, <1>3 DEF LongJmp, TypeOK, HeldBy
  <2> QED
    BY <1>1, <2>1, <2>2, <2>3 DEF TypeOK
<1> QED
  BY <1>2, <1>3

\* The types of every reachable state; a lock the jump left held stays held
\* (hack.c:25-47).
THEOREM TypeCorrect == Spec => []TypeOK
<1>1. Init => TypeOK
  <2> SUFFICES ASSUME Init PROVE TypeOK
    OBVIOUS
  <2>1. held \in [Locks -> Threads \cup {Nobody}] /\ wants \in [Threads -> Locks \cup {NoLock}]
    BY DEF Init
  <2>2. has_hack \in BOOLEAN
    BY Zenon DEF Init
  <2> QED
    BY <2>1, <2>2 DEF Init, TypeOK, Phases
<1>2. TypeOK /\ [Next]_vars => TypeOK'
  <2> SUFFICES ASSUME TypeOK, [Next]_vars PROVE TypeOK'
    OBVIOUS
  <2>1. CASE Loader
    BY <2>1, LoaderType
  <2>2. ASSUME NEW t \in Threads, Alert(t) \/ LongJmp(t) PROVE TypeOK'
    BY <2>2, AlertType
  <2>3. ASSUME NEW t \in Threads, Locked(t) \/ \E l \in Locks : Lock(t, l) \/ Unlock(t, l)
        PROVE  TypeOK'
    BY <2>3, LockType
  <2>4. ASSUME NEW h \in Helpers, Start(h) \/ Stop(h) PROVE TypeOK'
    BY <2>4 DEF Start, Stop, TypeOK, HeldBy, loading
  <2>5. CASE UNCHANGED vars
    BY <2>5 DEF vars, TypeOK, HeldBy
  <2> QED
    BY <2>1, <2>2, <2>3, <2>4, <2>5 DEF Next
<1> QED
  BY <1>1, <1>2, PTL DEF Spec

-----------------------------------------------------------------------------
(* The flag and the frame, by where the main thread is. *)

\* The flag is set exactly from Arm to Disarm, the frame alive from SetJmp on,
\* and a thread past the check of objc_alloc is the main thread in its entry.
EscapeInv == /\ phase = "corrupt" \/ (has_hack => phase \in {"armed", "entry", "left"})
             /\ phase \in {"entry", "left"} => frame = "live"
             /\ alerting \subseteq {Main}
             /\ alerting # {} => phase = "entry"
             /\ \A j \in jumps : j.by = Main /\ j.into = "live"

\* It is kept as long as alerts are the main thread's.
LEMMA EscapeStep == MainOnly /\ EscapeInv /\ [Next]_vars => EscapeInv'
<1> SUFFICES ASSUME MainOnly, EscapeInv, [Next]_vars PROVE EscapeInv'
  OBVIOUS
<1> USE DEF EscapeInv
<1>1. CASE Loader
  <2>1. UNCHANGED <<alerting, jumps>>
    BY <1>1 DEF Loader, InitDone, Arm, SetJmp, EntryReturns, Disarm, Dump, DumpDone
  <2>2. CASE InitDone
    BY <2>1, <2>2 DEF InitDone
  <2>3. CASE Arm
    BY <2>1, <2>3 DEF Arm
  <2>4. CASE SetJmp
    BY <2>1, <2>4 DEF SetJmp
  <2>5. CASE EntryReturns
    BY <2>1, <2>5 DEF EntryReturns, Balanced, InImage
  <2>6. CASE Disarm
    BY <2>1, <2>6 DEF Disarm
  <2>7. CASE Dump
    BY <2>1, <2>7 DEF Dump
  <2>8. CASE DumpDone
    BY <2>1, <2>8 DEF DumpDone
  <2> QED
    BY <1>1, <2>2, <2>3, <2>4, <2>5, <2>6, <2>7, <2>8 DEF Loader
<1>2. ASSUME NEW t \in Threads, Alert(t) PROVE EscapeInv'
  <2>1. t = Main /\ phase = "entry"
    BY <1>2 DEF Alert, InImage
  <2> QED
    BY <1>2, <2>1 DEF Alert, loading
<1>3. ASSUME NEW t \in Threads, LongJmp(t) PROVE EscapeInv'
  <2>1. t = Main /\ phase = "entry" /\ frame = "live"
    BY <1>3 DEF LongJmp
  <2>2. phase' = "left" /\ frame' = "live" /\ alerting' = {}
    BY <1>3, <2>1 DEF LongJmp
  <2>3. jumps' = jumps \cup {[by |-> Main, into |-> "live"]}
    BY <1>3, <2>1 DEF LongJmp
  <2> QED
    BY <2>2, <2>3
<1>4. ASSUME NEW t \in Threads, Locked(t) \/ \E l \in Locks : Lock(t, l) \/ Unlock(t, l)
      PROVE  EscapeInv'
  BY <1>4 DEF Locked, Lock, Unlock, loading
<1>5. ASSUME NEW h \in Helpers, Start(h) \/ Stop(h) PROVE EscapeInv'
  BY <1>5 DEF Start, Stop, loading
<1>6. CASE UNCHANGED vars
  BY <1>6 DEF vars
<1> QED
  BY <1>1, <1>2, <1>3, <1>4, <1>5, <1>6 DEF Next

\* Whatever the image locks and whatever threads it starts: with alerts on the
\* main thread only, every longjmp is into the live frame of run_until_alert.
THEOREM AlertsJumpHome == Spec => []JumpsHome
<1> DEFINE Inv == MainOnly => EscapeInv
<1>1. Init => Inv
  BY DEF Init, EscapeInv
<1>2. Inv /\ [Next]_vars => Inv'
  BY EscapeStep
<1>3. Inv => JumpsHome
  BY DEF EscapeInv, JumpsHome
<1> QED
  BY <1>1, <1>2, <1>3, PTL DEF Spec
=============================================================================
