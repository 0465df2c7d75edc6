----------------------------- MODULE AlertEscape -----------------------------
(***************************************************************************)
(* How the program gets out of the image again (stubs/src/hack.c) and what *)
(* it leaves behind.  The main thread runs the initializers of the image   *)
(* and its entry point; objc_alloc of the class OSXAlertBox jumps back to  *)
(* run_until_alert; then the dump calls constructors of the image, with    *)
(* the locks the jump left held and the threads the image started.         *)
(***************************************************************************)
EXTENDS Integers, FiniteSets

CONSTANTS Main, Helpers,  \* the main thread; those the image starts
          Locks,          \* the mutexes of the image
          NoLock, Nobody,
          MainOnly,       \* the image makes its alert on the main thread, as
                          \* its user interface library demands
          MaxLocks        \* bound on the locks the main thread takes in all

Threads == {Main} \cup Helpers

ASSUME EscapeAssumption == /\ Main \notin Helpers
                           /\ NoLock \notin Locks /\ Nobody \notin Threads
                           /\ MainOnly \in BOOLEAN
                           /\ MaxLocks \in Nat

VARIABLES phase,     \* what the main thread does
          has_hack,  \* the flag of hack.c
          frame,     \* the frame of run_until_alert, which jmp_hack points into
          running,   \* helpers started and not ended
          held,      \* held[l]: the thread that holds lock l
          wants,     \* wants[t]: the lock thread t waits for
          abandoned, \* the locks the main thread held when it jumped
          taken,     \* how many locks the main thread has taken
          alerting,  \* the threads that found has_hack set
          jumps      \* the longjmps: by whom, into which frame

vars == <<phase, has_hack, frame, running, held, wants, abandoned, taken, alerting, jumps>>

loading == <<phase, has_hack, frame>>
locking == <<running, held, wants, abandoned, taken>>

Phases == {"init", "resolved", "armed", "entry", "left", "back", "dump", "exit", "corrupt"}

Init == /\ phase = "init" /\ has_hack = FALSE /\ frame = "none"
        /\ running = {}
        /\ held = [l \in Locks |-> Nobody]
        /\ wants = [t \in Threads |-> NoLock]
        /\ abandoned = {} /\ taken = 0
        /\ alerting = {} /\ jumps = {}

\* Thread t runs code of the image, and does not wait.
InImage(t) == /\ IF t = Main THEN phase \in {"init", "entry", "dump"} ELSE t \in running
              /\ phase \notin {"exit", "corrupt"}
              /\ wants[t] = NoLock /\ t \notin alerting

HeldBy(t) == {l \in Locks : held[l] = t}

\* The image may return to the loader: it gives back the locks it takes.
Balanced == InImage(Main) /\ HeldBy(Main) \subseteq abandoned

-----------------------------------------------------------------------------
(* The main thread, in the loader. *)

\* run_mod_init has run the last initializer; get_entry.
InitDone == /\ phase = "init" /\ Balanced
            /\ phase' = "resolved"
            /\ UNCHANGED <<has_hack, frame, alerting, jumps, locking>>

\* has_hack = 1, before there is anywhere to jump to.
Arm == /\ phase = "resolved"
       /\ phase' = "armed" /\ has_hack' = TRUE
       /\ UNCHANGED <<frame, alerting, jumps, locking>>

\* setjmp returns 0; func().
SetJmp == /\ phase = "armed"
          /\ phase' = "entry" /\ frame' = "live"
          /\ UNCHANGED <<has_hack, alerting, jumps, locking>>

\* func returns by itself.
EntryReturns == /\ phase = "entry" /\ Balanced
                /\ phase' = "left"
                /\ UNCHANGED <<has_hack, frame, alerting, jumps, locking>>

\* Variant with a plausible bug: has_hack is not reset.
DisarmForgotten == /\ phase = "left"
                   /\ phase' = "back" /\ frame' = "dead"
                   /\ UNCHANGED <<has_hack, alerting, jumps, locking>>

\* has_hack = 0 on both ways out of run_until_alert, which returns.
Disarm == /\ phase = "left"
          /\ phase' = "back" /\ has_hack' = FALSE /\ frame' = "dead"
          /\ UNCHANGED <<alerting, jumps, locking>>

\* main calls dump_class_list, which constructs instances.
Dump == /\ phase = "back"
        /\ phase' = "dump"
        /\ UNCHANGED <<has_hack, frame, alerting, jumps, locking>>

\* main returns; the process ends, its threads with it.
DumpDone == /\ phase = "dump" /\ Balanced
            /\ phase' = "exit"
            /\ UNCHANGED <<has_hack, frame, alerting, jumps, locking>>

-----------------------------------------------------------------------------
(* The image, on any thread. *)

\* Variant with a plausible bug: has_hack is not looked at.
AlertAlways(t) == /\ InImage(t)
                  /\ MainOnly => t = Main
                  /\ alerting' = alerting \cup {t}
                  /\ UNCHANGED <<jumps, loading, locking>>

\* objc_alloc of OSXAlertBox goes on when has_hack is set, else it returns 0.
Alert(t) == /\ InImage(t)
            /\ MainOnly => t = Main
            /\ has_hack
            /\ alerting' = alerting \cup {t}
            /\ UNCHANGED <<jumps, loading, locking>>

\* It jumps to the frame of the main thread: on another thread, that makes two
\* threads of one stack.
LongJmp(t) == /\ t \in alerting
              /\ phase \notin {"exit", "corrupt"}
              /\ phase' = IF t = Main THEN "left" ELSE "corrupt"
              /\ alerting' = alerting \ {t}
              /\ jumps' = jumps \cup {[by |-> t, into |-> frame]}
              /\ abandoned' = IF t = Main THEN HeldBy(Main) ELSE abandoned
              /\ UNCHANGED <<has_hack, frame, running, held, wants, taken>>

Start(h) == /\ \E t \in Threads : InImage(t)
            /\ h \notin running
            /\ running' = running \cup {h}
            /\ UNCHANGED <<held, wants, abandoned, taken, alerting, jumps, loading>>

Stop(h) == /\ InImage(h) /\ HeldBy(h) = {}
           /\ running' = running \ {h}
           /\ UNCHANGED <<held, wants, abandoned, taken, alerting, jumps, loading>>

\* pthread_mutex_lock, of one lock at a time: the code in hand holds none.
Lock(t, l) == /\ InImage(t)
              /\ HeldBy(t) \subseteq abandoned
              /\ t = Main => taken < MaxLocks
              /\ taken' = IF t = Main THEN taken + 1 ELSE taken
              /\ wants' = [wants EXCEPT ![t] = l]
              /\ UNCHANGED <<running, held, abandoned, alerting, jumps, loading>>

\* The mutexes are PTHREAD_MUTEX_FAST_NP: their holder waits like any thread.
Locked(t) == /\ phase \notin {"exit", "corrupt"}
             /\ wants[t] # NoLock /\ held[wants[t]] = Nobody
             /\ held' = [held EXCEPT ![wants[t]] = t]
             /\ wants' = [wants EXCEPT ![t] = NoLock]
             /\ UNCHANGED <<running, abandoned, taken, alerting, jumps, loading>>

\* Variant with a plausible bug: a lock is given back that an earlier call took.
UnlockAny(t, l) == /\ InImage(t)
                   /\ held[l] = t
                   /\ held' = [held EXCEPT ![l] = Nobody]
                   /\ UNCHANGED <<running, wants, abandoned, taken, alerting, jumps, loading>>

\* pthread_mutex_unlock, by the code that locked it.
Unlock(t, l) == /\ InImage(t)
                /\ held[l] = t /\ l \notin abandoned
                /\ held' = [held EXCEPT ![l] = Nobody]
                /\ UNCHANGED <<running, wants, abandoned, taken, alerting, jumps, loading>>

Loader == InitDone \/ Arm \/ SetJmp \/ EntryReturns \/ Disarm \/ Dump \/ DumpDone

Next == \/ Loader
        \/ \E t \in Threads : Alert(t) \/ LongJmp(t) \/ Locked(t)
        \/ \E t \in Threads, l \in Locks : Lock(t, l) \/ Unlock(t, l)
        \/ \E h \in Helpers : Start(h) \/ Stop(h)

Spec == Init /\ [][Next]_vars

\* The threads are scheduled, mutexes do not starve the main thread, and what
\* the image locks it unlocks.
FairSpec == /\ Spec
            /\ WF_vars(Loader)
            /\ WF_vars(LongJmp(Main))
            /\ SF_vars(Locked(Main))
            /\ \A t \in Threads : WF_vars(\E l \in Locks : Unlock(t, l))

-----------------------------------------------------------------------------
\* The locks a jump left behind stay those of the main thread: nothing gives
\* them back (hack.c:39-47).
TypeOK == /\ phase \in Phases
          /\ has_hack \in BOOLEAN
          /\ frame \in {"none", "live", "dead"}
          /\ running \subseteq Helpers
          /\ held \in [Locks -> Threads \cup {Nobody}]
          /\ wants \in [Threads -> Locks \cup {NoLock}]
          /\ abandoned \subseteq HeldBy(Main)
          /\ taken \in 0 .. MaxLocks
          /\ alerting \subseteq Threads
          /\ jumps \subseteq [by: Threads, into: {"none", "live", "dead"}]

\* With an image that keeps to the main thread, objc_alloc only ever jumps on
\* that thread's own stack and while run_until_alert has not returned, though
\* initializers before it and constructors after it also allocate alerts
\* (hack.c:25-47).
JumpsHome == MainOnly => \A j \in jumps : j.by = Main /\ j.into = "live"

\* The program ends, or the jump left locks held and the main thread waits for
\* one of them: nothing else that the image and its threads do keeps the dump
\* from ending (mod.rs:19-24, hack.c:39-47, main.rs:105).
EndsOrStuck == <>(phase = "exit" \/ wants[Main] \in abandoned)
=============================================================================
