------------------------------ MODULE CondShim ------------------------------
(***************************************************************************)
(* The condition variables of the image on those of Linux                  *)
(* (stubs/src/stub_pthread.c:95-105, 217-255, 410-429), in a monitor of    *)
(* the image: producers and consumers of items.                            *)
(*                                                                         *)
(* A Darwin condition variable has its signature where a Linux one counts  *)
(* its waiters, since the shim lays the one over the other (line 12-16).   *)
(* pthread_cond_init clears it; a static initializer, and the inline       *)
(* constructor of C++, leave it there.                                     *)
(***************************************************************************)
EXTENDS Integers, FiniteSets

CONSTANTS Producers, Consumers,
          Skew,     \* 0x3CB0B1BB / 2: the waiters a signature counts for
          Static,   \* the image uses the variable as its initializer left it
          MaxItems, \* bound on the items produced
          Nobody

Workers == Producers \cup Consumers

CondAssumption == /\ Skew \in Nat /\ MaxItems \in Nat /\ Static \in BOOLEAN
                  /\ Producers \cap Consumers = {} /\ Nobody \notin Workers
                  /\ IsFiniteSet(Workers)

VARIABLES cond,     \* the memory of the condition variable, for Linux
          owner,    \* of the monitor's mutex
          pc,       \* where each thread is
          items,    \* in the monitor
          produced

vars == <<cond, owner, pc, items, produced>>

-----------------------------------------------------------------------------
(* The condition variable of Linux: signals go to the older of two groups   *)
(* of waiters, and the newer becomes the older when all of it are signalled.*)

\* size: who of the older group is not signalled yet, as the variable has it;
\* skew: waiters it believes came before anybody did.
Cleared   == [older |-> {}, size |-> 0, newer |-> {}, skew |-> 0, made |-> TRUE]
Signature == [Cleared EXCEPT !.skew = Skew, !.made = Static]

Waiting == cond.older \cup cond.newer

Switched == IF cond.size = 0
            THEN [cond EXCEPT !.older = cond.newer, !.newer = {},
                              !.size = Cardinality(cond.newer) + cond.skew, !.skew = 0]
            ELSE cond

\* A waiter that leaves unsignalled is not counted any more.
Left(t) == [cond EXCEPT !.older = @ \ {t}, !.newer = @ \ {t},
                        !.size = IF t \in cond.older THEN @ - 1 ELSE @]

\* One of the older group is signalled; when the variable counts some that are
\* not there, that may be nobody.
Signalled(c, ws) == /\ cond' = [c EXCEPT !.older = @ \ ws, !.size = @ - 1]
                    /\ ws \subseteq c.older
                    /\ Cardinality(ws) = (IF c.older = {} THEN 0 ELSE 1)

-----------------------------------------------------------------------------
(* The calls *)

Init == /\ cond = Signature
        /\ owner = Nobody
        /\ pc = [t \in Workers |-> "out"]
        /\ items = 0 /\ produced = 0

\* Thread t goes on at `where', and ws have to take the mutex.
Goes(t, where, ws) ==
    pc' = [u \in Workers |-> IF u = t THEN where ELSE IF u \in ws THEN "awake" ELSE pc[u]]

\* Variant with a plausible bug: the memory is taken as it is.
CondInitKeeps(t) == /\ ~ cond.made
                    /\ cond' = [cond EXCEPT !.made = TRUE]
                    /\ UNCHANGED <<owner, pc, items, produced>>

\* pthread_cond_init, whatever is in the memory.
CondInit(t) == /\ ~ cond.made
               /\ cond' = Cleared
               /\ UNCHANGED <<owner, pc, items, produced>>

\* pthread_cond_destroy, when the image is done with it: the signature stays away.
CondDestroy(t) == /\ cond.made /\ ~ Static
                  /\ items = 0 /\ \A u \in Workers : pc[u] = "out"
                  /\ cond' = [cond EXCEPT !.made = FALSE]
                  /\ UNCHANGED <<owner, pc, items, produced>>

\* pthread_cond_wait, timedwait and the waits of C++ leave the monitor and join
\* the newer group in one step.
CondWait(t) == /\ t \in Consumers /\ pc[t] = "in" /\ items = 0
               /\ cond' = [cond EXCEPT !.newer = @ \cup {t}]
               /\ owner' = Nobody
               /\ Goes(t, "waits", {})
               /\ UNCHANGED <<items, produced>>

\* pthread_cond_signal and notify_one: with nobody waiting, nothing.
CondSignal(t, next) ==
    IF Waiting = {} THEN Goes(t, next, {}) /\ UNCHANGED cond
    ELSE \E ws \in SUBSET Switched.older : Signalled(Switched, ws) /\ Goes(t, next, ws)

\* pthread_cond_broadcast and notify_all
CondBroadcast(t, next) ==
    IF Waiting = {} THEN Goes(t, next, {}) /\ UNCHANGED cond
    ELSE cond' = Cleared /\ Goes(t, next, Waiting)

\* A wait ends by its deadline, or for no reason.
TimedOut(t) == /\ pc[t] = "waits"
               /\ cond' = Left(t)
               /\ Goes(t, "awake", {})
               /\ UNCHANGED <<owner, items, produced>>

\* It returns when it has the mutex, whatever ended it.
WaitReturns(t) == /\ pc[t] = "awake" /\ owner = Nobody
                  /\ owner' = t
                  /\ Goes(t, "in", {})
                  /\ UNCHANGED <<cond, items, produced>>

-----------------------------------------------------------------------------
(* The monitor of the image *)

Enter(t) == /\ cond.made /\ pc[t] = "out" /\ owner = Nobody
            /\ t \in Producers => produced < MaxItems
            /\ owner' = t
            /\ Goes(t, "in", {})
            /\ UNCHANGED <<cond, items, produced>>

Put(t) == /\ t \in Producers /\ pc[t] = "in"
          /\ items' = items + 1 /\ produced' = produced + 1
          /\ Goes(t, "filled", {})
          /\ UNCHANGED <<cond, owner>>

Take(t) == /\ t \in Consumers /\ pc[t] = "in" /\ items > 0
           /\ items' = items - 1
           /\ Goes(t, "done", {})
           /\ UNCHANGED <<cond, owner, produced>>

\* A producer tells one consumer, or all, before it leaves or after.
NotifyPlaces == {<<"filled", "done">>, <<"owes", "out">>}

Notify(t) == /\ \E p \in NotifyPlaces :
                   pc[t] = p[1] /\ (CondSignal(t, p[2]) \/ CondBroadcast(t, p[2]))
             /\ UNCHANGED <<owner, items, produced>>

Leave(t) == /\ \E p \in {<<"done", "out">>, <<"filled", "owes">>} :
                   pc[t] = p[1] /\ Goes(t, p[2], {})
            /\ owner' = Nobody
            /\ UNCHANGED <<cond, items, produced>>

Works(t) == Put(t) \/ Take(t) \/ Notify(t) \/ Leave(t) \/ CondWait(t)

Next == \E t \in Workers : \/ CondInit(t) \/ CondDestroy(t)
                           \/ TimedOut(t) \/ WaitReturns(t)
                           \/ Enter(t) \/ Works(t)

Spec == Init /\ [][Next]_vars

\* Threads of the image go on, and the mutex is given to one that wants it.
\* Nobody counts on deadlines or on waits that end for no reason.
FairSpec == Spec /\ \A t \in Workers : /\ WF_vars(CondInit(t)) /\ WF_vars(WaitReturns(t))
                                       /\ WF_vars(Works(t)) /\ WF_vars(Enter(t))

-----------------------------------------------------------------------------
Inside == {t \in Workers : pc[t] \in {"in", "filled", "done"}}

\* Every way out of a wait leads into the monitor alone: a thread inside has the
\* mutex, after waits that were signalled, timed out or ended for no reason; and
\* whoever waits is in one group of the variable (stub_pthread.c:232-255).
Monitor == /\ Inside = {owner} \ {Nobody}
           /\ {t \in Workers : pc[t] = "waits"} = Waiting
           /\ cond.older \cap cond.newer = {}
           /\ cond.size >= Cardinality(cond.older)
           /\ items \in 0 .. produced

\* No signal is lost of a variable that pthread_cond_init made: while threads wait,
\* each pthread_cond_signal or broadcast wakes one of them at least
\* (stub_pthread.c:227-245).  With Static, as the variables of C++ are, some are.
SignalWakes ==
    [][\A t \in Workers, p \in NotifyPlaces :
          pc[t] = p[1] /\ pc'[t] = p[2] /\ owner' = owner /\ Waiting # {} =>
              \E w \in Waiting : pc'[w] = "awake"]_vars

\* Whatever is produced is consumed in the end, without the help of deadlines,
\* again of a variable that pthread_cond_init made (stub_pthread.c:227-255).
Delivered == <>[](items = 0)
=============================================================================
