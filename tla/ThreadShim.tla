----------------------------- MODULE ThreadShim -----------------------------
(***************************************************************************)
(* Threads of the image, by the pthread calls and by std::thread           *)
(* (stubs/src/stub_pthread.c:90-93, 187-195, 257-275, 397-408), the stubs  *)
(* they call, and how the process ends while the main thread writes the    *)
(* document.                                                               *)
(***************************************************************************)
EXTENDS Integers, FiniteSets, StubTable

CONSTANTS Ids,          \* the pthread_t values: Linux gives them out again
          Handles,      \* the variables of the image that hold one
          CxxHandles,   \* those that are std::thread
          DetachStates, \* what the image passes to pthread_attr_setdetachstate
          Uses,         \* the stubs the image uses
          MaxThreads,   \* bound on the threads created
          Lines,        \* of the document
          Main, Null

Callers == Ids \cup {Main}

DarwinJoinable == 1
DarwinDetached == 2

ThreadAssumption ==
    /\ CxxHandles \subseteq Handles /\ Uses \subseteq Unimplemented \cup Answering
    /\ DetachStates \subseteq {DarwinJoinable, DarwinDetached}
    /\ MaxThreads \in Nat /\ Lines \in Nat \ {0}
    /\ Main \notin Ids /\ Null \notin Handles

VARIABLES attr,     \* the Linux detach state in the image's attributes
          asked,    \* and what the image means by it
          thread,   \* the Linux thread of each id, the last that had it
          created,  \* how many threads were created
          handle,   \* what each handle holds, or Null
          joining,  \* the handle each thread waits in join for, or Null
          early,    \* a join returned while the thread it was for runs
          strayed,  \* a std::thread was joined after it was detached, or used once
                    \* more when its id was another thread's
          misread,  \* the image asked by number for a joinable thread
          written,  \* lines of the document
          status    \* of the process

vars == <<attr, asked, thread, created, handle, joining, early, strayed, misread, written, status>>

Joinable == 0 \* PTHREAD_CREATE_JOINABLE and DETACHED of Linux
Detached == 1

Init == /\ attr = Joinable /\ asked = "joinable"
        /\ thread = [i \in Ids |-> [nr |-> 0, state |-> "free", detached |-> FALSE]]
        /\ created = 0
        /\ handle = [h \in Handles |-> Null]
        /\ joining = [c \in Callers |-> Null]
        /\ early = FALSE /\ strayed = FALSE /\ misread = FALSE
        /\ written = 0 /\ status = "running"

\* c runs code of the image; the main thread does so until it writes.
InImage(c) == /\ status = "running" /\ joining[c] = Null
              /\ IF c = Main THEN written = 0 ELSE thread[c].state = "running"

-----------------------------------------------------------------------------
(* Attributes *)

AttrInit(c) == /\ InImage(c)
               /\ attr' = Joinable /\ asked' = "joinable"
               /\ UNCHANGED <<thread, created, handle, joining, early, strayed, misread, written, status>>

\* The number goes through as it is, and Linux refuses one it does not know.
LinuxDetachState(d, old) == IF d \in {Joinable, Detached} THEN d ELSE old

AttrSetdetachstate(c, d) ==
    /\ InImage(c)
    /\ attr' = LinuxDetachState(d, attr)
    /\ asked' = IF d = DarwinJoinable THEN "joinable" ELSE "detached"
    /\ misread' = (misread \/ d = DarwinJoinable)
    /\ UNCHANGED <<thread, created, handle, joining, early, strayed, written, status>>

-----------------------------------------------------------------------------
(* Threads *)

\* Variant with a plausible bug: an id is given out again when its thread ends.
CreateReuses(c, h, byAttr) ==
    /\ InImage(c) /\ handle[h] = Null /\ created < MaxThreads
    /\ byAttr => h \notin CxxHandles
    /\ \E i \in Ids :
          /\ thread[i].state # "running"
          /\ thread' = [thread EXCEPT ![i] = [nr |-> created + 1, state |-> "running",
                                              detached |-> byAttr /\ attr = Detached]]
          /\ handle' = [handle EXCEPT ![h] =
                [id |-> i, nr |-> created + 1, spent |-> FALSE,
                 asked |-> IF byAttr THEN asked ELSE "joinable"]]
    /\ created' = created + 1
    /\ UNCHANGED <<attr, asked, joining, early, strayed, misread, written, status>>

\* pthread_create, by the attributes or without (std::thread has none).
Create(c, h, byAttr) ==
    /\ InImage(c) /\ handle[h] = Null /\ created < MaxThreads
    /\ byAttr => h \notin CxxHandles
    /\ \E i \in Ids :
          /\ thread[i].state = "free"
          /\ thread' = [thread EXCEPT ![i] = [nr |-> created + 1, state |-> "running",
                                              detached |-> byAttr /\ attr = Detached]]
          /\ handle' = [handle EXCEPT ![h] =
                [id |-> i, nr |-> created + 1, spent |-> FALSE,
                 asked |-> IF byAttr THEN asked ELSE "joinable"]]
    /\ created' = created + 1
    /\ UNCHANGED <<attr, asked, joining, early, strayed, misread, written, status>>

\* A thread of the image returns; a detached one is gone.
Return(i) ==
    /\ status = "running" /\ thread[i].state = "running" /\ joining[i] = Null
    /\ thread' = [thread EXCEPT ![i].state = IF thread[i].detached THEN "free" ELSE "ended"]
    /\ UNCHANGED <<attr, asked, created, handle, joining, early, strayed, misread, written, status>>

\* The image joins or detaches what it asked to be joinable, once.  A std::thread
\* looks joinable as long as it is not zero, which neither call makes it.
MayUse(h) == /\ handle[h] # Null
             /\ IF handle[h].spent THEN h \in CxxHandles ELSE handle[h].asked = "joinable"
             /\ \A u \in Callers : joining[u] # h

\* The id of h is still its thread's.
Current(h) == thread[handle[h].id].nr = handle[h].nr

Running(h) == Current(h) /\ thread[handle[h].id].state = "running"

\* Linux has a thread that is neither detached nor waited for.
Attached(i) == /\ thread[i].state # "free" /\ ~ thread[i].detached
               /\ \A u \in Callers : joining[u] # Null => handle[joining[u]].id # i

\* c would wait for itself, or for a thread that waits for c.
Deadlocks(c, i) == i = c \/ (joining[i] # Null /\ handle[joining[i]].id = c)

Waitable(c, i) == Attached(i) /\ ~ Deadlocks(c, i)

\* The image does not join in a circle, unless an id leads it there.
Circular(c, h) == /\ Current(h) /\ Deadlocks(c, handle[h].id)
                  /\ joining[handle[h].id] # Null => Current(joining[handle[h].id])

MayJoin(c, h) == InImage(c) /\ MayUse(h) /\ ~ Circular(c, h)

\* The image goes on as if the thread of h had ended.
Joined(c, h) == /\ handle' = [handle EXCEPT ![h].spent = TRUE]
                /\ early' = (early \/ Running(h))

JoinStrays(h) == strayed' = (strayed \/ ~ Current(h) \/ handle[h].asked = "detached")

JoinRefused(c, h) ==
    /\ MayJoin(c, h) /\ ~ Waitable(c, handle[h].id)
    /\ Joined(c, h) /\ JoinStrays(h)
    /\ UNCHANGED <<attr, asked, thread, created, joining, misread, written, status>>

JoinWaits(c, h) ==
    /\ MayJoin(c, h) /\ Waitable(c, handle[h].id)
    /\ joining' = [joining EXCEPT ![c] = h]
    /\ JoinStrays(h)
    /\ UNCHANGED <<attr, asked, thread, created, handle, early, misread, written, status>>

JoinReturns(c) ==
    /\ status = "running" /\ joining[c] # Null
    /\ thread[handle[joining[c]].id].state = "ended"
    /\ thread' = [thread EXCEPT ![handle[joining[c]].id].state = "free"]
    /\ Joined(c, joining[c])
    /\ joining' = [joining EXCEPT ![c] = Null]
    /\ UNCHANGED <<attr, asked, created, strayed, misread, written, status>>

\* Linux refuses to detach what is detached, waited for or gone.
Detach(c, h) ==
    /\ InImage(c) /\ MayUse(h)
    /\ handle' = [handle EXCEPT ![h].spent = TRUE, ![h].asked = "detached"]
    /\ thread' = IF Attached(handle[h].id)
                 THEN [thread EXCEPT ![handle[h].id].detached = TRUE,
                                     ![handle[h].id].state = IF @ = "ended" THEN "free" ELSE @]
                 ELSE thread
    /\ strayed' = (strayed \/ ~ Current(h))
    /\ UNCHANGED <<attr, asked, created, joining, early, misread, written, status>>

\* A pthread_t the image is done with.
Forget(c, h) ==
    /\ InImage(c) /\ h \notin CxxHandles /\ handle[h] # Null
    /\ handle[h].spent \/ handle[h].asked = "detached"
    /\ handle' = [handle EXCEPT ![h] = Null]
    /\ UNCHANGED <<attr, asked, thread, created, joining, early, strayed, misread, written, status>>

-----------------------------------------------------------------------------
(* The end of the process *)

\* panic is a trap, then abort.
StatusOfPanic == "trap"

\* The destructor of std::thread, for one that is not zero.
Destroy(c, h) ==
    /\ InImage(c) /\ h \in CxxHandles /\ handle[h] # Null
    /\ \A u \in Callers : joining[u] # h
    /\ status' = "exit0"
    /\ UNCHANGED <<attr, asked, thread, created, handle, joining, early, strayed, misread, written>>

\* The image uses a stub: one that is not implemented ends the process, unless
\* it is read as the variable it is in Darwin.
Use(c, n) ==
    /\ InImage(c)
    /\ \/ n \in Answering \cup AnsweredFlavors \cup DarwinVariables /\ UNCHANGED status
       \/ n \in Unimplemented \ DarwinVariables /\ status' = StatusOfPanic
    /\ UNCHANGED <<attr, asked, thread, created, handle, joining, early, strayed, misread, written>>

\* main writes the document and returns.
WriteLine == /\ status = "running" /\ joining[Main] = Null /\ written < Lines
             /\ written' = written + 1
             /\ UNCHANGED <<attr, asked, thread, created, handle, joining, early, strayed, misread, status>>

Finish == /\ status = "running" /\ written = Lines
          /\ status' = "exit0"
          /\ UNCHANGED <<attr, asked, thread, created, handle, joining, early, strayed, misread, written>>

Next == \/ \E c \in Callers :
              \/ AttrInit(c) \/ JoinReturns(c)
              \/ \E d \in DetachStates : AttrSetdetachstate(c, d)
              \/ \E h \in Handles : \/ \E byAttr \in BOOLEAN : Create(c, h, byAttr)
                                    \/ JoinRefused(c, h) \/ JoinWaits(c, h) \/ Detach(c, h)
                                    \/ Forget(c, h) \/ Destroy(c, h)
              \/ \E n \in Uses : Use(c, n)
        \/ \E i \in Ids : Return(i)
        \/ WriteLine \/ Finish

Spec == Init /\ [][Next]_vars

-----------------------------------------------------------------------------
TypeOK == /\ attr \in {Joinable, Detached} /\ asked \in {"joinable", "detached"}
          /\ thread \in [Ids -> [nr: 0 .. MaxThreads, state: {"free", "running", "ended"},
                                 detached: BOOLEAN]]
          /\ created \in 0 .. MaxThreads
          /\ \A h \in Handles : handle[h] # Null => handle[h].nr \in 1 .. created
          /\ joining \in [Callers -> Handles \cup {Null}]
          /\ misread \in BOOLEAN
          /\ written \in 0 .. Lines /\ status \in {"running", "exit0", "trap"}

\* Pthread_t values are used again, yet a handle that was neither joined nor
\* detached names the thread it was made for, unless the image used a std::thread
\* once more, as the first join or detach left it joinable, when its id was
\* another thread's, or joined it detached; or asked for a joinable thread by the
\* number that is a detached one's in Linux (stub_pthread.c:192-195, 257-275,
\* 398-400).
HandlesNameTheirs ==
    \A h \in Handles : handle[h] # Null =>
        \/ handle[h].spent \/ handle[h].asked = "detached" \/ strayed \/ misread
        \/ Current(h) /\ thread[handle[h].id].state # "free"

\* The image goes on after a join only when the thread it was for has ended,
\* but for the same (stub_pthread.c:192-195, 262-275, 398-400).
JoinedEnded == early => strayed \/ misread

\* The process ends with status 0 and no document only by the destructor of a
\* std::thread that was started, joined or not: panics are told apart
\* (stub_pthread.c:402-408, common.h:15-20, main.rs).
ZeroExplained ==
    status = "exit0" /\ written < Lines => \E h \in CxxHandles : handle[h] # Null
=============================================================================
