---------------------------- MODULE ShimThreads ----------------------------
(***************************************************************************)
(* What threads of the image share: mutexes, the ids and handles of        *)
(* threads, and the counter of identifiers.  None of the three has any     *)
(* memory of the others, so a behaviour takes the steps of one of them.    *)
(***************************************************************************)
EXTENDS MutexShim

CONSTANTS Ids, Handles, CxxHandles, DetachStates, Uses, MaxThreads, Lines, Main, Null,
          Randoms, TickWrap, MaxUuids

VARIABLES part,
          detach, detachAsked, thread, created, handle, joining,
          early, strayed, misread, written, status,
          ticking, raced, pc, seen, out, uuids

mutexVars  == vars
threadVars == <<detach, detachAsked, thread, created, handle, joining,
                early, strayed, misread, written, status>>
uuidVars   == <<ticking, raced, pc, seen, out, uuids>>

Pthreads == INSTANCE ThreadShim WITH attr <- detach, asked <- detachAsked

Uuids == INSTANCE UuidTicks WITH Wrap <- TickWrap

ASSUME PartsAssumption == Pthreads!ThreadAssumption /\ Uuids!UuidAssumption

SharedInit == /\ part \in {"mutexes", "threads", "identifiers"}
              /\ Init /\ (part # "mutexes" => sig = [m \in Mutexes |-> None])
              /\ Pthreads!Init /\ Uuids!Init

SharedNext ==
    /\ UNCHANGED part
    /\ \/ part = "mutexes" /\ Next /\ UNCHANGED <<threadVars, uuidVars>>
       \/ part = "threads" /\ Pthreads!Next /\ UNCHANGED <<mutexVars, uuidVars>>
       \/ part = "identifiers" /\ Uuids!Next /\ UNCHANGED <<mutexVars, threadVars>>

SharedSpec == SharedInit /\ [][SharedNext]_<<part, mutexVars, threadVars, uuidVars>>

-----------------------------------------------------------------------------
\* A mutex made by pthread_mutex_init is locked again, refused, released and
\* given on as its kind has it, whatever was in its memory and in the attributes
\* before; a thread waits for itself only on a normal mutex, or on one that was
\* made otherwise, which is an unchecked one (stub_pthread.c:130-170, 382-395).
MutexesAsMade == ImplementsDarwin /\ [](TypeOK /\ StuckOnlyOnNormal)

\* A handle that was neither joined nor detached names the thread it was made
\* for, though ids are used again, and a join returns when that thread has ended,
\* but for an image that used a std::thread once more, as joining and detaching
\* leave it joinable, when its id was another thread's, or joined it detached; and
\* for one that asked for joinable threads by number.  The process ends with status
\* 0 and no document only by the destructor of a std::thread that was started
\* (stub_pthread.c:192-195, 257-275, 397-408, common.h:15-20).
ThreadsAccounted == part = "threads" =>
    /\ Pthreads!TypeOK
    /\ Pthreads!HandlesNameTheirs /\ Pthreads!JoinedEnded /\ Pthreads!ZeroExplained

\* Equal identifiers are made only after calls overlapped, or when the counter's
\* words came round (stub_sys.c:79-86).
AllDiffer == part = "identifiers" => Uuids!AllDiffer
=============================================================================
