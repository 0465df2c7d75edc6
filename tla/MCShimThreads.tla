--------------------------- MODULE MCShimThreads ---------------------------
(***************************************************************************)
(* Two threads and two mutexes; two ids, two pthread_t variables and a     *)
(* std::thread; a counter that comes round after four steps.               *)
(***************************************************************************)
EXTENDS ShimThreads, TLC

CONSTANTS i1, i2, h1, h2, x1

MCIds        == {i1, i2}
MCHandles    == {h1, h2, x1}
MCCxxHandles == {x1}

\* One stub of each file, and of those that answer.
MCUses == {"NewAUGraph", "mach_msg", "task_info", "proc_pidinfo", "getpwuid", "asl_send", "kqueue"}

Similar == Permutations({i1, i2}) \cup Permutations({h1, h2})
=============================================================================
