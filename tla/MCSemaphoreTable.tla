-------------------------- MODULE MCSemaphoreTable --------------------------
(***************************************************************************)
(* SemaphoreTable on three threads and a table of two usable slots: full   *)
(* after two creations, and small enough for a slot to be reused.          *)
(***************************************************************************)
EXTENDS SemaphoreTable

CONSTANTS t1, t2, t3

MCThreads     == {t1, t2, t3}
MCTwoThreads  == {t1, t2}
MCOneCreator  == {t1}
MCTwoCreators == {t1, t2}
=============================================================================
