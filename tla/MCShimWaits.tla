---------------------------- MODULE MCShimWaits ----------------------------
(***************************************************************************)
(* ShimWaits with seconds of three nanoseconds, and instants before 1970,  *)
(* inside a second, at its end and behind the last that is waited for.     *)
(***************************************************************************)
EXTENDS ShimWaits

Time(sec, nsec) == [tv_sec |-> sec, tv_nsec |-> nsec]

MCDurations   == {Time(0, 0), Time(0, 4), Time(1, 2), Time(0, 7)}
MCPoints      == {-4, 0, 5, 9, 40}
MCAdjustments == {-3, 2}
=============================================================================
