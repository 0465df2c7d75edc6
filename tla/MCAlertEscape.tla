---------------------------- MODULE MCAlertEscape ----------------------------
(***************************************************************************)
(* AlertEscape with two locks and one or two threads started by the image. *)
(***************************************************************************)
EXTENDS AlertEscape
=============================================================================
