---------------------------- MODULE MCOperatorNew ----------------------------
(***************************************************************************)
(* OperatorNew with three images: one that exports all the operators that  *)
(* are Complete, one that exports the minimum of them, and one that        *)
(* replaces plain new and delete only.                                     *)
(***************************************************************************)
EXTENDS OperatorNew

Minimum == {<<"new", {}>>, <<"new", {"align"}>>, <<"delete", {}>>}
             \cup {<<"delete", d>> : d \in {{"align"}, {"align", "sized"},
                      {"align", "array"}, {"align", "array", "sized"}}}
Plain   == {<<"new", {}>>, <<"delete", {}>>}
Usual   == Minimum \cup {<<"new", {"array"}>>, <<"delete", {"sized"}>>}

MCExportSets == {Minimum, Plain, Usual}
=============================================================================
