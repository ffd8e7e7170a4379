------------------------------- MODULE NoValue -------------------------------
(***************************************************************************)
(* The value of a register, a map entry or a setting that is not there.    *)
(***************************************************************************)

CONSTANT None
=============================================================================
