---------------------------- MODULE MCCalcCycle ----------------------------
(***************************************************************************)
(* What the end of a calculation works on, in the server and in the XLL:   *)
(* the queued commands (CalcCycle) and the run-once registry (RtdOnce).    *)
(*                                                                         *)
(* CalcCycle gets two cells and two values: every order of two writers of  *)
(* one cell, with ranges at and above the batching threshold.  RtdOnce gets*)
(* a cell whose formula is deleted and entered again, and two topic ids, so*)
(* that the key has two topics at times.  The modules share no             *)
(* variable, so each is stepped from initial states of the other; CalcCycle*)
(* from one of those of RtdOnce, since it would do the same at all of them.*)
(***************************************************************************)
EXTENDS CalcCycle, RtdOnce

CycleInit == Init /\ OnceInit

CycleSpec ==
  /\ CycleInit
  /\ [][\/ policy = "once" /\ ~ grid /\ OnceInit /\ Next /\ UNCHANGED onceVars
        \/ Init /\ OnceNext /\ UNCHANGED vars]_<<vars, onceVars>>

Symmetry == Permutations(Cells) \union Permutations(Vals) \union Permutations(Handlers)
=============================================================================
