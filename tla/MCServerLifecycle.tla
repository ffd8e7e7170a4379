-------------------------- MODULE MCServerLifecycle --------------------------
(***************************************************************************)
(* Small instances of ServerLifecycle.                                     *)
(***************************************************************************)
EXTENDS ServerLifecycle, TLC

(* Handles, and the goroutines of one kind, are interchangeable. *)
Symmetric == Permutations(Handles) \cup Permutations(Workers)
             \cup Permutations(Pushers)
=============================================================================
