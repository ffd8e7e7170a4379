------------------------- MODULE MCChunkReassembly -------------------------
(***************************************************************************)
(* Instances of ChunkReassembly for TLC.                                   *)
(***************************************************************************)
EXTENDS ChunkReassembly, TLC

CONSTANTS x, y

Frame(id, total, offset, length) ==
  [id |-> id, total |-> total, offset |-> offset, length |-> length]

(***************************************************************************)
(* A two-byte transfer x sent as [0,1) and [1,2), and what can go wrong    *)
(* with it: a range over both, and the id reopened with total 1; a second  *)
(* transfer y of which a frame past its end arrives, and a total that      *)
(* GetChunkBuffer refuses.                                                 *)
(***************************************************************************)
MixedFrames ==
  {Frame(x, 2, 0, 1), Frame(x, 2, 1, 1), Frame(x, 2, 0, 2), Frame(x, 1, 0, 1),
   Frame(y, 2, 2, 1), Frame(y, 3, 0, 1)}

Symmetry == Permutations(Procs) \union Permutations(Addrs)
=============================================================================
