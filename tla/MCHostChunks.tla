---------------------------- MODULE MCHostChunks ----------------------------
(***************************************************************************)
(* The registry by itself, and behind the worker thread, in one run.       *)
(*                                                                         *)
(* By itself (alone) it takes the frames of three transfers on an 8-value  *)
(* "uint32".  Transfer a is framed well, and also overlapping, re-chunked, *)
(* out of bounds (with and without a wrap of offset + length) and empty;   *)
(* its frames may declare another total.                                   *)
(*                                                                         *)
(* Behind the worker thread, p is a payload of two frames that is retried  *)
(* (an async batch), w is a small grid, sent whole and once; b and d are    *)
(* transfers of other producers, which fill the registry.                  *)
(***************************************************************************)
EXTENDS GuestTransfer

CONSTANTS a, b, d, p, w

MCIds == {a, b, d, p, w}

F(id, total, from, length) ==
  [id |-> id, total |-> total, offset |-> from, length |-> length]

MCFrames ==
  {F(a, 3, 0, 2), F(a, 3, 2, 1), F(a, 3, 1, 2), F(a, 3, 0, 1), F(a, 3, 1, 1),
   F(a, 3, 7, 2), F(a, 3, 2, 2), F(a, 2, 0, 2), F(a, 3, 1, 0),
   F(b, 2, 0, 1), F(b, 2, 1, 1), F(b, 2, 0, 2), F(b, 0, 0, 1),
   F(d, 5, 0, 1), F(d, 2, 2, 1), F(d, 2, 0, 1)}

MCStrays == {F(b, 2, 0, 1), F(d, 2, 0, 1)}

MCTransfers == {p, w}

MCTotal == [t \in MCTransfers |-> IF t = w THEN 2 ELSE 3]

MCAttempts == [t \in MCTransfers |-> IF t = w THEN 1 ELSE 2]

VARIABLE alone

guestVars == <<senderVars, answer, workerVars, quiescing, transferHistory, alone>>

ChunksInit == TransferInit /\ alone \in BOOLEAN

ChunksNext ==
  \/ alone /\ HostNext /\ UNCHANGED guestVars
  \/ ~ alone /\ TransferNext /\ UNCHANGED alone

\* The fairness is the worker's: no behaviour of the registry by itself has it.
ChunksSpec ==
  /\ ChunksInit
  /\ [][ChunksNext]_<<transferVars, alone>>
  /\ TransferFairness
=============================================================================
