-------------------------- MODULE MCGuestTransfer --------------------------
(***************************************************************************)
(* Transfer a needs two frames and is retried (an async batch), transfer g *)
(* needs two frames and is not (a one-shot grid), w is sent whole and      *)
(* retried, e is over the cap; x is the id of another producer's transfer. *)
(***************************************************************************)
EXTENDS GuestTransfer

CONSTANTS a, g, w, e, x

MCIds == Transfers \union {x}

F(total, from, length) ==
  [id |-> x, total |-> total, offset |-> from, length |-> length]

MCFrames == {F(2, 0, 1), F(2, 0, 2)}

MCTotal == [t \in Transfers |-> CASE t = w -> 2 [] t = e -> 5 [] OTHER -> 3]

MCAttempts == [t \in Transfers |-> IF t = g THEN 1 ELSE 2]
=============================================================================
