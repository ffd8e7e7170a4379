--------------------------- MODULE ChunkContract ---------------------------
(***************************************************************************)
(* What a receiver of chunked transfers promises, on either side of the    *)
(* shared memory: a transfer keeps the size it was opened with, each byte  *)
(* of it is written at most once, and the payload is delivered in the very *)
(* step that writes its last missing byte, never before and never later.   *)
(* A transfer may be abandoned at any time.                                *)
(***************************************************************************)
EXTENDS Integers

CONSTANTS
  Transfers,   \* whatever identifies a transfer in progress
  Sizes,       \* the sizes a transfer may declare
  None         \* no transfer

VARIABLES
  size,        \* size[t]: the declared size of t, 0 when t is not in progress
  got,         \* got[t]: the bytes of t that have been written
  out          \* the delivery of the last step, if it made one

contractVars == <<size, got, out>>

NoDelivery == [to |-> None, size |-> 0]

Init ==
  /\ size = [t \in Transfers |-> 0]
  /\ got = [t \in Transfers |-> {}]
  /\ out = NoDelivery

Reset(f, gone, zero) == [t \in Transfers |-> IF t \in gone THEN zero ELSE f[t]]

\* The transfers of `gone' are dropped, and nothing is delivered.
Abandon(gone) ==
  /\ size' = Reset(size, gone, 0)
  /\ got' = Reset(got, gone, {})
  /\ out' = NoDelivery

\* New bytes of t arrive; other transfers may be dropped to make room.
Receive(t, n, bytes, gone) ==
  /\ n # 0 /\ size[t] \in {0, n}
  /\ bytes # {} /\ bytes \subseteq 0 .. n - 1
  /\ bytes \intersect got[t] = {}
  /\ t \notin gone
  /\ IF got[t] \union bytes = 0 .. n - 1
     THEN /\ size' = Reset(size, gone \union {t}, 0)
          /\ got' = Reset(got, gone \union {t}, {})
          /\ out' = [to |-> t, size |-> n]
     ELSE /\ size' = [Reset(size, gone, 0) EXCEPT ![t] = n]
          /\ got' = [Reset(got, gone, {}) EXCEPT ![t] = @ \union bytes]
          /\ out' = NoDelivery

Next ==
  \/ \E gone \in SUBSET Transfers : Abandon(gone)
  \/ \E gone \in SUBSET Transfers, t \in Transfers, n \in Sizes :
       \E bytes \in SUBSET (0 .. n - 1) : Receive(t, n, bytes, gone)

Spec == Init /\ [][Next]_contractVars
=============================================================================
