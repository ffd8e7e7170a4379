--------------------------- MODULE ChunkReassembly ---------------------------
(***************************************************************************)
(* The Go server's reassembly of chunked messages sent by the XLL          *)
(* (host -> guest): ChunkManager and SystemHandler.HandleChunk.            *)
(*                                                                         *)
(* Every inbound frame is handled by a goroutine of its own, and one call  *)
(* of HandleChunk takes chunkMutex, chunkMutex, buf.Mutex and chunkMutex   *)
(* again one after the other, never two together.  Each critical section   *)
(* is one action here, so everything that can happen in the gaps between   *)
(* them can happen between the actions: the TTL sweep, and the handling of *)
(* other chunks of the same transfer.                                      *)
(*                                                                         *)
(* A ChunkBuffer is an object reached through a pointer.  It lives at an   *)
(* address of `heap' for as long as chunkCache or a goroutine refers to    *)
(* it; Collect is Go's garbage collection, which makes an address that     *)
(* nothing refers to free again.                                           *)
(*                                                                         *)
(* Time is kept as ages: a LastAccess stamp is represented by the number   *)
(* of ticks since it was made, counted up to ChunkBufferTTL + 1, because   *)
(* the code only ever asks whether now - stamp > ttl and which of two      *)
(* unexpired stamps is the older.                                          *)
(***************************************************************************)
EXTENDS Integers, FiniteSets

CONSTANTS
  Procs,                   \* goroutines that can be inside HandleChunk at once
  Ids,                     \* transfer ids
  Addrs,                   \* addresses of ChunkBuffer objects
  Chunks,                  \* frames the peer may send, each any number of times
  Nil,                     \* no buffer, no frame
  MaxChunkBufferBytes,
  MaxConcurrentTransfers,
  MaxPoisonedTransfers,
  ChunkBufferTTL

(***************************************************************************)
(* A frame is protocol.Chunk: id, total_size, offset and the length of its *)
(* data.  The fields are whatever the wire carries: nothing is assumed of  *)
(* the producer's framing.  NewChunkManagerFromConfig and the effective*   *)
(* accessors turn a non-positive bound into a positive default.            *)
(***************************************************************************)
ASSUME ChunksAssumption ==
  Chunks \subseteq [id : Ids, total : Nat, offset : Nat, length : Nat]

ASSUME BoundsAssumption ==
  /\ MaxChunkBufferBytes \in Nat \ {0}
  /\ MaxConcurrentTransfers \in Nat \ {0}
  /\ MaxPoisonedTransfers \in Nat \ {0}
  /\ ChunkBufferTTL \in Nat

ASSUME IdsAssumption == IsFiniteSet(Ids)

ASSUME NilAssumption == Nil \notin Addrs /\ Nil \notin Chunks

VARIABLES
  heap,        \* the ChunkBuffer objects
  chunkCache,  \* chunkCache[id]: the buffer registered for id, or Nil
  poisoned,    \* poisoned[id]: age of the poison entry of id, or NotPoisoned
  pc,          \* pc[p]: the critical section goroutine p enters next
  req,         \* req[p]: the frame p handles
  buf,         \* buf[p]: the *ChunkBuffer p holds
  sweeping     \* the cleanup goroutine has not returned

vars == <<heap, chunkCache, poisoned, pc, req, buf, sweeping>>

-----------------------------------------------------------------------------

NotPoisoned == -1

Ages == 0 .. ChunkBufferTTL + 1

Expired(age) == age > ChunkBufferTTL

\* The bytes of the payload that a segment covers.
Bytes(offset, length) == offset .. offset + length - 1

Segment == [offset : Nat, length : Nat]

(***************************************************************************)
(* ChunkBuffer.  `data' is the set of positions of Data that have been     *)
(* copied into (the others still hold the zero fill of make); `runs' is a  *)
(* history field, the number of times the payload was handed to dispatch.  *)
(***************************************************************************)
ChunkBuffer ==
  [total : Nat, received : Nat, segments : SUBSET Segment, data : SUBSET Nat,
   dispatched : BOOLEAN, age : Ages, runs : Nat]

NewBuffer(total) ==
  [total |-> total, received |-> 0, segments |-> {}, data |-> {},
   dispatched |-> FALSE, age |-> 0, runs |-> 0]

\* A free address.
NoObject == NewBuffer(0)

Resident == {id \in Ids : chunkCache[id] # Nil}

Refused == {id \in Ids : poisoned[id] # NotPoisoned}

Reachable(cache, held, a) ==
  (\E id \in Ids : cache[id] = a) \/ (\E p \in Procs : held[p] = a)

Collect(objects, cache, held) ==
  [a \in Addrs |-> IF Reachable(cache, held, a) THEN objects[a] ELSE NoObject]

(***************************************************************************)
(* ChunkBuffer.ClaimSegment.  The sorted slice is a set: offsets are       *)
(* unique, and the binary search finds the segment at `offset' or, failing *)
(* that, its two neighbours in offset order.                               *)
(***************************************************************************)
IsPredecessor(s, segments, offset) ==
  /\ s \in segments /\ s.offset < offset
  /\ \A t \in segments : t.offset < offset => t.offset <= s.offset

IsSuccessor(s, segments, offset) ==
  /\ s \in segments /\ s.offset > offset
  /\ \A t \in segments : t.offset > offset => t.offset >= s.offset

\* Mutant: a segment with the same start is not looked at.
ClaimSegmentNoSame(segments, offset, length) ==
  CASE \E s \in segments : IsPredecessor(s, segments, offset)
                          /\ s.offset + s.length > offset -> "overlap"
    [] \E s \in segments : IsSuccessor(s, segments, offset)
                          /\ offset + length > s.offset -> "overlap"
    [] OTHER -> "new"

ClaimSegment(segments, offset, length) ==
  LET same == {s \in segments : s.offset = offset}
  IN  CASE \E s \in same : s.length = length -> "duplicate"
        [] \E s \in same : s.length # length -> "overlap"
        [] \E s \in segments : IsPredecessor(s, segments, offset)
                               /\ s.offset + s.length > offset -> "overlap"
        [] \E s \in segments : IsSuccessor(s, segments, offset)
                               /\ offset + length > s.offset -> "overlap"
        [] OTHER -> "new"

-----------------------------------------------------------------------------

Init ==
  /\ heap = [a \in Addrs |-> NoObject]
  /\ chunkCache = [id \in Ids |-> Nil]
  /\ poisoned = [id \in Ids |-> NotPoisoned]
  /\ pc = [p \in Procs |-> "idle"]
  /\ req = [p \in Procs |-> Nil]
  /\ buf = [p \in Procs |-> Nil]
  /\ sweeping = TRUE

\* HandleChunk returns to its caller.
Return(p) ==
  /\ pc' = [pc EXCEPT ![p] = "idle"]
  /\ req' = [req EXCEPT ![p] = Nil]
  /\ buf' = [buf EXCEPT ![p] = Nil]

\* pruneStaleChunkBuffersLocked, as the values it leaves in the two maps.
PrunedCache ==
  [id \in Ids |-> IF chunkCache[id] # Nil /\ Expired(heap[chunkCache[id]].age)
                  THEN Nil ELSE chunkCache[id]]

\* Mutant: the sweep only looks at the buffers, as it did before poisoning.
PrunedPoisonNone == poisoned

PrunedPoison ==
  [id \in Ids |-> IF Expired(poisoned[id]) THEN NotPoisoned ELSE poisoned[id]]

(***************************************************************************)
(* A frame arrives and HandleChunk asks IsPoisoned, which drops an expired *)
(* entry.  A frame of a poisoned id is answered SystemError; that changes  *)
(* no state.                                                               *)
(***************************************************************************)
IsPoisoned(p, c) ==
  /\ pc[p] = "idle"
  /\ poisoned[c.id] = NotPoisoned \/ Expired(poisoned[c.id])
  /\ poisoned' = [poisoned EXCEPT ![c.id] = NotPoisoned]
  /\ pc' = [pc EXCEPT ![p] = "get"]
  /\ req' = [req EXCEPT ![p] = c]
  /\ UNCHANGED <<heap, chunkCache, buf, sweeping>>

(***************************************************************************)
(* GetChunkBuffer: four outcomes.                                          *)
(***************************************************************************)

\* The declared total is zero or over the cap: refused before the lock.
RefuseTotal(p) ==
  /\ pc[p] = "get"
  /\ req[p].total <= 0 \/ req[p].total > MaxChunkBufferBytes
  /\ Return(p)
  /\ UNCHANGED <<heap, chunkCache, poisoned, sweeping>>

Acceptable(total) == total > 0 /\ total <= MaxChunkBufferBytes

\* The registered buffer has the same total: it is reused, and its LastAccess
\* refreshed.
ReuseBuffer(p) ==
  LET a == chunkCache[req[p].id]
  IN  /\ pc[p] = "get"
      /\ Acceptable(req[p].total)
      /\ a # Nil
      /\ heap[a].total = req[p].total
      /\ heap' = [heap EXCEPT ![a].age = 0]
      /\ pc' = [pc EXCEPT ![p] = "claim"]
      /\ buf' = [buf EXCEPT ![p] = a]
      /\ UNCHANGED <<chunkCache, poisoned, req, sweeping>>

\* A fresh buffer is registered for the id of p's frame; `cache' is the map
\* it is put into.
Allocate(p, cache) ==
  \E a \in Addrs :
    /\ ~ Reachable(chunkCache, buf, a)
    /\ chunkCache' = [cache EXCEPT ![req[p].id] = a]
    /\ pc' = [pc EXCEPT ![p] = "claim"]
    /\ buf' = [buf EXCEPT ![p] = a]
    /\ heap' = Collect([heap EXCEPT ![a] = NewBuffer(req[p].total)],
                       chunkCache', buf')

\* The registered buffer has another total: it is replaced in place, whatever
\* the number of transfers.
ResetBuffer(p) ==
  LET a == chunkCache[req[p].id]
  IN  /\ pc[p] = "get"
      /\ Acceptable(req[p].total)
      /\ a # Nil
      /\ heap[a].total # req[p].total
      /\ Allocate(p, chunkCache)
      /\ UNCHANGED <<poisoned, req, sweeping>>

Full(resident) == Cardinality(resident) >= MaxConcurrentTransfers

\* A new id: admitted under the bound, or at the bound once pruning the stale
\* entries has made room.
OpenTransfer(p) ==
  /\ pc[p] = "get"
  /\ Acceptable(req[p].total)
  /\ chunkCache[req[p].id] = Nil
  /\ \/ /\ ~ Full(Resident)
        /\ Allocate(p, chunkCache)
        /\ UNCHANGED poisoned
     \/ /\ Full(Resident)
        /\ ~ Full({id \in Ids : PrunedCache[id] # Nil})
        /\ Allocate(p, PrunedCache)
        /\ poisoned' = PrunedPoison
  /\ UNCHANGED <<req, sweeping>>

\* At the bound and still full after pruning: ErrTooManyChunkTransfers.
RefuseTransfer(p) ==
  /\ pc[p] = "get"
  /\ Acceptable(req[p].total)
  /\ chunkCache[req[p].id] = Nil
  /\ Full(Resident)
  /\ Full({id \in Ids : PrunedCache[id] # Nil})
  /\ chunkCache' = PrunedCache
  /\ poisoned' = PrunedPoison
  /\ Return(p)
  /\ heap' = Collect(heap, chunkCache', buf')
  /\ UNCHANGED sweeping

(***************************************************************************)
(* The section under buf.Mutex.                                            *)
(***************************************************************************)

OutOfBounds(b, c) == c.offset + c.length > b.total

\* Mutant: once every byte has arrived, ranges are no longer compared.
VerdictSkipped(b, c) ==
  IF b.received = b.total THEN "new"
  ELSE ClaimSegment(b.segments, c.offset, c.length)

Verdict(b, c) == ClaimSegment(b.segments, c.offset, c.length)

\* Out of bounds, zero length, or overlapping: the buffer is left alone and p
\* goes on to poison the transfer.
RejectChunk(p) ==
  LET b == heap[buf[p]]
      c == req[p]
  IN  /\ pc[p] = "claim"
      /\ OutOfBounds(b, c) \/ c.length = 0 \/ Verdict(b, c) = "overlap"
      /\ pc' = [pc EXCEPT ![p] = "poison"]
      /\ buf' = [buf EXCEPT ![p] = Nil]
      /\ heap' = Collect(heap, chunkCache, buf')
      /\ UNCHANGED <<chunkCache, poisoned, req, sweeping>>

\* The buffer after a good chunk: a new range is recorded and copied, a
\* retransmitted one is neither.
Copied(b, c) ==
  IF Verdict(b, c) = "new"
  THEN [b EXCEPT !.segments = @ \union {[offset |-> c.offset, length |-> c.length]},
                 !.data = @ \union Bytes(c.offset, c.length),
                 !.received = @ + c.length]
  ELSE b

\* Mutant: a retransmission of a complete transfer claims the dispatch again.
ClaimsDispatchAgain(b) == b.received = b.total

ClaimsDispatch(b) == b.received = b.total /\ ~ b.dispatched

\* A good chunk: recorded, and either acknowledged or, when it is the one that
\* completes the transfer, the dispatch is claimed.
AcceptChunk(p) ==
  LET c == req[p]
      b == Copied(heap[buf[p]], c)
      done == ClaimsDispatch(b)
      h == [heap EXCEPT ![buf[p]] = [b EXCEPT !.dispatched = b.dispatched \/ done]]
  IN  /\ pc[p] = "claim"
      /\ ~ OutOfBounds(heap[buf[p]], c)
      /\ c.length > 0
      /\ Verdict(heap[buf[p]], c) # "overlap"
      /\ \/ /\ done
            /\ pc' = [pc EXCEPT ![p] = "remove"]
            /\ UNCHANGED <<req, buf>>
         \/ ~ done /\ Return(p)
      /\ heap' = Collect(h, chunkCache, buf')
      /\ UNCHANGED <<chunkCache, poisoned, sweeping>>

(***************************************************************************)
(* PoisonTransfer: the buffer registered for the id is dropped and the id  *)
(* recorded.  At the bound expired entries are pruned first, then the      *)
(* oldest entry is evicted (any of the oldest: Go's map order).            *)
(***************************************************************************)
Oldest(entries) ==
  {id \in Ids : /\ entries[id] # NotPoisoned
                /\ \A j \in Ids : entries[j] <= entries[id]}

Evicted(entries, old) == [j \in Ids |-> IF j = old THEN NotPoisoned ELSE entries[j]]

PoisonFull(entries) ==
  Cardinality({id \in Ids : entries[id] # NotPoisoned}) >= MaxPoisonedTransfers

\* Mutant: expired entries are pruned at the bound, a live one is not evicted.
PoisonTransferNoEviction(p) ==
  LET id == req[p].id
  IN  /\ pc[p] = "poison"
      /\ poisoned' = [(IF PoisonFull(poisoned) THEN PrunedPoison ELSE poisoned)
                        EXCEPT ![id] = 0]
      /\ chunkCache' = [chunkCache EXCEPT ![id] = Nil]
      /\ Return(p)
      /\ heap' = Collect(heap, chunkCache', buf')
      /\ UNCHANGED sweeping

PoisonTransfer(p) ==
  LET id == req[p].id
  IN  /\ pc[p] = "poison"
      /\ \/ /\ ~ PoisonFull(poisoned)
            /\ poisoned' = [poisoned EXCEPT ![id] = 0]
            /\ chunkCache' = [chunkCache EXCEPT ![id] = Nil]
         \/ /\ PoisonFull(poisoned)
            /\ ~ PoisonFull(PrunedPoison)
            /\ poisoned' = [PrunedPoison EXCEPT ![id] = 0]
            /\ chunkCache' = [PrunedCache EXCEPT ![id] = Nil]
         \/ /\ PoisonFull(poisoned)
            /\ PoisonFull(PrunedPoison)
            /\ \E old \in Oldest(PrunedPoison) :
                 poisoned' = [Evicted(PrunedPoison, old) EXCEPT ![id] = 0]
            /\ chunkCache' = [PrunedCache EXCEPT ![id] = Nil]
      /\ Return(p)
      /\ heap' = Collect(heap, chunkCache', buf')
      /\ UNCHANGED sweeping

\* RemoveChunkBuffer: whatever buffer is registered for the id by now goes.
RemoveChunkBuffer(p) ==
  /\ pc[p] = "remove"
  /\ chunkCache' = [chunkCache EXCEPT ![req[p].id] = Nil]
  /\ pc' = [pc EXCEPT ![p] = "dispatch"]
  /\ heap' = Collect(heap, chunkCache', buf)
  /\ UNCHANGED <<poisoned, req, buf, sweeping>>

\* dispatch(buf.Data, ...) runs the user function on the payload and returns.
Dispatch(p) ==
  /\ pc[p] = "dispatch"
  /\ Return(p)
  /\ heap' = Collect([heap EXCEPT ![buf[p]].runs = @ + 1], chunkCache, buf')
  /\ UNCHANGED <<chunkCache, poisoned, sweeping>>

-----------------------------------------------------------------------------

(***************************************************************************)
(* The inbound half of the periodic sweep, and of Sweep.                   *)
(***************************************************************************)
runCleanupOnce ==
  /\ sweeping
  /\ chunkCache' = PrunedCache
  /\ poisoned' = PrunedPoison
  /\ heap' = Collect(heap, chunkCache', buf)
  /\ UNCHANGED <<pc, req, buf, sweeping>>

\* Close lets the cleanup goroutine return; the maps stay in use.
Close ==
  /\ sweeping
  /\ sweeping' = FALSE
  /\ UNCHANGED <<heap, chunkCache, poisoned, pc, req, buf>>

Older(age) == IF age > ChunkBufferTTL THEN age ELSE age + 1

\* Time passes.
Tick ==
  /\ heap' = [a \in Addrs |->
                IF Reachable(chunkCache, buf, a)
                THEN [heap[a] EXCEPT !.age = Older(@)] ELSE heap[a]]
  /\ poisoned' = [id \in Ids |-> IF poisoned[id] = NotPoisoned
                                 THEN NotPoisoned ELSE Older(poisoned[id])]
  /\ UNCHANGED <<chunkCache, pc, req, buf, sweeping>>

\* One step of goroutine p after the arrival of its frame.
HandleChunk(p) ==
  \/ RefuseTotal(p) \/ ReuseBuffer(p) \/ ResetBuffer(p)
  \/ OpenTransfer(p) \/ RefuseTransfer(p)
  \/ RejectChunk(p) \/ AcceptChunk(p)
  \/ PoisonTransfer(p) \/ RemoveChunkBuffer(p) \/ Dispatch(p)

Arrive == \E p \in Procs, c \in Chunks : IsPoisoned(p, c)

Next ==
  \/ Arrive
  \/ \E p \in Procs : HandleChunk(p)
  \/ runCleanupOnce
  \/ Close
  \/ Tick

Spec == Init /\ [][Next]_vars

(***************************************************************************)
(* Goroutines run, the ticker ticks; Close is the only thing that stops    *)
(* the sweep.                                                              *)
(***************************************************************************)
Fairness ==
  /\ \A p \in Procs : WF_vars(HandleChunk(p))
  /\ WF_vars(runCleanupOnce)
  /\ WF_vars(Tick)

LiveSpec == Spec /\ Fairness

-----------------------------------------------------------------------------

Types ==
  /\ heap \in [Addrs -> ChunkBuffer]
  /\ chunkCache \in [Ids -> Addrs \union {Nil}]
  /\ poisoned \in [Ids -> Ages \union {NotPoisoned}]
  /\ pc \in [Procs -> {"idle", "get", "claim", "poison", "remove", "dispatch"}]
  /\ req \in [Procs -> Chunks \union {Nil}]
  /\ buf \in [Procs -> Addrs \union {Nil}]
  /\ sweeping \in BOOLEAN

\* A goroutine between two sections has the frame and the buffer they need.
Held ==
  \A p \in Procs :
    /\ pc[p] # "idle" => req[p] \in Chunks
    /\ pc[p] \in {"claim", "remove", "dispatch"} => buf[p] \in Addrs

(***************************************************************************)
(* Type correctness, including that GetChunkBuffer never lets HandleChunk  *)
(* go on without a buffer.                                                 *)
(***************************************************************************)
TypeOK == Types /\ Held

\* p has claimed the dispatch of its buffer and has not finished it.
Dispatching(p) == pc[p] \in {"remove", "dispatch"}

(***************************************************************************)
(* The completion contract of ChunkBuffer: whatever frames arrive, in      *)
(* whatever order, handled by however many goroutines, the payload handed  *)
(* to dispatch has had every byte of [0, TotalSize) copied into it;        *)
(* HandleChunk tests only that the lengths it accepted sum to TotalSize.   *)
(***************************************************************************)
CompletePayload ==
  \A p \in Procs :
    Dispatching(p) => heap[buf[p]].data = 0 .. heap[buf[p]].total - 1

(***************************************************************************)
(* The Dispatched flag: one reassembled buffer runs the user function at   *)
(* most once, even when a retransmitted final chunk races the original and *)
(* both goroutines see Received == TotalSize.                              *)
(***************************************************************************)
DispatchedOnce ==
  \A a \in Addrs :
    /\ heap[a].runs <= 1
    /\ \A p, q \in Procs :
         Dispatching(p) /\ buf[p] = a =>
           /\ heap[a].runs = 0
           /\ Dispatching(q) /\ buf[q] = a => p = q

(***************************************************************************)
(* dispatch reads buf.Data without holding buf.Mutex: no other goroutine   *)
(* that still holds the buffer writes to it meanwhile.                     *)
(***************************************************************************)
PayloadStable ==
  [][\A p \in Procs :
       Dispatching(p) /\ Dispatching(p)' =>
         /\ heap'[buf[p]].data = heap[buf[p]].data
         /\ heap'[buf[p]].segments = heap[buf[p]].segments]_vars

(***************************************************************************)
(* The two resource bounds hold in every interleaving of GetChunkBuffer,   *)
(* PoisonTransfer and the sweep: neither map outgrows its limit.           *)
(***************************************************************************)
TransfersBounded == Cardinality(Resident) <= MaxConcurrentTransfers

PoisonBounded == Cardinality(Refused) <= MaxPoisonedTransfers

MemoryBounded == TransfersBounded /\ PoisonBounded

(***************************************************************************)
(* What PoisonTransfer's comment promises: "every later chunk carrying it  *)
(* is rejected until the entry expires".  The code does not keep it: a     *)
(* goroutine that asked IsPoisoned before the transfer was poisoned calls  *)
(* GetChunkBuffer after, which does not look at the poison set.            *)
(***************************************************************************)
PoisonedStaysDropped ==
  \A id \in Ids : poisoned[id] \in 0 .. ChunkBufferTTL => chunkCache[id] = Nil

(***************************************************************************)
(* "an id is never permanently burned" and a buffer is never leaked: when  *)
(* frames stop coming and the sweep keeps running, every partial transfer  *)
(* and every poison entry is reclaimed, whichever goroutine was where.     *)
(***************************************************************************)
Reclaimed ==
  (<>[](\A p \in Procs : pc[p] = "idle") /\ []sweeping)
    => <>[](Resident = {} /\ Refused = {})
=============================================================================
