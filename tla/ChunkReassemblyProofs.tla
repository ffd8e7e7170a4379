----------------------- MODULE ChunkReassemblyProofs -----------------------
(***************************************************************************)
(* Proofs about ChunkReassembly: type correctness, the completion          *)
(* contract, at-most-once dispatch and the two resource bounds, for every  *)
(* set of goroutines, ids and frames and every value of the limits.        *)
(***************************************************************************)
EXTENDS ChunkReassembly, SetLemmas, FiniteSetTheorems, TLAPS

(***************************************************************************)
(* The bookkeeping ClaimSegment and HandleChunk keep for every buffer: the *)
(* recorded ranges are non-empty, inside the payload and disjoint, the     *)
(* bytes copied are exactly theirs, and Received counts each byte once.    *)
(***************************************************************************)
WellFormed(b) ==
  /\ \A s \in b.segments : s.length > 0 /\ s.offset + s.length <= b.total
  /\ \A s, t \in b.segments :
       s # t => \/ s.offset + s.length <= t.offset
                \/ t.offset + t.length <= s.offset
  /\ b.data = UNION {Bytes(s.offset, s.length) : s \in b.segments}
  /\ b.received = Cardinality(b.data)

Coverage == \A a \in Addrs : WellFormed(heap[a])

(***************************************************************************)
(* A goroutine that is to dispatch, or has dispatched, a buffer has set    *)
(* its Dispatched flag, so no other goroutine can claim it.                *)
(***************************************************************************)
DispatchFlag ==
  /\ \A a \in Addrs : heap[a].runs > 0 => heap[a].dispatched
  /\ \A p \in Procs : Dispatching(p) => heap[buf[p]].dispatched

-----------------------------------------------------------------------------

(***************************************************************************)
(* Garbage collection keeps a reachable object as it is.                   *)
(***************************************************************************)
LEMMA CollectLemma ==
  ASSUME NEW objects \in [Addrs -> ChunkBuffer], NEW cache, NEW held
  PROVE  /\ Collect(objects, cache, held) \in [Addrs -> ChunkBuffer]
         /\ \A a \in Addrs :
              Collect(objects, cache, held)[a] \in {objects[a], NoObject}
         /\ \A a \in Addrs : Reachable(cache, held, a) =>
              Collect(objects, cache, held)[a] = objects[a]
<1>1. NoObject \in ChunkBuffer
  BY BoundsAssumption DEF NoObject, NewBuffer, ChunkBuffer, Ages
<1> QED
  BY <1>1 DEF Collect

(***************************************************************************)
(* A newly made buffer is a ChunkBuffer.                                   *)
(***************************************************************************)
LEMMA NewBufferType ==
  ASSUME NEW total \in Nat
  PROVE  NewBuffer(total) \in ChunkBuffer
BY BoundsAssumption DEF NewBuffer, ChunkBuffer, Ages

(***************************************************************************)
(* Copying a chunk into a buffer yields a buffer.                          *)
(***************************************************************************)
LEMMA CopiedType ==
  ASSUME NEW b \in ChunkBuffer, NEW c \in Chunks
  PROVE  Copied(b, c) \in ChunkBuffer
<1>1. c.offset \in Nat /\ c.length \in Nat
  BY ChunksAssumption
<1>2. [offset |-> c.offset, length |-> c.length] \in Segment
  BY <1>1 DEF Segment
<1>3. Bytes(c.offset, c.length) \subseteq Nat
  BY <1>1 DEF Bytes
<1>4. CASE Verdict(b, c) = "new"
  <2> DEFINE segs == b.segments \union {[offset |-> c.offset, length |-> c.length]}
             data == b.data \union Bytes(c.offset, c.length)
             recv == b.received + c.length
  <2>1. segs \in SUBSET Segment /\ data \in SUBSET Nat /\ recv \in Nat
    BY <1>1, <1>2, <1>3 DEF ChunkBuffer
  <2>2. Copied(b, c) = [b EXCEPT !.segments = segs, !.data = data, !.received = recv]
    BY <1>4 DEF Copied
  <2> HIDE DEF segs, data, recv
  <2> QED
    BY <2>1, <2>2 DEF ChunkBuffer
<1> QED
  BY <1>4 DEF Copied

(***************************************************************************)
(* What pruning leaves in the two maps has their type.                     *)
(***************************************************************************)
LEMMA PrunedType ==
  ASSUME Types
  PROVE  /\ PrunedCache \in [Ids -> Addrs \union {Nil}]
         /\ PrunedPoison \in [Ids -> Ages \union {NotPoisoned}]
BY DEF Types, PrunedCache, PrunedPoison

(***************************************************************************)
(* Allocate keeps the types.                                               *)
(***************************************************************************)
LEMMA AllocateType ==
  ASSUME TypeOK, NEW p \in Procs, pc[p] = "get",
         NEW cache \in [Ids -> Addrs \union {Nil}],
         Allocate(p, cache), UNCHANGED <<req, sweeping>>,
         poisoned' \in [Ids -> Ages \union {NotPoisoned}]
  PROVE  TypeOK'
<1>1. PICK a \in Addrs :
        /\ chunkCache' = [cache EXCEPT ![req[p].id] = a]
        /\ pc' = [pc EXCEPT ![p] = "claim"]
        /\ buf' = [buf EXCEPT ![p] = a]
        /\ heap' = Collect([heap EXCEPT ![a] = NewBuffer(req[p].total)],
                           chunkCache', buf')
  BY DEF Allocate
<1>2. req[p] \in Chunks /\ req[p].id \in Ids /\ req[p].total \in Nat
  BY ChunksAssumption DEF TypeOK, Held
<1>3. [heap EXCEPT ![a] = NewBuffer(req[p].total)] \in [Addrs -> ChunkBuffer]
  BY <1>2, NewBufferType DEF TypeOK, Types
<1>4. heap' \in [Addrs -> ChunkBuffer]
  BY <1>1, <1>3, CollectLemma
<1>5. Types'
  BY <1>1, <1>2, <1>4 DEF TypeOK, Types
<1>6. Held'
  BY <1>1, <1>2 DEF TypeOK, Types, Held
<1> QED
  BY <1>5, <1>6 DEF TypeOK

(***************************************************************************)
(* The type invariant is inductive.                                        *)
(***************************************************************************)
LEMMA TypeOKStep == TypeOK /\ [Next]_vars => TypeOK'
<1> SUFFICES ASSUME TypeOK, [Next]_vars PROVE TypeOK'
  OBVIOUS
<1> USE DEF TypeOK
<1>h. heap \in [Addrs -> ChunkBuffer]
  BY DEF Types
<1>1. ASSUME NEW p \in Procs, NEW c \in Chunks, IsPoisoned(p, c)
      PROVE  TypeOK'
  <2>1. c.id \in Ids
    BY ChunksAssumption
  <2> QED
    BY <1>1, <2>1 DEF IsPoisoned, Types, Held
<1>2. ASSUME NEW p \in Procs, RefuseTotal(p)
      PROVE  TypeOK'
  BY <1>2 DEF RefuseTotal, Return, Types, Held
<1>3. ASSUME NEW p \in Procs, ReuseBuffer(p)
      PROVE  TypeOK'
  <2> DEFINE a == chunkCache[req[p].id]
  <2>1. req[p] \in Chunks /\ req[p].id \in Ids
    BY <1>3, ChunksAssumption DEF ReuseBuffer, Held
  <2>2. a \in Addrs
    BY <1>3, <2>1 DEF ReuseBuffer, Types
  <2>3. heap' = [heap EXCEPT ![a].age = 0] /\ 0 \in Ages
    BY <1>3, BoundsAssumption DEF ReuseBuffer, Ages
  <2>4. [heap[a] EXCEPT !.age = 0] \in ChunkBuffer
    BY <1>h, <2>2, <2>3 DEF ChunkBuffer
  <2>5. heap' \in [Addrs -> ChunkBuffer]
    BY <1>h, <2>3, <2>4
  <2> QED
    BY <1>3, <2>1, <2>2, <2>5 DEF ReuseBuffer, Types, Held
<1>4. ASSUME NEW p \in Procs, ResetBuffer(p)
      PROVE  TypeOK'
  BY <1>4, AllocateType DEF ResetBuffer, Types
<1>5. ASSUME NEW p \in Procs, OpenTransfer(p)
      PROVE  TypeOK'
  BY <1>5, AllocateType, PrunedType DEF OpenTransfer, Types
<1>6. ASSUME NEW p \in Procs, RefuseTransfer(p)
      PROVE  TypeOK'
  <2>1. heap' \in [Addrs -> ChunkBuffer]
    BY <1>h, <1>6, CollectLemma DEF RefuseTransfer
  <2> QED
    BY <1>6, <2>1, PrunedType DEF RefuseTransfer, Return, Types, Held
<1>7. ASSUME NEW p \in Procs, RejectChunk(p)
      PROVE  TypeOK'
  <2>1. heap' \in [Addrs -> ChunkBuffer]
    BY <1>h, <1>7, CollectLemma DEF RejectChunk
  <2> QED
    BY <1>7, <2>1 DEF RejectChunk, Types, Held
<1>8. ASSUME NEW p \in Procs, AcceptChunk(p)
      PROVE  TypeOK'
  <2> DEFINE b == Copied(heap[buf[p]], req[p])
             d == [b EXCEPT !.dispatched = @ \/ ClaimsDispatch(b)]
             h == [heap EXCEPT ![buf[p]] = d]
  <2>1. req[p] \in Chunks /\ buf[p] \in Addrs
    BY <1>8 DEF AcceptChunk, Held
  <2>2. b \in ChunkBuffer
    BY <1>h, <2>1, CopiedType
  <2>3. (b.dispatched \/ ClaimsDispatch(b)) \in BOOLEAN
    BY <2>2 DEF ClaimsDispatch, ChunkBuffer
  <2>4. d \in ChunkBuffer
    <3> HIDE DEF b
    <3> QED
      BY <2>2, <2>3 DEF ChunkBuffer
  <2>5. h \in [Addrs -> ChunkBuffer]
    <3> HIDE DEF d
    <3> QED
      BY <1>h, <2>4
  <2>6. heap' = Collect(h, chunkCache, buf')
    BY <1>8 DEF AcceptChunk
  <2>7. heap' \in [Addrs -> ChunkBuffer]
    <3> HIDE DEF h
    <3> QED
      BY <2>5, <2>6, CollectLemma
  <2> HIDE DEF b, d, h
  <2> QED
    BY <1>8, <2>1, <2>7 DEF AcceptChunk, Return, Types, Held
<1>9. ASSUME NEW p \in Procs, PoisonTransfer(p)
      PROVE  TypeOK'
  <2>1. heap' \in [Addrs -> ChunkBuffer]
    BY <1>h, <1>9, CollectLemma DEF PoisonTransfer
  <2>2. 0 \in Ages /\ req[p].id \in Ids
    BY <1>9, BoundsAssumption, ChunksAssumption DEF Ages, PoisonTransfer, Held
  <2>3. /\ poisoned' \in [Ids -> Ages \union {NotPoisoned}]
        /\ chunkCache' \in [Ids -> Addrs \union {Nil}]
    <3>1. \A old \in Oldest(PrunedPoison) :
            Evicted(PrunedPoison, old) \in [Ids -> Ages \union {NotPoisoned}]
      BY PrunedType DEF Evicted
    <3>2. \/ poisoned' = [poisoned EXCEPT ![req[p].id] = 0]
          \/ poisoned' = [PrunedPoison EXCEPT ![req[p].id] = 0]
          \/ \E old \in Oldest(PrunedPoison) :
               poisoned' = [Evicted(PrunedPoison, old) EXCEPT ![req[p].id] = 0]
      BY <1>9 DEF PoisonTransfer
    <3>3. \/ chunkCache' = [chunkCache EXCEPT ![req[p].id] = Nil]
          \/ chunkCache' = [PrunedCache EXCEPT ![req[p].id] = Nil]
      BY <1>9 DEF PoisonTransfer
    <3> QED
      BY <2>2, <3>1, <3>2, <3>3, PrunedType DEF Types
  <2> QED
    BY <1>9, <2>1, <2>3 DEF PoisonTransfer, Return, Types, Held
<1>10. ASSUME NEW p \in Procs, RemoveChunkBuffer(p)
       PROVE  TypeOK'
  <2>1. heap' \in [Addrs -> ChunkBuffer]
    BY <1>h, <1>10, CollectLemma DEF RemoveChunkBuffer
  <2> QED
    BY <1>10, <2>1 DEF RemoveChunkBuffer, Types, Held
<1>11. ASSUME NEW p \in Procs, Dispatch(p)
       PROVE  TypeOK'
  <2> DEFINE d == [heap[buf[p]] EXCEPT !.runs = @ + 1]
             h == [heap EXCEPT ![buf[p]].runs = @ + 1]
  <2>1. buf[p] \in Addrs
    BY <1>11 DEF Dispatch, Held
  <2>2. d \in ChunkBuffer
    BY <1>h, <2>1 DEF ChunkBuffer
  <2>3. h \in [Addrs -> ChunkBuffer]
    BY <1>h, <2>1, <2>2
  <2>4. heap' = Collect(h, chunkCache, buf')
    BY <1>11 DEF Dispatch
  <2>5. heap' \in [Addrs -> ChunkBuffer]
    <3> HIDE DEF h
    <3> QED
      BY <2>3, <2>4, CollectLemma
  <2> QED
    BY <1>11, <2>5 DEF Dispatch, Return, Types, Held
<1>12. ASSUME runCleanupOnce
       PROVE  TypeOK'
  <2>1. heap' \in [Addrs -> ChunkBuffer]
    BY <1>h, <1>12, CollectLemma DEF runCleanupOnce
  <2> QED
    BY <1>12, <2>1, PrunedType DEF runCleanupOnce, Types, Held
<1>13. ASSUME Close
       PROVE  TypeOK'
  BY <1>13 DEF Close, Types, Held
<1>14. ASSUME Tick
       PROVE  TypeOK'
  <2>1. \A g \in Ages : Older(g) \in Ages
    BY BoundsAssumption DEF Older, Ages
  <2>2. \A a \in Addrs : [heap[a] EXCEPT !.age = Older(@)] \in ChunkBuffer
    BY <1>h, <2>1 DEF ChunkBuffer
  <2>3. heap' \in [Addrs -> ChunkBuffer]
    BY <1>h, <1>14, <2>2 DEF Tick
  <2>4. poisoned' \in [Ids -> Ages \union {NotPoisoned}]
    BY <1>14, <2>1 DEF Tick, Types
  <2> QED
    BY <1>14, <2>3, <2>4 DEF Tick, Types, Held
<1>15. ASSUME UNCHANGED vars
       PROVE  TypeOK'
  BY <1>15 DEF vars, Types, Held
<1> QED
  BY <1>1, <1>2, <1>3, <1>4, <1>5, <1>6, <1>7, <1>8, <1>9, <1>10, <1>11,
     <1>12, <1>13, <1>14, <1>15 DEF Next, Arrive, HandleChunk

(***************************************************************************)
(* Every state reached by HandleChunk, the sweep and the clock is well     *)
(* typed.                                                                  *)
(***************************************************************************)
THEOREM TypeCorrect == Spec => []TypeOK
<1>1. Init => TypeOK
  <2>1. NoObject \in ChunkBuffer
    BY BoundsAssumption DEF NoObject, NewBuffer, ChunkBuffer, Ages
  <2> QED
    BY <2>1 DEF Init, TypeOK, Types, Held
<1> QED
  BY <1>1, TypeOKStep, PTL DEF Spec

-----------------------------------------------------------------------------

(***************************************************************************)
(* ClaimSegment compares a range with its two neighbours only.  Among      *)
(* disjoint segments that is enough: a range it calls new overlaps none.   *)
(***************************************************************************)
LEMMA NeighboursSuffice ==
  ASSUME NEW segments \in SUBSET Segment, NEW offset \in Nat, NEW length \in Nat,
         \A s \in segments : s.length > 0,
         \A s, t \in segments :
           s # t => \/ s.offset + s.length <= t.offset
                    \/ t.offset + t.length <= s.offset,
         ClaimSegment(segments, offset, length) = "new",
         NEW s \in segments
  PROVE  s.offset + s.length <= offset \/ offset + length <= s.offset
<1>1. /\ s.offset # offset
      /\ \A t \in segments : IsPredecessor(t, segments, offset) =>
                              ~ (t.offset + t.length > offset)
      /\ \A t \in segments : IsSuccessor(t, segments, offset) =>
                              ~ (offset + length > t.offset)
  BY DEF ClaimSegment
<1>2. \A t \in segments : t.offset \in Nat /\ t.length \in Nat
  BY DEF Segment
<1>3. CASE s.offset < offset
  <2> DEFINE gaps == {offset - t.offset : t \in {u \in segments : u.offset < offset}}
  <2>1. gaps \in SUBSET Nat /\ gaps # {}
    BY <1>2, <1>3
  <2>2. PICK m \in gaps : \A n \in gaps : m <= n
    <3> HIDE DEF gaps
    <3> QED
      BY <2>1, LeastNatural
  <2>3. PICK t \in segments : t.offset < offset /\ m = offset - t.offset
    OBVIOUS
  <2>4. ASSUME NEW u \in segments, u.offset < offset PROVE u.offset <= t.offset
    <3>1. offset - u.offset \in gaps
      BY <2>4
    <3>2. offset - t.offset <= offset - u.offset
      BY <2>2, <2>3, <3>1
    <3> QED
      BY <1>2, <3>2
  <2>5. IsPredecessor(t, segments, offset)
    BY <2>3, <2>4 DEF IsPredecessor
  <2>6. t.offset + t.length <= offset
    BY <1>1, <1>2, <2>5
  <2> QED
    BY <1>2, <1>3, <2>3, <2>4, <2>6
<1>4. CASE s.offset > offset
  <2> DEFINE starts == {t.offset : t \in {u \in segments : u.offset > offset}}
  <2>1. starts \in SUBSET Nat /\ starts # {}
    BY <1>2, <1>4
  <2>2. PICK m \in starts : \A n \in starts : m <= n
    <3> HIDE DEF starts
    <3> QED
      BY <2>1, LeastNatural
  <2>3. PICK t \in segments : t.offset > offset /\ m = t.offset
    OBVIOUS
  <2>4. \A u \in segments : u.offset > offset => u.offset >= t.offset
    BY <1>2, <2>2, <2>3
  <2>5. IsSuccessor(t, segments, offset)
    BY <2>3, <2>4 DEF IsSuccessor
  <2>6. offset + length <= t.offset
    BY <1>1, <1>2, <2>5
  <2> QED
    BY <1>2, <1>4, <2>4, <2>6
<1> QED
  BY <1>1, <1>2, <1>3, <1>4

(***************************************************************************)
(* A segment covers as many bytes as it is long.                           *)
(***************************************************************************)
LEMMA BytesCount ==
  ASSUME NEW offset \in Nat, NEW length \in Nat
  PROVE  IsFiniteSet(Bytes(offset, length)) /\ Cardinality(Bytes(offset, length)) = length
BY IntervalCount DEF Bytes

(***************************************************************************)
(* A well-formed buffer has copied into no byte outside its payload, and   *)
(* is full when Received reaches TotalSize.                                *)
(***************************************************************************)
LEMMA FullMeansCovered ==
  ASSUME NEW b \in ChunkBuffer, WellFormed(b)
  PROVE  /\ b.data \subseteq 0 .. b.total - 1
         /\ IsFiniteSet(b.data)
         /\ b.received = b.total => b.data = 0 .. b.total - 1
<1>1. b.total \in Nat /\ b.segments \in SUBSET Segment
  BY DEF ChunkBuffer
<1>2. b.data \subseteq 0 .. b.total - 1
  <2> SUFFICES ASSUME NEW i \in b.data PROVE i \in 0 .. b.total - 1
    OBVIOUS
  <2>1. PICK s \in b.segments : i \in Bytes(s.offset, s.length)
    BY DEF WellFormed
  <2>2. s.offset \in Nat /\ s.length \in Nat /\ s.offset + s.length <= b.total
    BY <1>1 DEF WellFormed, Segment
  <2> QED
    BY <1>1, <2>1, <2>2 DEF Bytes
<1>3. IsFiniteSet(0 .. b.total - 1) /\ Cardinality(0 .. b.total - 1) = b.total
  <2>1. Bytes(0, b.total) = 0 .. b.total - 1
    BY <1>1 DEF Bytes
  <2> QED
    BY <1>1, <2>1, BytesCount
<1>4. /\ IsFiniteSet(b.data)
      /\ Cardinality(0 .. b.total - 1) = Cardinality(b.data)
           => 0 .. b.total - 1 = b.data
  BY <1>2, <1>3, FS_Subset
<1> QED
  BY <1>2, <1>3, <1>4 DEF WellFormed

(***************************************************************************)
(* A chunk that HandleChunk accepts keeps the buffer well formed.          *)
(***************************************************************************)
LEMMA CopiedWellFormed ==
  ASSUME NEW b \in ChunkBuffer, NEW c \in Chunks, WellFormed(b),
         ~ OutOfBounds(b, c), c.length > 0, Verdict(b, c) = "new"
  PROVE  /\ WellFormed(Copied(b, c))
         /\ Copied(b, c).received = b.received + c.length
<1> DEFINE new == [offset |-> c.offset, length |-> c.length]
           segs == b.segments \union {new}
           range == Bytes(c.offset, c.length)
           data == b.data \union range
           d == Copied(b, c)
<1>1. c.offset \in Nat /\ c.length \in Nat
  BY ChunksAssumption
<1>2. /\ b.total \in Nat /\ b.received \in Nat
      /\ b.segments \in SUBSET Segment /\ b.data \in SUBSET Nat
  BY DEF ChunkBuffer
<1>3. d = [b EXCEPT !.segments = segs, !.data = data,
                    !.received = b.received + c.length]
  BY DEF Copied
<1>4. /\ d.total = b.total /\ d.segments = segs /\ d.data = data
      /\ d.received = b.received + c.length
  <2> HIDE DEF segs, data
  <2> QED
    BY <1>3 DEF ChunkBuffer
<1>5. ASSUME NEW s \in b.segments
      PROVE  s.offset + s.length <= c.offset \/ c.offset + c.length <= s.offset
  BY <1>1, <1>2, NeighboursSuffice DEF Verdict, WellFormed
<1>6. \A s \in segs : s.length > 0 /\ s.offset + s.length <= b.total
  BY <1>1, <1>2 DEF WellFormed, OutOfBounds
<1>7. \A s, t \in segs :
        s # t => s.offset + s.length <= t.offset \/ t.offset + t.length <= s.offset
  BY <1>1, <1>2, <1>5 DEF WellFormed, Segment
<1>8. data = UNION {Bytes(s.offset, s.length) : s \in segs}
  <2>1. b.data = UNION {Bytes(s.offset, s.length) : s \in b.segments}
    BY DEF WellFormed
  <2>2. range = Bytes(new.offset, new.length)
    OBVIOUS
  <2> HIDE DEF new, range
  <2> QED
    BY <2>1, <2>2, Zenon
<1>9. b.data \cap range = {}
  <2> SUFFICES ASSUME NEW i \in b.data, i \in range PROVE FALSE
    OBVIOUS
  <2>1. PICK s \in b.segments : i \in Bytes(s.offset, s.length)
    BY DEF WellFormed
  <2> QED
    BY <1>1, <1>2, <1>5, <2>1 DEF Bytes, Segment
<1>10. Cardinality(data) = b.received + c.length
  <2>1. IsFiniteSet(range) /\ Cardinality(range) = c.length
    BY <1>1, BytesCount
  <2>2. IsFiniteSet(b.data) /\ Cardinality(b.data) = b.received
    BY FullMeansCovered DEF WellFormed
  <2>3. Cardinality(b.data \union range)
          = Cardinality(b.data) + Cardinality(range) - Cardinality(b.data \cap range)
    BY <2>1, <2>2, FS_Union
  <2>4. Cardinality(b.data \cap range) = 0
    BY <1>9, FS_EmptySet
  <2> QED
    BY <1>1, <1>2, <2>1, <2>2, <2>3, <2>4
<1> HIDE DEF segs, data, d
<1>11. WellFormed(d)
  BY <1>4, <1>6, <1>7, <1>8, <1>10 DEF WellFormed
<1> QED
  BY <1>4, <1>11 DEF d

-----------------------------------------------------------------------------

(***************************************************************************)
(* The inductive invariant behind CompletePayload and DispatchedOnce.      *)
(***************************************************************************)
SafeInv == Coverage /\ CompletePayload /\ DispatchedOnce /\ DispatchFlag

IInv == TypeOK /\ SafeInv

\* d is b, its LastAccess stamp aside.
Same(d, b) ==
  /\ d.total = b.total /\ d.received = b.received
  /\ d.segments = b.segments /\ d.data = b.data
  /\ d.dispatched = b.dispatched /\ d.runs = b.runs

(***************************************************************************)
(* A fresh buffer is well formed and has not been dispatched.              *)
(***************************************************************************)
LEMMA NewBufferWellFormed ==
  ASSUME NEW total \in Nat
  PROVE  /\ WellFormed(NewBuffer(total))
         /\ NewBuffer(total).runs = 0
<1>1. Cardinality({}) = 0
  BY FS_EmptySet
<1> QED
  BY <1>1 DEF WellFormed, NewBuffer

(***************************************************************************)
(* The steps that write into no buffer: each address keeps its buffer or   *)
(* holds a fresh one, and whoever is dispatching keeps his.                *)
(***************************************************************************)
LEMMA SafeFrame ==
  ASSUME IInv, TypeOK',
         \A a \in Addrs : \/ Same(heap'[a], heap[a])
                          \/ \E t \in Nat : heap'[a] = NewBuffer(t),
         \A p \in Procs : Dispatching(p)' =>
            /\ Dispatching(p)
            /\ buf'[p] = buf[p]
            /\ Same(heap'[buf[p]], heap[buf[p]])
  PROVE  SafeInv'
<1> USE DEF IInv, SafeInv
<1>1. \A p \in Procs : Dispatching(p)' => buf[p] \in Addrs /\ buf'[p] \in Addrs
  BY DEF TypeOK, Held, Dispatching
<1>2. ASSUME NEW a \in Addrs PROVE WellFormed(heap'[a])
  <2>1. CASE Same(heap'[a], heap[a])
    BY <2>1 DEF Same, Coverage, WellFormed
  <2> QED
    BY <2>1, NewBufferWellFormed
<1>3. Coverage'
  BY <1>2 DEF Coverage
<1>4. CompletePayload'
  BY <1>1 DEF CompletePayload, Same
<1>5. ASSUME NEW a \in Addrs
      PROVE  \/ heap'[a].runs = heap[a].runs /\ heap'[a].dispatched = heap[a].dispatched
             \/ heap'[a].runs = 0
  BY NewBufferWellFormed DEF Same
<1>6. DispatchedOnce'
  BY <1>1, <1>5 DEF DispatchedOnce, Same
<1>7. DispatchFlag'
  BY <1>1, <1>5 DEF DispatchFlag, Same
<1> QED
  BY <1>3, <1>4, <1>6, <1>7

(***************************************************************************)
(* SafeFrame for a step that only drops references.                        *)
(***************************************************************************)
LEMMA SafeDrop ==
  ASSUME IInv, TypeOK', heap' = Collect(heap, chunkCache', buf'),
         \A p \in Procs : Dispatching(p)' => Dispatching(p) /\ buf'[p] = buf[p]
  PROVE  SafeInv'
<1>1. heap \in [Addrs -> ChunkBuffer]
  BY DEF IInv, TypeOK, Types
<1>2. \A a \in Addrs : heap'[a] \in {heap[a], NoObject}
  BY <1>1, CollectLemma
<1>3. \A a \in Addrs : \/ Same(heap'[a], heap[a])
                       \/ \E t \in Nat : heap'[a] = NewBuffer(t)
  BY <1>2 DEF Same, NoObject
<1>4. ASSUME NEW p \in Procs, Dispatching(p)'
      PROVE  Same(heap'[buf[p]], heap[buf[p]])
  <2>1. buf[p] \in Addrs /\ buf'[p] = buf[p]
    BY <1>4 DEF IInv, TypeOK, Held, Dispatching
  <2>2. Reachable(chunkCache', buf', buf[p])
    BY <2>1 DEF Reachable
  <2>3. heap'[buf[p]] = heap[buf[p]]
    BY <1>1, <2>1, <2>2, CollectLemma
  <2> QED
    BY <2>3 DEF Same
<1> QED
  BY <1>3, <1>4, SafeFrame

(***************************************************************************)
(* SafeFrame for the registration of a fresh buffer.                       *)
(***************************************************************************)
LEMMA SafeAllocate ==
  ASSUME IInv, TypeOK', NEW p \in Procs, pc[p] = "get", NEW cache,
         Allocate(p, cache)
  PROVE  SafeInv'
<1>1. PICK a \in Addrs :
        /\ ~ Reachable(chunkCache, buf, a)
        /\ pc' = [pc EXCEPT ![p] = "claim"]
        /\ buf' = [buf EXCEPT ![p] = a]
        /\ heap' = Collect([heap EXCEPT ![a] = NewBuffer(req[p].total)],
                           chunkCache', buf')
  BY DEF Allocate
<1> DEFINE h == [heap EXCEPT ![a] = NewBuffer(req[p].total)]
<1>2. req[p].total \in Nat
  BY ChunksAssumption DEF IInv, TypeOK, Held
<1>3. heap \in [Addrs -> ChunkBuffer] /\ h \in [Addrs -> ChunkBuffer]
  BY <1>2, NewBufferType DEF IInv, TypeOK, Types
<1>4. h[a] = NewBuffer(req[p].total) /\ \A d \in Addrs \ {a} : h[d] = heap[d]
  BY <1>3
<1>5. heap' = Collect(h, chunkCache', buf')
  BY <1>1
<1> HIDE DEF h
<1>6. \A d \in Addrs : heap'[d] \in {h[d], NoObject}
  BY <1>3, <1>5, CollectLemma
<1>7. \A d \in Addrs : \/ Same(heap'[d], heap[d])
                       \/ \E t \in Nat : heap'[d] = NewBuffer(t)
  BY <1>2, <1>4, <1>6 DEF Same, NoObject
<1>8. ASSUME NEW q \in Procs, Dispatching(q)'
      PROVE  /\ Dispatching(q)
             /\ buf'[q] = buf[q]
             /\ Same(heap'[buf[q]], heap[buf[q]])
  <2>1. Dispatching(q) /\ buf'[q] = buf[q] /\ buf[q] \in Addrs
    BY <1>1, <1>8 DEF IInv, TypeOK, Types, Held, Dispatching
  <2>2. Reachable(chunkCache', buf', buf[q]) /\ Reachable(chunkCache, buf, buf[q])
    BY <2>1 DEF Reachable
  <2>3. heap'[buf[q]] = h[buf[q]] /\ buf[q] # a
    BY <1>1, <1>3, <1>5, <2>1, <2>2, CollectLemma
  <2> QED
    BY <1>4, <2>1, <2>3 DEF Same
<1> QED
  BY <1>7, <1>8, SafeFrame

(***************************************************************************)
(* What AcceptChunk leaves in the buffer it writes to.                     *)
(***************************************************************************)
LEMMA AcceptedBuffer ==
  ASSUME NEW b \in ChunkBuffer, NEW c \in Chunks, WellFormed(b),
         ~ OutOfBounds(b, c), c.length > 0
  PROVE  LET n == Copied(b, c)
             d == [n EXCEPT !.dispatched = @ \/ ClaimsDispatch(n)]
         IN  /\ d \in ChunkBuffer
             /\ WellFormed(d)
             /\ d.total = b.total /\ d.runs = b.runs
             /\ b.data \subseteq d.data
             /\ b.dispatched => d.dispatched
             /\ ClaimsDispatch(n) =>
                  d.dispatched /\ ~ b.dispatched /\ d.received = d.total
<1> DEFINE n == Copied(b, c)
           flag == n.dispatched \/ ClaimsDispatch(n)
           d == [n EXCEPT !.dispatched = flag]
<1>1. n \in ChunkBuffer
  BY CopiedType
<1>2. WellFormed(n)
  BY CopiedWellFormed DEF Copied
<1>3. /\ n.total = b.total /\ n.runs = b.runs /\ b.data \subseteq n.data
      /\ n.dispatched = b.dispatched
  <2> DEFINE segs == b.segments \union {[offset |-> c.offset, length |-> c.length]}
             data == b.data \union Bytes(c.offset, c.length)
  <2>1. \/ n = b
        \/ n = [b EXCEPT !.segments = segs, !.data = data,
                         !.received = b.received + c.length]
    BY DEF Copied
  <2>2. b.data \subseteq data
    OBVIOUS
  <2> HIDE DEF segs, data, n
  <2> QED
    BY <2>1, <2>2 DEF ChunkBuffer
<1>4. flag \in BOOLEAN
  BY <1>1 DEF ClaimsDispatch, ChunkBuffer
<1> HIDE DEF n
<1>5. ClaimsDispatch(n) => flag /\ ~ n.dispatched /\ n.received = n.total
  BY DEF ClaimsDispatch
<1>6. n.dispatched => flag
  OBVIOUS
<1> HIDE DEF flag
<1>7. /\ d \in ChunkBuffer /\ d.total = n.total /\ d.runs = n.runs
      /\ d.data = n.data /\ d.received = n.received /\ d.segments = n.segments
      /\ d.dispatched = flag
  BY <1>1, <1>4 DEF ChunkBuffer
<1> HIDE DEF d
<1>8. WellFormed(d)
  BY <1>2, <1>7 DEF WellFormed
<1> QED
  BY <1>3, <1>5, <1>6, <1>7, <1>8 DEF n, flag, d

(***************************************************************************)
(* AcceptChunk keeps the invariant.                                        *)
(***************************************************************************)
LEMMA SafeAccept ==
  ASSUME IInv, TypeOK', NEW p \in Procs, AcceptChunk(p)
  PROVE  SafeInv'
<1> DEFINE b == heap[buf[p]]
           n == Copied(b, req[p])
           done == ClaimsDispatch(n)
           d == [n EXCEPT !.dispatched = @ \/ done]
           h == [heap EXCEPT ![buf[p]] = d]
<1>1. req[p] \in Chunks /\ buf[p] \in Addrs /\ b \in ChunkBuffer
  BY DEF AcceptChunk, IInv, TypeOK, Types, Held
<1>2. /\ pc[p] = "claim" /\ ~ OutOfBounds(b, req[p]) /\ req[p].length > 0
      /\ heap' = Collect(h, chunkCache, buf') /\ UNCHANGED chunkCache
      /\ \/ done /\ pc' = [pc EXCEPT ![p] = "remove"] /\ UNCHANGED <<req, buf>>
         \/ ~ done /\ Return(p)
  BY DEF AcceptChunk
<1>3. /\ d \in ChunkBuffer
      /\ WellFormed(d)
      /\ d.total = b.total /\ d.runs = b.runs
      /\ b.data \subseteq d.data
      /\ b.dispatched => d.dispatched
      /\ done => d.dispatched /\ ~ b.dispatched /\ d.received = d.total
  <2>1. WellFormed(b)
    BY <1>1 DEF IInv, SafeInv, Coverage
  <2> QED
    BY <1>1, <1>2, <2>1, AcceptedBuffer
<1> HIDE DEF d, done
<1>4. /\ heap \in [Addrs -> ChunkBuffer] /\ h \in [Addrs -> ChunkBuffer]
      /\ h[buf[p]] = d /\ \A a \in Addrs \ {buf[p]} : h[a] = heap[a]
  BY <1>1, <1>3 DEF IInv, TypeOK, Types
<1> HIDE DEF h
<1>5. \A a \in Addrs : heap'[a] \in {h[a], NoObject}
  BY <1>2, <1>4, CollectLemma
<1>6. \A q \in Procs \ {p} : Dispatching(q)' => Dispatching(q) /\ buf'[q] = buf[q]
  BY <1>2 DEF Return, Dispatching, IInv, TypeOK, Types
<1>7. Dispatching(p)' => done /\ buf'[p] = buf[p]
  BY <1>2 DEF Return, Dispatching, IInv, TypeOK, Types
<1>8. ASSUME NEW q \in Procs, Dispatching(q)'
      PROVE  buf[q] \in Addrs /\ buf'[q] = buf[q] /\ heap'[buf[q]] = h[buf[q]]
  <2>1. buf'[q] \in Addrs /\ buf'[q] = buf[q]
    BY <1>6, <1>7, <1>8 DEF TypeOK, Held, Dispatching
  <2>2. Reachable(chunkCache', buf', buf[q])
    BY <2>1 DEF Reachable
  <2> QED
    BY <1>2, <1>4, <2>1, <2>2, CollectLemma
<1>9. Coverage'
  <2>1. \A a \in Addrs : WellFormed(h[a])
    BY <1>3, <1>4 DEF IInv, SafeInv, Coverage
  <2>2. WellFormed(NoObject)
    BY NewBufferWellFormed DEF NoObject
  <2> QED
    BY <1>5, <2>1, <2>2 DEF Coverage
<1>10. CompletePayload'
  <2>1. ASSUME NEW q \in Procs, Dispatching(q)'
        PROVE  h[buf[q]].data = 0 .. h[buf[q]].total - 1
    <3>1. CASE buf[q] # buf[p]
      BY <1>4, <1>6, <1>8, <2>1, <3>1 DEF IInv, SafeInv, CompletePayload
    <3>2. CASE q = p
      BY <1>3, <1>4, <1>7, <2>1, <3>2, FullMeansCovered
    <3>3. CASE q # p /\ buf[q] = buf[p]
      <4>1. b.data = 0 .. b.total - 1
        BY <1>6, <2>1, <3>3 DEF IInv, SafeInv, CompletePayload
      <4>2. d.data \subseteq 0 .. d.total - 1
        BY <1>3, FullMeansCovered
      <4> QED
        BY <1>3, <1>4, <3>3, <4>1, <4>2
    <3> QED
      BY <3>1, <3>2, <3>3
  <2> QED
    BY <1>8, <2>1 DEF CompletePayload
<1>11. \A a \in Addrs : h[a].runs = heap[a].runs /\ (heap[a].dispatched => h[a].dispatched)
  BY <1>3, <1>4
<1>12. \A a \in Addrs : heap'[a] = h[a] \/ heap'[a].runs = 0
  BY <1>5, NewBufferWellFormed DEF NoObject
<1>13. DispatchFlag'
  <2>1. \A a \in Addrs : heap'[a].runs > 0 => heap'[a].dispatched
    BY <1>11, <1>12 DEF IInv, SafeInv, DispatchFlag
  <2>2. ASSUME NEW q \in Procs, Dispatching(q)' PROVE h[buf[q]].dispatched
    BY <1>3, <1>4, <1>6, <1>7, <1>8, <1>11, <2>2 DEF IInv, SafeInv, DispatchFlag
  <2> QED
    BY <1>8, <2>1, <2>2 DEF DispatchFlag
<1>14. DispatchedOnce'
  <2>1. ASSUME NEW q \in Procs, Dispatching(q)' PROVE heap[buf[q]].runs = 0
    <3>1. CASE q = p
      <4>1. ~ (heap[buf[p]].runs > 0)
        BY <1>1, <1>3, <1>7, <2>1, <3>1 DEF IInv, SafeInv, DispatchFlag
      <4> QED
        BY <1>1, <3>1, <4>1 DEF ChunkBuffer
    <3>2. CASE q # p
      BY <1>6, <1>8, <2>1, <3>2 DEF IInv, SafeInv, DispatchedOnce
    <3> QED
      BY <3>1, <3>2
  <2>2. ASSUME NEW q \in Procs, NEW r \in Procs,
               Dispatching(q)', Dispatching(r)', buf[q] = buf[r]
        PROVE  q = r
    <3>1. CASE q # p /\ r # p
      BY <1>6, <1>8, <2>2, <3>1 DEF IInv, SafeInv, DispatchedOnce
    <3>2. \A x \in Procs \ {p} : Dispatching(x)' => heap[buf[x]].dispatched
      BY <1>6 DEF IInv, SafeInv, DispatchFlag
    <3>3. Dispatching(p)' => ~ heap[buf[p]].dispatched
      BY <1>3, <1>7
    <3> QED
      BY <2>2, <3>1, <3>2, <3>3
  <2>3. \A a \in Addrs : heap'[a].runs <= 1
    BY <1>11, <1>12 DEF IInv, SafeInv, DispatchedOnce
  <2> QED
    BY <1>8, <1>11, <2>1, <2>2, <2>3 DEF DispatchedOnce
<1> QED
  BY <1>9, <1>10, <1>13, <1>14 DEF SafeInv

(***************************************************************************)
(* Dispatch keeps the invariant.                                           *)
(***************************************************************************)
LEMMA SafeDispatch ==
  ASSUME IInv, TypeOK', NEW p \in Procs, Dispatch(p)
  PROVE  SafeInv'
<1> DEFINE b == heap[buf[p]]
           d == [b EXCEPT !.runs = @ + 1]
           h == [heap EXCEPT ![buf[p]] = d]
<1>1. buf[p] \in Addrs /\ Dispatching(p)
  BY DEF Dispatch, Dispatching, IInv, TypeOK, Held
<1>2. heap \in [Addrs -> ChunkBuffer] /\ b \in ChunkBuffer
  BY <1>1 DEF IInv, TypeOK, Types
<1>3. /\ d \in ChunkBuffer /\ d.total = b.total /\ d.received = b.received
      /\ d.segments = b.segments /\ d.data = b.data
      /\ d.dispatched = b.dispatched /\ d.runs = b.runs + 1
  <2> HIDE DEF b
  <2> QED
    BY <1>2 DEF ChunkBuffer
<1>4. b.runs = 0 /\ b.dispatched
  BY <1>1 DEF IInv, SafeInv, DispatchedOnce, DispatchFlag
<1>5. heap' = Collect(h, chunkCache', buf')
  BY DEF Dispatch
<1> HIDE DEF d
<1>6. /\ h \in [Addrs -> ChunkBuffer]
      /\ h[buf[p]] = d /\ \A a \in Addrs \ {buf[p]} : h[a] = heap[a]
  BY <1>1, <1>2, <1>3
<1> HIDE DEF h
<1>7. \A a \in Addrs : heap'[a] \in {h[a], NoObject}
  BY <1>5, <1>6, CollectLemma
<1>8. ASSUME NEW q \in Procs, Dispatching(q)'
      PROVE  /\ q # p /\ Dispatching(q) /\ buf'[q] = buf[q] /\ buf[q] # buf[p]
             /\ buf[q] \in Addrs /\ heap'[buf[q]] = heap[buf[q]]
  <2>1. q # p /\ Dispatching(q) /\ buf'[q] = buf[q]
    BY <1>8 DEF Dispatch, Return, Dispatching, IInv, TypeOK, Types
  <2>2. buf[q] \in Addrs /\ buf[q] # buf[p]
    BY <1>1, <2>1 DEF IInv, SafeInv, DispatchedOnce, TypeOK, Held, Dispatching
  <2>3. Reachable(chunkCache', buf', buf[q])
    BY <2>1 DEF Reachable
  <2> QED
    BY <1>5, <1>6, <2>1, <2>2, <2>3, CollectLemma
<1>9. Coverage'
  <2>1. WellFormed(d)
    BY <1>1, <1>3 DEF IInv, SafeInv, Coverage, WellFormed
  <2>2. WellFormed(NoObject)
    BY NewBufferWellFormed DEF NoObject
  <2> QED
    BY <1>6, <1>7, <2>1, <2>2 DEF IInv, SafeInv, Coverage
<1>10. CompletePayload'
  BY <1>8 DEF IInv, SafeInv, CompletePayload
<1>11. \A a \in Addrs : \/ heap'[a].runs = 0
                        \/ a = buf[p] /\ heap'[a].runs = 1 /\ heap'[a].dispatched
                        \/ heap'[a] = heap[a]
  <2>1. d.runs = 1
    BY <1>3, <1>4
  <2>2. d.dispatched
    BY <1>3, <1>4, Zenon
  <2>3. NoObject.runs = 0
    BY NewBufferWellFormed DEF NoObject
  <2> QED
    BY <1>6, <1>7, <2>1, <2>2, <2>3, Zenon
<1>12. DispatchedOnce'
  BY <1>8, <1>11 DEF IInv, SafeInv, DispatchedOnce
<1>13. DispatchFlag'
  BY <1>8, <1>11 DEF IInv, SafeInv, DispatchFlag
<1> QED
  BY <1>9, <1>10, <1>12, <1>13 DEF SafeInv

-----------------------------------------------------------------------------

(***************************************************************************)
(* Every step of the reassembler keeps the invariant.                      *)
(***************************************************************************)
LEMMA SafeInvStep == IInv /\ [Next]_vars => IInv'
<1> SUFFICES ASSUME IInv, [Next]_vars PROVE IInv'
  OBVIOUS
<1>t. TypeOK'
  BY TypeOKStep DEF IInv
<1>u. SafeInv' => IInv'
  BY <1>t DEF IInv
<1> USE <1>t
<1>r. ASSUME NEW p \in Procs, Return(p), NEW q \in Procs, Dispatching(q)'
      PROVE  Dispatching(q) /\ buf'[q] = buf[q]
  BY <1>r DEF Return, Dispatching, IInv, TypeOK, Types
<1>1. ASSUME NEW p \in Procs, NEW c \in Chunks, IsPoisoned(p, c)
      PROVE  SafeInv'
  BY <1>1, SafeFrame DEF IsPoisoned, Same, Dispatching, IInv, TypeOK, Types
<1>2. ASSUME NEW p \in Procs, RefuseTotal(p)
      PROVE  SafeInv'
  BY <1>2, <1>r, SafeFrame DEF RefuseTotal, Same
<1>3. ASSUME NEW p \in Procs, ReuseBuffer(p)
      PROVE  SafeInv'
  <2> DEFINE a == chunkCache[req[p].id]
  <2>1. heap' = [heap EXCEPT ![a].age = 0]
    BY <1>3 DEF ReuseBuffer
  <2>2. \A d \in Addrs : Same(heap'[d], heap[d])
    BY <2>1 DEF Same, IInv, TypeOK, Types, ChunkBuffer
  <2>3. \A q \in Procs : Dispatching(q)' =>
          Dispatching(q) /\ buf'[q] = buf[q] /\ buf[q] \in Addrs
    BY <1>3 DEF ReuseBuffer, Dispatching, IInv, TypeOK, Types, Held
  <2> QED
    BY <2>2, <2>3, SafeFrame
<1>4. ASSUME NEW p \in Procs, ResetBuffer(p)
      PROVE  SafeInv'
  BY <1>4, SafeAllocate DEF ResetBuffer
<1>5. ASSUME NEW p \in Procs, OpenTransfer(p)
      PROVE  SafeInv'
  BY <1>5, SafeAllocate DEF OpenTransfer
<1>6. ASSUME NEW p \in Procs, RefuseTransfer(p)
      PROVE  SafeInv'
  BY <1>6, <1>r, SafeDrop DEF RefuseTransfer
<1>7. ASSUME NEW p \in Procs, RejectChunk(p)
      PROVE  SafeInv'
  <2>1. \A q \in Procs : Dispatching(q)' => Dispatching(q) /\ buf'[q] = buf[q]
    BY <1>7 DEF RejectChunk, Dispatching, IInv, TypeOK, Types
  <2> QED
    BY <1>7, <2>1, SafeDrop DEF RejectChunk
<1>8. ASSUME NEW p \in Procs, AcceptChunk(p)
      PROVE  SafeInv'
  BY <1>8, SafeAccept
<1>9. ASSUME NEW p \in Procs, PoisonTransfer(p)
      PROVE  SafeInv'
  BY <1>9, <1>r, SafeDrop DEF PoisonTransfer
<1>10. ASSUME NEW p \in Procs, RemoveChunkBuffer(p)
       PROVE  SafeInv'
  <2>1. \A q \in Procs : Dispatching(q)' => Dispatching(q) /\ buf'[q] = buf[q]
    BY <1>10 DEF RemoveChunkBuffer, Dispatching, IInv, TypeOK, Types
  <2>2. heap' = Collect(heap, chunkCache', buf')
    BY <1>10 DEF RemoveChunkBuffer
  <2> QED
    BY <2>1, <2>2, SafeDrop
<1>11. ASSUME NEW p \in Procs, Dispatch(p)
       PROVE  SafeInv'
  BY <1>11, SafeDispatch
<1>12. ASSUME runCleanupOnce
       PROVE  SafeInv'
  <2>1. heap' = Collect(heap, chunkCache', buf')
    BY <1>12 DEF runCleanupOnce
  <2> QED
    BY <1>12, <2>1, SafeDrop DEF runCleanupOnce, Dispatching
<1>13. ASSUME Close
       PROVE  SafeInv'
  BY <1>13, SafeFrame DEF Close, Same, Dispatching
<1>14. ASSUME Tick
       PROVE  SafeInv'
  <2>1. \A a \in Addrs : Same(heap'[a], heap[a])
    BY <1>14 DEF Tick, Same, IInv, TypeOK, Types, ChunkBuffer
  <2>2. \A q \in Procs : Dispatching(q)' =>
          Dispatching(q) /\ buf'[q] = buf[q] /\ buf[q] \in Addrs
    BY <1>14 DEF Tick, Dispatching, IInv, TypeOK, Held
  <2> QED
    BY <2>1, <2>2, SafeFrame
<1>15. ASSUME UNCHANGED vars
       PROVE  SafeInv'
  BY <1>15, SafeFrame DEF vars, Same, Dispatching
<1> QED
  BY <1>u, <1>1, <1>2, <1>3, <1>4, <1>5, <1>6, <1>7, <1>8, <1>9, <1>10, <1>11,
     <1>12, <1>13, <1>14, <1>15 DEF Next, Arrive, HandleChunk

(***************************************************************************)
(* The invariant holds of every behaviour.                                 *)
(***************************************************************************)
LEMMA Invariance == Spec => []IInv
<1>1. Init => IInv
  <2> SUFFICES ASSUME Init PROVE IInv
    OBVIOUS
  <2>1. TypeOK
    <3>1. NoObject \in ChunkBuffer
      BY NewBufferType DEF NoObject
    <3> QED
      BY <3>1 DEF Init, TypeOK, Types, Held
  <2>2. \A a \in Addrs : WellFormed(heap[a]) /\ heap[a].runs = 0
    BY NewBufferWellFormed DEF Init, NoObject
  <2>3. \A p \in Procs : ~ Dispatching(p)
    BY DEF Init, Dispatching
  <2> QED
    BY <2>1, <2>2, <2>3
    DEF IInv, SafeInv, Coverage, CompletePayload, DispatchedOnce, DispatchFlag
<1> QED
  BY <1>1, SafeInvStep, PTL DEF Spec

(***************************************************************************)
(* HandleChunk never hands dispatch a payload with a byte missing,         *)
(* whatever frames arrive and however its critical sections interleave.    *)
(***************************************************************************)
THEOREM PayloadsComplete == Spec => []CompletePayload
<1>1. IInv => CompletePayload
  BY DEF IInv, SafeInv
<1> QED
  BY <1>1, Invariance, PTL

(***************************************************************************)
(* HandleChunk dispatches a reassembled buffer at most once.               *)
(***************************************************************************)
THEOREM DispatchesOnce == Spec => []DispatchedOnce
<1>1. IInv => DispatchedOnce
  BY DEF IInv, SafeInv
<1> QED
  BY <1>1, Invariance, PTL

-----------------------------------------------------------------------------

(***************************************************************************)
(* A complete buffer has no room for a range that is new to it.            *)
(***************************************************************************)
LEMMA CompleteIsStable ==
  ASSUME NEW b \in ChunkBuffer, NEW c \in Chunks, WellFormed(b),
         ~ OutOfBounds(b, c), c.length > 0, b.data = 0 .. b.total - 1
  PROVE  Verdict(b, c) # "new"
<1> SUFFICES ASSUME Verdict(b, c) = "new" PROVE FALSE
  OBVIOUS
<1> DEFINE d == Copied(b, c)
<1>1. d \in ChunkBuffer /\ WellFormed(d) /\ d.received = b.received + c.length
  BY CopiedType, CopiedWellFormed
<1>2. d.total = b.total
  <2> DEFINE segs == b.segments \union {[offset |-> c.offset, length |-> c.length]}
             data == b.data \union Bytes(c.offset, c.length)
  <2>1. d = [b EXCEPT !.segments = segs, !.data = data,
                      !.received = b.received + c.length]
    BY DEF Copied
  <2> HIDE DEF segs, data, d
  <2> QED
    BY <2>1 DEF ChunkBuffer
<1> HIDE DEF d
<1>3. d.data \subseteq b.data /\ IsFiniteSet(b.data)
  BY <1>1, <1>2, FullMeansCovered
<1>4. Cardinality(d.data) <= Cardinality(b.data)
  BY <1>3, FS_Subset
<1>5. b.received = Cardinality(b.data) /\ d.received = Cardinality(d.data)
  BY <1>1 DEF WellFormed
<1>6. b.received \in Nat /\ c.length \in Nat
  BY ChunksAssumption DEF ChunkBuffer
<1> QED
  BY <1>1, <1>4, <1>5, <1>6

(***************************************************************************)
(* Nobody writes into a buffer while its payload is dispatched, although   *)
(* dispatch reads it without the lock.                                     *)
(***************************************************************************)
THEOREM PayloadsStable == Spec => PayloadStable
<1> DEFINE Stable(p) ==
             Dispatching(p) /\ Dispatching(p)' =>
               /\ heap'[buf[p]].data = heap[buf[p]].data
               /\ heap'[buf[p]].segments = heap[buf[p]].segments
<1>1. ASSUME IInv, [Next]_vars, NEW p \in Procs PROVE Stable(p)
  <2> SUFFICES ASSUME Dispatching(p), Dispatching(p)'
               PROVE  /\ heap'[buf[p]].data = heap[buf[p]].data
                      /\ heap'[buf[p]].segments = heap[buf[p]].segments
    OBVIOUS
  <2> DEFINE a == buf[p]
             Kept == heap'[a].data = heap[a].data /\ heap'[a].segments = heap[a].segments
  <2>1. a \in Addrs /\ heap \in [Addrs -> ChunkBuffer]
    BY <1>1 DEF IInv, TypeOK, Types, Held, Dispatching
  <2>2. \A cache, held : held[p] = a =>
          Collect(heap, cache, held)[a] = heap[a]
    BY <2>1, CollectLemma DEF Reachable
  <2>3. ASSUME NEW q \in Procs, Return(q) PROVE buf'[p] = a
    BY <1>1, <2>3 DEF Return, Dispatching, IInv, TypeOK, Types
  <2>4. ASSUME NEW q \in Procs, NEW cache, pc[q] = "get", Allocate(q, cache)
        PROVE  Kept
    <3>1. PICK d \in Addrs :
            /\ ~ Reachable(chunkCache, buf, d)
            /\ buf' = [buf EXCEPT ![q] = d]
            /\ heap' = Collect([heap EXCEPT ![d] = NewBuffer(req[q].total)],
                               chunkCache', buf')
      BY <2>4 DEF Allocate
    <3> DEFINE h == [heap EXCEPT ![d] = NewBuffer(req[q].total)]
    <3>2. d # a /\ q # p
      BY <2>4, <3>1 DEF Reachable, Dispatching
    <3>3. req[q].total \in Nat
      BY <1>1, <2>4, ChunksAssumption DEF IInv, TypeOK, Held
    <3>4. h \in [Addrs -> ChunkBuffer] /\ h[a] = heap[a]
      BY <2>1, <3>2, <3>3, NewBufferType
    <3>5. buf'[p] = a
      BY <1>1, <3>1, <3>2 DEF IInv, TypeOK, Types
    <3>6. Reachable(chunkCache', buf', a) /\ heap' = Collect(h, chunkCache', buf')
      BY <3>1, <3>5 DEF Reachable
    <3> HIDE DEF h
    <3>7. heap'[a] = h[a]
      BY <2>1, <3>4, <3>6, CollectLemma
    <3> QED
      BY <3>4, <3>7
  <2>5. ASSUME NEW q \in Procs, AcceptChunk(q) PROVE Kept
    <3> DEFINE n == Copied(heap[buf[q]], req[q])
               done == ClaimsDispatch(n)
               e == [n EXCEPT !.dispatched = @ \/ done]
               h == [heap EXCEPT ![buf[q]] = e]
    <3>1. /\ req[q] \in Chunks /\ buf[q] \in Addrs /\ heap[buf[q]] \in ChunkBuffer
          /\ WellFormed(heap[buf[q]]) /\ pc[q] = "claim"
          /\ ~ OutOfBounds(heap[buf[q]], req[q]) /\ req[q].length > 0
      BY <1>1, <2>1, <2>5
      DEF AcceptChunk, IInv, TypeOK, Held, SafeInv, Coverage
    <3>2. heap' = Collect(h, chunkCache, buf')
      BY <2>5 DEF AcceptChunk
    <3>3. q # p /\ buf'[p] = a
      BY <1>1, <2>5, <3>1 DEF AcceptChunk, Return, Dispatching, IInv, TypeOK, Types
    <3>4. e \in ChunkBuffer
      BY <3>1, AcceptedBuffer
    <3> HIDE DEF e
    <3>5. h \in [Addrs -> ChunkBuffer] /\ Reachable(chunkCache, buf', a)
      BY <2>1, <3>1, <3>3, <3>4 DEF Reachable
    <3>6. heap'[a] = h[a]
      <4> HIDE DEF h
      <4> QED
        BY <2>1, <3>2, <3>5, CollectLemma
    <3>7. CASE buf[q] # a
      BY <2>1, <3>1, <3>6, <3>7
    <3>8. CASE buf[q] = a
      <4>1. heap[a].data = 0 .. heap[a].total - 1
        BY <1>1 DEF IInv, SafeInv, CompletePayload
      <4>2. n = heap[a]
        BY <3>1, <3>8, <4>1, CompleteIsStable DEF Copied
      <4>3. e.data = heap[a].data /\ e.segments = heap[a].segments
        <5> HIDE DEF done
        <5>1. e = [heap[a] EXCEPT !.dispatched = heap[a].dispatched \/ done]
          BY <4>2 DEF e
        <5> QED
          BY <2>1, <5>1 DEF ChunkBuffer
      <4>4. h[a] = e
        BY <2>1, <3>8
      <4> QED
        BY <3>6, <4>3, <4>4
    <3> QED
      BY <3>7, <3>8
  <2>6. ASSUME NEW q \in Procs, Dispatch(q) PROVE Kept
    <3> DEFINE e == [heap[buf[q]] EXCEPT !.runs = @ + 1]
               h == [heap EXCEPT ![buf[q]].runs = @ + 1]
    <3>1. buf[q] \in Addrs
      BY <1>1, <2>6 DEF Dispatch, IInv, TypeOK, Held
    <3>2. buf'[p] = a /\ heap' = Collect(h, chunkCache, buf')
      BY <2>3, <2>6 DEF Dispatch
    <3>3. e \in ChunkBuffer /\ e.data = heap[buf[q]].data
          /\ e.segments = heap[buf[q]].segments
      BY <2>1, <3>1 DEF ChunkBuffer
    <3>4. /\ h \in [Addrs -> ChunkBuffer]
          /\ h[a].data = heap[a].data /\ h[a].segments = heap[a].segments
      BY <2>1, <3>1, <3>3
    <3>5. Reachable(chunkCache, buf', a)
      BY <3>2 DEF Reachable
    <3> HIDE DEF h
    <3>6. heap'[a] = h[a]
      BY <2>1, <3>2, <3>4, <3>5, CollectLemma
    <3> QED
      BY <3>4, <3>6
  <2>7. ASSUME NEW q \in Procs, RejectChunk(q) PROVE Kept
    <3>1. buf'[p] = a
      BY <1>1, <2>7 DEF RejectChunk, Dispatching, IInv, TypeOK, Types
    <3> QED
      BY <2>2, <2>7, <3>1 DEF RejectChunk
  <2>8. ASSUME NEW q \in Procs, ReuseBuffer(q) PROVE Kept
    BY <2>1, <2>8 DEF ReuseBuffer, ChunkBuffer
  <2>9. ASSUME Tick PROVE Kept
    BY <2>1, <2>9 DEF Tick, ChunkBuffer
  <2>10. ASSUME NEW q \in Procs, RefuseTransfer(q) \/ PoisonTransfer(q) PROVE Kept
    <3>1. Return(q) /\ heap' = Collect(heap, chunkCache', buf')
      BY <2>10 DEF RefuseTransfer, PoisonTransfer
    <3> QED
      BY <2>2, <2>3, <3>1
  <2>11. ASSUME NEW q \in Procs, RemoveChunkBuffer(q) PROVE Kept
    BY <2>2, <2>11 DEF RemoveChunkBuffer
  <2>12. ASSUME runCleanupOnce PROVE Kept
    BY <2>2, <2>12 DEF runCleanupOnce
  <2>13. ASSUME UNCHANGED heap PROVE Kept
    BY <2>13
  <2>14. ASSUME NEW q \in Procs, ResetBuffer(q) \/ OpenTransfer(q) PROVE Kept
    BY <2>4, <2>14 DEF ResetBuffer, OpenTransfer
  <2>15. CASE Arrive \/ Close \/ UNCHANGED vars \/ \E q \in Procs : RefuseTotal(q)
    BY <2>13, <2>15 DEF Arrive, IsPoisoned, Close, RefuseTotal, vars
  <2> QED
    BY <1>1, <2>5, <2>6, <2>7, <2>8, <2>9, <2>10, <2>11, <2>12, <2>14, <2>15
    DEF Next, HandleChunk
<1>2. IInv /\ [Next]_vars => [\A p \in Procs : Stable(p)]_vars
  BY <1>1
<1>3. Spec => [][\A p \in Procs : Stable(p)]_vars
  BY <1>2, Invariance, PTL DEF Spec
<1> QED
  BY <1>3 DEF PayloadStable

-----------------------------------------------------------------------------

(***************************************************************************)
(* Removing entries, and replacing one, adds none.                         *)
(***************************************************************************)
LEMMA NoMoreResident ==
  ASSUME NEW S \in SUBSET Ids, NEW T \in SUBSET S, NEW n \in Nat, Cardinality(S) <= n
  PROVE  Cardinality(T) <= n
BY IdsAssumption, FS_Subset, PartWithin

(***************************************************************************)
(* One entry more than a set below the limit stays within the limit.       *)
(***************************************************************************)
LEMMA OneMore ==
  ASSUME NEW S \in SUBSET Ids, NEW id \in Ids, NEW n \in Nat,
         ~ (Cardinality(S) >= n), NEW T \in SUBSET (S \union {id})
  PROVE  Cardinality(T) <= n
BY IdsAssumption, FS_Subset, OneMoreWithin

(***************************************************************************)
(* At most MaxConcurrentTransfers partial transfers are resident: "prune,  *)
(* then refuse" holds the bound in every interleaving, in-place resets     *)
(* included.                                                               *)
(***************************************************************************)
THEOREM TransfersStayBounded == Spec => []TransfersBounded
<1> DEFINE Max == MaxConcurrentTransfers
           Pruned == {id \in Ids : PrunedCache[id] # Nil}
<1>1. Init => TransfersBounded
  <2>1. Init => Resident = {}
    BY DEF Init, Resident
  <2> QED
    BY <2>1, BoundsAssumption, FS_EmptySet DEF TransfersBounded
<1>2. TypeOK /\ TransfersBounded /\ [Next]_vars => TransfersBounded'
  <2> SUFFICES ASSUME TypeOK, TransfersBounded, [Next]_vars
               PROVE  TransfersBounded'
    OBVIOUS
  <2>1. Max \in Nat /\ Resident \in SUBSET Ids /\ Resident' \in SUBSET Ids
    BY BoundsAssumption DEF Resident
  <2>2. Pruned \subseteq Resident
    BY DEF PrunedCache, Resident
  <2>3. Resident' \subseteq Resident => TransfersBounded'
    BY <2>1, NoMoreResident DEF TransfersBounded
  <2>4. ASSUME NEW p \in Procs, ResetBuffer(p) PROVE Resident' \subseteq Resident
    <3>1. PICK a \in Addrs : chunkCache' = [chunkCache EXCEPT ![req[p].id] = a]
      BY <2>4 DEF ResetBuffer, Allocate
    <3> QED
      BY <2>4, <3>1 DEF ResetBuffer, Resident, TypeOK, Types
  <2>5. ASSUME NEW p \in Procs, OpenTransfer(p) PROVE TransfersBounded'
    <3>1. req[p].id \in Ids
      BY <2>5, ChunksAssumption DEF OpenTransfer, TypeOK, Held
    <3>2. CASE ~ Full(Resident) /\ Allocate(p, chunkCache)
      <4>1. Resident' \subseteq Resident \union {req[p].id}
        BY <3>2 DEF Allocate, Resident, TypeOK, Types
      <4> QED
        BY <2>1, <3>1, <3>2, <4>1, OneMore DEF Full, TransfersBounded
    <3>3. CASE ~ Full(Pruned) /\ Allocate(p, PrunedCache)
      <4>1. Resident' \subseteq Pruned \union {req[p].id}
        BY <3>3, PrunedType DEF Allocate, Resident, TypeOK
      <4> QED
        BY <2>1, <3>1, <3>3, <4>1, OneMore DEF Full, TransfersBounded
    <3> QED
      BY <2>5, <3>2, <3>3 DEF OpenTransfer
  <2>6. ASSUME NEW p \in Procs, RefuseTransfer(p) PROVE Resident' \subseteq Resident
    BY <2>2, <2>6 DEF RefuseTransfer, Resident
  <2>7. ASSUME NEW p \in Procs, PoisonTransfer(p) PROVE Resident' \subseteq Resident
    BY <2>7, PrunedType DEF PoisonTransfer, PrunedCache, Resident, TypeOK, Types
  <2>8. ASSUME NEW p \in Procs, RemoveChunkBuffer(p) PROVE Resident' \subseteq Resident
    BY <2>8 DEF RemoveChunkBuffer, Resident, TypeOK, Types
  <2>9. ASSUME runCleanupOnce PROVE Resident' \subseteq Resident
    BY <2>2, <2>9 DEF runCleanupOnce, Resident
  <2>10. ASSUME UNCHANGED chunkCache PROVE Resident' \subseteq Resident
    BY <2>10 DEF Resident
  <2>11. CASE \/ Arrive \/ Close \/ Tick \/ UNCHANGED vars
             \/ \E p \in Procs : \/ RefuseTotal(p) \/ ReuseBuffer(p) \/ RejectChunk(p)
                                 \/ AcceptChunk(p) \/ Dispatch(p)
    <3>1. UNCHANGED chunkCache
      BY <2>11 DEF Arrive, IsPoisoned, Close, Tick, vars, RefuseTotal, ReuseBuffer,
                   RejectChunk, AcceptChunk, Dispatch
    <3> QED
      BY <2>3, <2>10, <3>1
  <2> QED
    BY <2>3, <2>4, <2>5, <2>6, <2>7, <2>8, <2>9, <2>11 DEF Next, HandleChunk
<1>3. Spec => []TypeOK
  <2>1. IInv => TypeOK
    BY DEF IInv
  <2> QED
    BY <2>1, Invariance, PTL
<1> QED
  BY <1>1, <1>2, <1>3, PTL DEF Spec

(***************************************************************************)
(* At most MaxPoisonedTransfers ids are remembered as refused: evicting    *)
(* the oldest makes room for exactly the new one.                          *)
(***************************************************************************)
THEOREM PoisonStaysBounded == Spec => []PoisonBounded
<1> DEFINE Max == MaxPoisonedTransfers
           Entries(f) == {id \in Ids : f[id] # NotPoisoned}
<1>1. Init => PoisonBounded
  <2>1. Init => Refused = {}
    BY DEF Init, Refused
  <2> QED
    BY <2>1, BoundsAssumption, FS_EmptySet DEF PoisonBounded
<1>2. TypeOK /\ PoisonBounded /\ [Next]_vars => PoisonBounded'
  <2> SUFFICES ASSUME TypeOK, PoisonBounded, [Next]_vars
               PROVE  PoisonBounded'
    OBVIOUS
  <2>1. /\ Max \in Nat /\ Refused \in SUBSET Ids /\ Refused' \in SUBSET Ids
        /\ Entries(PrunedPoison) \in SUBSET Ids
    BY BoundsAssumption DEF Refused
  <2>2. Entries(PrunedPoison) \subseteq Refused
    BY DEF PrunedPoison, Refused
  <2>3. Refused' \subseteq Refused => PoisonBounded'
    BY <2>1, NoMoreResident DEF PoisonBounded
  <2>4. ASSUME poisoned' = PrunedPoison \/ UNCHANGED poisoned
        PROVE  Refused' \subseteq Refused
    BY <2>2, <2>4 DEF Refused
  <2>5. ASSUME NEW p \in Procs, PoisonTransfer(p) PROVE PoisonBounded'
    <3> DEFINE id == req[p].id
    <3>1. id \in Ids
      BY <2>5, ChunksAssumption DEF PoisonTransfer, TypeOK, Held
    <3>2. CASE ~ PoisonFull(poisoned) /\ poisoned' = [poisoned EXCEPT ![id] = 0]
      <4>1. Refused' \subseteq Refused \union {id}
        BY <3>2 DEF Refused, TypeOK, Types
      <4>2. ~ (Cardinality(Refused) >= Max)
        BY <3>2 DEF PoisonFull, Refused
      <4> QED
        BY <2>1, <3>1, <4>1, <4>2, OneMore DEF PoisonBounded
    <3>3. CASE ~ PoisonFull(PrunedPoison) /\ poisoned' = [PrunedPoison EXCEPT ![id] = 0]
      <4>1. Refused' \subseteq Entries(PrunedPoison) \union {id}
        BY <3>3, PrunedType DEF Refused, TypeOK
      <4>2. ~ (Cardinality(Entries(PrunedPoison)) >= Max)
        BY <3>3 DEF PoisonFull
      <4> QED
        BY <2>1, <3>1, <4>1, <4>2, OneMore DEF PoisonBounded
    <3>4. ASSUME NEW old \in Oldest(PrunedPoison),
                 poisoned' = [Evicted(PrunedPoison, old) EXCEPT ![id] = 0]
          PROVE  PoisonBounded'
      <4> DEFINE S == Entries(PrunedPoison)
                 T == S \ {old}
      <4>1. old \in Ids /\ old \in S
        BY <3>4 DEF Oldest
      <4>2. Refused' \subseteq T \union {id}
        BY <3>1, <3>4, <4>1, PrunedType DEF Refused, TypeOK, Evicted
      <4>3. Cardinality(S) <= Max /\ IsFiniteSet(S)
        BY <2>1, <2>2, NoMoreResident, IdsAssumption, FS_Subset DEF PoisonBounded
      <4>4. T \in SUBSET Ids
        OBVIOUS
      <4> HIDE DEF S
      <4>5. Cardinality(T) = Cardinality(S) - 1 /\ Cardinality(S) \in Nat
        BY <4>1, <4>3, FS_RemoveElement, FS_CardinalityType
      <4>6. ~ (Cardinality(T) >= Max)
        BY <2>1, <4>3, <4>5
      <4> HIDE DEF T
      <4> QED
        BY <2>1, <3>1, <4>2, <4>4, <4>6, OneMore DEF PoisonBounded
    <3> QED
      BY <2>5, <3>2, <3>3, <3>4 DEF PoisonTransfer
  <2>6. ASSUME NEW p \in Procs, NEW c \in Chunks, IsPoisoned(p, c)
        PROVE  Refused' \subseteq Refused
    BY <2>6 DEF IsPoisoned, Refused, TypeOK, Types
  <2>7. ASSUME Tick PROVE Refused' \subseteq Refused
    BY <2>7 DEF Tick, Refused
  <2>8. CASE \/ Close \/ runCleanupOnce \/ UNCHANGED vars
            \/ \E p \in Procs : \/ RefuseTotal(p) \/ ReuseBuffer(p) \/ RejectChunk(p)
                                \/ AcceptChunk(p) \/ Dispatch(p) \/ RemoveChunkBuffer(p)
                                \/ ResetBuffer(p) \/ OpenTransfer(p) \/ RefuseTransfer(p)
    <3>1. poisoned' = PrunedPoison \/ UNCHANGED poisoned
      BY <2>8 DEF Close, runCleanupOnce, vars, RefuseTotal, ReuseBuffer, RejectChunk,
                  AcceptChunk, Dispatch, RemoveChunkBuffer, ResetBuffer, OpenTransfer,
                  RefuseTransfer
    <3> QED
      BY <2>3, <2>4, <3>1
  <2> QED
    BY <2>3, <2>5, <2>6, <2>7, <2>8 DEF Next, Arrive, HandleChunk
<1>3. Spec => []TypeOK
  <2>1. IInv => TypeOK
    BY DEF IInv
  <2> QED
    BY <2>1, Invariance, PTL
<1> QED
  BY <1>1, <1>2, <1>3, PTL DEF Spec

\* Both maps of the ChunkManager stay within their limits.
THEOREM MemoryStaysBounded == Spec => []MemoryBounded
<1>1. TransfersBounded /\ PoisonBounded => MemoryBounded
  BY DEF MemoryBounded
<1> QED
  BY <1>1, TransfersStayBounded, PoisonStaysBounded, PTL
=============================================================================
