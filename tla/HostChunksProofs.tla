-------------------------- MODULE HostChunksProofs --------------------------
(***************************************************************************)
(* Proofs about HostChunks, for every set of ids and frames, every word    *)
(* size and every limit: the registry writes in bounds, hands over only    *)
(* complete payloads, keeps poisoned transfers closed and its two maps     *)
(* bounded, and implements the contract of a receiver.                     *)
(***************************************************************************)
EXTENDS GuestTransfer, SetLemmas, FiniteSetTheorems, TLAPS

(***************************************************************************)
(* The bookkeeping ClaimChunkSegment and HandleChunk keep for an entry: the*)
(* recorded ranges are non-empty, inside the buffer and disjoint, the      *)
(* bytes written are exactly theirs, and receivedSize counts each once.    *)
(***************************************************************************)
WellFormed(m) ==
  /\ \A s \in m.segments : s.length > 0 /\ s.offset + s.length <= m.total
  /\ \A s, t \in m.segments :
       s # t => \/ s.offset + s.length <= t.offset
                \/ t.offset + t.length <= s.offset
  /\ m.data = UNION {Bytes(s.offset, s.length) : s \in m.segments}
  /\ m.received = Cardinality(m.data)

Coverage == \A id \in Ids : WellFormed(partials[id])

(***************************************************************************)
(* An entry in the registry still misses a byte: the step that writes the  *)
(* last one removes it.                                                    *)
(***************************************************************************)
Unfinished ==
  \A id \in Ids : partials[id] # Absent => partials[id].received # partials[id].total

(***************************************************************************)
(* The inductive invariant.                                                *)
(***************************************************************************)
SafeInv == Coverage /\ Unfinished /\ HandedComplete

IInv == HostTypeOK /\ SafeInv

(***************************************************************************)
(* The invariants are proved of any frame of the wire's types, so that     *)
(* they hold of every module whose steps handle frames: HostChunks with    *)
(* its Frames, and GuestTransfer with the frames its senders build.        *)
(***************************************************************************)
HostStep ==
  \/ \E c \in Frame : HandleChunk(c)
  \/ CleanupStaleChunks
  \/ Unload
  \/ Tick
  \/ NoHandling

-----------------------------------------------------------------------------

(***************************************************************************)
(* A fresh entry is an entry, and well formed.                             *)
(***************************************************************************)
LEMMA NewPartialOK ==
  ASSUME NEW total \in UInt32
  PROVE  NewPartial(total) \in PartialMessage /\ WellFormed(NewPartial(total))
<1>1. Cardinality({}) = 0
  BY FS_EmptySet
<1>2. NewPartial(total) \in PartialMessage
  BY LimitsAssumption DEF NewPartial, PartialMessage, Ages
<1> QED
  BY <1>1, <1>2 DEF WellFormed, NewPartial

LEMMA AbsentOK == Absent \in PartialMessage /\ WellFormed(Absent)
<1>1. 0 \in UInt32
  BY LimitsAssumption DEF UInt32
<1> QED
  BY <1>1, NewPartialOK DEF Absent

(***************************************************************************)
(* Pruning keeps an entry or drops it.                                     *)
(***************************************************************************)
LEMMA PrunedOK ==
  ASSUME NEW entries \in [Ids -> PartialMessage],
         NEW ages \in [Ids -> Ages \union {NotPoisoned}]
  PROVE  /\ PrunedPartials(entries) \in [Ids -> PartialMessage]
         /\ PrunedPoisoned(ages) \in [Ids -> Ages \union {NotPoisoned}]
         /\ \A id \in Ids : PrunedPartials(entries)[id] \in {entries[id], Absent}
         /\ \A id \in Ids : PrunedPoisoned(ages)[id] \in {ages[id], NotPoisoned}
BY AbsentOK DEF PrunedPartials, PrunedPoisoned

(***************************************************************************)
(* So does what Admit does to the entries of other ids.                    *)
(***************************************************************************)
LEMMA SweptOK ==
  ASSUME HostTypeOK, NEW c \in Frame
  PROVE  /\ SweptPartials(c) \in [Ids -> PartialMessage]
         /\ SweptPoisoned(c) \in [Ids -> Ages \union {NotPoisoned}]
         /\ \A id \in Ids : SweptPartials(c)[id] \in {partials[id], Absent}
         /\ \A id \in Ids : SweptPoisoned(c)[id] \in {poisoned[id], NotPoisoned}
<1>1. c.id \in Ids
  BY DEF Frame
<1> QED
  BY <1>1, PrunedOK DEF SweptPartials, SweptPoisoned, HostTypeOK

(***************************************************************************)
(* The entry Admit hands out is an entry: a fresh one, or the one it found *)
(* with a new stamp.                                                       *)
(***************************************************************************)
LEMMA EntryOK ==
  ASSUME HostTypeOK, Coverage, NEW c \in Frame
  PROVE  /\ Entry(c) \in PartialMessage
         /\ WellFormed(Entry(c))
         /\ partials[c.id] # Absent =>
              /\ Entry(c).total = partials[c.id].total
              /\ Entry(c).received = partials[c.id].received
              /\ Entry(c).segments = partials[c.id].segments
              /\ Entry(c).data = partials[c.id].data
         /\ partials[c.id] = Absent => Entry(c) = NewPartial(c.total)
<1>1. c.id \in Ids /\ c.total \in UInt32
  BY DEF Frame
<1>2. CASE partials[c.id] = Absent
  BY <1>1, <1>2, NewPartialOK DEF Entry
<1>3. CASE partials[c.id] # Absent
  <2> DEFINE m == partials[c.id]
             e == [m EXCEPT !.age = 0]
  <2>1. m \in PartialMessage /\ WellFormed(m) /\ Entry(c) = e
    BY <1>1, <1>3 DEF HostTypeOK, Coverage, Entry
  <2> HIDE DEF m
  <2>2. /\ e \in PartialMessage
        /\ e.total = m.total /\ e.received = m.received
        /\ e.segments = m.segments /\ e.data = m.data
    BY <2>1, LimitsAssumption DEF PartialMessage, Ages
  <2> HIDE DEF e
  <2>3. WellFormed(e)
    BY <2>1, <2>2 DEF WellFormed
  <2> QED
    BY <1>3, <2>1, <2>2, <2>3 DEF m
<1> QED
  BY <1>2, <1>3

(***************************************************************************)
(* Recording a chunk yields an entry.                                      *)
(***************************************************************************)
LEMMA ReceivedType ==
  ASSUME NEW m \in PartialMessage, NEW c \in Frame
  PROVE  /\ Received(m, c) \in PartialMessage
         /\ Received(m, c).total = m.total
         /\ ClaimChunkSegment(m, c) = "New" =>
              /\ Received(m, c).segments
                   = m.segments \union {[offset |-> c.offset, length |-> c.length]}
              /\ Received(m, c).data = m.data \union Bytes(c.offset, c.length)
              /\ Received(m, c).received = m.received + c.length
<1>1. c.offset \in Nat /\ c.length \in Nat
  BY DEF Frame, UInt32
<1>2. [offset |-> c.offset, length |-> c.length] \in Segment
  BY DEF Frame, Segment
<1>3. Bytes(c.offset, c.length) \subseteq Nat
  BY <1>1 DEF Bytes
<1>4. CASE ClaimChunkSegment(m, c) = "New"
  <2> DEFINE segs == m.segments \union {[offset |-> c.offset, length |-> c.length]}
             data == m.data \union Bytes(c.offset, c.length)
             recv == m.received + c.length
  <2>1. segs \in SUBSET Segment /\ data \in SUBSET Nat /\ recv \in Nat
    BY <1>1, <1>2, <1>3 DEF PartialMessage
  <2>2. Received(m, c) = [m EXCEPT !.segments = segs, !.data = data, !.received = recv]
    BY <1>4 DEF Received
  <2> HIDE DEF segs, data, recv
  <2>3. /\ Received(m, c) \in PartialMessage
        /\ Received(m, c).total = m.total
        /\ Received(m, c).segments = segs
        /\ Received(m, c).data = data
        /\ Received(m, c).received = recv
    BY <2>1, <2>2 DEF PartialMessage
  <2> QED
    BY <2>3 DEF segs, data, recv
<1> QED
  BY <1>4 DEF Received

-----------------------------------------------------------------------------

(***************************************************************************)
(* ClaimChunkSegment compares a range with its two neighbours in the map   *)
(* only.  Among disjoint ranges that is enough: one it calls New overlaps  *)
(* none, is not empty and lies inside the buffer, for any 32-bit values.   *)
(***************************************************************************)
LEMMA NewIsDisjoint ==
  ASSUME NEW m \in PartialMessage, WellFormed(m), NEW c \in Frame,
         ClaimChunkSegment(m, c) = "New"
  PROVE  /\ c.length > 0 /\ c.offset + c.length <= m.total
         /\ \A s \in m.segments :
              s.offset + s.length <= c.offset \/ c.offset + c.length <= s.offset
<1> DEFINE segments == m.segments
           first == c.offset
           count == c.length
<1>1. /\ first \in Nat /\ count \in Nat /\ m.total \in Nat
      /\ \A t \in segments : t.offset \in Nat /\ t.length \in Nat
  BY DEF Frame, UInt32, PartialMessage, Segment
<1>2. /\ ~ OutOfBounds(m.total, first, count)
      /\ count # 0
      /\ ~ \E s \in segments : s.offset = first
      /\ ~ \E s \in Neighbours(segments, first) : Intersects(s, first, count)
  BY DEF ClaimChunkSegment
<1>3. count > 0 /\ first + count <= m.total
  BY <1>1, <1>2 DEF OutOfBounds
<1>4. ASSUME NEW s \in segments
      PROVE  s.offset + s.length <= first \/ first + count <= s.offset
  <2>1. \A t \in segments : t # s => \/ s.offset + s.length <= t.offset
                                     \/ t.offset + t.length <= s.offset
    BY DEF WellFormed
  <2>2. \A t \in segments : t.length > 0
    BY DEF WellFormed
  <2> HIDE DEF segments, first, count
  <2>3. CASE s.offset < first
    <3> DEFINE gaps == {first - t.offset : t \in {u \in segments : u.offset < first}}
    <3>1. gaps \in SUBSET Nat /\ gaps # {}
      <4>1. \A t \in segments : t.offset < first => first - t.offset \in Nat
        BY <1>1
      <4>2. first - s.offset \in gaps
        BY <2>3
      <4> QED
        BY <4>1, <4>2
    <3>2. PICK n \in gaps : \A k \in gaps : n <= k
      <4> HIDE DEF gaps
      <4> QED
        BY <3>1, LeastNatural
    <3>3. PICK t \in segments : t.offset < first /\ n = first - t.offset
      OBVIOUS
    <3>4. ASSUME NEW u \in segments, u.offset < first PROVE u.offset <= t.offset
      <4>1. first - u.offset \in gaps
        BY <3>4
      <4>2. first - t.offset <= first - u.offset
        BY <3>2, <3>3, <4>1
      <4> QED
        BY <1>1, <4>2
    <3>5. t \in Neighbours(segments, first)
      BY <3>3, <3>4 DEF Neighbours
    <3>6. t.offset + t.length <= first
      BY <1>1, <1>2, <3>3, <3>5 DEF Intersects
    <3>7. s.offset <= t.offset
      BY <2>3, <3>4
    <3> QED
      BY <1>1, <2>1, <2>2, <3>6, <3>7
  <2>4. CASE s.offset > first
    <3> DEFINE starts == {t.offset : t \in {u \in segments : u.offset > first}}
    <3>1. starts \in SUBSET Nat /\ starts # {}
      BY <1>1, <2>4
    <3>2. PICK n \in starts : \A k \in starts : n <= k
      <4> HIDE DEF starts
      <4> QED
        BY <3>1, LeastNatural
    <3>3. PICK t \in segments : t.offset > first /\ n = t.offset
      OBVIOUS
    <3>4. \A u \in segments : u.offset > first => u.offset >= t.offset
      BY <1>1, <3>2, <3>3
    <3>5. t \in Neighbours(segments, first)
      BY <3>3, <3>4 DEF Neighbours
    <3>6. first + count <= t.offset
      BY <1>1, <1>2, <3>3, <3>5 DEF Intersects
    <3> QED
      BY <1>1, <2>4, <3>4, <3>6
  <2> QED
    BY <1>1, <1>2, <2>3, <2>4
<1> QED
  BY <1>3, <1>4

(***************************************************************************)
(* A well-formed entry has written no byte outside its buffer, and all of  *)
(* them exactly when receivedSize reaches totalSize.                       *)
(***************************************************************************)
LEMMA FullMeansCovered ==
  ASSUME NEW m \in PartialMessage, WellFormed(m)
  PROVE  /\ m.data \subseteq 0 .. m.total - 1
         /\ IsFiniteSet(m.data)
         /\ m.received = m.total <=> m.data = 0 .. m.total - 1
<1>1. m.total \in Nat /\ m.segments \in SUBSET Segment
  BY DEF PartialMessage, UInt32
<1>2. m.data \subseteq 0 .. m.total - 1
  <2> SUFFICES ASSUME NEW i \in m.data PROVE i \in 0 .. m.total - 1
    OBVIOUS
  <2>1. PICK s \in m.segments : i \in Bytes(s.offset, s.length)
    BY DEF WellFormed
  <2>2. s.offset \in Nat /\ s.length \in Nat /\ s.offset + s.length <= m.total
    BY <1>1 DEF WellFormed, Segment, UInt32
  <2> QED
    BY <1>1, <2>1, <2>2 DEF Bytes
<1>3. IsFiniteSet(0 .. m.total - 1) /\ Cardinality(0 .. m.total - 1) = m.total
  <2>1. 0 .. 0 + m.total - 1 = 0 .. m.total - 1
    BY <1>1
  <2> QED
    BY <1>1, <2>1, IntervalCount
<1>4. /\ IsFiniteSet(m.data)
      /\ Cardinality(0 .. m.total - 1) = Cardinality(m.data)
           => 0 .. m.total - 1 = m.data
  BY <1>2, <1>3, FS_Subset
<1> QED
  BY <1>2, <1>3, <1>4 DEF WellFormed

(***************************************************************************)
(* Recording a chunk that ClaimChunkSegment calls New adds bytes that were *)
(* missing, and keeps the entry well formed.                               *)
(***************************************************************************)
LEMMA ReceivedOK ==
  ASSUME NEW m \in PartialMessage, WellFormed(m), NEW c \in Frame,
         ClaimChunkSegment(m, c) = "New"
  PROVE  /\ WellFormed(Received(m, c))
         /\ Bytes(c.offset, c.length) # {}
         /\ Bytes(c.offset, c.length) \subseteq 0 .. m.total - 1
         /\ Bytes(c.offset, c.length) \intersect m.data = {}
<1> DEFINE new == [offset |-> c.offset, length |-> c.length]
           segs == m.segments \union {new}
           range == Bytes(c.offset, c.length)
           data == m.data \union range
           d == Received(m, c)
<1>1. c.offset \in Nat /\ c.length \in Nat
  BY DEF Frame, UInt32
<1>2. /\ m.total \in Nat /\ m.received \in Nat
      /\ m.segments \in SUBSET Segment /\ m.data \in SUBSET Nat
      /\ \A s \in m.segments : s.offset \in Nat /\ s.length \in Nat
  BY DEF PartialMessage, Segment, UInt32
<1>3. /\ d.total = m.total /\ d.segments = segs /\ d.data = data
      /\ d.received = m.received + c.length
  BY ReceivedType
<1>4. /\ c.length > 0 /\ c.offset + c.length <= m.total
      /\ \A s \in m.segments :
           s.offset + s.length <= c.offset \/ c.offset + c.length <= s.offset
  BY NewIsDisjoint
<1>5. \A s \in segs : s.length > 0 /\ s.offset + s.length <= m.total
  BY <1>1, <1>2, <1>4 DEF WellFormed
<1>6. \A s, t \in segs :
        s # t => s.offset + s.length <= t.offset \/ t.offset + t.length <= s.offset
  BY <1>1, <1>2, <1>4 DEF WellFormed
<1>7. data = UNION {Bytes(s.offset, s.length) : s \in segs}
  <2>1. m.data = UNION {Bytes(s.offset, s.length) : s \in m.segments}
    BY DEF WellFormed
  <2>2. range = Bytes(new.offset, new.length)
    OBVIOUS
  <2> HIDE DEF new, range
  <2> QED
    BY <2>1, <2>2, Zenon
<1>8. m.data \intersect range = {}
  <2> SUFFICES ASSUME NEW i \in m.data, i \in range PROVE FALSE
    OBVIOUS
  <2>1. PICK s \in m.segments : i \in Bytes(s.offset, s.length)
    BY DEF WellFormed
  <2> QED
    BY <1>1, <1>2, <1>4, <2>1 DEF Bytes
<1>9. Cardinality(data) = m.received + c.length
  <2>1. IsFiniteSet(range) /\ Cardinality(range) = c.length
    BY <1>1, IntervalCount DEF Bytes
  <2>2. IsFiniteSet(m.data) /\ Cardinality(m.data) = m.received
    BY FullMeansCovered DEF WellFormed
  <2>3. Cardinality(m.data \union range)
          = Cardinality(m.data) + Cardinality(range) - Cardinality(m.data \intersect range)
    BY <2>1, <2>2, FS_Union
  <2>4. Cardinality(m.data \intersect range) = 0
    BY <1>8, FS_EmptySet
  <2> QED
    BY <1>1, <1>2, <2>1, <2>2, <2>3, <2>4
<1>10. range # {} /\ range \subseteq 0 .. m.total - 1
  BY <1>1, <1>2, <1>4 DEF Bytes
<1>11. WellFormed(d)
  <2> HIDE DEF segs, data, d
  <2> QED
    BY <1>3, <1>5, <1>6, <1>7, <1>9 DEF WellFormed
<1> QED
  BY <1>8, <1>10, <1>11

-----------------------------------------------------------------------------

\* d is m, its time stamp aside.
Same(d, m) ==
  /\ d.total = m.total /\ d.received = m.received
  /\ d.segments = m.segments /\ d.data = m.data

\* A step keeps the entry of id or drops it.
KeepsOrDrops(id) ==
  partials'[id] = Absent \/ (partials[id] # Absent /\ Same(partials'[id], partials[id]))

(***************************************************************************)
(* The two shapes of a step: it writes no byte and hands nothing over, or  *)
(* it records frame c as New.                                              *)
(***************************************************************************)
Quiet == handed' = Nothing /\ \A id \in Ids : KeepsOrDrops(id)

Writes(c) ==
  LET m == Received(Entry(c), c)
  IN  /\ ClaimChunkSegment(Entry(c), c) = "New"
      /\ partials[c.id] = Absent => c.total # 0
      /\ \A id \in Ids \ {c.id} : KeepsOrDrops(id)
      /\ partials'[c.id] = LeftAfter(c)
      /\ handed' = IF Completes(c) THEN [id |-> c.id, total |-> m.total, data |-> m.data]
                   ELSE Nothing

(***************************************************************************)
(* The type invariant is inductive.                                        *)
(***************************************************************************)
LEMMA TypeStep == HostTypeOK /\ Coverage /\ [HostStep]_hostVars => HostTypeOK'
<1> SUFFICES ASSUME HostTypeOK, Coverage, [HostStep]_hostVars PROVE HostTypeOK'
  OBVIOUS
<1>0. /\ 0 \in UInt32 /\ 0 \in Ages
      /\ Nothing \in [id : Ids \union {None}, total : UInt32, data : SUBSET Nat]
  BY LimitsAssumption DEF UInt32, Ages, Nothing
<1>1. ASSUME RefuseUnloading \/ NoHandling PROVE HostTypeOK'
  BY <1>0, <1>1 DEF RefuseUnloading, NoHandling, HostTypeOK
<1>2. ASSUME NEW c \in Frame, RefuseAdmission(c) PROVE HostTypeOK'
  BY <1>0, <1>2, SweptOK DEF RefuseAdmission, HostTypeOK
<1>3. ASSUME NEW c \in Frame, RejectChunk(c) PROVE HostTypeOK'
  <2> DEFINE entries == SweptPartials(c)
             ages == SweptPoisoned(c)
  <2>1. /\ entries \in [Ids -> PartialMessage]
        /\ ages \in [Ids -> Ages \union {NotPoisoned}]
        /\ c.id \in Ids
    BY SweptOK DEF Frame
  <2>2. Poison(c.id, entries, ages) /\ handed' = Nothing /\ UNCHANGED unloading
    BY <1>3 DEF RejectChunk
  <2> HIDE DEF entries, ages
  <2>3. /\ partials' \in [Ids -> PartialMessage]
        /\ poisoned' \in [Ids -> Ages \union {NotPoisoned}]
    <3> DEFINE pruned == PrunedPoisoned(ages)
    <3>1. /\ PrunedPartials(entries) \in [Ids -> PartialMessage]
          /\ pruned \in [Ids -> Ages \union {NotPoisoned}]
      BY <2>1, PrunedOK
    <3>2. \A old \in Ids : Evicted(pruned, old) \in [Ids -> Ages \union {NotPoisoned}]
      BY <3>1 DEF Evicted
    <3>3. /\ \/ partials' = [entries EXCEPT ![c.id] = Absent]
             \/ partials' = [PrunedPartials(entries) EXCEPT ![c.id] = Absent]
          /\ \/ poisoned' = [ages EXCEPT ![c.id] = 0]
             \/ poisoned' = [pruned EXCEPT ![c.id] = 0]
             \/ \E old \in Ids : poisoned' = [Evicted(pruned, old) EXCEPT ![c.id] = 0]
      BY <2>2 DEF Poison, Oldest, Refused
    <3> HIDE DEF pruned
    <3> QED
      BY <1>0, <2>1, <3>1, <3>2, <3>3, AbsentOK
  <2> QED
    BY <1>0, <2>2, <2>3 DEF HostTypeOK
<1>4. ASSUME NEW c \in Frame, AcceptChunk(c) PROVE HostTypeOK'
  <2> DEFINE m == Received(Entry(c), c)
  <2>1. m \in PartialMessage /\ c.id \in Ids
    BY EntryOK, ReceivedType DEF Frame
  <2>2. LeftAfter(c) \in PartialMessage
    BY <2>1, AbsentOK DEF LeftAfter
  <2>3. /\ partials' = [SweptPartials(c) EXCEPT ![c.id] = LeftAfter(c)]
        /\ poisoned' = SweptPoisoned(c)
        /\ handed' = IF Completes(c) THEN [id |-> c.id, total |-> m.total, data |-> m.data]
                     ELSE Nothing
        /\ UNCHANGED unloading
    BY <1>4 DEF AcceptChunk
  <2> HIDE DEF m
  <2>4. handed' \in [id : Ids \union {None}, total : UInt32, data : SUBSET Nat]
    BY <1>0, <2>1, <2>3 DEF PartialMessage
  <2> QED
    BY <2>2, <2>3, <2>4, SweptOK DEF HostTypeOK
<1>5. ASSUME CleanupStaleChunks PROVE HostTypeOK'
  BY <1>0, <1>5, PrunedOK DEF CleanupStaleChunks, HostTypeOK
<1>6. ASSUME Unload PROVE HostTypeOK'
  BY <1>0, <1>6 DEF Unload, HostTypeOK
<1>7. ASSUME Tick PROVE HostTypeOK'
  <2>1. \A g \in Ages : Older(g) \in Ages
    BY LimitsAssumption DEF Older, Ages
  <2>2. \A id \in Ids : [partials[id] EXCEPT !.age = Older(@)] \in PartialMessage
    BY <2>1 DEF HostTypeOK, PartialMessage
  <2>3. partials' \in [Ids -> PartialMessage]
    BY <1>7, <2>2, AbsentOK DEF Tick
  <2>4. poisoned' \in [Ids -> Ages \union {NotPoisoned}]
    BY <1>7, <2>1 DEF Tick, HostTypeOK
  <2> QED
    BY <1>0, <1>7, <2>3, <2>4 DEF Tick, HostTypeOK
<1>8. ASSUME UNCHANGED hostVars PROVE HostTypeOK'
  BY <1>8 DEF hostVars, HostTypeOK
<1> QED
  BY <1>1, <1>2, <1>3, <1>4, <1>5, <1>6, <1>7, <1>8 DEF HostStep, HandleChunk

(***************************************************************************)
(* Every step has one of the two shapes.                                   *)
(***************************************************************************)
LEMMA StepShapes ==
  ASSUME IInv, HostStep
  PROVE  Quiet \/ \E c \in Frame : Writes(c)
<1> USE DEF IInv, SafeInv
<1>1. ASSUME NEW entries, \A id \in Ids : entries[id] \in {partials[id], Absent},
             \A id \in Ids : partials'[id] \in {entries[id], Absent}
      PROVE  \A id \in Ids : KeepsOrDrops(id)
  BY <1>1 DEF KeepsOrDrops, Same
<1>2. ASSUME RefuseUnloading \/ Unload \/ NoHandling PROVE Quiet
  BY <1>2 DEF RefuseUnloading, Unload, NoHandling, Quiet, KeepsOrDrops, Same
<1>3. ASSUME NEW c \in Frame, RefuseAdmission(c) PROVE Quiet
  BY <1>1, <1>3, SweptOK DEF RefuseAdmission, Quiet
<1>4. ASSUME NEW c \in Frame, RejectChunk(c) PROVE Quiet
  <2> DEFINE entries == SweptPartials(c)
  <2>1. /\ entries \in [Ids -> PartialMessage]
        /\ \A id \in Ids : entries[id] \in {partials[id], Absent}
        /\ c.id \in Ids
    BY SweptOK DEF Frame
  <2>2. SweptPoisoned(c) \in [Ids -> Ages \union {NotPoisoned}]
    BY SweptOK
  <2>3. /\ \/ partials' = [entries EXCEPT ![c.id] = Absent]
           \/ partials' = [PrunedPartials(entries) EXCEPT ![c.id] = Absent]
        /\ handed' = Nothing
    BY <1>4 DEF RejectChunk, Poison
  <2> HIDE DEF entries
  <2>4. \A id \in Ids : partials'[id] \in {entries[id], Absent}
    BY <2>1, <2>2, <2>3, PrunedOK
  <2> QED
    BY <1>1, <2>1, <2>3, <2>4 DEF Quiet
<1>5. ASSUME NEW c \in Frame, AcceptChunk(c) PROVE Quiet \/ Writes(c)
  <2> DEFINE e == Entry(c)
  <2>1. /\ c.id \in Ids
        /\ SweptPartials(c) \in [Ids -> PartialMessage]
        /\ \A id \in Ids : SweptPartials(c)[id] \in {partials[id], Absent}
    BY SweptOK DEF Frame
  <2>2. /\ partials' = [SweptPartials(c) EXCEPT ![c.id] = LeftAfter(c)]
        /\ handed' = IF Completes(c)
                     THEN [id |-> c.id, total |-> Received(e, c).total,
                           data |-> Received(e, c).data]
                     ELSE Nothing
        /\ Admits(c) /\ ~ Violates(c)
    BY <1>5 DEF AcceptChunk, Accepts
  <2>3. /\ partials'[c.id] = LeftAfter(c)
        /\ \A id \in Ids \ {c.id} : KeepsOrDrops(id)
    BY <2>1, <2>2 DEF KeepsOrDrops, Same
  <2>4. CASE ClaimChunkSegment(e, c) = "New"
    <3>1. partials[c.id] = Absent => c.total # 0
      BY <2>2 DEF Admits, WantsEntry
    <3> QED
      BY <2>2, <2>3, <2>4, <3>1 DEF Writes
  <2>5. CASE ClaimChunkSegment(e, c) # "New"
    <3>1. ClaimChunkSegment(e, c) = "Duplicate"
      BY <2>2, <2>5 DEF Violates, ClaimChunkSegment
    <3>2. \E s \in e.segments : s.offset = c.offset
      BY <3>1 DEF ClaimChunkSegment
    <3>3. partials[c.id] # Absent
      BY <3>2, EntryOK DEF NewPartial
    <3>4. Same(e, partials[c.id])
      BY <3>3, EntryOK DEF Same
    <3>5. Received(e, c) = e
      BY <2>5 DEF Received
    <3>6. ~ Completes(c)
      BY <2>1, <3>3, <3>4, <3>5 DEF Completes, Unfinished, Same
    <3>7. partials'[c.id] = e /\ handed' = Nothing
      BY <2>2, <2>3, <3>5, <3>6 DEF LeftAfter
    <3> QED
      BY <2>3, <3>3, <3>4, <3>7 DEF Quiet, KeepsOrDrops
  <2> QED
    BY <2>4, <2>5
<1>6. ASSUME CleanupStaleChunks PROVE Quiet
  BY <1>1, <1>6, PrunedOK DEF CleanupStaleChunks, Quiet, HostTypeOK
<1>7. ASSUME Tick PROVE Quiet
  <2>1. \A id \in Ids : Same([partials[id] EXCEPT !.age = Older(@)], partials[id])
    BY DEF Same, HostTypeOK, PartialMessage
  <2> QED
    BY <1>7, <2>1 DEF Tick, Quiet, KeepsOrDrops
<1> QED
  BY <1>2, <1>3, <1>4, <1>5, <1>6, <1>7 DEF HostStep, HandleChunk

(***************************************************************************)
(* A step that keeps or drops an entry keeps what is known of it.          *)
(***************************************************************************)
LEMMA KeptSafe ==
  ASSUME IInv, HostTypeOK', NEW id \in Ids, KeepsOrDrops(id)
  PROVE  /\ WellFormed(partials'[id])
         /\ partials'[id] # Absent => partials'[id].received # partials'[id].total
<1>1. CASE partials'[id] = Absent
  BY <1>1, AbsentOK
<1>2. CASE partials[id] # Absent /\ Same(partials'[id], partials[id])
  BY <1>2 DEF IInv, SafeInv, Coverage, Unfinished, WellFormed, Same
<1> QED
  BY <1>1, <1>2 DEF KeepsOrDrops

(***************************************************************************)
(* What is known of the entry a frame is recorded in.                      *)
(***************************************************************************)
LEMMA WriteSafe ==
  ASSUME IInv, NEW c \in Frame, Writes(c)
  PROVE  LET e == Entry(c)
             m == Received(e, c)
         IN  /\ c.id \in Ids
             /\ e \in PartialMessage /\ m \in PartialMessage
             /\ WellFormed(m)
             /\ m.total = e.total /\ m.total # 0
             /\ m.data = e.data \union Bytes(c.offset, c.length)
             /\ Bytes(c.offset, c.length) # {}
             /\ Bytes(c.offset, c.length) \subseteq 0 .. m.total - 1
             /\ Bytes(c.offset, c.length) \intersect e.data = {}
             /\ Completes(c) <=> m.data = 0 .. m.total - 1
<1> DEFINE e == Entry(c)
           m == Received(e, c)
<1>1. e \in PartialMessage /\ WellFormed(e) /\ ClaimChunkSegment(e, c) = "New"
  BY EntryOK DEF IInv, SafeInv, Writes
<1>2. /\ m \in PartialMessage /\ m.total = e.total
      /\ m.data = e.data \union Bytes(c.offset, c.length)
  BY <1>1, ReceivedType
<1>3. /\ WellFormed(m)
      /\ Bytes(c.offset, c.length) # {}
      /\ Bytes(c.offset, c.length) \subseteq 0 .. e.total - 1
      /\ Bytes(c.offset, c.length) \intersect e.data = {}
  BY <1>1, ReceivedOK
<1>4. m.total # 0
  <2>1. 0 .. e.total - 1 # {} /\ e.total \in Nat
    BY <1>1, <1>3 DEF PartialMessage, UInt32
  <2> QED
    BY <1>2, <2>1
<1>5. Completes(c) <=> m.data = 0 .. m.total - 1
  <2>1. Completes(c) <=> m.received = m.total
    BY <1>2 DEF Completes
  <2> HIDE DEF m
  <2> QED
    BY <1>2, <1>3, <2>1, FullMeansCovered
<1> QED
  BY <1>1, <1>2, <1>3, <1>4, <1>5 DEF Frame

LEMMA SafeStep == IInv /\ [HostStep]_hostVars => IInv'
<1> SUFFICES ASSUME IInv, [HostStep]_hostVars PROVE IInv'
  OBVIOUS
<1>1. HostTypeOK'
  BY TypeStep DEF IInv, SafeInv
<1>2. CASE UNCHANGED hostVars
  BY <1>1, <1>2 DEF hostVars, IInv, SafeInv, Coverage, Unfinished, HandedComplete
<1>3. ASSUME Quiet PROVE SafeInv'
  <2>1. Coverage' /\ Unfinished'
    BY <1>1, <1>3, KeptSafe DEF Quiet, Coverage, Unfinished
  <2>2. HandedComplete'
    BY <1>3 DEF Quiet, Nothing, HandedComplete
  <2> QED
    BY <2>1, <2>2 DEF SafeInv
<1>4. ASSUME NEW c \in Frame, Writes(c) PROVE SafeInv'
  <2> DEFINE m == Received(Entry(c), c)
  <2>1. /\ WellFormed(m)
        /\ m.total = Entry(c).total
        /\ Completes(c) <=> m.data = 0 .. m.total - 1
    BY <1>4, WriteSafe
  <2>2. \A id \in Ids \ {c.id} :
          /\ WellFormed(partials'[id])
          /\ partials'[id] # Absent => partials'[id].received # partials'[id].total
    BY <1>1, <1>4, KeptSafe DEF Writes
  <2>3. partials'[c.id] = IF Completes(c) THEN Absent ELSE m
    BY <1>4 DEF Writes, LeftAfter
  <2>4. Completes(c) <=> m.received = m.total
    BY <2>1 DEF Completes
  <2>5. handed' = IF Completes(c) THEN [id |-> c.id, total |-> m.total, data |-> m.data]
                  ELSE Nothing
    BY <1>4 DEF Writes
  <2> HIDE DEF m
  <2>6. Coverage'
    BY <2>1, <2>2, <2>3, AbsentOK DEF Coverage
  <2>7. Unfinished'
    BY <2>2, <2>3, <2>4 DEF Unfinished
  <2>8. HandedComplete'
    BY <2>1, <2>5 DEF HandedComplete, Nothing
  <2> QED
    BY <2>6, <2>7, <2>8 DEF SafeInv
<1> QED
  BY <1>1, <1>2, <1>3, <1>4, StepShapes DEF IInv

LEMMA SafeStart == HostInit => IInv
<1> SUFFICES ASSUME HostInit PROVE IInv
  OBVIOUS
<1>1. 0 \in UInt32
  BY LimitsAssumption DEF UInt32
<1>2. HostTypeOK
  BY <1>1, AbsentOK DEF HostInit, HostTypeOK, Nothing
<1> QED
  BY <1>2, AbsentOK DEF HostInit, IInv, SafeInv, Coverage, Unfinished, HandedComplete, Nothing

(***************************************************************************)
(* The frames of the registry's own specification are frames.              *)
(***************************************************************************)
LEMMA HostIsStep == [HostNext]_hostVars => [HostStep]_hostVars
BY FramesAssumption DEF HostNext, HostStep

LEMMA Invariance == HostSpec => []IInv
BY SafeStart, SafeStep, HostIsStep, PTL DEF HostSpec

(***************************************************************************)
(* The registry's two maps keep their shape.                               *)
(***************************************************************************)
THEOREM TypeCorrect == HostSpec => []HostTypeOK
<1>1. IInv => HostTypeOK
  BY DEF IInv
<1> QED
  BY <1>1, Invariance, PTL

(***************************************************************************)
(* HandleChunk never copies outside the buffer, whatever 32-bit offset,    *)
(* length and total the frames carry.                                      *)
(***************************************************************************)
THEOREM MemcpyStaysInside == HostSpec => []WritesInBounds
<1>1. IInv => WritesInBounds
  BY FullMeansCovered DEF IInv, SafeInv, HostTypeOK, Coverage, WritesInBounds
<1> QED
  BY <1>1, Invariance, PTL

(***************************************************************************)
(* Every payload HandleChunk hands to its processor is complete.           *)
(***************************************************************************)
THEOREM PayloadsComplete == HostSpec => []HandedComplete
<1>1. IInv => HandedComplete
  BY DEF IInv, SafeInv
<1> QED
  BY <1>1, Invariance, PTL

-----------------------------------------------------------------------------

(***************************************************************************)
(* No step opens a transfer whose id is poisoned, or poisons an open one.  *)
(***************************************************************************)
LEMMA PoisonedStep == IInv /\ PoisonedIsDropped /\ [HostStep]_hostVars => PoisonedIsDropped'
<1> SUFFICES ASSUME IInv, PoisonedIsDropped, [HostStep]_hostVars,
                    NEW id \in Ids, PoisonHolds(id)'
             PROVE  partials'[id] = Absent
  BY DEF PoisonedIsDropped
<1> USE DEF IInv, SafeInv, PoisonHolds
<1>0. PoisonHolds(id) => partials[id] = Absent
  BY DEF PoisonedIsDropped
<1>1. ASSUME NEW c \in Frame,
             SweptPoisoned(c)[id] # NotPoisoned, ~ Expired(SweptPoisoned(c)[id])
      PROVE  SweptPartials(c)[id] = Absent /\ PoisonHolds(id)
  <2>1. SweptPoisoned(c)[id] \in {poisoned[id], NotPoisoned}
    BY SweptOK
  <2>2. PoisonHolds(id)
    BY <1>1, <2>1
  <2>3. SweptPartials(c)[id] \in {partials[id], Absent}
    BY SweptOK
  <2> QED
    BY <1>0, <2>2, <2>3
<1>2. CASE RefuseUnloading \/ Unload \/ NoHandling \/ UNCHANGED hostVars
  BY <1>0, <1>2 DEF RefuseUnloading, Unload, NoHandling, hostVars
<1>3. ASSUME NEW c \in Frame, RefuseAdmission(c) PROVE partials'[id] = Absent
  BY <1>1, <1>3 DEF RefuseAdmission
<1>4. ASSUME NEW c \in Frame, RejectChunk(c) PROVE partials'[id] = Absent
  <2> DEFINE entries == SweptPartials(c)
             ages == SweptPoisoned(c)
  <2>1. /\ entries \in [Ids -> PartialMessage]
        /\ ages \in [Ids -> Ages \union {NotPoisoned}]
        /\ c.id \in Ids
    BY SweptOK DEF Frame
  <2>2. /\ \/ partials' = [entries EXCEPT ![c.id] = Absent]
           \/ partials' = [PrunedPartials(entries) EXCEPT ![c.id] = Absent]
        /\ Poison(c.id, entries, ages)
    BY <1>4 DEF RejectChunk, Poison
  <2>3. ages[id] # NotPoisoned /\ ~ Expired(ages[id]) => entries[id] = Absent
    BY <1>1
  <2> HIDE DEF entries, ages
  <2>4. CASE id = c.id
    BY <2>1, <2>2, <2>4, PrunedOK
  <2>5. CASE id # c.id
    <3>1. poisoned'[id] \in {ages[id], NotPoisoned}
      BY <2>1, <2>2, <2>5, PrunedOK DEF Poison, Evicted
    <3>2. entries[id] = Absent
      BY <2>3, <3>1
    <3> QED
      BY <2>1, <2>2, <2>5, <3>2, PrunedOK
  <2> QED
    BY <2>4, <2>5
<1>5. ASSUME NEW c \in Frame, AcceptChunk(c) PROVE partials'[id] = Absent
  <2>1. /\ partials' = [SweptPartials(c) EXCEPT ![c.id] = LeftAfter(c)]
        /\ poisoned' = SweptPoisoned(c)
        /\ ~ PoisonHolds(c.id)
    BY <1>5 DEF AcceptChunk, Accepts, Admits, WantsEntry
  <2>2. SweptPartials(c)[id] = Absent /\ PoisonHolds(id)
    BY <1>1, <2>1
  <2>3. id # c.id
    BY <2>1, <2>2
  <2> QED
    BY <2>1, <2>2, <2>3, SweptOK
<1>6. ASSUME CleanupStaleChunks PROVE partials'[id] = Absent
  <2>1. PoisonHolds(id)
    BY <1>6 DEF CleanupStaleChunks, PrunedPoisoned
  <2> QED
    BY <1>0, <1>6, <2>1 DEF CleanupStaleChunks, PrunedPartials
<1>7. ASSUME Tick PROVE partials'[id] = Absent
  <2>1. poisoned[id] # NotPoisoned /\ poisoned'[id] = Older(poisoned[id])
    BY <1>7 DEF Tick
  <2>2. poisoned[id] \in Ages
    BY <2>1 DEF HostTypeOK
  <2>3. ~ Expired(poisoned[id])
    BY <2>1, <2>2, LimitsAssumption DEF Older, Expired, Ages
  <2> QED
    BY <1>0, <1>7, <2>1, <2>3 DEF Tick
<1> QED
  BY <1>2, <1>3, <1>4, <1>5, <1>6, <1>7 DEF HostStep, HandleChunk

(***************************************************************************)
(* A poisoned id has no entry, so none of its frames is acknowledged until *)
(* the record expires: Admit asks before it looks up, Poison erases.       *)
(***************************************************************************)
THEOREM PoisonedStaysDropped == HostSpec => []PoisonedIsDropped
<1>1. HostInit => PoisonedIsDropped
  BY DEF HostInit, PoisonedIsDropped, PoisonHolds
<1> QED
  BY <1>1, PoisonedStep, HostIsStep, Invariance, PTL DEF HostSpec

-----------------------------------------------------------------------------

(***************************************************************************)
(* Pruning opens nothing, and neither does Admit's sweep.                  *)
(***************************************************************************)
LEMMA SweptOpens ==
  ASSUME HostTypeOK, NEW c \in Frame
  PROVE  /\ Open(SweptPartials(c)) \subseteq Open(partials)
         /\ Refused(SweptPoisoned(c)) \subseteq Refused(poisoned)
BY SweptOK DEF Open, Refused

(***************************************************************************)
(* No step opens one transfer too many.                                    *)
(***************************************************************************)
LEMMA PartialsStep == IInv /\ PartialsBounded /\ [HostStep]_hostVars => PartialsBounded'
<1> DEFINE Max == kMaxPartialMessages
<1> SUFFICES ASSUME IInv, PartialsBounded, [HostStep]_hostVars PROVE PartialsBounded'
  OBVIOUS
<1>1. /\ Max \in Nat
      /\ Open(partials) \in SUBSET Ids /\ IsFiniteSet(Open(partials))
      /\ Open(partials') \in SUBSET Ids
  BY LimitsAssumption, IdsAssumption, FS_Subset DEF Open
<1>2. Open(partials') \subseteq Open(partials) => PartialsBounded'
  BY <1>1, PartWithin DEF PartialsBounded
<1>3. ASSUME NEW c \in Frame, AcceptChunk(c) PROVE PartialsBounded'
  <2> DEFINE swept == SweptPartials(c)
  <2>1. /\ c.id \in Ids
        /\ swept \in [Ids -> PartialMessage]
        /\ partials' = [swept EXCEPT ![c.id] = LeftAfter(c)]
        /\ Admits(c)
        /\ Open(swept) \subseteq Open(partials)
    BY <1>3, SweptOK, SweptOpens DEF Frame, AcceptChunk, Accepts, IInv
  <2>2. Open(partials') \subseteq Open(swept) \union {c.id}
    <3> HIDE DEF swept
    <3> QED
      BY <2>1 DEF Open
  <2>3. CASE partials[c.id] # Absent
    <3>1. c.id \in Open(partials)
      BY <2>1, <2>3 DEF Open
    <3> QED
      BY <1>2, <2>1, <2>2, <3>1
  <2>4. CASE partials[c.id] = Absent
    <3>1. WantsEntry(c) /\ ~ (Full(partials) /\ StillFull(partials))
      BY <2>1, <2>4 DEF Admits
    <3>2. ~ (Cardinality(Open(swept)) >= Max)
      BY <3>1 DEF SweptPartials, PrunesAtBound, Full, StillFull
    <3>3. IsFiniteSet(Open(swept))
      BY <1>1, <2>1, FS_Subset
    <3> HIDE DEF swept
    <3> QED
      BY <1>1, <2>2, <3>2, <3>3, OneMoreWithin DEF PartialsBounded
  <2> QED
    BY <2>3, <2>4
<1>4. ASSUME NEW c \in Frame, RejectChunk(c) PROVE Open(partials') \subseteq Open(partials)
  <2> DEFINE entries == SweptPartials(c)
  <2>1. /\ entries \in [Ids -> PartialMessage]
        /\ \A id \in Ids : entries[id] \in {partials[id], Absent}
        /\ SweptPoisoned(c) \in [Ids -> Ages \union {NotPoisoned}]
        /\ c.id \in Ids
    BY SweptOK DEF Frame, IInv
  <2>2. \/ partials' = [entries EXCEPT ![c.id] = Absent]
        \/ partials' = [PrunedPartials(entries) EXCEPT ![c.id] = Absent]
    BY <1>4 DEF RejectChunk, Poison
  <2> HIDE DEF entries
  <2>3. \A id \in Ids : partials'[id] \in {partials[id], Absent}
    BY <2>1, <2>2, PrunedOK
  <2> QED
    BY <2>3 DEF Open
<1>5. ASSUME NEW c \in Frame, RefuseAdmission(c)
      PROVE  Open(partials') \subseteq Open(partials)
  BY <1>5, SweptOpens DEF RefuseAdmission, IInv
<1>6. ASSUME CleanupStaleChunks PROVE Open(partials') \subseteq Open(partials)
  BY <1>6, PrunedOK DEF CleanupStaleChunks, Open, IInv, HostTypeOK
<1>7. ASSUME Tick PROVE Open(partials') \subseteq Open(partials)
  BY <1>7 DEF Tick, Open
<1>8. CASE RefuseUnloading \/ Unload \/ NoHandling \/ UNCHANGED hostVars
  BY <1>2, <1>8 DEF RefuseUnloading, Unload, NoHandling, hostVars, Open
<1> QED
  BY <1>2, <1>3, <1>4, <1>5, <1>6, <1>7, <1>8 DEF HostStep, HandleChunk

(***************************************************************************)
(* At most kMaxPartialMessages transfers are open: prune, then refuse.     *)
(***************************************************************************)
THEOREM PartialsStayBounded == HostSpec => []PartialsBounded
<1>1. HostInit => PartialsBounded
  <2>1. HostInit => Open(partials) = {}
    BY DEF HostInit, Open
  <2> QED
    BY <2>1, LimitsAssumption, FS_EmptySet DEF PartialsBounded
<1> QED
  BY <1>1, PartialsStep, HostIsStep, Invariance, PTL DEF HostSpec

(***************************************************************************)
(* No step remembers one poisoned id too many.                             *)
(***************************************************************************)
LEMMA PoisonStep == IInv /\ PoisonBounded /\ [HostStep]_hostVars => PoisonBounded'
<1> DEFINE Max == kMaxPoisonedTransfers
<1> SUFFICES ASSUME IInv, PoisonBounded, [HostStep]_hostVars PROVE PoisonBounded'
  OBVIOUS
<1>1. /\ Max \in Nat
      /\ \A f : Refused(f) \in SUBSET Ids /\ IsFiniteSet(Refused(f))
  BY LimitsAssumption, IdsAssumption, FS_Subset DEF Refused
<1>2. Refused(poisoned') \subseteq Refused(poisoned) => PoisonBounded'
  BY <1>1, PartWithin DEF PoisonBounded
<1>3. ASSUME NEW c \in Frame, RejectChunk(c) PROVE PoisonBounded'
  <2> DEFINE ages == SweptPoisoned(c)
             pruned == PrunedPoisoned(ages)
  <2>1. /\ c.id \in Ids
        /\ ages \in [Ids -> Ages \union {NotPoisoned}]
        /\ SweptPartials(c) \in [Ids -> PartialMessage]
        /\ Refused(ages) \subseteq Refused(poisoned)
        /\ Poison(c.id, SweptPartials(c), ages)
    BY <1>3, SweptOK, SweptOpens DEF Frame, RejectChunk, IInv
  <2>2. /\ pruned \in [Ids -> Ages \union {NotPoisoned}]
        /\ \A id \in Ids : pruned[id] \in {ages[id], NotPoisoned}
    <3> HIDE DEF ages
    <3> QED
      BY <2>1, PrunedOK
  <2>3. Refused(pruned) \subseteq Refused(poisoned)
    BY <2>1, <2>2 DEF Refused
  <2>4. /\ ~ PoisonFull(ages) => poisoned' = [ages EXCEPT ![c.id] = 0]
        /\ PoisonFull(ages) =>
             \/ /\ ~ PoisonFull(pruned)
                /\ poisoned' = [pruned EXCEPT ![c.id] = 0]
             \/ \E old \in Oldest(pruned) :
                  poisoned' = [Evicted(pruned, old) EXCEPT ![c.id] = 0]
    BY <2>1 DEF Poison
  <2> HIDE DEF ages, pruned
  <2>5. CASE ~ PoisonFull(ages)
    <3>1. Refused(poisoned') \subseteq Refused(ages) \union {c.id}
      BY <2>1, <2>4, <2>5 DEF Refused
    <3> QED
      BY <1>1, <2>5, <3>1, OneMoreWithin DEF PoisonFull, PoisonBounded
  <2>6. CASE ~ PoisonFull(pruned) /\ poisoned' = [pruned EXCEPT ![c.id] = 0]
    <3>1. Refused(poisoned') \subseteq Refused(pruned) \union {c.id}
      BY <2>2, <2>6 DEF Refused
    <3> QED
      BY <1>1, <2>6, <3>1, OneMoreWithin DEF PoisonFull, PoisonBounded
  <2>7. ASSUME NEW old \in Oldest(pruned),
               poisoned' = [Evicted(pruned, old) EXCEPT ![c.id] = 0]
        PROVE  PoisonBounded'
    <3> DEFINE S == Refused(pruned)
               T == S \ {old}
    <3>1. old \in Ids /\ old \in S
      BY <2>7 DEF Oldest, Refused
    <3>2. Refused(poisoned') \subseteq T \union {c.id}
      BY <2>1, <2>2, <2>7, <3>1 DEF Refused, Evicted
    <3>3. Cardinality(S) <= Max /\ IsFiniteSet(S)
      BY <1>1, <2>3, PartWithin DEF PoisonBounded
    <3> HIDE DEF S
    <3>4. Cardinality(T) = Cardinality(S) - 1 /\ Cardinality(S) \in Nat
      BY <3>1, <3>3, FS_RemoveElement, FS_CardinalityType
    <3>5. ~ (Cardinality(T) >= Max) /\ IsFiniteSet(T)
      BY <1>1, <3>3, <3>4, FS_Subset
    <3> HIDE DEF T
    <3> QED
      BY <1>1, <3>2, <3>5, OneMoreWithin DEF PoisonBounded
  <2> QED
    BY <2>4, <2>5, <2>6, <2>7
<1>4. ASSUME NEW c \in Frame, RefuseAdmission(c) \/ AcceptChunk(c)
      PROVE  Refused(poisoned') \subseteq Refused(poisoned)
  BY <1>4, SweptOpens DEF RefuseAdmission, AcceptChunk, IInv
<1>5. ASSUME CleanupStaleChunks PROVE Refused(poisoned') \subseteq Refused(poisoned)
  BY <1>5, PrunedOK DEF CleanupStaleChunks, Refused, IInv, HostTypeOK
<1>6. ASSUME Tick PROVE Refused(poisoned') \subseteq Refused(poisoned)
  BY <1>6 DEF Tick, Refused
<1>7. CASE RefuseUnloading \/ Unload \/ NoHandling \/ UNCHANGED hostVars
  BY <1>2, <1>7 DEF RefuseUnloading, Unload, NoHandling, hostVars, Refused
<1> QED
  BY <1>2, <1>3, <1>4, <1>5, <1>6, <1>7 DEF HostStep, HandleChunk

(***************************************************************************)
(* At most kMaxPoisonedTransfers ids are remembered: evicting the oldest   *)
(* makes room for exactly the new one.                                     *)
(***************************************************************************)
THEOREM PoisonStaysBounded == HostSpec => []PoisonBounded
<1>1. HostInit => PoisonBounded
  <2>1. HostInit => Refused(poisoned) = {}
    BY DEF HostInit, Refused
  <2> QED
    BY <2>1, LimitsAssumption, FS_EmptySet DEF PoisonBounded
<1> QED
  BY <1>1, PoisonStep, HostIsStep, Invariance, PTL DEF HostSpec

\* Both maps of the registry stay within their limits.
THEOREM MemoryStaysBounded == HostSpec => []MemoryBounded
<1>1. PartialsBounded /\ PoisonBounded => MemoryBounded
  BY DEF MemoryBounded
<1> QED
  BY <1>1, PartialsStayBounded, PoisonStaysBounded, PTL

-----------------------------------------------------------------------------

(***************************************************************************)
(* The two kinds of step that the contract allows.                         *)
(***************************************************************************)
LEMMA AbandonIsStep ==
  ASSUME NEW gone \in SUBSET Ids, Contract!Abandon(gone)
  PROVE  Contract!Next
BY DEF Contract!Next

LEMMA ReceiveIsStep ==
  ASSUME NEW gone \in SUBSET Ids, NEW t \in Ids, NEW n \in UInt32,
         NEW bytes \in SUBSET (0 .. n - 1), Contract!Receive(t, n, bytes, gone)
  PROVE  Contract!Next
BY DEF Contract!Next

(***************************************************************************)
(* A quiet step is, for the contract, a step that abandons the transfers   *)
(* it drops.                                                               *)
(***************************************************************************)
LEMMA QuietAbandons ==
  ASSUME IInv, HostTypeOK', Quiet
  PROVE  Contract!Next
<1> DEFINE gone == {id \in Ids : partials'[id] = Absent}
<1>1. Absent.total = 0 /\ Absent.data = {}
  BY DEF Absent, NewPartial
<1>2. ASSUME NEW id \in Ids
      PROVE  /\ partials'[id].total = IF id \in gone THEN 0 ELSE partials[id].total
             /\ partials'[id].data = IF id \in gone THEN {} ELSE partials[id].data
  BY <1>1 DEF Quiet, KeepsOrDrops, Same
<1>3. [to |-> handed.id, size |-> handed.total]' = [to |-> None, size |-> 0]
  BY DEF Quiet, Nothing
<1>4. gone \in SUBSET Ids
  OBVIOUS
<1> HIDE DEF gone
<1>5. ASSUME NEW g \in SUBSET Ids, g = gone
      PROVE  Contract!Next
  <2>1. Contract!Abandon(g)
    BY <1>2, <1>3, <1>5 DEF Contract!Abandon, Contract!Reset, Contract!NoDelivery
  <2> QED
    BY <2>1, AbandonIsStep
<1> QED
  BY <1>4, <1>5

(***************************************************************************)
(* Recording a new chunk is a Receive of exactly its bytes.                *)
(***************************************************************************)
LEMMA WriteReceives ==
  ASSUME IInv, HostTypeOK', NEW c \in Frame, Writes(c)
  PROVE  Contract!Next
<1> DEFINE m == Received(Entry(c), c)
           n == m.total
           bytes == Bytes(c.offset, c.length)
           gone == {id \in Ids \ {c.id} : partials'[id] = Absent}
           size == [id \in Ids |-> partials[id].total]
           got == [id \in Ids |-> partials[id].data]
<1>1. Absent.total = 0 /\ Absent.data = {}
  BY DEF Absent, NewPartial
<1>2. /\ c.id \in Ids
      /\ m \in PartialMessage
      /\ n = Entry(c).total /\ n # 0
      /\ m.data = Entry(c).data \union bytes
      /\ bytes # {} /\ bytes \subseteq 0 .. n - 1
      /\ bytes \intersect Entry(c).data = {}
      /\ Completes(c) <=> m.data = 0 .. n - 1
  BY WriteSafe
<1>3. /\ partials[c.id].total \in {0, n}
      /\ partials[c.id].data = Entry(c).data
  <2>1. CASE partials[c.id] = Absent
    <3>1. Entry(c) = NewPartial(c.total)
      BY <2>1 DEF Entry
    <3>2. Entry(c).data = {}
      BY <3>1 DEF NewPartial
    <3> QED
      BY <1>1, <2>1, <3>2
  <2>2. CASE partials[c.id] # Absent
    BY <1>2, <2>2, EntryOK DEF IInv, SafeInv
  <2> QED
    BY <2>1, <2>2
<1>4. ASSUME NEW id \in Ids \ {c.id}
      PROVE  /\ partials'[id].total = IF id \in gone THEN 0 ELSE partials[id].total
             /\ partials'[id].data = IF id \in gone THEN {} ELSE partials[id].data
  BY <1>1 DEF Writes, KeepsOrDrops, Same
<1>5. partials'[c.id] = IF Completes(c) THEN Absent ELSE m
  BY DEF Writes, LeftAfter
<1>6. handed' = IF Completes(c) THEN [id |-> c.id, total |-> m.total, data |-> m.data]
                ELSE Nothing
  BY DEF Writes
<1>7. c.id \notin gone /\ gone \in SUBSET Ids
  OBVIOUS
<1>8. n \in UInt32 /\ bytes \in SUBSET (0 .. n - 1)
  BY <1>2 DEF PartialMessage
<1> HIDE DEF m, n, bytes, gone
<1>9. size[c.id] \in {0, n} /\ bytes \intersect got[c.id] = {}
  BY <1>2, <1>3
<1>10. got[c.id] \union bytes = 0 .. n - 1 <=> Completes(c)
  BY <1>2, <1>3
<1>11. [to |-> handed.id, size |-> handed.total]'
         = IF Completes(c) THEN [to |-> c.id, size |-> n] ELSE [to |-> None, size |-> 0]
  BY <1>6 DEF n, Nothing
<1>12. ASSUME NEW g \in SUBSET Ids, g = gone, NEW k \in UInt32, k = n,
              NEW new \in SUBSET (0 .. k - 1), new = bytes
       PROVE  Contract!Next
  <2>1. CASE Completes(c)
    <3>1. size' = [id \in Ids |-> IF id \in g \union {c.id} THEN 0 ELSE size[id]]
      BY <1>1, <1>4, <1>5, <1>12, <2>1
    <3>2. got' = [id \in Ids |-> IF id \in g \union {c.id} THEN {} ELSE got[id]]
      BY <1>1, <1>4, <1>5, <1>12, <2>1
    <3>3. Contract!Receive(c.id, k, new, g)
      BY <1>2, <1>7, <1>9, <1>10, <1>11, <1>12, <2>1, <3>1, <3>2
         DEF Contract!Receive, Contract!Reset
    <3> QED
      BY <1>2, <3>3, ReceiveIsStep
  <2>2. CASE ~ Completes(c)
    <3>1. size' = [[id \in Ids |-> IF id \in g THEN 0 ELSE size[id]] EXCEPT ![c.id] = k]
      BY <1>2, <1>4, <1>5, <1>12, <2>2 DEF n
    <3>2. got' = [[id \in Ids |-> IF id \in g THEN {} ELSE got[id]]
                    EXCEPT ![c.id] = @ \union new]
      BY <1>2, <1>3, <1>4, <1>5, <1>7, <1>12, <2>2
    <3>3. Contract!Receive(c.id, k, new, g)
      BY <1>2, <1>7, <1>9, <1>10, <1>11, <1>12, <2>2, <3>1, <3>2
         DEF Contract!Receive, Contract!Reset, Contract!NoDelivery
    <3> QED
      BY <1>2, <3>3, ReceiveIsStep
  <2> QED
    BY <2>1, <2>2
<1> QED
  BY <1>7, <1>8, <1>12

(***************************************************************************)
(* The registry starts, and steps, as the contract does.                   *)
(***************************************************************************)
LEMMA RegistryStarts == HostInit => Contract!Init
BY DEF HostInit, Absent, NewPartial, Nothing, Contract!Init, Contract!NoDelivery

LEMMA StepReceives ==
  ASSUME IInv, IInv', [HostStep]_hostVars
  PROVE  [Contract!Next]_(Contract!contractVars)
<1>1. CASE UNCHANGED hostVars
  BY <1>1 DEF hostVars, Contract!contractVars
<1>2. CASE HostStep
  BY <1>2, StepShapes, QuietAbandons, WriteReceives DEF IInv
<1> QED
  BY <1>1, <1>2

(***************************************************************************)
(* The XLL's registry implements the contract of a receiver.               *)
(***************************************************************************)
THEOREM RegistryImplementsContract == HostSpec => ImplementsContract
<1>1. IInv /\ IInv' /\ [HostStep]_hostVars => [Contract!Next]_(Contract!contractVars)
  BY StepReceives
<1> QED
  BY <1>1, RegistryStarts, HostIsStep, Invariance, PTL
     DEF HostSpec, ImplementsContract, Contract!Spec

-----------------------------------------------------------------------------

(***************************************************************************)
(* What GuestTransfer's variables hold, as far as its proofs need it; the  *)
(* worker is inside a call of a sender that waits for its answer.          *)
(***************************************************************************)
TransferTypeOK ==
  /\ status \in [Transfers -> {"new", "refused", "sending", "ok", "failed"}]
  /\ offset \in [Transfers -> Nat]
  /\ tries \in [Transfers -> Nat]
  /\ answer \in [Transfers -> {"none", "ack", "SYSTEM_ERROR"}]
  /\ call \in Transfers \union {None}
  /\ copies \in [Transfers -> Nat]
  /\ cutOff \in SUBSET Transfers

CallWaits == \A t \in Transfers : call = t => Pending(t)

(***************************************************************************)
(* The sender of t is at a frame inside its payload.                       *)
(***************************************************************************)
Framed(t) ==
  /\ offset[t] <= Total[t]
  /\ status[t] = "new" => offset[t] = 0
  /\ status[t] = "sending" => offset[t] < Total[t]

(***************************************************************************)
(* What the registry holds of t it has from the sender of t: the ranges    *)
(* end before the frame the sender is at, or are that frame.               *)
(***************************************************************************)
Known(t, m) ==
  /\ m.total = Total[t]
  /\ \A s \in m.segments :
       s.offset + s.length <= offset[t] \/ s = [offset |-> offset[t], length |-> FrameLength(t)]

(***************************************************************************)
(* Until t is delivered, or cut off, the registry holds every byte whose   *)
(* frame has been answered with a success.                                 *)
(***************************************************************************)
Acknowledged(t) == 0 .. (IF answer[t] = "ack" THEN CallEnd(t) ELSE offset[t]) - 1

Retained(t) == copies[t] = 0 /\ t \notin cutOff => Acknowledged(t) \subseteq partials[t].data

(***************************************************************************)
(* After its delivery the sender is at the last frame of t, which is not   *)
(* the first: no entry it reopens ever gets byte 0 again.                  *)
(***************************************************************************)
Spent(t) ==
  copies[t] > 0 =>
    /\ copies[t] = 1
    /\ offset[t] > 0 /\ CallEnd(t) = Total[t]
    /\ 0 \notin partials[t].data

ChunkedInv(t) ==
  /\ Framed(t)
  /\ partials[t] # Absent => Known(t, partials[t])
  /\ Retained(t)
  /\ Spent(t)

(***************************************************************************)
(* The registry never hears of a payload sent whole.                       *)
(***************************************************************************)
WholeInv(t) ==
  /\ partials[t] = Absent
  /\ answer[t] = "ack" => copies[t] > 0 \/ t \in cutOff

PayloadInv(t) ==
  /\ poisoned[t] = NotPoisoned
  /\ answer[t] # "none" => status[t] = "sending"
  /\ status[t] = "ok" => copies[t] > 0 \/ t \in cutOff
  /\ IF Chunked(t) THEN ChunkedInv(t) ELSE WholeInv(t)

(***************************************************************************)
(* The inductive invariant.                                                *)
(***************************************************************************)
TransferInv ==
  /\ IInv
  /\ TransferTypeOK
  /\ CallWaits
  /\ \A t \in Transfers : PayloadInv(t)

-----------------------------------------------------------------------------

(***************************************************************************)
(* The sizes of a transfer.                                                *)
(***************************************************************************)
LEMMA PayloadSize ==
  ASSUME NEW t \in Transfers
  PROVE  /\ t \in Ids /\ t # None
         /\ Total[t] \in Nat /\ Total[t] \in UInt32
         /\ ChunkSize \in Nat /\ ChunkSize > 0
         /\ Modulus \in Nat
BY TransfersAssumption, IdsAssumption, LimitsAssumption DEF UInt32

(***************************************************************************)
(* A frame ends inside its payload, and the first one does not end it.     *)
(***************************************************************************)
LEMMA FrameInside ==
  ASSUME NEW t \in Transfers, Chunked(t), offset[t] \in Nat, offset[t] <= Total[t]
  PROVE  /\ FrameLength(t) \in Nat
         /\ CallEnd(t) = offset[t] + FrameLength(t)
         /\ CallEnd(t) \in Nat /\ CallEnd(t) <= Total[t]
         /\ offset[t] < Total[t] => FrameLength(t) > 0
         /\ offset[t] = 0 => FrameLength(t) < Total[t]
BY PayloadSize DEF Chunked, FrameLength, CallEnd

LEMMA BuiltFrame ==
  ASSUME NEW t \in Transfers, Chunked(t), offset[t] \in Nat, offset[t] <= Total[t]
  PROVE  /\ BuildFrame(t) \in Frame
         /\ BuildFrame(t).id = t
         /\ BuildFrame(t).total = Total[t]
         /\ BuildFrame(t).offset = offset[t]
         /\ BuildFrame(t).length = FrameLength(t)
<1>1. /\ FrameLength(t) \in Nat /\ offset[t] + FrameLength(t) <= Total[t]
  BY FrameInside
<1>2. offset[t] \in UInt32 /\ FrameLength(t) \in UInt32
  BY <1>1, PayloadSize DEF UInt32
<1> QED
  BY <1>2, PayloadSize DEF BuildFrame, Frame

(***************************************************************************)
(* The entry that Admit hands out for a frame of t holds what the registry *)
(* held of t, and what it holds is known.                                  *)
(***************************************************************************)
LEMMA OwnEntry ==
  ASSUME IInv, TransferTypeOK, NEW t \in Transfers, Chunked(t), ChunkedInv(t)
  PROVE  LET e == Entry(BuildFrame(t))
         IN  /\ e \in PartialMessage /\ WellFormed(e)
             /\ e.data = partials[t].data
             /\ Known(t, e)
<1> DEFINE c == BuildFrame(t)
           e == Entry(c)
<1>1. offset[t] \in Nat /\ offset[t] <= Total[t]
  BY DEF TransferTypeOK, ChunkedInv, Framed
<1>2. c \in Frame /\ c.id = t /\ c.total = Total[t]
  BY <1>1, BuiltFrame
<1> HIDE DEF c
<1>3. e \in PartialMessage /\ WellFormed(e)
  BY <1>2, EntryOK DEF IInv, SafeInv
<1>4. CASE partials[t] = Absent
  <2>1. e = NewPartial(Total[t])
    BY <1>2, <1>4, EntryOK DEF IInv, SafeInv
  <2>2. /\ e.data = {} /\ partials[t].data = {}
        /\ e.segments = {} /\ e.total = Total[t]
    BY <1>4, <2>1 DEF NewPartial, Absent
  <2> QED
    BY <1>3, <2>2 DEF Known, c
<1>5. CASE partials[t] # Absent
  <2>1. /\ e.total = partials[t].total
        /\ e.segments = partials[t].segments
        /\ e.data = partials[t].data
    BY <1>2, <1>5, EntryOK DEF IInv, SafeInv
  <2>2. Known(t, partials[t])
    BY <1>5 DEF ChunkedInv
  <2> QED
    BY <1>3, <2>1, <2>2 DEF Known, c
<1> QED
  BY <1>4, <1>5

(***************************************************************************)
(* No frame of t violates the protocol: it follows what the registry holds *)
(* or is the last frame over again.                                        *)
(***************************************************************************)
LEMMA OwnFrameFits ==
  ASSUME IInv, TransferTypeOK, NEW t \in Transfers, Chunked(t), ChunkedInv(t),
         offset[t] < Total[t]
  PROVE  LET c == BuildFrame(t)
         IN  \/ ClaimChunkSegment(Entry(c), c) = "New"
             \/ /\ ClaimChunkSegment(Entry(c), c) = "Duplicate"
                /\ [offset |-> offset[t], length |-> FrameLength(t)] \in Entry(c).segments
<1> DEFINE c == BuildFrame(t)
           e == Entry(c)
           now == [offset |-> offset[t], length |-> FrameLength(t)]
<1>1. offset[t] \in Nat /\ offset[t] <= Total[t]
  BY DEF TransferTypeOK, ChunkedInv, Framed
<1>2. c \in Frame /\ c.offset = offset[t] /\ c.length = FrameLength(t)
  BY <1>1, BuiltFrame
<1>3. /\ FrameLength(t) \in Nat /\ FrameLength(t) > 0
      /\ offset[t] + FrameLength(t) <= Total[t]
  BY <1>1, FrameInside
<1>4. e \in PartialMessage /\ WellFormed(e) /\ Known(t, e)
  BY OwnEntry
<1> HIDE DEF c, e
<1>5. e.total = Total[t] /\ Total[t] \in Nat
  BY <1>4, PayloadSize DEF Known
<1>6. \A s \in e.segments :
        /\ s.offset \in Nat /\ s.length \in Nat /\ s.length > 0
        /\ s # now => s.offset + s.length <= offset[t]
  BY <1>4 DEF Known, WellFormed, PartialMessage, Segment, UInt32
<1>7. ~ OutOfBounds(e.total, c.offset, c.length) /\ c.length # 0
  BY <1>1, <1>2, <1>3, <1>5 DEF OutOfBounds
<1>8. CASE now \in e.segments
  <2>1. \E s \in e.segments : s.offset = c.offset /\ s.length = c.length
    BY <1>2, <1>8
  <2> QED
    BY <1>7, <1>8, <2>1 DEF ClaimChunkSegment, c, e
<1>9. CASE now \notin e.segments
  <2>1. \A s \in e.segments : s.offset < c.offset /\ s.offset + s.length <= c.offset
    BY <1>1, <1>2, <1>6, <1>9
  <2>2. ~ \E s \in e.segments : s.offset = c.offset
    BY <1>1, <1>2, <1>6, <2>1
  <2>3. ~ \E s \in Neighbours(e.segments, c.offset) : Intersects(s, c.offset, c.length)
    BY <1>1, <1>2, <1>6, <2>1 DEF Neighbours, Intersects
  <2> QED
    BY <1>7, <2>2, <2>3 DEF ClaimChunkSegment, c, e
<1> QED
  BY <1>8, <1>9

(***************************************************************************)
(* What a good frame of t leaves in its entry.                             *)
(***************************************************************************)
LEMMA OwnFrameAdds ==
  ASSUME IInv, TransferTypeOK, NEW t \in Transfers, Chunked(t), ChunkedInv(t),
         offset[t] < Total[t]
  PROVE  LET c == BuildFrame(t)
             m == Received(Entry(c), c)
         IN  /\ ~ Violates(c)
             /\ m \in PartialMessage /\ WellFormed(m)
             /\ Known(t, m)
             /\ m.data = partials[t].data \union Bytes(offset[t], FrameLength(t))
             /\ Completes(c) <=> m.data = 0 .. Total[t] - 1
<1> DEFINE c == BuildFrame(t)
           e == Entry(c)
           m == Received(e, c)
           now == [offset |-> offset[t], length |-> FrameLength(t)]
           range == Bytes(offset[t], FrameLength(t))
<1>1. offset[t] \in Nat /\ offset[t] <= Total[t]
  BY DEF TransferTypeOK, ChunkedInv, Framed
<1>2. c \in Frame /\ c.offset = offset[t] /\ c.length = FrameLength(t)
  BY <1>1, BuiltFrame
<1>3. /\ e \in PartialMessage /\ WellFormed(e) /\ Known(t, e)
      /\ e.data = partials[t].data
  BY OwnEntry
<1>4. \/ ClaimChunkSegment(e, c) = "New"
      \/ ClaimChunkSegment(e, c) = "Duplicate" /\ now \in e.segments
  BY OwnFrameFits
<1>5. ~ Violates(c)
  BY <1>4 DEF Violates
<1> HIDE DEF c, e
<1>6. /\ m \in PartialMessage /\ WellFormed(m)
      /\ m.total = e.total
      /\ m.segments \subseteq e.segments \union {now}
      /\ m.data = e.data \union range
  <2>1. CASE ClaimChunkSegment(e, c) = "New"
    <3>1. /\ m \in PartialMessage /\ m.total = e.total
          /\ m.segments = e.segments \union {now}
          /\ m.data = e.data \union range
      BY <1>2, <1>3, <2>1, ReceivedType
    <3>2. WellFormed(m)
      BY <1>2, <1>3, <2>1, ReceivedOK
    <3> QED
      BY <3>1, <3>2
  <2>2. CASE ClaimChunkSegment(e, c) = "Duplicate" /\ now \in e.segments
    <3>1. m = e
      BY <2>2 DEF Received
    <3>2. range \subseteq UNION {Bytes(s.offset, s.length) : s \in e.segments}
      <4>1. range = Bytes(now.offset, now.length)
        OBVIOUS
      <4> HIDE DEF range, now
      <4> QED
        BY <2>2, <4>1
    <3>3. range \subseteq e.data
      BY <1>3, <3>2 DEF WellFormed
    <3> QED
      BY <1>3, <3>1, <3>3
  <2> QED
    BY <1>4, <2>1, <2>2
<1>7. Known(t, m)
  BY <1>3, <1>6 DEF Known
<1>8. Completes(c) <=> m.data = 0 .. Total[t] - 1
  <2>1. Completes(c) <=> m.received = m.total
    BY <1>6 DEF Completes, e
  <2>2. m.total = Total[t]
    BY <1>7 DEF Known
  <2> HIDE DEF m
  <2> QED
    BY <1>6, <2>1, <2>2, FullMeansCovered
<1> QED
  BY <1>3, <1>5, <1>6, <1>7, <1>8 DEF c, e

-----------------------------------------------------------------------------

(***************************************************************************)
(* A step of the registry that handles no frame of id keeps its entry or   *)
(* drops it, and does not poison it.                                       *)
(***************************************************************************)
LEMMA OthersKept ==
  ASSUME IInv, NEW id \in Ids, poisoned[id] = NotPoisoned,
         \/ \E c \in Frame : c.id # id /\ HandleChunk(c)
         \/ CleanupStaleChunks \/ Unload \/ Tick \/ NoHandling
  PROVE  KeepsOrDrops(id) /\ poisoned'[id] = NotPoisoned
<1> USE DEF IInv, SafeInv
<1>1. ASSUME partials'[id] \in {partials[id], Absent} PROVE KeepsOrDrops(id)
  BY <1>1 DEF KeepsOrDrops, Same
<1>2. ASSUME NEW c \in Frame
      PROVE  /\ SweptPartials(c)[id] \in {partials[id], Absent}
             /\ SweptPoisoned(c)[id] = NotPoisoned
             /\ SweptPartials(c) \in [Ids -> PartialMessage]
             /\ SweptPoisoned(c) \in [Ids -> Ages \union {NotPoisoned}]
             /\ c.id \in Ids
  BY SweptOK DEF Frame
<1>3. CASE RefuseUnloading \/ Unload \/ NoHandling
  BY <1>1, <1>3 DEF RefuseUnloading, Unload, NoHandling
<1>4. ASSUME NEW c \in Frame, RefuseAdmission(c)
      PROVE  KeepsOrDrops(id) /\ poisoned'[id] = NotPoisoned
  BY <1>1, <1>2, <1>4 DEF RefuseAdmission
<1>5. ASSUME NEW c \in Frame, c.id # id, AcceptChunk(c)
      PROVE  KeepsOrDrops(id) /\ poisoned'[id] = NotPoisoned
  <2>1. /\ partials' = [SweptPartials(c) EXCEPT ![c.id] = LeftAfter(c)]
        /\ poisoned' = SweptPoisoned(c)
    BY <1>5 DEF AcceptChunk
  <2>2. partials'[id] = SweptPartials(c)[id]
    BY <1>2, <1>5, <2>1
  <2> QED
    BY <1>1, <1>2, <2>1, <2>2
<1>6. ASSUME NEW c \in Frame, c.id # id, RejectChunk(c)
      PROVE  KeepsOrDrops(id) /\ poisoned'[id] = NotPoisoned
  <2> DEFINE entries == SweptPartials(c)
             ages == SweptPoisoned(c)
  <2>1. Poison(c.id, entries, ages)
    BY <1>6 DEF RejectChunk
  <2>2. /\ entries \in [Ids -> PartialMessage]
        /\ ages \in [Ids -> Ages \union {NotPoisoned}]
        /\ entries[id] \in {partials[id], Absent} /\ ages[id] = NotPoisoned
        /\ c.id \in Ids /\ c.id # id
    BY <1>2, <1>6
  <2> HIDE DEF entries, ages
  <2>3. /\ PrunedPartials(entries) \in [Ids -> PartialMessage]
        /\ PrunedPoisoned(ages) \in [Ids -> Ages \union {NotPoisoned}]
        /\ PrunedPartials(entries)[id] \in {partials[id], Absent}
        /\ PrunedPoisoned(ages)[id] = NotPoisoned
    BY <2>2, PrunedOK
  <2>4. partials'[id] \in {partials[id], Absent}
    BY <2>1, <2>2, <2>3 DEF Poison, Evicted
  <2>5. poisoned'[id] = NotPoisoned
    BY <2>1, <2>2, <2>3 DEF Poison, Evicted
  <2> QED
    BY <1>1, <2>4, <2>5
<1>7. CASE CleanupStaleChunks
  <2>1. /\ PrunedPartials(partials)[id] \in {partials[id], Absent}
        /\ PrunedPoisoned(poisoned)[id] = NotPoisoned
    BY PrunedOK DEF HostTypeOK
  <2> QED
    BY <1>1, <1>7, <2>1 DEF CleanupStaleChunks
<1>8. CASE Tick
  <2>1. Same([partials[id] EXCEPT !.age = Older(@)], partials[id])
    BY DEF Same, HostTypeOK, PartialMessage
  <2> QED
    BY <1>8, <2>1 DEF Tick, KeepsOrDrops
<1> QED
  BY <1>3, <1>4, <1>5, <1>6, <1>7, <1>8 DEF HandleChunk

(***************************************************************************)
(* A step that leaves the sender of t at its frame and delivers nothing of *)
(* t, and of which the model records a dropped entry, keeps what is known  *)
(* of t: an attempt that failed, a refused frame, and every step of others.*)
(***************************************************************************)
SenderStays(t) ==
  /\ status'[t] \in {status[t], "failed"}
  /\ offset'[t] = offset[t] /\ copies'[t] = copies[t]
  /\ answer'[t] \in {answer[t], "none", "SYSTEM_ERROR"}
  /\ answer'[t] # "none" => status'[t] = "sending"

Recorded(t) ==
  /\ t \in cutOff => t \in cutOff'
  /\ partials[t] # Absent /\ partials'[t] = Absent => t \in cutOff'

LEMMA PayloadKept ==
  ASSUME TransferTypeOK, NEW t \in Transfers, PayloadInv(t), SenderStays(t), Recorded(t),
         KeepsOrDrops(t), poisoned'[t] = NotPoisoned
  PROVE  PayloadInv(t)'
<1> USE DEF SenderStays, Recorded
<1>1. /\ poisoned'[t] = NotPoisoned
      /\ answer'[t] # "none" => status'[t] = "sending"
      /\ status'[t] = "ok" => copies'[t] > 0 \/ t \in cutOff'
  BY DEF PayloadInv
<1>2. CASE ~ Chunked(t)
  <2>1. WholeInv(t)
    BY <1>2 DEF PayloadInv
  <2>2. partials'[t] = Absent
    BY <2>1 DEF KeepsOrDrops, WholeInv
  <2>3. WholeInv(t)'
    BY <2>1, <2>2 DEF WholeInv
  <2> QED
    BY <1>1, <1>2, <2>3 DEF PayloadInv, Chunked
<1>3. CASE Chunked(t)
  <2>1. ChunkedInv(t)
    BY <1>3 DEF PayloadInv
  <2>2. FrameLength(t)' = FrameLength(t) /\ CallEnd(t)' = CallEnd(t)
    BY DEF FrameLength, CallEnd, Chunked
  <2>3. Framed(t)'
    BY <2>1 DEF ChunkedInv, Framed
  <2>4. /\ partials'[t] # Absent => partials[t] # Absent
        /\ partials'[t] # Absent => Same(partials'[t], partials[t])
    BY DEF KeepsOrDrops
  <2>5. partials'[t] # Absent => Known(t, partials[t])'
    BY <2>1, <2>2, <2>4 DEF ChunkedInv, Known, Same
  <2>6. Absent.data = {}
    BY DEF Absent, NewPartial
  <2>7. Retained(t)'
    <3>1. offset[t] \in Nat /\ offset[t] <= Total[t]
      BY <2>1 DEF TransferTypeOK, ChunkedInv, Framed
    <3>2. CallEnd(t) \in Nat /\ offset[t] <= CallEnd(t)
      BY <1>3, <3>1, FrameInside
    <3>3. Acknowledged(t)' \subseteq Acknowledged(t)
      BY <2>2, <3>1, <3>2 DEF Acknowledged
    <3>4. ASSUME copies'[t] = 0, t \notin cutOff' PROVE partials'[t].data = partials[t].data
      BY <2>4, <3>4 DEF Same
    <3> QED
      BY <2>1, <3>3, <3>4 DEF ChunkedInv, Retained
  <2>8. Spent(t)'
    <3>1. partials'[t].data \in {partials[t].data, {}}
      BY <2>4, <2>6 DEF Same
    <3> QED
      BY <2>1, <2>2, <3>1 DEF ChunkedInv, Spent
  <2>9. ChunkedInv(t)'
    BY <2>3, <2>5, <2>7, <2>8 DEF ChunkedInv
  <2> QED
    BY <1>1, <1>3, <2>9 DEF PayloadInv, Chunked
<1> QED
  BY <1>2, <1>3

-----------------------------------------------------------------------------

(***************************************************************************)
(* Send begins, at byte 0.                                                 *)
(***************************************************************************)
LEMMA BeginsStep ==
  ASSUME TransferTypeOK, NEW t \in Transfers, PayloadInv(t), SendBegins(t)
  PROVE  PayloadInv(t)'
<1>1. /\ status[t] = "new" /\ status'[t] \in {"refused", "sending"}
      /\ UNCHANGED <<partials, poisoned, offset, answer, copies, cutOff>>
  BY DEF SendBegins, NoHandling, TransferTypeOK, transferHistory
<1>2. answer[t] = "none"
  BY <1>1 DEF PayloadInv
<1>3. CASE ~ Chunked(t)
  BY <1>1, <1>2, <1>3 DEF PayloadInv, WholeInv, Chunked
<1>4. CASE Chunked(t)
  <2>1. ChunkedInv(t)
    BY <1>4 DEF PayloadInv
  <2>2. Framed(t)'
    BY <1>1, <1>4, <2>1, PayloadSize DEF ChunkedInv, Framed, Chunked
  <2>3. FrameLength(t)' = FrameLength(t) /\ CallEnd(t)' = CallEnd(t)
    BY <1>1 DEF FrameLength, CallEnd, Chunked
  <2>4. ChunkedInv(t)'
    BY <1>1, <2>1, <2>2, <2>3 DEF ChunkedInv, Known, Retained, Acknowledged, Spent
  <2> QED
    BY <1>1, <1>2, <1>4, <2>4 DEF PayloadInv, Chunked
<1> QED
  BY <1>3, <1>4

(***************************************************************************)
(* When the last frame is acknowledged, the payload has been delivered: an *)
(* entry that held all of it would not be in the registry.                 *)
(***************************************************************************)
LEMMA LastAckDelivers ==
  ASSUME IInv, TransferTypeOK, NEW t \in Transfers, Chunked(t), ChunkedInv(t),
         answer[t] = "ack", CallEnd(t) = Total[t]
  PROVE  copies[t] > 0 \/ t \in cutOff
<1> SUFFICES ASSUME copies[t] = 0, t \notin cutOff PROVE FALSE
  BY DEF TransferTypeOK
<1>1. t \in Ids /\ Total[t] \in Nat /\ Total[t] > 0
  BY PayloadSize DEF Chunked
<1>2. 0 .. Total[t] - 1 \subseteq partials[t].data
  BY DEF ChunkedInv, Retained, Acknowledged
<1>3. partials[t] # Absent
  <2>1. 0 \in 0 .. Total[t] - 1
    BY <1>1
  <2> QED
    BY <1>2, <2>1 DEF Absent, NewPartial
<1>4. /\ partials[t] \in PartialMessage /\ WellFormed(partials[t])
      /\ partials[t].received # partials[t].total
      /\ partials[t].total = Total[t]
  BY <1>1, <1>3 DEF IInv, SafeInv, HostTypeOK, Coverage, Unfinished, ChunkedInv, Known
<1> QED
  BY <1>2, <1>4, FullMeansCovered

(***************************************************************************)
(* An acknowledged frame: the sender goes on, or is done.                  *)
(***************************************************************************)
LEMMA SucceedsStep ==
  ASSUME IInv, TransferTypeOK, NEW t \in Transfers, PayloadInv(t),
         status[t] = "sending", answer[t] = "ack", AttemptSucceeds(t),
         answer'[t] = "none", UNCHANGED <<partials, poisoned, copies, cutOff>>
  PROVE  PayloadInv(t)'
<1>1. /\ offset'[t] = CallEnd(t)
      /\ status'[t] = IF CallEnd(t) = Total[t] THEN "ok" ELSE "sending"
  BY DEF AttemptSucceeds, TransferTypeOK
<1>2. CASE ~ Chunked(t)
  <2>1. partials[t] = Absent /\ (copies[t] > 0 \/ t \in cutOff)
    BY <1>2 DEF PayloadInv, WholeInv
  <2> QED
    BY <1>2, <2>1 DEF PayloadInv, WholeInv, Chunked
<1>3. CASE Chunked(t)
  <2>1. ChunkedInv(t)
    BY <1>3 DEF PayloadInv
  <2>2. /\ offset[t] \in Nat /\ offset[t] < Total[t]
        /\ Total[t] \in Nat /\ ChunkSize \in Nat /\ ChunkSize > 0
    BY <2>1, PayloadSize DEF TransferTypeOK, ChunkedInv, Framed
  <2>3. /\ CallEnd(t) \in Nat /\ CallEnd(t) <= Total[t]
        /\ CallEnd(t) = offset[t] + FrameLength(t) /\ FrameLength(t) \in Nat
    BY <1>3, <2>2, FrameInside
  <2>4. Framed(t)'
    BY <1>1, <2>2, <2>3 DEF Framed
  <2>5. partials'[t] # Absent => Known(t, partials[t])'
    <3>1. CASE partials[t] = Absent
      BY <3>1
    <3>2. CASE partials[t] # Absent
      <4>1. partials[t] \in PartialMessage /\ Known(t, partials[t])
        BY <2>1, <3>2, PayloadSize DEF ChunkedInv, IInv, HostTypeOK
      <4>2. \A s \in partials[t].segments : s.offset \in Nat /\ s.length \in Nat
        BY <4>1 DEF PartialMessage, Segment, UInt32
      <4>3. \A s \in partials[t].segments : s.offset + s.length <= offset'[t]
        BY <1>1, <2>2, <2>3, <4>1, <4>2 DEF Known
      <4> QED
        BY <4>1, <4>3 DEF Known
    <3> QED
      BY <3>1, <3>2
  <2>6. Retained(t)'
    BY <1>1, <2>1 DEF ChunkedInv, Retained, Acknowledged
  <2>7. Spent(t)'
    <3>1. ASSUME copies[t] > 0 PROVE offset'[t] = Total[t]
      BY <1>1, <2>1, <3>1 DEF ChunkedInv, Spent
    <3>2. ASSUME copies[t] > 0 PROVE CallEnd(t)' = Total[t]
      BY <1>3, <2>2, <3>1, <3>2 DEF CallEnd, FrameLength, Chunked
    <3> QED
      BY <2>1, <2>2, <3>1, <3>2 DEF ChunkedInv, Spent
  <2>8. ChunkedInv(t)'
    BY <2>4, <2>5, <2>6, <2>7 DEF ChunkedInv
  <2>9. status'[t] = "ok" => copies[t] > 0 \/ t \in cutOff
    BY <1>1, <1>3, <2>1, LastAckDelivers
  <2> QED
    BY <1>3, <2>8, <2>9 DEF PayloadInv, Chunked
<1> QED
  BY <1>2, <1>3

(***************************************************************************)
(* The sender's steps keep what is known of its payload.                   *)
(***************************************************************************)
LEMMA SenderStep ==
  ASSUME IInv, TransferTypeOK, NEW t \in Transfers, PayloadInv(t), Sender(t)
  PROVE  PayloadInv(t)'
<1>1. ASSUME UNCHANGED <<partials, poisoned, copies, cutOff>>,
             AttemptFails(t), answer'[t] = "none"
      PROVE  PayloadInv(t)'
  <2>1. SenderStays(t) /\ Recorded(t)
    BY <1>1 DEF SenderStays, Recorded, AttemptFails, TransferTypeOK
  <2>2. KeepsOrDrops(t)
    BY <1>1 DEF KeepsOrDrops, Same
  <2>3. poisoned'[t] = NotPoisoned
    BY <1>1 DEF PayloadInv
  <2> QED
    BY <2>1, <2>2, <2>3, PayloadKept
<1>2. CASE SendBegins(t)
  BY <1>2, BeginsStep
<1>3. CASE CallLost(t)
  <2>1. answer'[t] = "none" /\ UNCHANGED <<partials, poisoned, copies, cutOff>>
    BY <1>3 DEF CallLost, NoHandling, transferHistory
  <2> QED
    BY <1>1, <1>3, <2>1 DEF CallLost
<1>4. CASE AnswerLost(t)
  <2>1. answer'[t] = "none" /\ UNCHANGED <<partials, poisoned, copies, cutOff>>
    BY <1>4 DEF AnswerLost, NoHandling, transferHistory, TransferTypeOK
  <2> QED
    BY <1>1, <1>4, <2>1 DEF AnswerLost
<1>5. CASE AnswerArrives(t)
  <2>1. answer'[t] = "none" /\ UNCHANGED <<partials, poisoned, copies, cutOff>>
    BY <1>5 DEF AnswerArrives, NoHandling, transferHistory, TransferTypeOK
  <2> QED
    BY <1>1, <1>5, <2>1, SucceedsStep DEF AnswerArrives
<1> QED
  BY <1>2, <1>3, <1>4, <1>5 DEF Sender

-----------------------------------------------------------------------------

(***************************************************************************)
(* The worker swallows a call of t, or dispatches its payload whole.       *)
(***************************************************************************)
LEMMA SwallowStep ==
  ASSUME TransferTypeOK, NEW t \in Transfers, PayloadInv(t), Swallow(t)
  PROVE  PayloadInv(t)'
<1>1. /\ answer' = [answer EXCEPT ![t] = "ack"]
      /\ t \in cutOff' /\ status[t] = "sending"
      /\ UNCHANGED <<partials, poisoned, status, offset, copies>>
  BY DEF Swallow, Pending, NoHandling, senderVars
<1>2. CASE ~ Chunked(t)
  BY <1>1, <1>2 DEF PayloadInv, WholeInv, Chunked
<1>3. CASE Chunked(t)
  <2>1. ChunkedInv(t)
    BY <1>3 DEF PayloadInv
  <2>2. FrameLength(t)' = FrameLength(t) /\ CallEnd(t)' = CallEnd(t)
    BY <1>1 DEF FrameLength, CallEnd, Chunked
  <2>3. ChunkedInv(t)'
    BY <1>1, <2>1, <2>2 DEF ChunkedInv, Framed, Known, Retained, Spent
  <2> QED
    BY <1>1, <1>3, <2>3 DEF PayloadInv, Chunked
<1> QED
  BY <1>2, <1>3

LEMMA WholeStep ==
  ASSUME TransferTypeOK, CallWaits, NEW t \in Transfers, PayloadInv(t), HandleWhole(t)
  PROVE  PayloadInv(t)'
<1>1. /\ status[t] = "sending" /\ copies'[t] > 0
      /\ ~ Chunked(t)
      /\ UNCHANGED <<partials, poisoned, status, cutOff>>
  BY DEF HandleWhole, CallWaits, Pending, NoHandling, senderVars, TransferTypeOK
<1> QED
  BY <1>1 DEF PayloadInv, WholeInv, Chunked

(***************************************************************************)
(* The payload is complete only once, and only at its last frame.          *)
(***************************************************************************)
LEMMA CompletesAtEnd ==
  ASSUME IInv, TransferTypeOK, NEW t \in Transfers, Chunked(t), ChunkedInv(t),
         offset[t] < Total[t], Completes(BuildFrame(t))
  PROVE  copies[t] = 0 /\ offset[t] > 0 /\ CallEnd(t) = Total[t]
<1> DEFINE m == Received(Entry(BuildFrame(t)), BuildFrame(t))
<1>1. /\ offset[t] \in Nat /\ offset[t] <= Total[t] /\ copies[t] \in Nat
      /\ Total[t] \in Nat /\ Total[t] > 0
  BY PayloadSize DEF TransferTypeOK, ChunkedInv, Framed, Chunked
<1>2. /\ FrameLength(t) \in Nat
      /\ CallEnd(t) = offset[t] + FrameLength(t) /\ CallEnd(t) <= Total[t]
      /\ offset[t] = 0 => FrameLength(t) < Total[t]
  BY <1>1, FrameInside
<1>3. /\ m \in PartialMessage /\ WellFormed(m) /\ Known(t, m)
      /\ m.data = partials[t].data \union Bytes(offset[t], FrameLength(t))
      /\ m.data = 0 .. Total[t] - 1
  BY OwnFrameAdds
<1>4. \A i \in m.data : i < CallEnd(t)
  <2> SUFFICES ASSUME NEW i \in m.data PROVE i < CallEnd(t)
    OBVIOUS
  <2> HIDE DEF m
  <2>1. PICK s \in m.segments : i \in Bytes(s.offset, s.length)
    BY <1>3 DEF WellFormed
  <2>2. s.offset \in Nat /\ s.length \in Nat
    BY <1>3 DEF PartialMessage, Segment, UInt32
  <2>3. s.offset + s.length <= CallEnd(t)
    BY <1>1, <1>2, <1>3, <2>2 DEF Known
  <2> QED
    BY <1>1, <1>2, <2>1, <2>2, <2>3 DEF Bytes
<1> HIDE DEF m
<1>5. 0 \in m.data /\ Total[t] - 1 \in m.data
  BY <1>1, <1>3
<1>6. CallEnd(t) = Total[t]
  BY <1>1, <1>2, <1>4, <1>5
<1>7. offset[t] > 0
  BY <1>1, <1>2, <1>6
<1>8. 0 \in partials[t].data
  BY <1>1, <1>2, <1>3, <1>5, <1>7 DEF Bytes
<1> QED
  BY <1>1, <1>6, <1>7, <1>8 DEF ChunkedInv, Spent

(***************************************************************************)
(* A frame of t that HandleChunk accepts.                                  *)
(***************************************************************************)
LEMMA AcceptedStep ==
  ASSUME IInv, TransferTypeOK, NEW t \in Transfers, Chunked(t), PayloadInv(t),
         status[t] = "sending",
         partials'[t] = LeftAfter(BuildFrame(t)), poisoned'[t] = NotPoisoned,
         UNCHANGED <<status, offset>>, answer'[t] = "ack", cutOff \subseteq cutOff',
         copies'[t] = IF Completes(BuildFrame(t)) THEN copies[t] + 1 ELSE copies[t]
  PROVE  PayloadInv(t)'
<1> DEFINE c == BuildFrame(t)
           m == Received(Entry(c), c)
<1>1. ChunkedInv(t) /\ offset[t] < Total[t]
  BY DEF PayloadInv, ChunkedInv, Framed
<1>2. /\ offset[t] \in Nat /\ offset[t] <= Total[t] /\ copies[t] \in Nat
      /\ Total[t] \in Nat
  BY <1>1, PayloadSize DEF TransferTypeOK, ChunkedInv, Framed
<1>3. /\ FrameLength(t) \in Nat /\ CallEnd(t) = offset[t] + FrameLength(t)
  BY <1>2, FrameInside
<1>4. FrameLength(t)' = FrameLength(t) /\ CallEnd(t)' = CallEnd(t)
  BY DEF FrameLength, CallEnd, Chunked
<1>5. Framed(t)'
  BY <1>1 DEF ChunkedInv, Framed
<1>6. CASE Completes(c)
  <2>1. copies[t] = 0 /\ offset[t] > 0 /\ CallEnd(t) = Total[t]
    BY <1>1, <1>6, CompletesAtEnd
  <2>2. partials'[t] = Absent /\ copies'[t] = 1
    BY <1>6, <2>1 DEF LeftAfter
  <2>3. 0 \notin partials'[t].data
    BY <2>2 DEF Absent, NewPartial
  <2>4. Retained(t)' /\ Spent(t)'
    BY <1>4, <2>1, <2>2, <2>3 DEF Retained, Spent
  <2>5. ChunkedInv(t)'
    BY <1>5, <2>2, <2>4 DEF ChunkedInv
  <2> QED
    BY <2>2, <2>5 DEF PayloadInv, Chunked
<1>7. CASE ~ Completes(c)
  <2>1. /\ Known(t, m)
        /\ m.data = partials[t].data \union Bytes(offset[t], FrameLength(t))
    BY <1>1, OwnFrameAdds
  <2>2. partials'[t] = m /\ copies'[t] = copies[t]
    BY <1>7 DEF LeftAfter
  <2> HIDE DEF m
  <2>3. Known(t, partials[t])'
    BY <1>4, <2>1, <2>2 DEF Known
  <2>4. Retained(t)'
    <3> SUFFICES ASSUME copies[t] = 0, t \notin cutOff, NEW i \in 0 .. CallEnd(t) - 1
                 PROVE  i \in m.data
      BY <1>4, <2>2 DEF Retained, Acknowledged
    <3>1. \A j \in 0 .. offset[t] - 1 : j \in partials[t].data
      BY <1>1, <1>2, <1>3 DEF PayloadInv, ChunkedInv, Retained, Acknowledged
    <3>2. CASE i < offset[t]
      BY <1>2, <1>3, <2>1, <3>1, <3>2
    <3>3. CASE ~ (i < offset[t])
      BY <1>2, <1>3, <2>1, <3>3 DEF Bytes
    <3> QED
      BY <3>2, <3>3
  <2>5. Spent(t)'
    <3> SUFFICES ASSUME copies[t] > 0
                 PROVE  /\ copies[t] = 1 /\ offset[t] > 0 /\ CallEnd(t) = Total[t]
                        /\ 0 \notin m.data
      BY <1>4, <2>2 DEF Spent
    <3>1. /\ copies[t] = 1 /\ offset[t] > 0 /\ CallEnd(t) = Total[t]
          /\ 0 \notin partials[t].data
      BY <1>1 DEF ChunkedInv, Spent
    <3> QED
      BY <1>2, <1>3, <2>1, <3>1 DEF Bytes
  <2>6. ChunkedInv(t)'
    BY <1>5, <2>3, <2>4, <2>5 DEF ChunkedInv
  <2> QED
    BY <2>6 DEF PayloadInv, Chunked
<1> QED
  BY <1>6, <1>7

(***************************************************************************)
(* HandleFrame, whichever way HandleChunk answers.                         *)
(***************************************************************************)
LEMMA FrameStep ==
  ASSUME IInv, TransferTypeOK, CallWaits, NEW t \in Transfers, PayloadInv(t), HandleFrame(t)
  PROVE  PayloadInv(t)'
<1> DEFINE c == BuildFrame(t)
           done == Accepts(c) /\ Completes(c)
<1>1. /\ Chunked(t) /\ status[t] = "sending"
      /\ HandleChunk(c)
      /\ answer' = [answer EXCEPT ![t] = IF Accepts(c) THEN "ack" ELSE "SYSTEM_ERROR"]
      /\ copies' = IF done THEN [copies EXCEPT ![t] = @ + 1] ELSE copies
      /\ cutOff' = cutOff \union (Dropped \ (IF done THEN {t} ELSE {}))
      /\ UNCHANGED <<status, offset>>
  BY DEF HandleFrame, CallWaits, Pending, senderVars
<1>2. /\ ChunkedInv(t) /\ poisoned[t] = NotPoisoned
      /\ offset[t] < Total[t]
      /\ offset[t] \in Nat /\ offset[t] <= Total[t]
  BY <1>1 DEF PayloadInv, ChunkedInv, Framed, TransferTypeOK
<1>3. c \in Frame /\ c.id = t /\ t \in Ids
  BY <1>1, <1>2, BuiltFrame, PayloadSize
<1>4. ~ Violates(c)
  BY <1>1, <1>2, OwnFrameAdds
<1> HIDE DEF c
<1>5. /\ SweptPartials(c)[t] \in {partials[t], Absent}
      /\ SweptPoisoned(c)[t] = NotPoisoned
      /\ SweptPartials(c) \in [Ids -> PartialMessage]
  BY <1>2, <1>3, SweptOK DEF IInv
<1>6. ~ RejectChunk(c)
  BY <1>4 DEF RejectChunk
<1>7. CASE RefuseUnloading \/ RefuseAdmission(c)
  <2>1. ~ Accepts(c)
    BY <1>7 DEF RefuseUnloading, RefuseAdmission, Accepts
  <2>2. partials'[t] \in {partials[t], Absent} /\ poisoned'[t] = NotPoisoned
    BY <1>2, <1>5, <1>7 DEF RefuseUnloading, RefuseAdmission
  <2>3. KeepsOrDrops(t)
    BY <2>2 DEF KeepsOrDrops, Same
  <2>4. SenderStays(t)
    BY <1>1, <2>1 DEF SenderStays, TransferTypeOK
  <2>5. Recorded(t)
    BY <1>1, <2>1 DEF Recorded, Dropped
  <2> QED
    BY <2>2, <2>3, <2>4, <2>5, PayloadKept
<1>8. CASE AcceptChunk(c)
  <2>1. /\ Accepts(c)
        /\ partials' = [SweptPartials(c) EXCEPT ![c.id] = LeftAfter(c)]
        /\ poisoned' = SweptPoisoned(c)
    BY <1>8 DEF AcceptChunk
  <2>2. partials'[t] = LeftAfter(c) /\ poisoned'[t] = NotPoisoned
    BY <1>3, <1>5, <2>1
  <2>3. answer'[t] = "ack" /\ cutOff \subseteq cutOff'
    BY <1>1, <2>1 DEF TransferTypeOK
  <2>4. copies'[t] = IF Completes(c) THEN copies[t] + 1 ELSE copies[t]
    BY <1>1, <2>1 DEF TransferTypeOK
  <2> QED
    BY <1>1, <2>2, <2>3, <2>4, AcceptedStep DEF c
<1> QED
  BY <1>1, <1>6, <1>7, <1>8 DEF HandleChunk

(***************************************************************************)
(* Every step of GuestTransfer is, for the registry, one of its steps.     *)
(***************************************************************************)
LEMMA TransferIsHostStep ==
  ASSUME IInv, TransferTypeOK, CallWaits, \A t \in Transfers : PayloadInv(t), TransferNext
  PROVE  HostStep
<1>1. CASE NoHandling
  BY <1>1 DEF HostStep
<1>2. ASSUME NEW t \in Transfers, HandleFrame(t) PROVE HostStep
  <2>1. HandleChunk(BuildFrame(t)) /\ Chunked(t)
    BY <1>2 DEF HandleFrame
  <2>2. offset[t] \in Nat /\ offset[t] <= Total[t]
    BY <2>1 DEF PayloadInv, ChunkedInv, Framed, TransferTypeOK
  <2>3. BuildFrame(t) \in Frame
    BY <2>1, <2>2, BuiltFrame
  <2> QED
    BY <2>1, <2>3 DEF HostStep
<1>3. ASSUME NEW c \in Strays, HandleStray(c) PROVE HostStep
  BY <1>3, TransfersAssumption, FramesAssumption DEF HandleStray, HostStep
<1>4. CASE BatchEnds
  BY <1>4, <1>1 DEF BatchEnds, HostStep
<1>5. CASE BeginUnload \/ TimePasses
  BY <1>5 DEF BeginUnload, TimePasses, HostStep
<1>6. ASSUME NEW t \in Transfers, Sender(t) PROVE NoHandling
  BY <1>6 DEF Sender, SendBegins, CallLost, AnswerArrives, AnswerLost
<1>7. ASSUME NEW t \in Transfers, Swallow(t) \/ TakeCall(t) \/ HandleWhole(t)
      PROVE  NoHandling
  BY <1>7 DEF Swallow, TakeCall, HandleWhole
<1>8. CASE BatchBegins \/ WorkerExits \/ BeginQuiesce
  BY <1>1, <1>8 DEF BatchBegins, WorkerExits, BeginQuiesce
<1> QED
  BY <1>1, <1>2, <1>3, <1>4, <1>5, <1>6, <1>7, <1>8 DEF TransferNext, Worker

(***************************************************************************)
(* The steps of others, and of the worker outside the calls of t.          *)
(***************************************************************************)
LEMMA ElsewhereStep ==
  ASSUME IInv, TransferTypeOK, NEW t \in Transfers, PayloadInv(t),
         UNCHANGED <<status[t], offset[t], answer[t], copies[t]>>,
         cutOff \subseteq cutOff',
         t \in Dropped => t \in cutOff',
         \/ \E c \in Frame : c.id # t /\ HandleChunk(c)
         \/ CleanupStaleChunks \/ Unload \/ Tick \/ NoHandling
  PROVE  PayloadInv(t)'
<1>1. KeepsOrDrops(t) /\ poisoned'[t] = NotPoisoned
  BY OthersKept, PayloadSize DEF PayloadInv
<1>2. SenderStays(t) /\ Recorded(t)
  BY DEF SenderStays, Recorded, Dropped, PayloadInv
<1> QED
  BY <1>1, <1>2, PayloadKept

LEMMA PayloadStep ==
  ASSUME TransferInv, TransferNext, NEW t \in Transfers
  PROVE  PayloadInv(t)'
<1> USE DEF TransferInv
<1>1. ASSUME NoHandling, UNCHANGED <<status[t], offset[t], answer[t], copies[t]>>,
             cutOff \subseteq cutOff'
      PROVE  PayloadInv(t)'
  <2>1. t \notin Dropped
    BY <1>1 DEF NoHandling, Dropped
  <2> QED
    BY <1>1, <2>1, ElsewhereStep
<1>2. ASSUME NEW u \in Transfers, Sender(u) PROVE PayloadInv(t)'
  <2>1. CASE u = t
    BY <1>2, <2>1, SenderStep
  <2>2. CASE u # t
    <3>1. NoHandling /\ UNCHANGED <<copies, cutOff>>
      BY <1>2 DEF Sender, SendBegins, CallLost, AnswerArrives, AnswerLost, transferHistory
    <3>2. status'[t] = status[t]
      BY <1>2, <2>2 DEF Sender, SendBegins, CallLost, AnswerArrives, AnswerLost,
                        AttemptFails, AttemptSucceeds, TransferTypeOK
    <3>3. offset'[t] = offset[t]
      BY <1>2, <2>2 DEF Sender, SendBegins, CallLost, AnswerArrives, AnswerLost,
                        AttemptFails, AttemptSucceeds, TransferTypeOK
    <3>4. answer'[t] = answer[t]
      BY <1>2, <2>2 DEF Sender, SendBegins, CallLost, AnswerArrives, AnswerLost,
                        TransferTypeOK
    <3> QED
      BY <1>1, <3>1, <3>2, <3>3, <3>4
  <2> QED
    BY <2>1, <2>2
<1>3. CASE BatchBegins \/ WorkerExits \/ BeginQuiesce
  <2>1. NoHandling /\ UNCHANGED <<status, offset, answer, copies, cutOff>>
    BY <1>3 DEF BatchBegins, WorkerExits, BeginQuiesce, senderVars, transferHistory
  <2> QED
    BY <1>1, <2>1
<1>4. ASSUME NEW u \in Transfers, TakeCall(u) PROVE PayloadInv(t)'
  <2>1. NoHandling /\ UNCHANGED <<status, offset, answer, copies, cutOff>>
    BY <1>4 DEF TakeCall, senderVars, transferHistory
  <2> QED
    BY <1>1, <2>1
<1>5. ASSUME NEW u \in Transfers, Swallow(u) PROVE PayloadInv(t)'
  <2>1. CASE u = t
    BY <1>5, <2>1, SwallowStep
  <2>2. CASE u # t
    <3>1. NoHandling /\ UNCHANGED <<status, offset, copies>> /\ cutOff \subseteq cutOff'
      BY <1>5 DEF Swallow, senderVars
    <3>2. answer'[t] = answer[t]
      BY <1>5, <2>2 DEF Swallow, TransferTypeOK
    <3> QED
      BY <1>1, <3>1, <3>2
  <2> QED
    BY <2>1, <2>2
<1>6. ASSUME NEW u \in Transfers, HandleWhole(u) PROVE PayloadInv(t)'
  <2>1. CASE u = t
    BY <1>6, <2>1, WholeStep
  <2>2. CASE u # t
    <3>1. NoHandling /\ UNCHANGED <<status, offset, cutOff>>
      BY <1>6 DEF HandleWhole, senderVars
    <3>2. answer'[t] = answer[t] /\ copies'[t] = copies[t]
      BY <1>6, <2>2 DEF HandleWhole, TransferTypeOK
    <3> QED
      BY <1>1, <3>1, <3>2
  <2> QED
    BY <2>1, <2>2
<1>7. ASSUME NEW u \in Transfers, HandleFrame(u) PROVE PayloadInv(t)'
  <2>1. CASE u = t
    BY <1>7, <2>1, FrameStep
  <2>2. CASE u # t
    <3> DEFINE c == BuildFrame(u)
    <3>1. Chunked(u) /\ HandleChunk(c) /\ UNCHANGED <<status, offset>>
      BY <1>7 DEF HandleFrame, senderVars
    <3>2. offset[u] \in Nat /\ offset[u] <= Total[u]
      BY <3>1 DEF PayloadInv, ChunkedInv, Framed, TransferTypeOK
    <3>3. c \in Frame /\ c.id # t
      BY <2>2, <3>1, <3>2, BuiltFrame
    <3>4. answer'[t] = answer[t] /\ copies'[t] = copies[t]
      BY <1>7, <2>2 DEF HandleFrame, TransferTypeOK
    <3>5. cutOff \subseteq cutOff' /\ (t \in Dropped => t \in cutOff')
      BY <1>7, <2>2 DEF HandleFrame
    <3> HIDE DEF c
    <3> QED
      BY <3>1, <3>3, <3>4, <3>5, ElsewhereStep
  <2> QED
    BY <2>1, <2>2
<1>8. ASSUME NEW c \in Strays, HandleStray(c) PROVE PayloadInv(t)'
  <2>1. c \in Frame /\ c.id # t
    BY TransfersAssumption, FramesAssumption
  <2>2. /\ HandleChunk(c)
        /\ UNCHANGED <<status, offset, answer, copies>>
        /\ cutOff \subseteq cutOff' /\ Dropped \subseteq cutOff'
    BY <1>8 DEF HandleStray, senderVars
  <2> QED
    BY <2>1, <2>2, ElsewhereStep
<1>9. CASE BatchEnds
  <2>1. /\ CleanupStaleChunks \/ NoHandling
        /\ UNCHANGED <<status, offset, answer, copies>>
        /\ cutOff \subseteq cutOff' /\ Dropped \subseteq cutOff'
    BY <1>9 DEF BatchEnds, senderVars
  <2> QED
    BY <2>1, ElsewhereStep
<1>10. CASE BeginUnload
  <2>1. Unload /\ UNCHANGED <<status, offset, answer, copies, cutOff>>
    BY <1>10 DEF BeginUnload, senderVars, transferHistory
  <2>2. t \notin Dropped
    BY <2>1 DEF Unload, Dropped
  <2> QED
    BY <2>1, <2>2, ElsewhereStep
<1>11. CASE TimePasses
  <2>1. Tick /\ UNCHANGED <<status, offset, answer, copies, cutOff>>
    BY <1>11 DEF TimePasses, senderVars, transferHistory
  <2>2. t \notin Dropped
    <3>1. t \in Ids /\ partials[t] \in PartialMessage
      BY PayloadSize DEF IInv, HostTypeOK
    <3>2. partials[t].age \in Nat
      BY <3>1, LimitsAssumption DEF PartialMessage, Ages
    <3>3. [partials[t] EXCEPT !.age = Older(@)].age # 0
      BY <3>1, <3>2, LimitsAssumption DEF PartialMessage, Older
    <3>4. partials[t] # Absent => partials'[t] # Absent
      BY <2>1, <3>1, <3>3 DEF Tick, Absent, NewPartial
    <3> QED
      BY <3>4 DEF Dropped
  <2> QED
    BY <2>1, <2>2, ElsewhereStep
<1> QED
  BY <1>2, <1>3, <1>4, <1>5, <1>6, <1>7, <1>8, <1>9, <1>10, <1>11 DEF TransferNext, Worker

(***************************************************************************)
(* The variables keep their types, and the worker's call its sender.       *)
(***************************************************************************)
LEMMA TransferTypeStep ==
  ASSUME TransferInv, TransferNext
  PROVE  TransferTypeOK'
<1> USE DEF TransferInv, TransferTypeOK
<1>1. status' \in [Transfers -> {"new", "refused", "sending", "ok", "failed"}]
  BY DEF TransferNext, Worker, Sender, SendBegins, CallLost, AnswerArrives, AnswerLost,
         AttemptFails, AttemptSucceeds, BatchBegins, WorkerExits, BatchEnds, Swallow,
         TakeCall, HandleWhole, HandleFrame, HandleStray, BeginQuiesce, BeginUnload,
         TimePasses, senderVars
<1>2. offset' \in [Transfers -> Nat]
  <2>1. ASSUME NEW t \in Transfers, Sender(t) PROVE offset' \in [Transfers -> Nat]
    <3>1. CallEnd(t) \in Nat
      <4>1. CASE Chunked(t)
        BY <4>1, FrameInside DEF PayloadInv, ChunkedInv, Framed
      <4>2. CASE ~ Chunked(t)
        BY <4>2, PayloadSize DEF CallEnd
      <4> QED
        BY <4>1, <4>2
    <3> QED
      BY <2>1, <3>1 DEF Sender, SendBegins, CallLost, AnswerArrives, AnswerLost,
                        AttemptFails, AttemptSucceeds
  <2>2. ASSUME ~ \E t \in Transfers : Sender(t) PROVE offset' = offset
    BY <2>2 DEF TransferNext, Worker, BatchBegins, WorkerExits, BatchEnds, Swallow,
                TakeCall, HandleWhole, HandleFrame, HandleStray, BeginQuiesce,
                BeginUnload, TimePasses, senderVars
  <2> QED
    BY <2>1, <2>2
<1>3. tries' \in [Transfers -> Nat]
  BY DEF TransferNext, Worker, Sender, SendBegins, CallLost, AnswerArrives, AnswerLost,
         AttemptFails, AttemptSucceeds, BatchBegins, WorkerExits, BatchEnds, Swallow,
         TakeCall, HandleWhole, HandleFrame, HandleStray, BeginQuiesce, BeginUnload,
         TimePasses, senderVars
<1>4. answer' \in [Transfers -> {"none", "ack", "SYSTEM_ERROR"}]
  BY DEF TransferNext, Worker, Sender, SendBegins, CallLost, AnswerArrives, AnswerLost,
         BatchBegins, WorkerExits, BatchEnds, Swallow, TakeCall, HandleWhole,
         HandleFrame, HandleStray, BeginQuiesce, BeginUnload, TimePasses
<1>5. call' \in Transfers \union {None}
  BY DEF TransferNext, Worker, Sender, SendBegins, CallLost, AnswerArrives, AnswerLost,
         BatchBegins, WorkerExits, BatchEnds, Swallow, TakeCall, HandleWhole,
         HandleFrame, HandleStray, BeginQuiesce, BeginUnload, TimePasses, workerVars
<1>6. copies' \in [Transfers -> Nat]
  BY DEF TransferNext, Worker, Sender, SendBegins, CallLost, AnswerArrives, AnswerLost,
         BatchBegins, WorkerExits, BatchEnds, Swallow, TakeCall, HandleWhole,
         HandleFrame, HandleStray, BeginQuiesce, BeginUnload, TimePasses, transferHistory
<1>7. cutOff' \in SUBSET Transfers
  BY DEF TransferNext, Worker, Sender, SendBegins, CallLost, AnswerArrives, AnswerLost,
         BatchBegins, WorkerExits, BatchEnds, Swallow, TakeCall, HandleWhole,
         HandleFrame, HandleStray, BeginQuiesce, BeginUnload, TimePasses,
         transferHistory, Dropped
<1> QED
  BY <1>1, <1>2, <1>3, <1>4, <1>5, <1>6, <1>7

LEMMA CallStep ==
  ASSUME TransferInv, TransferNext
  PROVE  CallWaits'
<1> SUFFICES ASSUME NEW t \in Transfers, call' = t PROVE Pending(t)'
  BY DEF CallWaits
<1> USE DEF TransferInv, TransferTypeOK
<1>0. t # None
  BY PayloadSize
<1>1. ASSUME NEW u \in Transfers, Sender(u) PROVE Pending(t)'
  <2>1. call = t /\ Pending(t)
    BY <1>1 DEF Sender, SendBegins, CallLost, AnswerArrives, AnswerLost, workerVars,
                CallWaits
  <2>2. u # t
    BY <1>1, <2>1 DEF Sender, SendBegins, CallLost, AnswerArrives, AnswerLost, Pending
  <2>3. status'[t] = status[t] /\ answer'[t] = answer[t]
    BY <1>1, <2>2 DEF Sender, SendBegins, CallLost, AnswerArrives, AnswerLost,
                      AttemptFails, AttemptSucceeds
  <2> QED
    BY <2>1, <2>3 DEF Pending
<1>2. ASSUME NEW u \in Transfers, TakeCall(u) PROVE Pending(t)'
  BY <1>2 DEF TakeCall, Pending, senderVars
<1>3. ASSUME NEW u \in Transfers, Swallow(u) \/ HandleWhole(u) \/ HandleFrame(u)
      PROVE  FALSE
  BY <1>0, <1>3 DEF Swallow, HandleWhole, HandleFrame, workerVars
<1>4. ASSUME NEW c \in Strays, HandleStray(c) PROVE FALSE
  BY <1>0, <1>4 DEF HandleStray, workerVars
<1>5. CASE BatchBegins \/ WorkerExits \/ BatchEnds \/ BeginQuiesce \/ BeginUnload \/ TimePasses
  <2>1. UNCHANGED <<call, status, answer>>
    BY <1>5 DEF BatchBegins, WorkerExits, BatchEnds, BeginQuiesce, BeginUnload,
                TimePasses, senderVars, workerVars
  <2> QED
    BY <2>1 DEF CallWaits, Pending
<1> QED
  BY <1>1, <1>2, <1>3, <1>4, <1>5 DEF TransferNext, Worker

LEMMA TransferStep == TransferInv /\ [TransferNext]_transferVars => TransferInv'
<1> SUFFICES ASSUME TransferInv, [TransferNext]_transferVars PROVE TransferInv'
  OBVIOUS
<1>1. CASE TransferNext
  <2>1. HostStep
    BY <1>1, TransferIsHostStep DEF TransferInv
  <2>2. IInv'
    BY <2>1, SafeStep DEF TransferInv
  <2> QED
    BY <1>1, <2>2, PayloadStep, TransferTypeStep, CallStep DEF TransferInv
<1>2. CASE UNCHANGED transferVars
  <2>1. IInv'
    BY <1>2, SafeStep DEF TransferInv, transferVars, hostVars
  <2>2. TransferTypeOK' /\ CallWaits'
    BY <1>2 DEF TransferInv, transferVars, TransferTypeOK, CallWaits, Pending
  <2>3. ASSUME NEW t \in Transfers PROVE PayloadInv(t)'
    BY <1>2 DEF TransferInv, transferVars, PayloadInv, WholeInv, ChunkedInv, Chunked,
                Framed, Known, FrameLength, Retained, Acknowledged, CallEnd, Spent
  <2> QED
    BY <2>1, <2>2, <2>3 DEF TransferInv
<1> QED
  BY <1>1, <1>2

LEMMA TransferStart == TransferInit => TransferInv
<1> SUFFICES ASSUME TransferInit PROVE TransferInv
  OBVIOUS
<1>1. IInv
  BY SafeStart DEF TransferInit
<1>2. TransferTypeOK
  BY DEF TransferInit, TransferTypeOK
<1>3. CallWaits
  BY PayloadSize DEF TransferInit, CallWaits
<1>4. ASSUME NEW t \in Transfers PROVE PayloadInv(t)
  <2>1. t \in Ids /\ Total[t] \in Nat
    BY PayloadSize
  <2>2. /\ partials[t] = Absent /\ poisoned[t] = NotPoisoned
        /\ status[t] = "new" /\ offset[t] = 0 /\ answer[t] = "none" /\ copies[t] = 0
    BY <2>1 DEF TransferInit, HostInit
  <2>3. ChunkedInv(t)
    BY <2>1, <2>2 DEF ChunkedInv, Framed, Retained, Acknowledged, Spent
  <2>4. WholeInv(t)
    BY <2>2 DEF WholeInv
  <2> QED
    BY <2>2, <2>3, <2>4 DEF PayloadInv
<1> QED
  BY <1>1, <1>2, <1>3, <1>4 DEF TransferInv

LEMMA TransferInvariance == TransferSpec => []TransferInv
BY TransferStart, TransferStep, PTL DEF TransferSpec

(***************************************************************************)
(* Send and SendOnceGrid answer nil only for a payload that the host has   *)
(* processed or of which it discarded an accepted part, for any payloads,  *)
(* budgets and retry policies, any loss of calls and answers, and any      *)
(* frames of other producers.                                              *)
(***************************************************************************)
THEOREM NilIsDelivered == TransferSpec => []SuccessMeansDelivered
<1>1. TransferInv => SuccessMeansDelivered
  BY DEF TransferInv, PayloadInv, SuccessMeansDelivered
<1> QED
  BY <1>1, TransferInvariance, PTL

(***************************************************************************)
(* A chunked payload is processed at most once: the resent last frame of a *)
(* transfer that the host has forgotten opens one that never completes.    *)
(***************************************************************************)
THEOREM ChunkedIsOnce == TransferSpec => []ChunkedAtMostOnce
<1>1. TransferInv => ChunkedAtMostOnce
  <2> SUFFICES ASSUME TransferInv, NEW t \in Transfers, Total[t] > ChunkSize
               PROVE  copies[t] <= 1
    BY DEF ChunkedAtMostOnce
  <2>1. Spent(t) /\ copies[t] \in Nat
    BY DEF TransferInv, TransferTypeOK, PayloadInv, ChunkedInv, Chunked
  <2> QED
    BY <2>1 DEF Spent
<1> QED
  BY <1>1, TransferInvariance, PTL

(***************************************************************************)
(* No retry, and no remnant of an earlier attempt, poisons a transfer      *)
(* whose sender frames it in ascending order.                              *)
(***************************************************************************)
THEOREM HealthyIsAccepted == TransferSpec => []HealthyNeverPoisoned
<1>1. TransferInv => HealthyNeverPoisoned
  BY DEF TransferInv, PayloadInv, HealthyNeverPoisoned
<1> QED
  BY <1>1, TransferInvariance, PTL

(***************************************************************************)
(* Behind the worker thread, too, the registry implements the contract of  *)
(* a receiver.                                                             *)
(***************************************************************************)
THEOREM TransferImplementsContract == TransferSpec => ImplementsContract
<1>1. TransferInit => Contract!Init
  BY RegistryStarts DEF TransferInit
<1>2. TransferInv /\ TransferInv' /\ [TransferNext]_transferVars
        => [Contract!Next]_(Contract!contractVars)
  <2> SUFFICES ASSUME TransferInv, TransferInv', [TransferNext]_transferVars
               PROVE  [Contract!Next]_(Contract!contractVars)
    OBVIOUS
  <2>1. [HostStep]_hostVars
    BY TransferIsHostStep DEF TransferInv, transferVars, hostVars
  <2> QED
    BY <2>1, StepReceives DEF TransferInv
<1> QED
  BY <1>1, <1>2, TransferInvariance, PTL DEF TransferSpec, ImplementsContract, Contract!Spec
=============================================================================
