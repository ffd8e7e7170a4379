----------------------------- MODULE HostChunks -----------------------------
(***************************************************************************)
(* The XLL's reassembly of chunked messages sent by the Go server          *)
(* (guest -> host): ChunkRegistry, ClaimChunkSegment and HandleChunk.      *)
(*                                                                         *)
(* It is the C++ mirror of the Go reassembler (module ChunkReassembly),    *)
(* with three deliberate differences: the whole of HandleChunk runs under  *)
(* g_partialMessagesMutex, so one frame is one action; an open transfer    *)
(* keeps the total_size of its first frame; and the payload is dispatched  *)
(* inside that critical section.                                           *)
(*                                                                         *)
(* Offsets, lengths and totals are uint32 on the wire: Modulus is 2^32.    *)
(* A timestamp is represented by its age in ticks, as in ChunkReassembly.  *)
(***************************************************************************)
EXTENDS Integers, FiniteSets, NoValue

CONSTANTS
  Ids,                     \* transfer ids
  Frames,                  \* the protocol.Chunk frames that may arrive
  Modulus,                 \* 2^32
  kMaxChunkTotalSize,
  kMaxPartialMessages,
  kMaxPoisonedTransfers,
  kChunkStaleTtl

UInt32 == 0 .. Modulus - 1

\* A frame without a data vector has the fate of one of length 0.
Frame == [id : Ids, total : UInt32, offset : UInt32, length : UInt32]

ASSUME FramesAssumption == Frames \subseteq Frame

ASSUME LimitsAssumption ==
  /\ Modulus \in Nat \ {0}
  /\ kMaxChunkTotalSize \in Nat
  /\ kMaxPartialMessages \in Nat \ {0}
  /\ kMaxPoisonedTransfers \in Nat \ {0}
  /\ kChunkStaleTtl \in Nat

ASSUME IdsAssumption == IsFiniteSet(Ids) /\ None \notin Ids

VARIABLES
  partials,    \* partials[id]: the PartialMessage of id, or Absent
  poisoned,    \* poisoned[id]: age of the poison entry of id, or NotPoisoned
  unloading,   \* g_isUnloading
  handed       \* history: the payload the last step handed to its processor

hostVars == <<partials, poisoned, unloading, handed>>

-----------------------------------------------------------------------------

Segment == [offset : UInt32, length : UInt32]

Ages == 0 .. kChunkStaleTtl + 1

NotPoisoned == -1

Expired(age) == age > kChunkStaleTtl

\* `data' is the set of positions of the buffer that memcpy has written.
PartialMessage ==
  [total : UInt32, received : Nat, segments : SUBSET Segment,
   data : SUBSET Nat, age : Ages]

NewPartial(total) ==
  [total |-> total, received |-> 0, segments |-> {}, data |-> {}, age |-> 0]

\* Admit refuses a total of 0, so no entry has one.
Absent == NewPartial(0)

Open(entries) == {id \in Ids : entries[id] # Absent}

Refused(entries) == {id \in Ids : entries[id] # NotPoisoned}

\* Nothing was handed over by the last step.
Nothing == [id |-> None, total |-> 0, data |-> {}]

Bytes(offset, length) == offset .. offset + length - 1

\* Mutant: the bounds check in its additive form, in 32 bits.
OutOfBoundsAdditive(total, offset, length) ==
  (offset + length) % Modulus > total

OutOfBounds(total, offset, length) ==
  offset > total \/ length > total - offset

\* The two neighbours of `offset' that lower_bound and std::prev give.
Neighbours(segments, offset) ==
  {s \in segments :
     \/ /\ s.offset < offset
        /\ \A t \in segments : t.offset < offset => t.offset <= s.offset
     \/ /\ s.offset > offset
        /\ \A t \in segments : t.offset > offset => t.offset >= s.offset}

Intersects(s, offset, length) ==
  IF s.offset < offset THEN s.offset + s.length > offset
                       ELSE offset + length > s.offset

ClaimChunkSegment(m, c) ==
  CASE OutOfBounds(m.total, c.offset, c.length) -> "OutOfBounds"
    [] ~ OutOfBounds(m.total, c.offset, c.length) /\ c.length = 0 -> "ZeroLength"
    [] OTHER ->
         IF \E s \in m.segments : s.offset = c.offset
         THEN IF \E s \in m.segments : s.offset = c.offset /\ s.length = c.length
              THEN "Duplicate" ELSE "Overlap"
         ELSE IF \E s \in Neighbours(m.segments, c.offset) :
                     Intersects(s, c.offset, c.length)
              THEN "Overlap" ELSE "New"

-----------------------------------------------------------------------------

(***************************************************************************)
(* ChunkRegistry, as the values its operations leave in the two maps.      *)
(***************************************************************************)

PrunedPartials(entries) ==
  [id \in Ids |-> IF Expired(entries[id].age) THEN Absent ELSE entries[id]]

PrunedPoisoned(ages) ==
  [id \in Ids |-> IF Expired(ages[id]) THEN NotPoisoned ELSE ages[id]]

PoisonHolds(id) == poisoned[id] # NotPoisoned /\ ~ Expired(poisoned[id])

Full(entries) == Cardinality(Open(entries)) >= kMaxPartialMessages

\* Mutant: at the bound stale entries are pruned, but the result is not tested.
StillFullNever(entries) == FALSE

StillFull(entries) == Full(PrunedPartials(entries))

\* Admit gets as far as the transfer bound, which prunes when it is reached.
WantsEntry(c) ==
  /\ ~ PoisonHolds(c.id) /\ partials[c.id] = Absent
  /\ c.total # 0 /\ c.total <= kMaxChunkTotalSize

PrunesAtBound(c) == WantsEntry(c) /\ Full(partials)

\* Admit hands out an entry; otherwise it returns one of its refusals.
Admits(c) ==
  \/ ~ PoisonHolds(c.id) /\ partials[c.id] # Absent
  \/ WantsEntry(c) /\ ~ (Full(partials) /\ StillFull(partials))

\* The two maps when Admit returns, the entry it hands out aside: an expired
\* poison entry of the id is dropped, and the bound prunes both maps.
SweptPartials(c) == IF PrunesAtBound(c) THEN PrunedPartials(partials) ELSE partials

SweptPoisoned(c) ==
  IF PrunesAtBound(c) THEN PrunedPoisoned(poisoned)
  ELSE IF PoisonHolds(c.id) THEN poisoned
  ELSE [poisoned EXCEPT ![c.id] = NotPoisoned]

\* Mutant: a frame with another total restarts the transfer, as in the Go twin.
EntryRestarted(c) ==
  IF partials[c.id].total # c.total THEN NewPartial(c.total)
                                    ELSE [partials[c.id] EXCEPT !.age = 0]

\* The entry Admit hands out, its lastUpdate refreshed.
Entry(c) ==
  IF partials[c.id] = Absent THEN NewPartial(c.total)
                             ELSE [partials[c.id] EXCEPT !.age = 0]

PoisonFull(ages) == Cardinality(Refused(ages)) >= kMaxPoisonedTransfers

Oldest(ages) ==
  {id \in Refused(ages) : \A j \in Refused(ages) : ages[j] <= ages[id]}

Evicted(ages, old) == [j \in Ids |-> IF j = old THEN NotPoisoned ELSE ages[j]]

\* Mutant: the id is recorded, but its partial message stays.
PoisonKeeps(id, entries, ages) ==
  /\ partials' = entries
  /\ \/ ~ PoisonFull(ages) /\ poisoned' = [ages EXCEPT ![id] = 0]
     \/ PoisonFull(ages) /\ poisoned' = [j \in Ids |-> IF j = id THEN 0 ELSE NotPoisoned]

\* Poison, called with the two maps that Admit left.
Poison(id, entries, ages) ==
  \/ /\ ~ PoisonFull(ages)
     /\ partials' = [entries EXCEPT ![id] = Absent]
     /\ poisoned' = [ages EXCEPT ![id] = 0]
  \/ /\ PoisonFull(ages)
     /\ partials' = [PrunedPartials(entries) EXCEPT ![id] = Absent]
     /\ \/ /\ ~ PoisonFull(PrunedPoisoned(ages))
           /\ poisoned' = [PrunedPoisoned(ages) EXCEPT ![id] = 0]
        \/ /\ PoisonFull(PrunedPoisoned(ages))
           /\ \E old \in Oldest(PrunedPoisoned(ages)) :
                poisoned' = [Evicted(PrunedPoisoned(ages), old) EXCEPT ![id] = 0]

-----------------------------------------------------------------------------

(***************************************************************************)
(* HandleChunk: the answer is SYSTEM_ERROR except in AcceptChunk.          *)
(***************************************************************************)

\* Nothing is touched once the add-in is unloading.
RefuseUnloading ==
  /\ unloading
  /\ handed' = Nothing
  /\ UNCHANGED <<partials, poisoned, unloading>>

RefuseAdmission(c) ==
  /\ ~ unloading
  /\ ~ Admits(c)
  /\ partials' = SweptPartials(c)
  /\ poisoned' = SweptPoisoned(c)
  /\ handed' = Nothing
  /\ UNCHANGED unloading

Violates(c) == ClaimChunkSegment(Entry(c), c) \in {"OutOfBounds", "ZeroLength", "Overlap"}

\* A protocol violation: the transfer is dropped and its id poisoned.
RejectChunk(c) ==
  /\ ~ unloading
  /\ Admits(c)
  /\ Violates(c)
  /\ Poison(c.id, SweptPartials(c), SweptPoisoned(c))
  /\ handed' = Nothing
  /\ UNCHANGED unloading

\* The entry after a good chunk: a new range is recorded and copied, a
\* retransmitted one is neither.
Received(m, c) ==
  IF ClaimChunkSegment(m, c) = "New"
  THEN [m EXCEPT !.segments = @ \union {[offset |-> c.offset, length |-> c.length]},
                 !.data = @ \union Bytes(c.offset, c.length),
                 !.received = @ + c.length]
  ELSE m

Completes(c) == Received(Entry(c), c).received = Entry(c).total

\* What the registry holds for the id after a good chunk.
LeftAfter(c) == IF Completes(c) THEN Absent ELSE Received(Entry(c), c)

Accepts(c) == ~ unloading /\ Admits(c) /\ ~ Violates(c)

\* A good chunk; the one that completes the payload hands it to its processor
\* and drops the entry.
AcceptChunk(c) ==
  LET m == Received(Entry(c), c)
  IN  /\ Accepts(c)
      /\ partials' = [SweptPartials(c) EXCEPT ![c.id] = LeftAfter(c)]
      /\ poisoned' = SweptPoisoned(c)
      /\ handed' = IF Completes(c) THEN [id |-> c.id, total |-> m.total, data |-> m.data]
                  ELSE Nothing
      /\ UNCHANGED unloading

HandleChunk(c) ==
  RefuseUnloading \/ RefuseAdmission(c) \/ RejectChunk(c) \/ AcceptChunk(c)

\* The periodic sweep of the worker loop.
CleanupStaleChunks ==
  /\ partials' = PrunedPartials(partials)
  /\ poisoned' = PrunedPoisoned(poisoned)
  /\ handed' = Nothing
  /\ UNCHANGED unloading

\* The teardown latches g_isUnloading.
Unload ==
  /\ ~ unloading
  /\ unloading' = TRUE
  /\ handed' = Nothing
  /\ UNCHANGED <<partials, poisoned>>

Older(age) == IF age > kChunkStaleTtl THEN age ELSE age + 1

\* Time passes.
Tick ==
  /\ partials' = [id \in Ids |-> IF partials[id] = Absent THEN Absent
                                 ELSE [partials[id] EXCEPT !.age = Older(@)]]
  /\ poisoned' = [id \in Ids |-> IF poisoned[id] = NotPoisoned THEN NotPoisoned
                                 ELSE Older(poisoned[id])]
  /\ handed' = Nothing
  /\ UNCHANGED unloading

HostInit ==
  /\ partials = [id \in Ids |-> Absent]
  /\ poisoned = [id \in Ids |-> NotPoisoned]
  /\ unloading = FALSE
  /\ handed = Nothing

HostNext ==
  \/ \E c \in Frames : HandleChunk(c)
  \/ CleanupStaleChunks
  \/ Unload
  \/ Tick

HostSpec == HostInit /\ [][HostNext]_hostVars

-----------------------------------------------------------------------------

\* Type correctness.
HostTypeOK ==
  /\ partials \in [Ids -> PartialMessage]
  /\ poisoned \in [Ids -> Ages \union {NotPoisoned}]
  /\ unloading \in BOOLEAN
  /\ handed \in [id : Ids \union {None}, total : UInt32, data : SUBSET Nat]

(***************************************************************************)
(* Memory safety of the memcpy in HandleChunk: whatever offset, length and *)
(* total the frames carry, it writes inside the buffer that Admit sized    *)
(* from the FIRST frame's total.                                           *)
(***************************************************************************)
WritesInBounds == \A id \in Ids : partials[id].data \subseteq 0 .. partials[id].total - 1

(***************************************************************************)
(* The completion contract: the payload handed to ProcessAsyncBatchResponse*)
(* or ProcessRtdOnceGrid has had every byte written, although HandleChunk  *)
(* only compares the sum of the accepted lengths with the total.           *)
(***************************************************************************)
HandedComplete == handed.data = 0 .. handed.total - 1

(***************************************************************************)
(* Poison: "every later chunk carrying it is rejected until the record     *)
(* expires".  Unlike its Go twin the check and the lookup share a critical *)
(* section, so no frame reopens a poisoned transfer.                       *)
(***************************************************************************)
PoisonedIsDropped == \A id \in Ids : PoisonHolds(id) => partials[id] = Absent

(***************************************************************************)
(* Neither map outgrows its limit: a full registry prunes, and must test   *)
(* the limit again; a full poison set evicts its oldest entry.             *)
(***************************************************************************)
PartialsBounded == Cardinality(Open(partials)) <= kMaxPartialMessages

PoisonBounded == Cardinality(Refused(poisoned)) <= kMaxPoisonedTransfers

MemoryBounded == PartialsBounded /\ PoisonBounded

(***************************************************************************)
(* The registry implements the contract of a receiver: every byte written  *)
(* at most once, delivery exactly when the last one is, whatever the       *)
(* frames and however they interleave with sweeps and expiries.            *)
(***************************************************************************)
Contract ==
  INSTANCE ChunkContract WITH
    Transfers <- Ids,
    Sizes <- UInt32,
    size <- [id \in Ids |-> partials[id].total],
    got <- [id \in Ids |-> partials[id].data],
    out <- [to |-> handed.id, size |-> handed.total]

ImplementsContract == Contract!Spec
=============================================================================
