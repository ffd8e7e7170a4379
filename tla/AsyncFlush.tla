----------------------------- MODULE AsyncFlush -----------------------------
(***************************************************************************)
(* FlushAsyncBatch: one batch of async results is serialized and sent to   *)
(* the XLL, halved while it is over the transfer limit.  A single result   *)
(* that is over the limit by itself is replaced by a diagnostic.           *)
(*                                                                         *)
(* The recursion of flushAsyncBatchBounded is the stack `work': its calls  *)
(* are made depth first, the first half before the second.  A result is    *)
(* its handle and its serialized size; a batch costs Framing bytes more.   *)
(***************************************************************************)
EXTENDS Integers, Sequences, SequencesExt

CONSTANTS
  BatchHandles,          \* the async handles of the cells that wait
  Framing,          \* bytes of an empty BatchAsyncResponse
  ResultSizes,      \* the sizes a result may have
  DiagnosticSize,   \* size of a result that carries oversizedAsyncResultError
  Limits            \* the transfer limits; the shipped one is chunk.MaxTransferBytes

ASSUME SizesAssumption ==
  /\ IsFiniteSet(BatchHandles)
  /\ Framing \in Nat /\ DiagnosticSize \in Nat
  /\ Limits \subseteq Nat
  /\ ResultSizes \subseteq Nat

VARIABLES
  limit,      \* the limit of this flush
  size,       \* size[h]: what the result of h takes
  work,       \* the calls of flushAsyncBatchBounded still to be made
  outcome,    \* outcome[h]: what has become of the result of h so far
  largest     \* the largest payload handed to the transport

asyncFlushVars == <<limit, size, work, outcome, largest>>

Result == [handle : BatchHandles, bytes : Nat]

Call == [batch : Seq(Result), substituted : BOOLEAN]

\* What the first i results take, with the framing.
SizesUpTo(batch) ==
  LET upTo[i \in 0 .. Len(batch)] ==
        IF i = 0 THEN Framing ELSE upTo[i - 1] + batch[i].bytes
  IN  upTo

PayloadSize(batch) == SizesUpTo(batch)[Len(batch)]

\* AsyncBatcher hands over a batch, in the order the results were queued.
FlushInit ==
  /\ limit \in Limits
  /\ size \in [BatchHandles -> ResultSizes]
  /\ \E order \in SetToSeqs(BatchHandles) :
       work = <<[batch |-> [i \in DOMAIN order |->
                              [handle |-> order[i], bytes |-> size[order[i]]]],
                 substituted |-> FALSE]>>
  /\ outcome = [h \in BatchHandles |-> <<>>]
  /\ largest = 0

Top == Head(work)

\* The results of a batch get one more outcome.
Record(batch, what) ==
  outcome' = [h \in BatchHandles |->
                IF \E i \in DOMAIN batch : batch[i].handle = h
                THEN Append(outcome[h], what) ELSE outcome[h]]

OverLimit(batch) == PayloadSize(batch) > limit

\* The payload fits: sent whole or in chunks, which may fail for good.
Transmit ==
  /\ work # <<>> /\ Top.batch # <<>>
  /\ ~ OverLimit(Top.batch)
  /\ \/ Record(Top.batch, IF Top.substituted THEN "diagnostic" ELSE "value")
     \/ Record(Top.batch, "lost")
  /\ largest' = IF PayloadSize(Top.batch) > largest THEN PayloadSize(Top.batch) ELSE largest
  /\ work' = Tail(work)
  /\ UNCHANGED <<limit, size>>

\* Mutant: the second half starts one result late.
HalvesSkipping(batch) ==
  LET mid == Len(batch) \div 2
  IN  <<SubSeq(batch, 1, mid), SubSeq(batch, mid + 2, Len(batch))>>

\* Mutant: a batch is cut at its start.
HalvesUncut(batch) == <<<<>>, batch>>

\* batch[:mid] and batch[mid:].
Halves(batch) ==
  LET mid == Len(batch) \div 2
  IN  <<SubSeq(batch, 1, mid), SubSeq(batch, mid + 1, Len(batch))>>

\* Several results are over the limit together.
Split ==
  /\ work # <<>> /\ Len(Top.batch) > 1
  /\ OverLimit(Top.batch)
  /\ work' = <<[batch |-> Halves(Top.batch)[1], substituted |-> FALSE],
               [batch |-> Halves(Top.batch)[2], substituted |-> FALSE]>> \o Tail(work)
  /\ UNCHANGED <<limit, size, outcome, largest>>

\* One result is over the limit by itself: the handle is answered with a
\* diagnostic instead.
Substitute ==
  /\ work # <<>> /\ Len(Top.batch) = 1
  /\ OverLimit(Top.batch)
  /\ ~ Top.substituted
  /\ work' = <<[batch |-> <<[Top.batch[1] EXCEPT !.bytes = DiagnosticSize]>>,
                substituted |-> TRUE]>> \o Tail(work)
  /\ UNCHANGED <<limit, size, outcome, largest>>

\* Not even the diagnostic fits.
Drop ==
  /\ work # <<>> /\ Len(Top.batch) = 1
  /\ OverLimit(Top.batch)
  /\ Top.substituted
  /\ Record(Top.batch, "dropped")
  /\ work' = Tail(work)
  /\ UNCHANGED <<limit, size, largest>>

FlushNext == Transmit \/ Split \/ Substitute \/ Drop

FlushSpec == FlushInit /\ [][FlushNext]_asyncFlushVars

\* The flush is one function call: it runs to its end.
FlushLiveSpec == FlushSpec /\ WF_asyncFlushVars(FlushNext)

-----------------------------------------------------------------------------

FitsAlone(h) == Framing + size[h] <= limit

(***************************************************************************)
(* Splitting loses and repeats nothing: when the flush returns, every      *)
(* handle of the batch has had exactly one outcome.  A result that fits a  *)
(* transfer by itself is never sacrificed to an oversized sibling, one     *)
(* that does not is answered with the diagnostic unless that cannot fit.   *)
(* No transfer is over what the host's registry accepts.                   *)
(***************************************************************************)
OneOutcomeEach ==
  /\ largest <= limit
  /\ work = <<>> =>
       \A h \in BatchHandles :
         /\ Len(outcome[h]) = 1
         /\ outcome[h][1] \in
              IF FitsAlone(h) THEN {"value", "lost"}
              ELSE IF Framing + DiagnosticSize <= limit THEN {"diagnostic", "lost"}
              ELSE {"dropped"}

\* The recursion ends, whatever the sizes and the limit.
FlushReturns == <>(work = <<>>)
=============================================================================
