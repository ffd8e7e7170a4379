--------------------------- MODULE GuestTransfer ---------------------------
(***************************************************************************)
(* The guest -> host data path end to end: the Go senders (chunk.Sender,   *)
(* the async flush and SendOnceGrid) push frames through shared memory to  *)
(* the XLL's worker thread, which feeds them to the registry of module     *)
(* HostChunks.                                                             *)
(*                                                                         *)
(* A payload that fits one request buffer is sent whole, a larger one as   *)
(* frames in ascending offset order.  Each send waits for its answer and   *)
(* is retried up to its policy's number of attempts.  A call may fail      *)
(* before the worker has seen it or after: the worker's answer can be lost *)
(* ("a dropped ACK"), and the sender cannot tell the two apart.            *)
(*                                                                         *)
(* The teardown latches g_isQuiescing and later g_isUnloading while calls  *)
(* are in flight.  Other producers' frames (Strays) share the registry.    *)
(***************************************************************************)
EXTENDS HostChunks

CONSTANTS
  Transfers,   \* the transfers of this model; each has a fresh transferid
  Total,       \* Total[t]: the size of t's payload, for an empty one is not sent
  Attempts,    \* Attempts[t]: the attempts its policy allows for one send
  ChunkSize,   \* chunk.GuestBudget: what one request buffer carries
  MaxTransferBytes,
  Strays       \* the frames that other producers send

ASSUME TransfersAssumption ==
  /\ Transfers \subseteq Ids
  /\ Total \in [Transfers -> UInt32 \ {0}]
  /\ Attempts \in [Transfers -> Nat \ {0}]
  /\ ChunkSize \in UInt32 \ {0}
  /\ MaxTransferBytes \in Nat
  /\ Strays \subseteq Frames
  /\ \A c \in Strays : c.id \notin Transfers

VARIABLES
  status,      \* status[t]: where the sender of t is
  offset,      \* offset[t]: the first byte of the frame it is sending
  tries,       \* tries[t]: failed attempts of that frame
  answer,      \* answer[t]: what the slot of t holds
  worker,      \* where WorkerLoop is
  sweepDue,    \* ten seconds have passed since lastCleanup
  call,        \* the call the worker is inside, or None
  quiescing,   \* g_isQuiescing
  copies,      \* copies[t]: times the payload of t reached its processor
  cutOff       \* history: transfers of which the host dropped an accepted part

senderVars == <<status, offset, tries>>

workerVars == <<worker, sweepDue, call>>

transferHistory == <<copies, cutOff>>

transferVars == <<partials, poisoned, unloading, handed, status, offset, tries, answer,
                  worker, sweepDue, call, quiescing, copies, cutOff>>

\* The step leaves the registry alone.
NoHandling == handed' = Nothing /\ UNCHANGED <<partials, poisoned, unloading>>

-----------------------------------------------------------------------------
(***************************************************************************)
(* The sender.                                                             *)
(***************************************************************************)

Chunked(t) == Total[t] > ChunkSize

FrameLength(t) ==
  IF offset[t] + ChunkSize > Total[t] THEN Total[t] - offset[t] ELSE ChunkSize

\* Mutant: a retry is framed with half the budget.
BuildFrameShrinking(t) ==
  [id |-> t, total |-> Total[t], offset |-> offset[t],
   length |-> IF tries[t] > 0 THEN (FrameLength(t) + 1) \div 2 ELSE FrameLength(t)]

BuildFrame(t) ==
  [id |-> t, total |-> Total[t], offset |-> offset[t], length |-> FrameLength(t)]

\* Where the payload of the call in flight ends.
CallEnd(t) == IF Chunked(t) THEN offset[t] + FrameLength(t) ELSE Total[t]

\* Send is called: a payload over the cap is refused up front.
SendBegins(t) ==
  /\ status[t] = "new"
  /\ status' = [status EXCEPT ![t] =
       IF Total[t] > MaxTransferBytes THEN "refused" ELSE "sending"]
  /\ NoHandling
  /\ UNCHANGED <<offset, tries, answer, workerVars, quiescing, transferHistory>>

\* Mutant: the error of the last attempt is not returned.
AttemptFailsOpen(t) ==
  /\ tries' = [tries EXCEPT ![t] = IF @ + 1 < Attempts[t] THEN @ + 1 ELSE 0]
  /\ status' = [status EXCEPT ![t] = IF tries[t] + 1 < Attempts[t] THEN @ ELSE "ok"]
  /\ UNCHANGED offset

\* Mutant: the attempts are not counted.
AttemptFailsForever(t) == UNCHANGED senderVars

\* Mutant: the next attempt starts the payload over.
AttemptFailsOver(t) ==
  /\ tries' = [tries EXCEPT ![t] = IF @ + 1 < Attempts[t] THEN @ + 1 ELSE 0]
  /\ status' = [status EXCEPT ![t] = IF tries[t] + 1 < Attempts[t] THEN @ ELSE "failed"]
  /\ offset' = [offset EXCEPT ![t] = 0]

\* An attempt failed: back off and try again, or give up.
AttemptFails(t) ==
  /\ tries' = [tries EXCEPT ![t] = IF @ + 1 < Attempts[t] THEN @ + 1 ELSE 0]
  /\ status' = [status EXCEPT ![t] = IF tries[t] + 1 < Attempts[t] THEN @ ELSE "failed"]
  /\ UNCHANGED offset

\* An attempt succeeded: on to the next frame, or done.
AttemptSucceeds(t) ==
  /\ tries' = [tries EXCEPT ![t] = 0]
  /\ offset' = [offset EXCEPT ![t] = CallEnd(t)]
  /\ status' = [status EXCEPT ![t] = IF CallEnd(t) = Total[t] THEN "ok" ELSE @]

\* The call never reaches the worker: no free slot, or a timeout.
CallLost(t) ==
  /\ status[t] = "sending" /\ answer[t] = "none" /\ call # t
  /\ AttemptFails(t)
  /\ NoHandling
  /\ UNCHANGED <<answer, workerVars, quiescing, transferHistory>>

\* The worker has answered, and the sender sees it.
AnswerArrives(t) ==
  /\ status[t] = "sending"
  /\ \/ answer[t] = "ack" /\ AttemptSucceeds(t)
     \/ answer[t] = "SYSTEM_ERROR" /\ AttemptFails(t)
  /\ answer' = [answer EXCEPT ![t] = "none"]
  /\ NoHandling
  /\ UNCHANGED <<workerVars, quiescing, transferHistory>>

\* The worker has answered, and the sender does not see it.
AnswerLost(t) ==
  /\ status[t] = "sending" /\ answer[t] # "none"
  /\ AttemptFails(t)
  /\ answer' = [answer EXCEPT ![t] = "none"]
  /\ NoHandling
  /\ UNCHANGED <<workerVars, quiescing, transferHistory>>

-----------------------------------------------------------------------------
(***************************************************************************)
(* The worker thread: WorkerLoop and its callback.                         *)
(***************************************************************************)

Latched == quiescing \/ unloading

Pending(t) == status[t] = "sending" /\ answer[t] = "none"

\* The loop tests the latches, then drains a batch of calls.
BatchBegins ==
  /\ worker = "loop" /\ ~ Latched
  /\ worker' = "batch"
  /\ NoHandling
  /\ UNCHANGED <<senderVars, answer, sweepDue, call, quiescing, transferHistory>>

WorkerExits ==
  /\ worker = "loop" /\ Latched
  /\ worker' = "exited"
  /\ NoHandling
  /\ UNCHANGED <<senderVars, answer, sweepDue, call, quiescing, transferHistory>>

\* The callback tests the latches again.  When one is set the call is answered
\* without being looked at, and as a success: msgType is left alone.
Swallow(t) ==
  /\ worker = "batch" /\ call = None /\ Latched
  /\ Pending(t)
  /\ answer' = [answer EXCEPT ![t] = "ack"]
  /\ cutOff' = cutOff \union {t}
  /\ NoHandling
  /\ UNCHANGED <<senderVars, workerVars, quiescing, copies>>

\* None is set: the callback goes on to the handler of the message type.
TakeCall(t) ==
  /\ worker = "batch" /\ call = None /\ ~ Latched
  /\ Pending(t)
  /\ call' = t
  /\ NoHandling
  /\ UNCHANGED <<senderVars, answer, worker, sweepDue, quiescing, transferHistory>>

\* A whole payload is dispatched as it is.
HandleWhole(t) ==
  /\ call = t /\ ~ Chunked(t)
  /\ copies' = [copies EXCEPT ![t] = @ + 1]
  /\ answer' = [answer EXCEPT ![t] = "ack"]
  /\ call' = None
  /\ NoHandling
  /\ UNCHANGED <<senderVars, worker, sweepDue, quiescing, cutOff>>

\* The transfers whose partial message this step drops.
Dropped == {u \in Transfers : partials[u] # Absent /\ partials'[u] = Absent}

\* A frame goes to HandleChunk; a refusal is reported as SYSTEM_ERROR.
HandleFrame(t) ==
  LET c == BuildFrame(t)
      done == Accepts(c) /\ Completes(c)
  IN  /\ call = t /\ Chunked(t)
      /\ HandleChunk(c)
      /\ answer' = [answer EXCEPT ![t] = IF Accepts(c) THEN "ack" ELSE "SYSTEM_ERROR"]
      /\ copies' = IF done THEN [copies EXCEPT ![t] = @ + 1] ELSE copies
      /\ cutOff' = cutOff \union (Dropped \ (IF done THEN {t} ELSE {}))
      /\ call' = None
      /\ UNCHANGED <<senderVars, worker, sweepDue, quiescing>>

\* A frame of another producer.
HandleStray(c) ==
  /\ worker = "batch" /\ call = None /\ ~ Latched
  /\ HandleChunk(c)
  /\ cutOff' = cutOff \union Dropped
  /\ UNCHANGED <<senderVars, answer, workerVars, quiescing, copies>>

\* Mutant: the sweep is due only while calls keep coming.
BatchEndsUnswept ==
  /\ worker = "batch" /\ call = None
  /\ worker' = "loop"
  /\ IF sweepDue /\ (\E t \in Transfers : Pending(t))
     THEN CleanupStaleChunks ELSE NoHandling
  /\ sweepDue' = FALSE
  /\ cutOff' = cutOff \union Dropped
  /\ UNCHANGED <<senderVars, answer, call, quiescing, copies>>

\* The batch is drained; the sweep runs when it is due.
BatchEnds ==
  /\ worker = "batch" /\ call = None
  /\ worker' = "loop"
  /\ IF sweepDue THEN CleanupStaleChunks ELSE NoHandling
  /\ sweepDue' = FALSE
  /\ cutOff' = cutOff \union Dropped
  /\ UNCHANGED <<senderVars, answer, call, quiescing, copies>>

\* The teardown's two latches, and time; one tick is longer than the ten
\* seconds between sweeps.
BeginQuiesce ==
  /\ ~ quiescing
  /\ quiescing' = TRUE
  /\ NoHandling
  /\ UNCHANGED <<senderVars, answer, workerVars, transferHistory>>

BeginUnload ==
  /\ Unload
  /\ UNCHANGED <<senderVars, answer, workerVars, quiescing, transferHistory>>

TimePasses ==
  /\ Tick
  /\ sweepDue' = TRUE
  /\ UNCHANGED <<senderVars, answer, worker, call, quiescing, transferHistory>>

-----------------------------------------------------------------------------

TransferInit ==
  /\ HostInit
  /\ status = [t \in Transfers |-> "new"]
  /\ offset = [t \in Transfers |-> 0]
  /\ tries = [t \in Transfers |-> 0]
  /\ answer = [t \in Transfers |-> "none"]
  /\ worker = "loop"
  /\ sweepDue = FALSE
  /\ call = None
  /\ quiescing = FALSE
  /\ copies = [t \in Transfers |-> 0]
  /\ cutOff = {}

Sender(t) == SendBegins(t) \/ CallLost(t) \/ AnswerArrives(t) \/ AnswerLost(t)

Worker ==
  \/ BatchBegins \/ WorkerExits \/ BatchEnds
  \/ \E t \in Transfers : Swallow(t) \/ TakeCall(t) \/ HandleWhole(t) \/ HandleFrame(t)
  \/ \E c \in Strays : HandleStray(c)

TransferNext ==
  \/ \E t \in Transfers : Sender(t)
  \/ Worker
  \/ BeginQuiesce \/ BeginUnload \/ TimePasses

TransferSpec == TransferInit /\ [][TransferNext]_transferVars

(***************************************************************************)
(* A send returns, with an answer or by its timeout; the worker thread     *)
(* runs, its batches are bounded, and its handlers return; time passes.    *)
(***************************************************************************)
TransferFairness ==
  /\ \A t \in Transfers : WF_transferVars(Sender(t))
  /\ \A t \in Transfers : WF_transferVars(HandleWhole(t) \/ HandleFrame(t))
  /\ WF_transferVars(BatchBegins \/ WorkerExits)
  /\ WF_transferVars(BatchEnds)
  /\ WF_transferVars(TimePasses)

TransferLiveSpec == TransferSpec /\ TransferFairness

-----------------------------------------------------------------------------

(***************************************************************************)
(* Send and SendOnceGrid return nil only for a payload that the host has   *)
(* processed, through lost calls, lost answers, retries, refusals and      *)
(* sweeps, unless the host discarded a part of it that it had accepted: by *)
(* expiry, or because it was going away.                                   *)
(***************************************************************************)
SuccessMeansDelivered ==
  \A t \in Transfers : status[t] = "ok" /\ t \notin cutOff => copies[t] > 0

(***************************************************************************)
(* What SendOnceGrid's comment says without that exception: "nil once the  *)
(* whole payload is delivered+acked".                                      *)
(***************************************************************************)
NilMeansDelivered == \A t \in Transfers : status[t] = "ok" => copies[t] > 0

(***************************************************************************)
(* A chunked payload is processed at most once, although its last frame is *)
(* sent again when the answer to it was lost, and the host has forgotten   *)
(* the transfer by then: the retry opens a new one that never completes.   *)
(***************************************************************************)
ChunkedAtMostOnce == \A t \in Transfers : Total[t] > ChunkSize => copies[t] <= 1

(***************************************************************************)
(* The sender's framing never trips the host's protocol checks: no retry,  *)
(* and no remnant of an earlier attempt, poisons a healthy transfer.       *)
(***************************************************************************)
HealthyNeverPoisoned == \A t \in Transfers : poisoned[t] = NotPoisoned

\* The retry ladder ends: a send that began returns.
SendsReturn == \A t \in Transfers : (status[t] = "sending") ~> (status[t] # "sending")

(***************************************************************************)
(* Remnants of failed and of already completed transfers do not hold their *)
(* place in the registry for ever, while the add-in is not torn down.      *)
(***************************************************************************)
RemnantsReclaimed ==
  [](~ Latched) => <>[](\A t \in Transfers : partials[t] = Absent)
=============================================================================
