----------------------------- MODULE CalcCycle -----------------------------
(***************************************************************************)
(* The calculation cycle: commands (set a value, set a format) that user   *)
(* functions schedule on the Go server travel to the sheet.                *)
(*                                                                         *)
(* ScheduleSet and ScheduleFormat collect them in per-cell buffers or, for *)
(* a large range and for a value that is no scalar, in the command queue,  *)
(* flushing the buffers first.  At the end of a calculation Excel's STA    *)
(* thread makes a synchronous call; the handler flushes and takes the      *)
(* queue, and the reply carries it.  The call times out after 2 s; the     *)
(* handler goes on, and its reply is dropped.  Cells must not be written   *)
(* inside the event, so the reply is put on a deferred queue and a runner  *)
(* macro is put on Excel's OnTime list, at most once: the armed flag.      *)
(* While the runner executes commands, Excel may nest another              *)
(* calculation end inside it.  A calculation that the user interrupts      *)
(* fires a cancel event before its end event.                              *)
(*                                                                         *)
(* A cell stands for a cell of some sheet; GreedyMesh turns a group of     *)
(* cells into rectangles that cover exactly them, so a command carries the *)
(* cells.  Disabling the add-in tears it down, enabling it again starts a  *)
(* new server in the same Excel process.                                   *)
(***************************************************************************)
EXTENDS Naturals, SequencesExt, NoValue

CONSTANTS
  Cells,
  Vals,               \* scalar values and formats
  Handlers,           \* shm workers that can be inside an event's handler
  BatchingThreshold,  \* batchingThreshold
  MaxReply,           \* commands that fit the response buffer
  MaxScheduled,       \* bound: schedules in a behaviour
  MaxRefusals,        \* bound: refused xlcOnTime calls
  MaxLoads            \* bound: times the add-in is enabled again

ASSUME CalcCycleAssumption ==
  /\ None \notin Vals \union Handlers
  /\ {BatchingThreshold, MaxReply, MaxScheduled, MaxRefusals,
      MaxLoads} \subseteq Nat
  /\ IsFiniteSet(Cells)

Kinds == {"set", "format"}

Commands == [kind : Kinds, cells : SUBSET Cells, val : Vals]

VARIABLES
  buffered,    \* bufferedSets and bufferedFormats: buffered[kind][cell]
  cmdQueue,    \* CommandBatcher.cmdQueue
  handler,     \* handler[h]: where h is inside an event's handler
  reply,       \* reply[h]: the commands h has taken from the queue
  sta,         \* the event Excel's STA thread is inside, or "idle"
  awaited,     \* the handler the STA waits for, or None
  deferred,    \* DeferredCalcEndQueue.m_pending
  armed,       \* DeferredCalcEndQueue.m_runnerScheduled
  onTime,      \* entries of the runner on Excel's OnTime list
  running,     \* RunDeferredCalcEndCommands is executing commands
  hand,        \* the commands it has drained and not executed
  formats,     \* PendingDateFormats::HasPending
  torn,        \* TeardownStarted() or no host
  sheet,       \* sheet[kind][cell]: what the cell shows
  last,        \* history: the value scheduled last for the cell
  lost,        \* history: that value was dropped on an error path
  budget       \* bounds: schedules, refusals and loads so far

goVars == <<buffered, cmdQueue, handler, reply>>
runnerVars == <<armed, onTime>>
history == <<last, lost>>
vars == <<buffered, cmdQueue, handler, reply, sta, awaited, deferred, armed,
          onTime, running, hand, formats, torn, sheet, last, lost, budget>>

Registers(S) == [Kinds -> [Cells -> S]]

Blank(x) == [k \in Kinds |-> [c \in Cells |-> x]]

TypeOK ==
  /\ buffered \in Registers(Vals \union {None})
  /\ cmdQueue \in Seq(Commands)
  /\ handler \in [Handlers -> {"idle", "entered", "flushed", "canceling"}]
  /\ reply \in [Handlers -> Seq(Commands)]
  /\ sta \in {"idle", "calcEnd", "canceled"}
  /\ awaited \in Handlers \union {None}
  /\ deferred \in Seq(Commands)
  /\ armed \in BOOLEAN
  /\ onTime \in Nat
  /\ running \in BOOLEAN
  /\ hand \in Seq(Commands)
  /\ formats \in BOOLEAN
  /\ torn \in BOOLEAN
  /\ sheet \in Registers(Vals \union {None})
  /\ last \in Registers(Vals \union {None})
  /\ lost \in Registers(BOOLEAN)
  /\ budget \in [scheduled : 0..MaxScheduled, refused : 0..MaxRefusals, loads : 0..MaxLoads]

Init ==
  /\ buffered = Blank(None)
  /\ cmdQueue = <<>>
  /\ handler = [h \in Handlers |-> "idle"]
  /\ reply = [h \in Handlers |-> <<>>]
  /\ sta = "idle"
  /\ awaited = None
  /\ deferred = <<>>
  /\ armed = FALSE
  /\ onTime = 0
  /\ running = FALSE
  /\ hand = <<>>
  /\ formats = FALSE
  /\ torn = FALSE
  /\ sheet = Blank(None)
  /\ last = Blank(None)
  /\ lost = Blank(FALSE)
  /\ budget = [scheduled |-> 0, refused |-> 0, loads |-> 0]

-----------------------------------------------------------------------------
(***************************************************************************)
(* The effect of commands on registers, and the history of dropped ones.   *)
(***************************************************************************)

Execute(regs, cmd) ==
  [regs EXCEPT ![cmd.kind] = [c \in Cells |-> IF c \in cmd.cells THEN cmd.val ELSE @[c]]]

Hits(cmd, k, c) == cmd.kind = k /\ c \in cmd.cells

Touches(cmds, k, c) == \E i \in DOMAIN cmds : Hits(cmds[i], k, c)

\* The last of the commands for the cell carries v.
EndsWith(cmds, k, c, v) ==
  \E i \in DOMAIN cmds :
    /\ Hits(cmds[i], k, c)
    /\ cmds[i].val = v
    /\ \A j \in DOMAIN cmds : j > i => ~Hits(cmds[j], k, c)

\* lost after the commands are dropped, when those in behind and in the
\* buffers buf come later.
LostWith(cmds, behind, buf) ==
  [k \in Kinds |-> [c \in Cells |->
     \/ lost[k][c]
     \/ Touches(cmds, k, c) /\ ~Touches(behind, k, c) /\ buf[k][c] = None]]

-----------------------------------------------------------------------------
(***************************************************************************)
(* The command batcher.  Every operation is one critical section of mu.    *)
(***************************************************************************)

\* The commands that the buffers can be turned into.  A command carries up to 32
\* rectangles; how many cells they cover depends on where the cells are, and a
\* command here may carry any number of them.
BufferCommands(k) ==
  {cmd \in [kind : {k}, cells : SUBSET Cells \ {{}}, val : Vals] :
     \A c \in cmd.cells : buffered[k][c] = cmd.val}

\* flushBuffersLocked: every buffered cell is in one command.  The values (of a
\* sheet) come in map order; here the commands come in any order.
Flushes(k) ==
  {cmds \in BoundedSeq(BufferCommands(k), Cardinality(Cells)) :
     /\ \A c \in Cells : buffered[k][c] # None => Touches(cmds, k, c)
     /\ \A i, j \in DOMAIN cmds : i # j => cmds[i].cells \cap cmds[j].cells = {}}

\* Sets before formats.
FlushedQueues == {cmdQueue \o s \o f : s \in Flushes("set"), f \in Flushes("format")}

\* The server's user code schedules: it is not tied to a calculation.
Schedules(k, range, v) ==
  /\ ~torn
  /\ budget.scheduled < MaxScheduled
  /\ budget' = [budget EXCEPT !.scheduled = @ + 1]
  /\ last' = [last EXCEPT ![k] = [c \in Cells |-> IF c \in range THEN v ELSE @[c]]]
  /\ lost' = [lost EXCEPT ![k] = [c \in Cells |-> c \notin range /\ @[c]]]
  /\ UNCHANGED <<handler, reply, sta, awaited, deferred, runnerVars, running,
                 hand, formats, torn, sheet>>

\* A small range is decomposed into cells.
BufferCells(k, range, v) ==
  /\ Cardinality(range) <= BatchingThreshold
  /\ buffered' = [buffered EXCEPT ![k] = [c \in Cells |-> IF c \in range THEN v ELSE @[c]]]
  /\ UNCHANGED cmdQueue
  /\ Schedules(k, range, v)

\* Mutant: the command is queued ahead of what is still buffered.
EnqueueRangeUnflushed(k, range, v) ==
  /\ cmdQueue' = Append(cmdQueue, [kind |-> k, cells |-> range, val |-> v])
  /\ UNCHANGED buffered
  /\ Schedules(k, range, v)

\* A large range, or a value that is no scalar, goes straight to the queue.
EnqueueRange(k, range, v) ==
  /\ Schedules(k, range, v)
  /\ \E queue \in FlushedQueues :
       cmdQueue' = Append(queue, [kind |-> k, cells |-> range, val |-> v])
  /\ buffered' = Blank(None)

ScheduleSet(range, v) ==
  \/ BufferCells("set", range, v)
  \/ EnqueueRange("set", range, v)   \* large, or ToScalar fails

ScheduleFormat(range, v) ==
  \/ BufferCells("format", range, v)
  \/ Cardinality(range) > BatchingThreshold /\ EnqueueRange("format", range, v)

-----------------------------------------------------------------------------
(***************************************************************************)
(* The calculation-end handler of the server.  The user's own handler runs *)
(* between entry and flush, for as long as it likes; what it schedules are *)
(* Schedules steps.                                                        *)
(***************************************************************************)

\* The queue is taken; SendAckOrChunk refuses a reply over the buffer's size,
\* and the reply of a call that has timed out reaches nobody.
FlushCommands(h) ==
  /\ handler[h] = "entered"
  /\ buffered' = Blank(None)
  /\ cmdQueue' = <<>>
  /\ handler' = [handler EXCEPT ![h] = "flushed"]
  /\ \E taken \in FlushedQueues :
       LET fits == Len(taken) <= MaxReply /\ h = awaited
       IN /\ reply' = [reply EXCEPT ![h] = IF fits THEN taken ELSE <<>>]
          /\ lost' = IF fits THEN lost ELSE LostWith(taken, <<>>, Blank(None))
  /\ UNCHANGED <<sta, awaited, deferred, runnerVars, running, hand, formats,
                 torn, sheet, last, budget>>

\* The handler of a call that nobody waits for returns.
LateHandlerReturns(h) ==
  /\ handler[h] = "flushed"
  /\ awaited # h
  /\ handler' = [handler EXCEPT ![h] = "idle"]
  /\ UNCHANGED <<buffered, cmdQueue, reply, sta, awaited, deferred, runnerVars,
                 running, hand, formats, torn, sheet, history, budget>>

-----------------------------------------------------------------------------
(***************************************************************************)
(* The XLL: the calculation-end event and the deferred runner.             *)
(***************************************************************************)

\* HandleCalculationEnded of the XLL: the call reaches a worker of the server.
\* The event may be nested in the runner, never in itself.
CalcEndBegins(h) ==
  /\ sta = "idle"
  /\ ~torn
  /\ handler[h] = "idle"
  /\ handler' = [handler EXCEPT ![h] = "entered"]
  /\ sta' = "calcEnd"
  /\ awaited' = h
  /\ UNCHANGED <<buffered, cmdQueue, reply, deferred, runnerVars, running, hand,
                 formats, torn, sheet, history, budget>>

\* No worker takes the call.
CalcEndUnanswered ==
  /\ sta = "idle"
  /\ ~torn
  /\ sta' = "calcEnd"
  /\ UNCHANGED <<goVars, awaited, deferred, runnerVars, running, hand, formats,
                 torn, sheet, history, budget>>

\* Mutant: xlcOnTime refuses and the runner stays armed.
ScheduleDeferredRunnerArmed ==
  \/ armed /\ UNCHANGED <<runnerVars, budget>>
  \/ ~armed /\ armed' = TRUE /\ onTime' = onTime + 1 /\ UNCHANGED budget
  \/ ~armed /\ budget.refused < MaxRefusals
     /\ budget' = [budget EXCEPT !.refused = @ + 1]
     /\ armed' = TRUE /\ UNCHANGED onTime

\* TryArm lets one schedule through; a refused xlfNow or xlcOnTime disarms.
ScheduleDeferredRunner ==
  \/ /\ armed
     /\ UNCHANGED <<runnerVars, budget>>
  \/ /\ ~armed
     /\ armed' = TRUE
     /\ onTime' = onTime + 1
     /\ UNCHANGED budget
  \/ /\ ~armed
     /\ budget.refused < MaxRefusals
     /\ budget' = [budget EXCEPT !.refused = @ + 1]
     /\ UNCHANGED runnerVars

\* An empty buffer is ignored.
Enqueue(cmds) == deferred' = IF cmds = <<>> THEN deferred ELSE deferred \o cmds

\* Mutant: the runner is only scheduled for formats.
DeferCalcEndCommandsUnscheduled(cmds) ==
  /\ Enqueue(cmds)
  /\ IF formats THEN ScheduleDeferredRunner ELSE UNCHANGED <<runnerVars, budget>>

\* The end of the event: enqueue what the reply brought, and wake the runner
\* for it or for date formats.
DeferCalcEndCommands(cmds) ==
  /\ Enqueue(cmds)
  /\ IF cmds # <<>> \/ formats
       THEN ScheduleDeferredRunner
       ELSE UNCHANGED <<runnerVars, budget>>

\* The answer arrives within 2 s.
CalcEndAnswered(h) ==
  /\ sta = "calcEnd"
  /\ awaited = h
  /\ handler[h] = "flushed"
  /\ DeferCalcEndCommands(reply[h])
  /\ reply' = [reply EXCEPT ![h] = <<>>]
  /\ handler' = [handler EXCEPT ![h] = "idle"]
  /\ sta' = "idle"
  /\ awaited' = None
  /\ UNCHANGED <<buffered, cmdQueue, running, hand, formats, torn, sheet, history>>

\* It does not: the commands the handler has taken are gone.
CalcEndTimesOut ==
  /\ sta = "calcEnd"
  /\ DeferCalcEndCommands(<<>>)
  /\ IF awaited = None
       THEN UNCHANGED <<reply, lost>>
       ELSE /\ reply' = [reply EXCEPT ![awaited] = <<>>]
            /\ lost' = LostWith(reply[awaited], cmdQueue, buffered)
  /\ sta' = "idle"
  /\ awaited' = None
  /\ UNCHANGED <<buffered, cmdQueue, handler, running, hand, formats, torn, sheet, last>>

\* The cancel event only notifies the server: it clears and flushes nothing.
CalcCanceledBegins(h) ==
  /\ sta = "idle"
  /\ ~torn
  /\ handler[h] = "idle"
  /\ handler' = [handler EXCEPT ![h] = "canceling"]
  /\ sta' = "canceled"
  /\ awaited' = h
  /\ UNCHANGED <<buffered, cmdQueue, reply, deferred, runnerVars, running, hand,
                 formats, torn, sheet, history, budget>>

\* The user's OnCalculationCanceled returns, in time or after the time-out.
CanceledHandlerReturns(h) ==
  /\ handler[h] = "canceling"
  /\ handler' = [handler EXCEPT ![h] = "idle"]
  /\ \/ /\ awaited = h
        /\ awaited' = None
        /\ sta' = "idle"
     \/ /\ awaited # h
        /\ UNCHANGED <<awaited, sta>>
  /\ UNCHANGED <<buffered, cmdQueue, reply, deferred, runnerVars, running, hand,
                 formats, torn, sheet, history, budget>>

\* The notification times out after 2 s; a warning is logged.
CalcCanceledTimesOut ==
  /\ sta = "canceled"
  /\ sta' = "idle"
  /\ awaited' = None
  /\ UNCHANGED <<goVars, deferred, runnerVars, running, hand, formats, torn,
                 sheet, history, budget>>

\* A calculation thread queues a date format (ScheduleDateFormatsForCaller).
QueueDateFormat ==
  /\ ~torn
  /\ ~formats
  /\ formats' = TRUE
  /\ UNCHANGED <<goVars, sta, awaited, deferred, runnerVars, running, hand, torn,
                 sheet, history, budget>>

\* Mutant: the leaked macro does not look whether a teardown has started.
RunnerBeginsAlways ==
  /\ sta = "idle"
  /\ ~running
  /\ onTime > 0
  /\ onTime' = onTime - 1
  /\ armed' = FALSE
  /\ deferred' = <<>>
  /\ running' = TRUE
  /\ hand' = deferred
  /\ UNCHANGED <<goVars, sta, awaited, formats, torn, sheet, history, budget>>

\* Excel dispatches the macro at an idle point: disarm before the drain, and
\* discard everything once a teardown has started.
RunnerBegins ==
  /\ sta = "idle"
  /\ ~running
  /\ onTime > 0
  /\ onTime' = onTime - 1
  /\ armed' = FALSE
  /\ deferred' = <<>>
  /\ running' = ~torn
  /\ IF torn
       THEN /\ lost' = LostWith(deferred, <<>>, Blank(None))
            /\ UNCHANGED hand
       ELSE /\ hand' = deferred
            /\ UNCHANGED lost
  /\ UNCHANGED <<goVars, sta, awaited, formats, torn, sheet, last, budget>>

\* The reply that the STA would receive.
Answer == IF awaited = None THEN <<>> ELSE reply[awaited]

\* What is behind the commands the runner holds.
Behind == deferred \o Answer \o cmdQueue

\* ExecuteCommands: one command; Excel may refuse it, and nobody looks.
ExecuteCommand ==
  /\ sta = "idle"
  /\ running
  /\ hand # <<>>
  /\ hand' = Tail(hand)
  /\ \/ /\ sheet' = Execute(sheet, Head(hand))
        /\ UNCHANGED lost
     \/ /\ lost' = LostWith(<<Head(hand)>>, Tail(hand) \o Behind, buffered)
        /\ UNCHANGED sheet
  /\ UNCHANGED <<goVars, sta, awaited, deferred, runnerVars, running, formats,
                 torn, last, budget>>

\* Mutant: the runner disarms when it is done.
RunnerEndsDisarming ==
  /\ sta = "idle"
  /\ running
  /\ hand = <<>>
  /\ running' = FALSE
  /\ formats' = FALSE
  /\ armed' = FALSE
  /\ UNCHANGED <<goVars, sta, awaited, deferred, onTime, hand, torn, sheet,
                 history, budget>>

\* The date formats are applied last.
RunnerEnds ==
  /\ sta = "idle"
  /\ running
  /\ hand = <<>>
  /\ running' = FALSE
  /\ formats' = FALSE
  /\ UNCHANGED <<goVars, sta, awaited, deferred, runnerVars, hand, torn, sheet,
                 history, budget>>

-----------------------------------------------------------------------------
(***************************************************************************)
(* Disabling and enabling the add-in.                                      *)
(***************************************************************************)

\* GracefulTeardownOnce(false): the host and the server go.  It runs in a COM
\* event, in which Excel refuses CancelDeferredRunner's xlcOnTime, as the comments
\* there say: the runner stays on the list, and armed.  The branch in which Excel
\* takes the cancellation is left out.
Teardown ==
  /\ sta = "idle"
  /\ ~running
  /\ ~torn
  /\ budget.loads < MaxLoads
  /\ torn' = TRUE
  /\ buffered' = Blank(None)
  /\ cmdQueue' = <<>>
  /\ handler' = [h \in Handlers |-> "idle"]
  /\ reply' = [h \in Handlers |-> <<>>]
  /\ \E queue \in FlushedQueues : lost' = LostWith(queue, <<>>, Blank(None))
  /\ UNCHANGED <<sta, awaited, deferred, runnerVars, running, hand, formats,
                 sheet, last, budget>>

\* xlAutoOpen: PrepareForFreshLoad resets the lifecycle flags, and a new host
\* and server are built.  The deferred queue and its flag are not among them.
Reload ==
  /\ torn
  /\ torn' = FALSE
  /\ budget' = [budget EXCEPT !.loads = @ + 1]
  /\ UNCHANGED <<goVars, sta, awaited, deferred, runnerVars, running, hand,
                 formats, sheet, history>>

-----------------------------------------------------------------------------
Ranges == SUBSET Cells \ {{}}

\* The STA thread and the handlers, which no party outside can hold up.
Handling == \E h \in Handlers : \/ FlushCommands(h)
                                \/ LateHandlerReturns(h)
                                \/ CanceledHandlerReturns(h)

EventEnds == \/ CalcEndTimesOut
             \/ CalcCanceledTimesOut
             \/ \E h \in Handlers : CalcEndAnswered(h)

Runner == RunnerBegins \/ ExecuteCommand \/ RunnerEnds

Next ==
  \/ \E range \in Ranges, v \in Vals : ScheduleSet(range, v) \/ ScheduleFormat(range, v)
  \/ \E h \in Handlers : CalcEndBegins(h)
  \/ CalcEndUnanswered
  \/ \E h \in Handlers : CalcCanceledBegins(h)
  \/ Handling
  \/ EventEnds
  \/ QueueDateFormat
  \/ Runner
  \/ Teardown
  \/ Reload

Spec == Init /\ [][Next]_vars

\* The STA thread returns from the event (the call has a timeout), the
\* handlers return, and Excel, which comes back to an idle point after every
\* event, dispatches what is on its OnTime list there.
LiveSpec ==
  /\ Spec
  /\ WF_vars(EventEnds)
  /\ SF_vars(Runner)
  /\ WF_vars(Handling)

-----------------------------------------------------------------------------
(***************************************************************************)
(* Properties.                                                             *)
(***************************************************************************)

\* What the cell will show once everything pending has been executed is v.
SettlesOn(k, c, v) ==
  IF buffered[k][c] # None THEN buffered[k][c] = v
  ELSE IF Touches(hand \o Behind, k, c) THEN EndsWith(hand \o Behind, k, c, v)
  ELSE sheet[k][c] = v

\* Every cell ends up with the value scheduled last for it, whatever mixture
\* of buffers, queue, replies, deferred buffers and drained commands its
\* commands are in, unless that value itself was dropped on an error path:
\* neither the flush of the per-cell buffers nor a late handler nor a nested
\* calculation end reorders, repeats or forgets a command.
LastWins ==
  \A k \in Kinds, c \in Cells : ~lost[k][c] => SettlesOn(k, c, last[k][c])

\* The armed flag and Excel's OnTime list agree: the flag never outlives its
\* entry, which would silence the runner for good, and there is never a
\* second entry, whose xlcSelect would move the user's selection.
ArmedMatchesOnTime ==
  /\ onTime <= 1
  /\ armed <=> onTime = 1

\* Deferred commands always have a runner on its way, also those of a nested
\* calculation end and those that a teardown left behind, unless Excel has
\* refused a schedule.
DeferredHasRunner ==
  deferred # <<>> /\ budget.refused = 0 => armed

\* A teardown that leaves the runner on the OnTime list writes to no cell.
NoWriteOnceTorn == [][torn => sheet' = sheet]_vars

\* Deferred commands reach the sheet, unless Excel has refused a schedule.
DeferredDrains ==
  deferred # <<>> ~> deferred = <<>> \/ budget.refused > 0

\* "the Go OnCalculationCanceled handler is guaranteed to have completed before
\* Excel is allowed to fire CalculationEnded" (HandleCalculationCanceled): no
\* calculation-end handler runs beside a cancel handler.
CanceledBeforeEnded ==
  \A h, g \in Handlers : ~(handler[h] = "canceling" /\ handler[g] = "entered")
=============================================================================
