-------------------------- MODULE CalcCycleProofs --------------------------
(***************************************************************************)
(* Proofs about CalcCycle, for any cells, values, handlers and bounds, and *)
(* about RtdOnce, for any cells, topics and runs.                          *)
(*                                                                         *)
(* Three arguments.  The arming of the deferred runner: a step that queues *)
(* commands goes through TryArm, and the one step that disarms also takes  *)
(* the queue.  The order of commands: the value scheduled last for a cell  *)
(* is the last of the writes on their way to it, through every hand-over.  *)
(* The one-shot registry: while a cell shows its placeholder, whatever is  *)
(* to replace it has not been cleared away.                                *)
(***************************************************************************)
EXTENDS CalcCycle, RtdOnce, FiniteSetTheorems, TLAPS

Budgets == [scheduled : Nat, refused : Nat, loads : Nat]

RunnerInv ==
  /\ armed \in BOOLEAN
  /\ onTime = IF armed THEN 1 ELSE 0
  /\ budget \in Budgets
  /\ DeferredHasRunner

\* Initially nothing is armed and nothing waits.
LEMMA RunnerInit == Init => RunnerInv
<1> SUFFICES ASSUME Init PROVE RunnerInv
  OBVIOUS
<1>1. armed = FALSE /\ onTime = 0 /\ deferred = <<>>
  BY DEF Init
<1>2. budget \in Budgets
  <2>1. budget = [scheduled |-> 0, refused |-> 0, loads |-> 0]
    BY DEF Init
  <2> QED BY <2>1 DEF Budgets
<1> QED BY <1>1, <1>2 DEF RunnerInv, DeferredHasRunner

\* ScheduleDeferredRunner leaves the flag and the list in agreement; it ends
\* armed, or counts a refusal.
LEMMA ScheduleKeepsAgreement ==
  ASSUME RunnerInv, ScheduleDeferredRunner
  PROVE  /\ armed' \in BOOLEAN
         /\ onTime' = IF armed' THEN 1 ELSE 0
         /\ budget' \in Budgets
         /\ budget'.refused = 0 => armed'
<1>1. CASE armed /\ UNCHANGED <<runnerVars, budget>>
  BY <1>1 DEF RunnerInv, runnerVars
<1>2. CASE ~armed /\ armed' = TRUE /\ onTime' = onTime + 1 /\ UNCHANGED budget
  BY <1>2 DEF RunnerInv
<1>3. CASE /\ ~armed
           /\ budget' = [budget EXCEPT !.refused = @ + 1]
           /\ UNCHANGED runnerVars
  <2>1. budget' \in Budgets /\ budget'.refused = budget.refused + 1 /\ budget.refused \in Nat
    BY <1>3 DEF RunnerInv, Budgets
  <2>2. armed' = armed /\ onTime' = onTime
    BY <1>3 DEF runnerVars
  <2> QED BY <2>1, <2>2 DEF RunnerInv
<1> QED BY <1>1, <1>2, <1>3 DEF ScheduleDeferredRunner

\* The end of an event, whatever the reply brought.
LEMMA DeferKeepsRunner ==
  ASSUME RunnerInv, NEW cmds, DeferCalcEndCommands(cmds)
  PROVE  RunnerInv'
<1>1. CASE cmds # <<>> \/ formats
  <2>1. ScheduleDeferredRunner
    BY <1>1 DEF DeferCalcEndCommands
  <2> QED BY <2>1, ScheduleKeepsAgreement DEF RunnerInv, DeferredHasRunner
<1>2. CASE ~(cmds # <<>> \/ formats)
  <2>1. deferred' = deferred /\ armed' = armed /\ onTime' = onTime /\ budget' = budget
    BY <1>2 DEF DeferCalcEndCommands, Enqueue, runnerVars
  <2> QED BY <2>1 DEF RunnerInv, DeferredHasRunner
<1> QED BY <1>1, <1>2

\* A step that leaves the runner and the queue alone, and refuses nothing.
LEMMA UnrelatedStep ==
  ASSUME RunnerInv, UNCHANGED <<deferred, armed, onTime>>,
         budget' \in Budgets, budget'.refused = budget.refused
  PROVE  RunnerInv'
BY DEF RunnerInv, DeferredHasRunner

\* One step, action by action.
LEMMA RunnerStep == RunnerInv /\ [Next]_vars => RunnerInv'
<1> SUFFICES ASSUME RunnerInv, [Next]_vars PROVE RunnerInv'
  OBVIOUS
<1>b. budget \in Budgets
  BY DEF RunnerInv
<1>s. ASSUME NEW k, NEW range, NEW v, Schedules(k, range, v) PROVE RunnerInv'
  <2>1. budget' \in Budgets /\ budget'.refused = budget.refused
    BY <1>b, <1>s DEF Schedules, Budgets
  <2>2. UNCHANGED <<deferred, armed, onTime>>
    BY <1>s DEF Schedules, runnerVars
  <2> QED BY <2>1, <2>2, UnrelatedStep
<1>1. ASSUME NEW range, NEW v, ScheduleSet(range, v) \/ ScheduleFormat(range, v)
      PROVE  RunnerInv'
  BY <1>1, <1>s DEF ScheduleSet, ScheduleFormat, BufferCells, EnqueueRange
<1>2. ASSUME NEW h \in Handlers, CalcEndBegins(h) PROVE RunnerInv'
  BY <1>2, <1>b, UnrelatedStep DEF CalcEndBegins, runnerVars
<1>3. CASE CalcEndUnanswered
  BY <1>3, <1>b, UnrelatedStep DEF CalcEndUnanswered, runnerVars
<1>4. CASE Handling
  <2>1. ASSUME NEW h \in Handlers, FlushCommands(h) PROVE RunnerInv'
    BY <2>1, <1>b, UnrelatedStep DEF FlushCommands, runnerVars
  <2>2. ASSUME NEW h \in Handlers, LateHandlerReturns(h) PROVE RunnerInv'
    BY <2>2, <1>b, UnrelatedStep DEF LateHandlerReturns, runnerVars
  <2>3. ASSUME NEW h \in Handlers, CanceledHandlerReturns(h) PROVE RunnerInv'
    BY <2>3, <1>b, UnrelatedStep DEF CanceledHandlerReturns, runnerVars
  <2> QED BY <1>4, <2>1, <2>2, <2>3 DEF Handling
<1>5. CASE EventEnds
  <2>1. CASE CalcEndTimesOut
    BY <2>1, DeferKeepsRunner DEF CalcEndTimesOut
  <2>2. ASSUME NEW h \in Handlers, CalcEndAnswered(h) PROVE RunnerInv'
    BY <2>2, DeferKeepsRunner DEF CalcEndAnswered
  <2>3. CASE CalcCanceledTimesOut
    BY <2>3, <1>b, UnrelatedStep DEF CalcCanceledTimesOut, runnerVars
  <2> QED BY <1>5, <2>1, <2>2, <2>3 DEF EventEnds
<1>6. CASE QueueDateFormat
  BY <1>6, <1>b, UnrelatedStep DEF QueueDateFormat, runnerVars
<1>7. CASE Runner
  <2>1. CASE RunnerBegins
    <3>1. onTime > 0 /\ onTime' = onTime - 1 /\ armed' = FALSE /\ deferred' = <<>>
          /\ budget' = budget
      BY <2>1 DEF RunnerBegins
    <3>2. onTime' = 0
      BY <3>1 DEF RunnerInv
    <3> QED BY <3>1, <3>2, <1>b DEF RunnerInv, DeferredHasRunner
  <2>2. CASE ExecuteCommand
    BY <2>2, <1>b, UnrelatedStep DEF ExecuteCommand, runnerVars
  <2>3. CASE RunnerEnds
    BY <2>3, <1>b, UnrelatedStep DEF RunnerEnds, runnerVars
  <2> QED BY <1>7, <2>1, <2>2, <2>3 DEF Runner
<1>8. CASE Teardown
  BY <1>8, <1>b, UnrelatedStep DEF Teardown, runnerVars
<1>9. CASE Reload
  <2>1. budget' \in Budgets /\ budget'.refused = budget.refused
    BY <1>b, <1>9 DEF Reload, Budgets
  <2>2. UNCHANGED <<deferred, armed, onTime>>
    BY <1>9 DEF Reload, runnerVars
  <2> QED BY <2>1, <2>2, UnrelatedStep
<1>11. ASSUME NEW h \in Handlers, CalcCanceledBegins(h) PROVE RunnerInv'
  BY <1>11, <1>b, UnrelatedStep DEF CalcCanceledBegins, runnerVars
<1>10. CASE UNCHANGED vars
  BY <1>10, <1>b, UnrelatedStep DEF vars
<1> QED BY <1>1, <1>2, <1>3, <1>4, <1>5, <1>6, <1>7, <1>8, <1>9, <1>10, <1>11 DEF Next

\* The invariant of the runner holds throughout.
LEMMA RunnerAlways == Spec => []RunnerInv
BY RunnerInit, RunnerStep, PTL DEF Spec

\* Excel's OnTime list holds the runner exactly when the flag says so, across
\* nested events, refusals, a teardown and a reload (TryArm and Disarm).
THEOREM RunnerArmedOnce == Spec => []ArmedMatchesOnTime
<1>1. RunnerInv => ArmedMatchesOnTime
  BY DEF RunnerInv, ArmedMatchesOnTime
<1> QED BY <1>1, RunnerAlways, PTL

\* No deferred command is left without a runner that will drain it, unless
\* Excel has refused a schedule (DeferCalcEndCommands).
THEOREM DeferredAlwaysHasRunner == Spec => []DeferredHasRunner
<1>1. RunnerInv => DeferredHasRunner
  BY DEF RunnerInv
<1> QED BY <1>1, RunnerAlways, PTL

-----------------------------------------------------------------------------
(***************************************************************************)
(* The last value wins.                                                    *)
(*                                                                         *)
(* The lemmas say what a concatenation of command sequences does to a cell,*)
(* so that an action needs to be looked at segment by segment only: hand,  *)
(* deferred queue, awaited reply, command queue, buffers.                  *)
(***************************************************************************)

\* Nothing is touched by no command.
LEMMA EmptyTouchesNothing ==
  ASSUME NEW k, NEW c
  PROVE  ~Touches(<<>>, k, c) /\ \A v : ~EndsWith(<<>>, k, c, v)
BY DEF Touches, EndsWith

\* A sequence that ends with a value for a cell touches it.
LEMMA EndsTouches ==
  ASSUME NEW s, NEW k, NEW c, NEW v, EndsWith(s, k, c, v)
  PROVE  Touches(s, k, c)
BY DEF Touches, EndsWith

\* A concatenation touches what one of its parts touches, and ends with what the
\* second part ends with, or else the first.
LEMMA ConcatTouches ==
  ASSUME NEW s \in Seq(Commands), NEW t \in Seq(Commands), NEW k, NEW c
  PROVE  /\ s \o t \in Seq(Commands)
         /\ Touches(s \o t, k, c) <=> Touches(s, k, c) \/ Touches(t, k, c)
         /\ \A v : EndsWith(s \o t, k, c, v) <=>
                     EndsWith(t, k, c, v) \/ (~Touches(t, k, c) /\ EndsWith(s, k, c, v))
<1> DEFINE u == s \o t
<1>1. /\ u \in Seq(Commands)
      /\ Len(s) \in Nat /\ Len(t) \in Nat
      /\ DOMAIN s = 1..Len(s) /\ DOMAIN t = 1..Len(t) /\ DOMAIN u = 1..(Len(s) + Len(t))
  OBVIOUS
<1>2. \A i \in 1..Len(s) : u[i] = s[i]
  OBVIOUS
<1>3. \A i \in 1..Len(t) : i + Len(s) \in 1..(Len(s) + Len(t)) /\ u[i + Len(s)] = t[i]
  OBVIOUS
<1>4. \A i \in 1..(Len(s) + Len(t)) :
        i \in 1..Len(s) \/ (i - Len(s) \in 1..Len(t) /\ u[i] = t[i - Len(s)])
  OBVIOUS
<1> HIDE DEF u
<1>5. Touches(u, k, c) <=> Touches(s, k, c) \/ Touches(t, k, c)
  <2>1. ASSUME Touches(u, k, c) PROVE Touches(s, k, c) \/ Touches(t, k, c)
    <3>1. PICK i \in 1..(Len(s) + Len(t)) : Hits(u[i], k, c)
      BY <2>1, <1>1 DEF Touches
    <3> QED BY <3>1, <1>1, <1>2, <1>4 DEF Touches
  <2>2. ASSUME Touches(s, k, c) PROVE Touches(u, k, c)
    <3>1. PICK i \in 1..Len(s) : Hits(s[i], k, c)
      BY <2>2, <1>1 DEF Touches
    <3>2. i \in 1..(Len(s) + Len(t))
      BY <1>1
    <3> QED BY <3>1, <3>2, <1>1, <1>2 DEF Touches
  <2>3. ASSUME Touches(t, k, c) PROVE Touches(u, k, c)
    <3>1. PICK i \in 1..Len(t) : Hits(t[i], k, c)
      BY <2>3, <1>1 DEF Touches
    <3> QED BY <3>1, <1>1, <1>3 DEF Touches
  <2> QED BY <2>1, <2>2, <2>3
<1>6. ASSUME NEW v, EndsWith(u, k, c, v)
      PROVE  EndsWith(t, k, c, v) \/ (~Touches(t, k, c) /\ EndsWith(s, k, c, v))
  <2>1. PICK i \in 1..(Len(s) + Len(t)) :
          /\ Hits(u[i], k, c) /\ u[i].val = v
          /\ \A j \in 1..(Len(s) + Len(t)) : j > i => ~Hits(u[j], k, c)
    BY <1>6, <1>1 DEF EndsWith
  <2>2. CASE i \in 1..Len(s)
    <3>1. \A j \in 1..Len(t) : ~Hits(t[j], k, c)
      BY <2>1, <2>2, <1>1, <1>3
    <3>2. \A j \in 1..Len(s) : j > i => ~Hits(s[j], k, c)
      BY <2>1, <2>2, <1>1, <1>2
    <3>3. EndsWith(s, k, c, v)
      BY <2>1, <2>2, <3>2, <1>1, <1>2 DEF EndsWith
    <3> QED BY <3>1, <3>3, <1>1 DEF Touches
  <2>3. CASE i - Len(s) \in 1..Len(t) /\ u[i] = t[i - Len(s)]
    <3>1. \A j \in 1..Len(t) : j > i - Len(s) => ~Hits(t[j], k, c)
      <4> SUFFICES ASSUME NEW j \in 1..Len(t), j > i - Len(s) PROVE ~Hits(t[j], k, c)
        OBVIOUS
      <4>1. j + Len(s) > i
        BY <1>1
      <4> QED BY <4>1, <2>1, <1>3
    <3> QED BY <2>1, <2>3, <3>1, <1>1 DEF EndsWith
  <2> QED BY <2>2, <2>3, <1>4
<1>7. ASSUME NEW v, EndsWith(t, k, c, v) PROVE EndsWith(u, k, c, v)
  <2>1. PICK i \in 1..Len(t) :
          /\ Hits(t[i], k, c) /\ t[i].val = v
          /\ \A j \in 1..Len(t) : j > i => ~Hits(t[j], k, c)
    BY <1>7, <1>1 DEF EndsWith
  <2>2. \A j \in 1..(Len(s) + Len(t)) : j > i + Len(s) => ~Hits(u[j], k, c)
    <3> SUFFICES ASSUME NEW j \in 1..(Len(s) + Len(t)), j > i + Len(s)
                 PROVE  ~Hits(u[j], k, c)
      OBVIOUS
    <3>1. j \notin 1..Len(s) /\ j - Len(s) > i
      BY <1>1
    <3> QED BY <3>1, <2>1, <1>4
  <2> QED BY <2>1, <2>2, <1>1, <1>3 DEF EndsWith
<1>8. ASSUME NEW v, ~Touches(t, k, c), EndsWith(s, k, c, v) PROVE EndsWith(u, k, c, v)
  <2>1. PICK i \in 1..Len(s) :
          /\ Hits(s[i], k, c) /\ s[i].val = v
          /\ \A j \in 1..Len(s) : j > i => ~Hits(s[j], k, c)
    BY <1>8, <1>1 DEF EndsWith
  <2>2. \A j \in 1..Len(t) : ~Hits(t[j], k, c)
    BY <1>8, <1>1 DEF Touches
  <2>3. \A j \in 1..(Len(s) + Len(t)) : j > i => ~Hits(u[j], k, c)
    BY <2>1, <2>2, <1>2, <1>4
  <2>4. i \in 1..(Len(s) + Len(t))
    BY <1>1
  <2> QED BY <2>1, <2>3, <2>4, <1>1, <1>2 DEF EndsWith
<1> QED BY <1>1, <1>5, <1>6, <1>7, <1>8 DEF u

\* One command.
LEMMA OneCommand ==
  ASSUME NEW cmd \in Commands, NEW k, NEW c
  PROVE  /\ <<cmd>> \in Seq(Commands)
         /\ Touches(<<cmd>>, k, c) <=> Hits(cmd, k, c)
         /\ \A v : EndsWith(<<cmd>>, k, c, v) <=> Hits(cmd, k, c) /\ cmd.val = v
<1> DEFINE s == <<cmd>>
<1>1. s \in Seq(Commands) /\ DOMAIN s = {1} /\ s[1] = cmd
  OBVIOUS
<1> HIDE DEF s
<1>2. Touches(s, k, c) <=> Hits(cmd, k, c)
  BY <1>1 DEF Touches
<1>3. \A v : EndsWith(s, k, c, v) <=> Hits(cmd, k, c) /\ cmd.val = v
  BY <1>1 DEF EndsWith
<1> QED BY <1>1, <1>2, <1>3 DEF s

\* The part of the type invariant that the commands live in.
CommandsTyped ==
  /\ buffered \in Registers(Vals \union {None})
  /\ cmdQueue \in Seq(Commands)
  /\ handler \in [Handlers -> {"idle", "entered", "flushed", "canceling"}]
  /\ reply \in [Handlers -> Seq(Commands)]
  /\ awaited \in Handlers \union {None}
  /\ deferred \in Seq(Commands)
  /\ hand \in Seq(Commands)
  /\ sheet \in Registers(Vals \union {None})
  /\ last \in Registers(Vals \union {None})
  /\ lost \in Registers(BOOLEAN)

\* A flush is a sequence of commands.
LEMMA FlushTyped ==
  ASSUME NEW kind \in Kinds, NEW s \in Flushes(kind)
  PROVE  /\ s \in Seq(Commands)
         /\ \E n \in Nat : s \in [1..n -> BufferCommands(kind)]
<1>1. Cardinality(Cells) \in Nat
  BY CalcCycleAssumption, FS_CardinalityType
<1>2. PICK n \in Nat : s \in [1..n -> BufferCommands(kind)]
  BY <1>1 DEF Flushes, BoundedSeq, SeqOf
<1>3. BufferCommands(kind) \subseteq Commands
  BY DEF BufferCommands, Commands, Kinds
<1>4. s \in [1..n -> Commands]
  BY <1>2, <1>3
<1> QED BY <1>2, <1>4

\* So is the flushed queue.
LEMMA FlushedTyped ==
  ASSUME cmdQueue \in Seq(Commands), NEW queue \in FlushedQueues
  PROVE  queue \in Seq(Commands)
<1>1. PICK s \in Flushes("set"), f \in Flushes("format") : queue = cmdQueue \o s \o f
  BY DEF FlushedQueues
<1>2. s \in Seq(Commands) /\ f \in Seq(Commands)
  BY FlushTyped DEF Kinds
<1> QED BY <1>1, <1>2

\* A flush of the buffers of one kind touches the buffered cells of that kind and
\* no other, and ends with the buffered value.
LEMMA FlushOfKind ==
  ASSUME CommandsTyped, NEW kind \in Kinds, NEW s \in Flushes(kind),
         NEW k \in Kinds, NEW c \in Cells
  PROVE  /\ s \in Seq(Commands)
         /\ Touches(s, k, c) <=> k = kind /\ buffered[k][c] # None
         /\ Touches(s, k, c) => EndsWith(s, k, c, buffered[k][c])
<1>2. PICK n \in Nat : s \in [1..n -> BufferCommands(kind)]
  BY FlushTyped
<1>4. s \in Seq(Commands) /\ DOMAIN s = 1..n
  BY <1>2, FlushTyped
<1>5. \A i \in 1..n :
        /\ s[i].kind = kind
        /\ \A x \in s[i].cells : buffered[kind][x] = s[i].val
        /\ s[i].val \in Vals
  BY <1>2 DEF BufferCommands
<1>6. Touches(s, k, c) => k = kind /\ buffered[k][c] # None
  BY <1>4, <1>5, CalcCycleAssumption DEF Touches, Hits
<1>7. k = kind /\ buffered[k][c] # None => Touches(s, k, c)
  BY DEF Flushes
<1>8. Touches(s, k, c) => EndsWith(s, k, c, buffered[k][c])
  <2> SUFFICES ASSUME Touches(s, k, c) PROVE EndsWith(s, k, c, buffered[k][c])
    OBVIOUS
  <2>1. PICK i \in 1..n : Hits(s[i], k, c)
    BY <1>4 DEF Touches
  <2>2. s[i].val = buffered[k][c]
    BY <2>1, <1>5 DEF Hits
  <2>3. \A j \in 1..n : i # j => s[i].cells \cap s[j].cells = {}
    BY <1>4 DEF Flushes
  <2>4. \A j \in 1..n : j > i => ~Hits(s[j], k, c)
    BY <2>1, <2>3 DEF Hits
  <2> QED BY <2>1, <2>2, <2>4, <1>4 DEF EndsWith
<1> QED BY <1>4, <1>6, <1>7, <1>8

\* After flushBuffersLocked the queue says of a buffered cell what the buffer said, and of
\* any other cell what it said before.
LEMMA FlushedQueue ==
  ASSUME CommandsTyped, NEW queue \in FlushedQueues, NEW k \in Kinds, NEW c \in Cells
  PROVE  /\ queue \in Seq(Commands)
         /\ buffered[k][c] # None =>
              Touches(queue, k, c) /\ EndsWith(queue, k, c, buffered[k][c])
         /\ buffered[k][c] = None =>
              /\ Touches(queue, k, c) <=> Touches(cmdQueue, k, c)
              /\ \A v : EndsWith(queue, k, c, v) <=> EndsWith(cmdQueue, k, c, v)
<1>1. PICK s \in Flushes("set"), f \in Flushes("format") : queue = cmdQueue \o s \o f
  BY DEF FlushedQueues
<1>2. /\ s \in Seq(Commands)
      /\ Touches(s, k, c) <=> k = "set" /\ buffered[k][c] # None
      /\ Touches(s, k, c) => EndsWith(s, k, c, buffered[k][c])
  BY FlushOfKind DEF Kinds
<1>3. /\ f \in Seq(Commands)
      /\ Touches(f, k, c) <=> k = "format" /\ buffered[k][c] # None
      /\ Touches(f, k, c) => EndsWith(f, k, c, buffered[k][c])
  BY FlushOfKind DEF Kinds
<1>4. cmdQueue \in Seq(Commands)
  BY DEF CommandsTyped
<1> DEFINE qs == cmdQueue \o s
<1>5. /\ qs \in Seq(Commands)
      /\ Touches(qs, k, c) <=> Touches(cmdQueue, k, c) \/ Touches(s, k, c)
      /\ \A v : EndsWith(qs, k, c, v) <=>
                  EndsWith(s, k, c, v) \/ (~Touches(s, k, c) /\ EndsWith(cmdQueue, k, c, v))
  BY <1>2, <1>4, ConcatTouches
<1> HIDE DEF qs
<1>6. /\ qs \o f \in Seq(Commands)
      /\ Touches(qs \o f, k, c) <=> Touches(qs, k, c) \/ Touches(f, k, c)
      /\ \A v : EndsWith(qs \o f, k, c, v) <=>
                  EndsWith(f, k, c, v) \/ (~Touches(f, k, c) /\ EndsWith(qs, k, c, v))
  BY <1>3, <1>5, ConcatTouches
<1>7. queue = qs \o f
  BY <1>1 DEF qs
<1>8. \A v : EndsWith(s, k, c, v) => Touches(s, k, c)
  BY EndsTouches
<1>9. \A v : EndsWith(f, k, c, v) => Touches(f, k, c)
  BY EndsTouches
<1>10. k = "set" \/ k = "format"
  BY DEF Kinds
<1> QED BY <1>2, <1>3, <1>5, <1>6, <1>7, <1>8, <1>9, <1>10

\* What the cell will show, segment by segment: buffer, queue, reply, deferred queue,
\* hand, and last the sheet.
Fate(b, q, r, d, h, x, k, c, v) ==
  IF b # None THEN b = v
  ELSE IF Touches(q, k, c) THEN EndsWith(q, k, c, v)
  ELSE IF Touches(r, k, c) THEN EndsWith(r, k, c, v)
  ELSE IF Touches(d, k, c) THEN EndsWith(d, k, c, v)
  ELSE IF Touches(h, k, c) THEN EndsWith(h, k, c, v)
  ELSE x = v

\* The segments taken together.
LEMMA SegmentsTogether ==
  ASSUME NEW h \in Seq(Commands), NEW d \in Seq(Commands), NEW r \in Seq(Commands),
         NEW q \in Seq(Commands), NEW b, NEW x, NEW k, NEW c, NEW v
  PROVE  (IF b # None THEN b = v
          ELSE IF Touches(h \o (d \o r \o q), k, c)
            THEN EndsWith(h \o (d \o r \o q), k, c, v)
          ELSE x = v)
         <=> Fate(b, q, r, d, h, x, k, c, v)
<1> DEFINE dr == d \o r
           drq == dr \o q
<1>1. /\ dr \in Seq(Commands)
      /\ Touches(dr, k, c) <=> Touches(d, k, c) \/ Touches(r, k, c)
      /\ EndsWith(dr, k, c, v) <=>
            EndsWith(r, k, c, v) \/ (~Touches(r, k, c) /\ EndsWith(d, k, c, v))
  BY ConcatTouches
<1> HIDE DEF dr
<1>2. /\ drq \in Seq(Commands)
      /\ Touches(drq, k, c) <=> Touches(dr, k, c) \/ Touches(q, k, c)
      /\ EndsWith(drq, k, c, v) <=>
            EndsWith(q, k, c, v) \/ (~Touches(q, k, c) /\ EndsWith(dr, k, c, v))
  BY <1>1, ConcatTouches
<1> HIDE DEF drq
<1>3. /\ Touches(h \o drq, k, c) <=> Touches(h, k, c) \/ Touches(drq, k, c)
      /\ EndsWith(h \o drq, k, c, v) <=>
            EndsWith(drq, k, c, v) \/ (~Touches(drq, k, c) /\ EndsWith(h, k, c, v))
  BY <1>2, ConcatTouches
<1>4. d \o r \o q = drq
  BY DEF dr, drq
<1>5. /\ EndsWith(q, k, c, v) => Touches(q, k, c)
      /\ EndsWith(r, k, c, v) => Touches(r, k, c)
      /\ EndsWith(d, k, c, v) => Touches(d, k, c)
  BY EndsTouches
<1> QED BY <1>1, <1>2, <1>3, <1>4, <1>5 DEF Fate

\* The awaited reply is a sequence of commands.
LEMMA AnswerTyped == CommandsTyped => Answer \in Seq(Commands)
BY DEF CommandsTyped, Answer

\* SettlesOn in a state.
LEMMA FateNow ==
  ASSUME CommandsTyped, NEW k, NEW c, NEW v
  PROVE  SettlesOn(k, c, v) <=>
           Fate(buffered[k][c], cmdQueue, Answer, deferred, hand, sheet[k][c], k, c, v)
BY AnswerTyped, SegmentsTogether DEF CommandsTyped, SettlesOn, Behind

\* SettlesOn after a step.
LEMMA FateNext ==
  ASSUME CommandsTyped', NEW k, NEW c, NEW v
  PROVE  SettlesOn(k, c, v)' <=>
           Fate(buffered'[k][c], cmdQueue', Answer', deferred', hand', sheet'[k][c], k, c, v)
<1>1. Answer' \in Seq(Commands)
  BY DEF CommandsTyped, Answer
<1> QED BY <1>1, SegmentsTogether DEF CommandsTyped, SettlesOn, Behind

\* Commands that have been taken are those of the awaited calculation end.
RepliesHeld ==
  \A h \in Handlers : reply[h] # <<>> => h = awaited /\ handler[h] = "flushed" /\ sta = "calcEnd"

\* Outside an event nobody is awaited, and an awaited handler that has yet to flush is that
\* of a calculation end.
EventsMatch ==
  /\ sta = "idle" => awaited = None
  /\ \A h \in Handlers : awaited = h /\ handler[h] = "entered" => sta = "calcEnd"

\* Drained commands are those of a runner that executes.
HandOfRunner == hand # <<>> => running

CycleInv ==
  /\ CommandsTyped
  /\ RepliesHeld
  /\ EventsMatch
  /\ HandOfRunner
  /\ LastWins

\* Nothing is scheduled and nothing is pending at first.
LEMMA CycleInvInit == Init => CycleInv
<1> SUFFICES ASSUME Init PROVE CycleInv
  OBVIOUS
<1>1. CommandsTyped
  BY CalcCycleAssumption DEF Init, CommandsTyped, Registers, Blank
<1>2. RepliesHeld /\ EventsMatch /\ HandOfRunner
  BY DEF Init, RepliesHeld, EventsMatch, HandOfRunner
<1>3. LastWins
  <2> SUFFICES ASSUME NEW k \in Kinds, NEW c \in Cells PROVE SettlesOn(k, c, last[k][c])
    BY DEF LastWins
  <2>1. buffered[k][c] = None /\ sheet[k][c] = None /\ last[k][c] = None
    BY DEF Init, Blank
  <2>2. cmdQueue = <<>> /\ Answer = <<>> /\ deferred = <<>> /\ hand = <<>>
    BY DEF Init, Answer
  <2> QED BY <1>1, <2>1, <2>2, FateNow, EmptyTouchesNothing DEF Fate
<1> QED BY <1>1, <1>2, <1>3 DEF CycleInv

\* LostWith is a register of flags, and says what it says.
LEMMA LostWithIs ==
  ASSUME NEW taken, NEW behind, NEW buf, NEW k \in Kinds, NEW c \in Cells
  PROVE  LostWith(taken, behind, buf)[k][c] <=>
           \/ lost[k][c]
           \/ Touches(taken, k, c) /\ ~Touches(behind, k, c) /\ buf[k][c] = None
BY DEF LostWith

\* LostWith keeps the flags' type.
LEMMA LostWithTyped ==
  ASSUME NEW taken, NEW behind, NEW buf, lost \in Registers(BOOLEAN)
  PROVE  LostWith(taken, behind, buf) \in Registers(BOOLEAN)
<1> SUFFICES ASSUME NEW k \in Kinds, NEW c \in Cells
             PROVE  (\/ lost[k][c]
                     \/ Touches(taken, k, c) /\ ~Touches(behind, k, c) /\ buf[k][c] = None)
                    \in BOOLEAN
  BY DEF LostWith, Registers
<1> QED OBVIOUS

\* A blank register.
LEMMA BlankIs ==
  ASSUME NEW x
  PROVE  /\ \A k \in Kinds, c \in Cells : Blank(x)[k][c] = x
         /\ \A S : x \in S => Blank(x) \in Registers(S)
BY DEF Blank, Registers

\* A step leaves commands and flags well-formed: by the segments an action writes.
LEMMA TypedStep == CommandsTyped /\ [Next]_vars => CommandsTyped'
<1> SUFFICES ASSUME CommandsTyped, [Next]_vars PROVE CommandsTyped'
  OBVIOUS
<1> USE DEF CommandsTyped
<1>n. Blank(None) \in Registers(Vals \union {None})
  BY BlankIs
<1>q. \A queue \in FlushedQueues : queue \in Seq(Commands)
  BY FlushedTyped
<1>s. ASSUME NEW k \in Kinds, NEW range \in SUBSET Cells, NEW v \in Vals, Schedules(k, range, v)
      PROVE  /\ last' \in Registers(Vals \union {None}) /\ lost' \in Registers(BOOLEAN)
             /\ UNCHANGED <<handler, reply, awaited, deferred, hand, sheet>>
  <2>1. \A c \in Cells : (c \notin range /\ lost[k][c]) \in BOOLEAN
    OBVIOUS
  <2>2. lost' \in Registers(BOOLEAN)
    BY <1>s, <2>1 DEF Schedules, Registers
  <2>3. last' \in Registers(Vals \union {None})
    BY <1>s DEF Schedules, Registers
  <2> QED BY <1>s, <2>2, <2>3 DEF Schedules
<1>1. ASSUME NEW k \in Kinds, NEW range \in SUBSET Cells, NEW v \in Vals, BufferCells(k, range, v)
      PROVE  CommandsTyped'
  <2>1. buffered' \in Registers(Vals \union {None}) /\ cmdQueue' = cmdQueue
    BY <1>1 DEF BufferCells, Registers
  <2> QED BY <1>1, <1>s, <2>1 DEF BufferCells
<1>2. ASSUME NEW k \in Kinds, NEW range \in SUBSET Cells, NEW v \in Vals, EnqueueRange(k, range, v)
      PROVE  CommandsTyped'
  <2>1. PICK queue \in FlushedQueues :
          cmdQueue' = Append(queue, [kind |-> k, cells |-> range, val |-> v])
    BY <1>2 DEF EnqueueRange
  <2>2. [kind |-> k, cells |-> range, val |-> v] \in Commands
    BY DEF Commands
  <2>3. cmdQueue' \in Seq(Commands)
    BY <2>1, <2>2, <1>q
  <2> QED BY <1>2, <1>n, <1>s, <2>3 DEF EnqueueRange
<1>3. ASSUME NEW range \in Ranges, NEW v \in Vals, ScheduleSet(range, v) \/ ScheduleFormat(range, v)
      PROVE  CommandsTyped'
  <2>1. range \in SUBSET Cells /\ "set" \in Kinds /\ "format" \in Kinds
    BY DEF Ranges, Kinds
  <2> QED BY <1>1, <1>2, <1>3, <2>1 DEF ScheduleSet, ScheduleFormat
<1>4. ASSUME NEW h \in Handlers, CalcEndBegins(h) \/ CalcCanceledBegins(h) PROVE CommandsTyped'
  BY <1>4 DEF CalcEndBegins, CalcCanceledBegins, history
<1>5. CASE CalcEndUnanswered
  BY <1>5 DEF CalcEndUnanswered, goVars, history
<1>6. ASSUME NEW h \in Handlers, FlushCommands(h) PROVE CommandsTyped'
  <2>1. PICK taken \in FlushedQueues :
          /\ \E x \in {taken, <<>>} : reply' = [reply EXCEPT ![h] = x]
          /\ lost' = lost \/ lost' = LostWith(taken, <<>>, Blank(None))
    BY <1>6 DEF FlushCommands
  <2>4. taken \in Seq(Commands) /\ <<>> \in Seq(Commands)
    BY <1>q
  <2>2. reply' \in [Handlers -> Seq(Commands)]
    BY <2>1, <2>4
  <2>3. lost' \in Registers(BOOLEAN)
    BY <2>1, LostWithTyped
  <2> QED BY <1>6, <1>n, <2>2, <2>3 DEF FlushCommands
<1>7. ASSUME NEW h \in Handlers, LateHandlerReturns(h) \/ CanceledHandlerReturns(h)
      PROVE  CommandsTyped'
  BY <1>7 DEF LateHandlerReturns, CanceledHandlerReturns, history
<1>8. CASE CalcEndTimesOut
  <2>1. deferred' \in Seq(Commands)
    BY <1>8 DEF CalcEndTimesOut, DeferCalcEndCommands, Enqueue
  <2>2. reply' \in [Handlers -> Seq(Commands)]
    <3>1. CASE awaited = None
      BY <1>8, <3>1 DEF CalcEndTimesOut
    <3>2. CASE awaited # None
      <4>1. reply' = [reply EXCEPT ![awaited] = <<>>] /\ <<>> \in Seq(Commands)
        BY <1>8, <3>2 DEF CalcEndTimesOut
      <4> QED BY <4>1
    <3> QED BY <3>1, <3>2
  <2>3. lost' \in Registers(BOOLEAN)
    BY <1>8, LostWithTyped DEF CalcEndTimesOut
  <2> QED BY <1>8, <2>1, <2>2, <2>3 DEF CalcEndTimesOut
<1>9. ASSUME NEW h \in Handlers, CalcEndAnswered(h) PROVE CommandsTyped'
  <2>1. deferred' \in Seq(Commands)
    BY <1>9 DEF CalcEndAnswered, DeferCalcEndCommands, Enqueue
  <2> QED BY <1>9, <2>1 DEF CalcEndAnswered, history
<1>10. CASE CalcCanceledTimesOut
  BY <1>10 DEF CalcCanceledTimesOut, goVars, history
<1>11. CASE QueueDateFormat
  BY <1>11 DEF QueueDateFormat, goVars, history
<1>12. CASE RunnerBegins
  <2>1. lost' \in Registers(BOOLEAN)
    BY <1>12, LostWithTyped DEF RunnerBegins
  <2> QED BY <1>12, <2>1 DEF RunnerBegins, goVars
<1>13. CASE ExecuteCommand
  <2>1. Head(hand) \in Commands /\ Tail(hand) \in Seq(Commands)
    BY <1>13 DEF ExecuteCommand
  <2>2. Execute(sheet, Head(hand)) \in Registers(Vals \union {None})
    BY <2>1 DEF Execute, Registers, Commands
  <2>3. lost' \in Registers(BOOLEAN) /\ sheet' \in Registers(Vals \union {None})
    BY <1>13, <2>2, LostWithTyped DEF ExecuteCommand
  <2> QED BY <1>13, <2>1, <2>3 DEF ExecuteCommand, goVars
<1>14. CASE RunnerEnds
  BY <1>14 DEF RunnerEnds, goVars, history
<1>15. CASE Teardown
  <2>1. lost' \in Registers(BOOLEAN)
    BY <1>15, LostWithTyped DEF Teardown
  <2> QED BY <1>15, <1>n, <2>1 DEF Teardown
<1>16. CASE Reload
  BY <1>16 DEF Reload, goVars, history
<1>17. CASE UNCHANGED vars
  BY <1>17 DEF vars
<1> QED BY <1>3, <1>4, <1>5, <1>6, <1>7, <1>8, <1>9, <1>10, <1>11, <1>12, <1>13, <1>14, <1>15,
           <1>16, <1>17 DEF Next, Handling, EventEnds, Runner

\* What is taken, awaited and held stays matched.
LEMMA EventStep ==
  CommandsTyped /\ RepliesHeld /\ EventsMatch /\ HandOfRunner /\ [Next]_vars =>
    RepliesHeld' /\ EventsMatch' /\ HandOfRunner'
<1> SUFFICES ASSUME CommandsTyped, RepliesHeld, EventsMatch, HandOfRunner, [Next]_vars
             PROVE  RepliesHeld' /\ EventsMatch' /\ HandOfRunner'
  OBVIOUS
<1> USE CalcCycleAssumption DEF RepliesHeld, EventsMatch, HandOfRunner
<1>t. /\ handler \in [Handlers -> {"idle", "entered", "flushed", "canceling"}]
      /\ DOMAIN reply = Handlers
      /\ awaited \in Handlers \union {None}
  BY DEF CommandsTyped
<1>1. ASSUME NEW k, NEW range, NEW v, Schedules(k, range, v)
      PROVE  RepliesHeld' /\ EventsMatch' /\ HandOfRunner'
  BY <1>1 DEF Schedules
<1>2. ASSUME NEW range, NEW v, ScheduleSet(range, v) \/ ScheduleFormat(range, v)
      PROVE  RepliesHeld' /\ EventsMatch' /\ HandOfRunner'
  BY <1>1, <1>2 DEF ScheduleSet, ScheduleFormat, BufferCells, EnqueueRange
<1>3. ASSUME NEW h \in Handlers, CalcEndBegins(h) \/ CalcCanceledBegins(h)
      PROVE  RepliesHeld' /\ EventsMatch' /\ HandOfRunner'
  BY <1>3, <1>t DEF CalcEndBegins, CalcCanceledBegins
<1>4. CASE CalcEndUnanswered
  BY <1>4, <1>t DEF CalcEndUnanswered, goVars
<1>5. ASSUME NEW h \in Handlers, FlushCommands(h)
      PROVE  RepliesHeld' /\ EventsMatch' /\ HandOfRunner'
  <2>1. PICK x : reply' = [reply EXCEPT ![h] = x] /\ (x # <<>> => h = awaited)
    BY <1>5 DEF FlushCommands
  <2> QED BY <1>5, <1>t, <2>1 DEF FlushCommands
<1>6. ASSUME NEW h \in Handlers, LateHandlerReturns(h) \/ CanceledHandlerReturns(h)
      PROVE  RepliesHeld' /\ EventsMatch' /\ HandOfRunner'
  BY <1>6, <1>t DEF LateHandlerReturns, CanceledHandlerReturns
<1>7. CASE CalcEndTimesOut
  <2>1. \A h \in Handlers : reply'[h] = <<>>
    BY <1>7, <1>t DEF CalcEndTimesOut
  <2> QED BY <1>7, <2>1, <1>t DEF CalcEndTimesOut
<1>8. ASSUME NEW h \in Handlers, CalcEndAnswered(h)
      PROVE  RepliesHeld' /\ EventsMatch' /\ HandOfRunner'
  <2>1. \A g \in Handlers : reply'[g] = <<>>
    BY <1>8, <1>t DEF CalcEndAnswered
  <2> QED BY <1>8, <2>1, <1>t DEF CalcEndAnswered
<1>9. CASE CalcCanceledTimesOut
  BY <1>9, <1>t DEF CalcCanceledTimesOut, goVars
<1>10. CASE QueueDateFormat
  BY <1>10 DEF QueueDateFormat, goVars
<1>11. CASE RunnerBegins
  BY <1>11 DEF RunnerBegins, goVars
<1>12. CASE ExecuteCommand
  BY <1>12 DEF ExecuteCommand, goVars
<1>13. CASE RunnerEnds
  BY <1>13 DEF RunnerEnds, goVars
<1>14. CASE Teardown
  BY <1>14, <1>t DEF Teardown
<1>15. CASE Reload
  BY <1>15 DEF Reload, goVars
<1>16. CASE UNCHANGED vars
  BY <1>16 DEF vars
<1> QED BY <1>2, <1>3, <1>4, <1>5, <1>6, <1>7, <1>8, <1>9, <1>10, <1>11, <1>12, <1>13, <1>14,
           <1>15, <1>16 DEF Next, Handling, EventEnds, Runner

\* The cells one step may give another fate to, action by action: what leaves a segment is
\* in the next one, executed, or marked as lost.
LEMMA LastWinsStep == CycleInv /\ CommandsTyped' /\ [Next]_vars => LastWins'
<1> SUFFICES ASSUME CycleInv, CommandsTyped', [Next]_vars,
                    NEW k \in Kinds, NEW c \in Cells, ~lost'[k][c]
             PROVE  SettlesOn(k, c, last[k][c])'
  BY DEF LastWins
<1> DEFINE Now(v) ==
             Fate(buffered[k][c], cmdQueue, Answer, deferred, hand, sheet[k][c], k, c, v)
           Then(v) ==
             Fate(buffered'[k][c], cmdQueue', Answer', deferred', hand', sheet'[k][c], k, c, v)
<1>t. CommandsTyped /\ RepliesHeld /\ EventsMatch /\ HandOfRunner
  BY DEF CycleInv
<1>now. ~lost[k][c] => Now(last[k][c])
  BY <1>t, FateNow DEF CycleInv, LastWins
<1>then. SUFFICES Then(last'[k][c])
  BY FateNext
<1>b. Blank(None)[k][c] = None
  BY BlankIs
<1>e. ~Touches(<<>>, k, c)
  BY EmptyTouchesNothing
<1>u. ASSUME UNCHANGED <<buffered, cmdQueue, reply, awaited, deferred, hand, sheet, last, lost>>
      PROVE  Then(last'[k][c])
  BY <1>u, <1>now DEF Answer
<1>1. ASSUME NEW kind \in Kinds, NEW range \in SUBSET Cells, NEW v \in Vals,
             BufferCells(kind, range, v)
      PROVE  Then(last'[k][c])
  <2>1. UNCHANGED <<cmdQueue, Answer, deferred, hand, sheet>>
    BY <1>1 DEF BufferCells, Schedules, Answer
  <2>2. CASE kind = k /\ c \in range
    <3>1. buffered'[k][c] = v /\ last'[k][c] = v
      BY <1>1, <1>t, <2>2 DEF BufferCells, Schedules, CommandsTyped, Registers
    <3> QED BY <3>1, CalcCycleAssumption DEF Fate
  <2>3. CASE ~(kind = k /\ c \in range)
    <3>1. buffered'[k][c] = buffered[k][c] /\ last'[k][c] = last[k][c]
          /\ lost'[k][c] = lost[k][c]
      BY <1>1, <1>t, <2>3 DEF BufferCells, Schedules, CommandsTyped, Registers
    <3> QED BY <2>1, <3>1, <1>now
  <2> QED BY <2>2, <2>3
<1>2. ASSUME NEW kind \in Kinds, NEW range \in SUBSET Cells, NEW v \in Vals,
             EnqueueRange(kind, range, v)
      PROVE  Then(last'[k][c])
  <2> DEFINE cmd == [kind |-> kind, cells |-> range, val |-> v]
  <2>1. PICK queue \in FlushedQueues : cmdQueue' = Append(queue, cmd)
    BY <1>2 DEF EnqueueRange
  <2>2. /\ UNCHANGED <<Answer, deferred, hand, sheet>>
        /\ buffered'[k][c] = None
    BY <1>2, <1>b DEF EnqueueRange, Schedules, Answer
  <2>3. cmd \in Commands /\ cmd.val = v
    BY DEF Commands
  <2>4. Hits(cmd, k, c) <=> kind = k /\ c \in range
    BY DEF Hits
  <2> HIDE DEF cmd
  <2>5. /\ queue \in Seq(Commands)
        /\ buffered[k][c] # None =>
             Touches(queue, k, c) /\ EndsWith(queue, k, c, buffered[k][c])
        /\ buffered[k][c] = None =>
             /\ Touches(queue, k, c) <=> Touches(cmdQueue, k, c)
             /\ \A x : EndsWith(queue, k, c, x) <=> EndsWith(cmdQueue, k, c, x)
    BY <1>t, FlushedQueue
  <2>6. /\ <<cmd>> \in Seq(Commands)
        /\ Touches(<<cmd>>, k, c) <=> Hits(cmd, k, c)
        /\ \A x : EndsWith(<<cmd>>, k, c, x) <=> Hits(cmd, k, c) /\ cmd.val = x
    BY <2>3, OneCommand
  <2>7. cmdQueue' = queue \o <<cmd>>
    BY <2>1, <2>3, <2>5
  <2>8. /\ Touches(cmdQueue', k, c) <=> Touches(queue, k, c) \/ Hits(cmd, k, c)
        /\ \A x : EndsWith(cmdQueue', k, c, x) <=>
                    \/ Hits(cmd, k, c) /\ cmd.val = x
                    \/ ~Hits(cmd, k, c) /\ EndsWith(queue, k, c, x)
    BY <2>5, <2>6, <2>7, ConcatTouches
  <2>9. CASE Hits(cmd, k, c)
    <3>1. last'[k][c] = v
      BY <1>2, <1>t, <2>4, <2>9 DEF EnqueueRange, Schedules, CommandsTyped, Registers
    <3> QED BY <2>2, <2>3, <2>8, <2>9, <3>1 DEF Fate
  <2>10. CASE ~Hits(cmd, k, c)
    <3>1. last'[k][c] = last[k][c] /\ lost'[k][c] = lost[k][c]
      BY <1>2, <1>t, <2>4, <2>10 DEF EnqueueRange, Schedules, CommandsTyped, Registers
    <3>2. Now(last[k][c])
      BY <3>1, <1>now
    <3>3. CASE buffered[k][c] # None
      <4>1. buffered[k][c] = last[k][c]
        BY <3>2, <3>3 DEF Fate
      <4> QED BY <4>1, <3>1, <3>3, <2>2, <2>5, <2>8, <2>10 DEF Fate
    <3>4. CASE buffered[k][c] = None
      BY <3>1, <3>2, <3>4, <2>2, <2>5, <2>8, <2>10 DEF Fate
    <3> QED BY <3>3, <3>4
  <2> QED BY <2>9, <2>10
<1>3. ASSUME NEW range \in Ranges, NEW v \in Vals, ScheduleSet(range, v) \/ ScheduleFormat(range, v)
      PROVE  Then(last'[k][c])
  <2>1. range \in SUBSET Cells /\ "set" \in Kinds /\ "format" \in Kinds
    BY DEF Ranges, Kinds
  <2> QED BY <1>1, <1>2, <1>3, <2>1 DEF ScheduleSet, ScheduleFormat
<1>4. ASSUME NEW h \in Handlers, CalcEndBegins(h) \/ CalcCanceledBegins(h) PROVE Then(last'[k][c])
  <2>1. Answer = <<>> /\ Answer' = <<>>
    BY <1>4, <1>t, CalcCycleAssumption
    DEF CalcEndBegins, CalcCanceledBegins, EventsMatch, RepliesHeld, Answer
  <2>2. UNCHANGED <<buffered, cmdQueue, deferred, hand, sheet, last, lost>>
    BY <1>4 DEF CalcEndBegins, CalcCanceledBegins, history
  <2> QED BY <2>1, <2>2, <1>now
<1>5. CASE CalcEndUnanswered
  BY <1>5, <1>u DEF CalcEndUnanswered, goVars, history
<1>6. ASSUME NEW h \in Handlers, FlushCommands(h) PROVE Then(last'[k][c])
  <2>1. PICK taken \in FlushedQueues :
          \/ /\ h = awaited
             /\ reply' = [reply EXCEPT ![h] = taken]
             /\ lost' = lost
          \/ /\ reply' = [reply EXCEPT ![h] = <<>>]
             /\ lost' = LostWith(taken, <<>>, Blank(None))
    BY <1>6 DEF FlushCommands
  <2>2. /\ UNCHANGED <<awaited, deferred, hand, sheet, last>>
        /\ handler[h] = "entered"
        /\ cmdQueue' = <<>>
        /\ buffered'[k][c] = None
    BY <1>6, <1>b DEF FlushCommands
  <2>3. reply[h] = <<>>
    BY <2>2, <1>t DEF RepliesHeld
  <2>4. /\ buffered[k][c] # None =>
             Touches(taken, k, c) /\ EndsWith(taken, k, c, buffered[k][c])
        /\ buffered[k][c] = None =>
             /\ Touches(taken, k, c) <=> Touches(cmdQueue, k, c)
             /\ \A x : EndsWith(taken, k, c, x) <=> EndsWith(cmdQueue, k, c, x)
    BY <1>t, FlushedQueue
  <2>5. CASE h = awaited /\ reply' = [reply EXCEPT ![h] = taken] /\ lost' = lost
    <3>1. Answer = <<>> /\ Answer' = taken
      BY <2>2, <2>3, <2>5, <1>t, CalcCycleAssumption DEF Answer, CommandsTyped
    <3>2. Now(last[k][c])
      BY <2>5, <1>now
    <3>3. CASE buffered[k][c] # None
      <4>1. buffered[k][c] = last[k][c]
        BY <3>2, <3>3 DEF Fate
      <4> QED BY <4>1, <3>1, <3>3, <2>2, <2>4, <1>e DEF Fate
    <3>4. CASE buffered[k][c] = None
      BY <3>1, <3>2, <3>4, <2>2, <2>4, <1>e DEF Fate
    <3> QED BY <3>3, <3>4
  <2>6. CASE reply' = [reply EXCEPT ![h] = <<>>] /\ lost' = LostWith(taken, <<>>, Blank(None))
    <3>1. Answer' = Answer
      BY <2>2, <2>3, <2>6, <1>t DEF Answer, CommandsTyped
    <3>2. ~lost[k][c] /\ ~Touches(taken, k, c)
      BY <2>6, <1>b, <1>e, LostWithIs
    <3>3. buffered[k][c] = None /\ ~Touches(cmdQueue, k, c)
      BY <3>2, <2>4
    <3> QED BY <3>1, <3>2, <3>3, <2>2, <1>now, <1>e DEF Fate
  <2> QED BY <2>1, <2>5, <2>6
<1>7. ASSUME NEW h \in Handlers, LateHandlerReturns(h) PROVE Then(last'[k][c])
  BY <1>7, <1>u DEF LateHandlerReturns, history
<1>8. ASSUME NEW h \in Handlers, CanceledHandlerReturns(h) PROVE Then(last'[k][c])
  <2>1. Answer' = Answer
    BY <1>8, <1>t DEF CanceledHandlerReturns, RepliesHeld, Answer
  <2> QED BY <1>8, <2>1, <1>now DEF CanceledHandlerReturns, history
<1>9. CASE CalcEndTimesOut
  <2>1. UNCHANGED <<buffered, cmdQueue, deferred, hand, sheet, last>> /\ Answer' = <<>>
    BY <1>9 DEF CalcEndTimesOut, DeferCalcEndCommands, Enqueue, Answer
  <2>2. CASE awaited = None
    <3>1. Answer = <<>> /\ lost' = lost
      BY <1>9, <2>2 DEF CalcEndTimesOut, Answer
    <3> QED BY <2>1, <3>1, <1>now
  <2>3. CASE awaited # None
    <3>1. lost' = LostWith(Answer, cmdQueue, buffered)
      BY <1>9, <2>3 DEF CalcEndTimesOut, Answer
    <3>2. ~lost[k][c]
          /\ (Touches(Answer, k, c) => Touches(cmdQueue, k, c) \/ buffered[k][c] # None)
      BY <3>1, LostWithIs
    <3> QED BY <2>1, <3>2, <1>now, <1>e DEF Fate
  <2> QED BY <2>2, <2>3
<1>10. ASSUME NEW h \in Handlers, CalcEndAnswered(h) PROVE Then(last'[k][c])
  <2>1. UNCHANGED <<buffered, cmdQueue, hand, sheet, last, lost>> /\ Answer' = <<>>
    BY <1>10 DEF CalcEndAnswered, history, Answer
  <2>2. Answer = reply[h]
    BY <1>10, CalcCycleAssumption DEF CalcEndAnswered, Answer
  <2>3. Answer \in Seq(Commands) /\ deferred \in Seq(Commands)
    BY <1>t, AnswerTyped DEF CommandsTyped
  <2>4. deferred' = deferred \o Answer
    BY <1>10, <2>2, <2>3 DEF CalcEndAnswered, DeferCalcEndCommands, Enqueue
  <2>5. /\ Touches(deferred', k, c) <=> Touches(deferred, k, c) \/ Touches(Answer, k, c)
        /\ \A x : EndsWith(deferred', k, c, x) <=>
                    \/ EndsWith(Answer, k, c, x)
                    \/ ~Touches(Answer, k, c) /\ EndsWith(deferred, k, c, x)
    BY <2>3, <2>4, ConcatTouches
  <2>6. \A x : EndsWith(Answer, k, c, x) => Touches(Answer, k, c)
    BY EndsTouches
  <2> QED BY <2>1, <2>5, <2>6, <1>now, <1>e DEF Fate
<1>11. CASE CalcCanceledTimesOut
  <2>1. Answer' = Answer
    BY <1>11, <1>t DEF CalcCanceledTimesOut, RepliesHeld, Answer, goVars, CommandsTyped
  <2> QED BY <1>11, <2>1, <1>now DEF CalcCanceledTimesOut, goVars, history
<1>12. CASE QueueDateFormat
  BY <1>12, <1>u DEF QueueDateFormat, goVars, history
<1>13. CASE RunnerBegins
  <2>1. /\ UNCHANGED <<buffered, cmdQueue, Answer, sheet, last>>
        /\ hand = <<>> /\ deferred' = <<>>
    BY <1>13, <1>t DEF RunnerBegins, goVars, HandOfRunner, Answer
  <2>2. CASE torn
    <3>1. hand' = hand /\ lost' = LostWith(deferred, <<>>, Blank(None))
      BY <1>13, <2>2 DEF RunnerBegins
    <3>2. ~lost[k][c] /\ ~Touches(deferred, k, c)
      BY <3>1, <1>b, <1>e, LostWithIs
    <3> QED BY <2>1, <3>1, <3>2, <1>now, <1>e DEF Fate
  <2>3. CASE ~torn
    <3>1. hand' = deferred /\ lost' = lost
      BY <1>13, <2>3 DEF RunnerBegins
    <3> QED BY <2>1, <3>1, <1>now, <1>e DEF Fate
  <2> QED BY <2>2, <2>3
<1>14. CASE ExecuteCommand
  <2> DEFINE cmd == Head(hand)
             rest == Tail(hand)
  <2>1. hand \in Seq(Commands) /\ hand # <<>>
    BY <1>14, <1>t DEF ExecuteCommand, CommandsTyped
  <2>2. cmd \in Commands /\ rest \in Seq(Commands) /\ hand = <<cmd>> \o rest
    BY <2>1
  <2>3. /\ hand' = rest
        /\ UNCHANGED <<buffered, cmdQueue, Answer, deferred, last>>
        /\ \/ sheet' = Execute(sheet, cmd) /\ lost' = lost
           \/ sheet' = sheet /\ lost' = LostWith(<<cmd>>, rest \o Behind, buffered)
    BY <1>14 DEF ExecuteCommand, goVars, Answer
  <2> HIDE DEF cmd, rest
  <2>4. /\ <<cmd>> \in Seq(Commands)
        /\ Touches(<<cmd>>, k, c) <=> Hits(cmd, k, c)
        /\ \A x : EndsWith(<<cmd>>, k, c, x) <=> Hits(cmd, k, c) /\ cmd.val = x
    BY <2>2, OneCommand
  <2>5. /\ Touches(hand, k, c) <=> Hits(cmd, k, c) \/ Touches(rest, k, c)
        /\ \A x : EndsWith(hand, k, c, x) <=>
                    \/ EndsWith(rest, k, c, x)
                    \/ ~Touches(rest, k, c) /\ Hits(cmd, k, c) /\ cmd.val = x
    BY <2>2, <2>4, ConcatTouches
  <2>6. \A x : EndsWith(rest, k, c, x) => Touches(rest, k, c)
    BY EndsTouches
  <2>7. CASE sheet' = Execute(sheet, cmd) /\ lost' = lost
    <3>1. sheet'[k][c] = IF Hits(cmd, k, c) THEN cmd.val ELSE sheet[k][c]
      BY <2>2, <2>7, <1>t DEF Execute, Hits, CommandsTyped, Registers, Commands
    <3>2. Now(last[k][c])
      BY <2>7, <1>now
    <3> QED BY <2>3, <2>5, <2>6, <3>1, <3>2 DEF Fate
  <2>8. CASE sheet' = sheet /\ lost' = LostWith(<<cmd>>, rest \o Behind, buffered)
    <3>1. /\ ~lost[k][c]
          /\ Hits(cmd, k, c) => Touches(rest \o Behind, k, c) \/ buffered[k][c] # None
      BY <2>4, <2>8, LostWithIs
    <3>2. Touches(rest \o Behind, k, c) <=>
            Touches(rest, k, c) \/ Touches(deferred, k, c) \/ Touches(Answer, k, c)
              \/ Touches(cmdQueue, k, c)
      <4>1. deferred \in Seq(Commands) /\ Answer \in Seq(Commands) /\ cmdQueue \in Seq(Commands)
        BY <1>t, AnswerTyped DEF CommandsTyped
      <4>2. /\ deferred \o Answer \in Seq(Commands)
            /\ Touches(deferred \o Answer, k, c) <=>
                 Touches(deferred, k, c) \/ Touches(Answer, k, c)
        BY <4>1, ConcatTouches
      <4>3. /\ Behind \in Seq(Commands)
            /\ Touches(Behind, k, c) <=>
                 Touches(deferred \o Answer, k, c) \/ Touches(cmdQueue, k, c)
        BY <4>1, <4>2, ConcatTouches DEF Behind
      <4> QED BY <2>2, <4>2, <4>3, ConcatTouches
    <3> QED BY <2>3, <2>5, <2>6, <2>8, <3>1, <3>2, <1>now DEF Fate
  <2> QED BY <2>3, <2>7, <2>8
<1>15. CASE RunnerEnds
  BY <1>15, <1>u DEF RunnerEnds, goVars, history
<1>16. CASE Teardown
  <2>1. PICK queue \in FlushedQueues : lost' = LostWith(queue, <<>>, Blank(None))
    BY <1>16 DEF Teardown
  <2>2. /\ UNCHANGED <<deferred, hand, sheet, last>>
        /\ Answer = <<>> /\ Answer' = <<>>
        /\ cmdQueue' = <<>> /\ buffered'[k][c] = None
    BY <1>16, <1>t, <1>b DEF Teardown, EventsMatch, Answer
  <2>3. ~lost[k][c] /\ ~Touches(queue, k, c)
    BY <2>1, <1>b, <1>e, LostWithIs
  <2>4. /\ buffered[k][c] # None => Touches(queue, k, c)
        /\ buffered[k][c] = None => (Touches(queue, k, c) <=> Touches(cmdQueue, k, c))
    BY <1>t, FlushedQueue
  <2> QED BY <2>2, <2>3, <2>4, <1>now, <1>e DEF Fate
<1>17. CASE Reload
  BY <1>17, <1>u DEF Reload, goVars, history
<1>18. CASE UNCHANGED vars
  BY <1>18, <1>u DEF vars
<1> QED BY <1>3, <1>4, <1>5, <1>6, <1>7, <1>8, <1>9, <1>10, <1>11, <1>12, <1>13, <1>14, <1>15,
           <1>16, <1>17, <1>18 DEF Next, Handling, EventEnds, Runner

\* A value that was scheduled for a cell and not dropped on an error path is what the cell
\* ends up with, for any number of cells, values, handlers and commands in a reply
\* (flushBuffersLocked, FlushCommands, DeferCalcEndCommands, RunDeferredCalcEndCommands).
THEOREM LastValueWins == Spec => []LastWins
<1>1. CycleInv /\ [Next]_vars => CycleInv'
  BY TypedStep, EventStep, LastWinsStep DEF CycleInv
<1>2. CycleInv => LastWins
  BY DEF CycleInv
<1> QED BY <1>1, <1>2, CycleInvInit, PTL DEF Spec

-----------------------------------------------------------------------------
(***************************************************************************)
(* A teardown silences the runner.                                         *)
(***************************************************************************)

\* No runner is executing once a teardown has started: Excel fires the event at an idle
\* point, and a runner that is dispatched later only discards.
StoppedOnceTorn == torn => ~running

\* One step, action by action; a step that writes to the sheet is one of a running runner.
LEMMA StoppedStep ==
  StoppedOnceTorn /\ [Next]_vars => StoppedOnceTorn' /\ (torn => sheet' = sheet)
<1> SUFFICES ASSUME StoppedOnceTorn, [Next]_vars
             PROVE  StoppedOnceTorn' /\ (torn => sheet' = sheet)
  OBVIOUS
<1> USE DEF StoppedOnceTorn
<1>1. ASSUME NEW range, NEW v, ScheduleSet(range, v) \/ ScheduleFormat(range, v)
      PROVE  UNCHANGED <<torn, running, sheet>>
  BY <1>1 DEF ScheduleSet, ScheduleFormat, BufferCells, EnqueueRange, Schedules
<1>2. ASSUME NEW h \in Handlers, CalcEndBegins(h) \/ CalcCanceledBegins(h)
      PROVE  UNCHANGED <<torn, running, sheet>>
  BY <1>2 DEF CalcEndBegins, CalcCanceledBegins
<1>3. CASE CalcEndUnanswered \/ QueueDateFormat
  BY <1>3 DEF CalcEndUnanswered, QueueDateFormat
<1>4. CASE Handling
  BY <1>4 DEF Handling, FlushCommands, LateHandlerReturns, CanceledHandlerReturns
<1>5. CASE EventEnds
  BY <1>5 DEF EventEnds, CalcEndTimesOut, CalcCanceledTimesOut, CalcEndAnswered
<1>6. CASE Runner
  <2>1. CASE RunnerBegins
    <3>1. running' = ~torn /\ torn' = torn /\ sheet' = sheet
      BY <2>1 DEF RunnerBegins
    <3> QED BY <3>1
  <2>2. CASE ExecuteCommand
    BY <2>2 DEF ExecuteCommand
  <2>3. CASE RunnerEnds
    BY <2>3 DEF RunnerEnds
  <2> QED BY <1>6, <2>1, <2>2, <2>3 DEF Runner
<1>7. CASE Teardown \/ Reload
  BY <1>7 DEF Teardown, Reload
<1>8. CASE UNCHANGED vars
  BY <1>8 DEF vars
<1> QED BY <1>1, <1>2, <1>3, <1>4, <1>5, <1>6, <1>7, <1>8 DEF Next

\* No cell is written once a teardown has started, although the runner is left on Excel's
\* OnTime list and will be dispatched (RunDeferredCalcEndCommands, CancelDeferredRunner).
THEOREM TornWritesNothing == Spec => NoWriteOnceTorn
<1>1. Init => StoppedOnceTorn
  BY DEF Init, StoppedOnceTorn
<1> QED BY <1>1, StoppedStep, PTL DEF Spec, NoWriteOnceTorn

(***************************************************************************)
(* RtdOnce: a cell waits for the registry, and the registry for a run.     *)
(*                                                                         *)
(* Between a connect and the cell's recalculation a topic is in the hands  *)
(* of the transport, a run, a push, the worker thread and Excel in turn,   *)
(* and each step hands it on (TrackedStep).  A new placeholder is shown    *)
(* only on a miss, when the registry is empty; the topic may be an old one,*)
(* so the invariant must also say that an empty registry has a value       *)
(* coming for every connected topic (ValueComing), which is why            *)
(* ClearNonMemoized spares the entry of a live topic.                      *)
(***************************************************************************)

\* A handler run on the server, and the update of one in the worker's hands.
RunRecord == [topic : Topics \union {None}, at : {"idle", "handler", "grid", "push", "keyed", "unknown"},
              what : {"result", "error"}]

OnceTyped ==
  /\ entry \in {"none", "result", "error"}
  /\ topics \subseteq Topics
  /\ ref \in [FormulaCells -> Topics \union {None}]
  /\ shown \in [FormulaCells -> {"blank", "loading", "result", "error"}]
  /\ connects \in [Topics -> Nat]
  /\ run \in [Runs -> RunRecord]
  /\ worker \in RunRecord

\* A run or an update that will leave a value in the registry.
Stores(u) == u.what = "error" \/ ~grid
Delivers(t) ==
  \/ connects[t] > 0 \/ t \in dropped
  \/ \E r \in Runs : /\ run[r].topic = t
                     /\ run[r].at \in {"handler", "grid"} \/ (run[r].at = "push" /\ Stores(run[r]))
  \/ worker.topic = t /\ worker.at = "keyed" /\ Stores(worker)

\* Without a value in the registry, one is on its way for every connected topic.
ValueComing == \A t \in topics : entry = "none" => Delivers(t)

OnceInv == OnceTyped /\ ValueComing /\ NoCellStuck

LEMMA OnceStart == OnceInit => OnceInv
<1> SUFFICES ASSUME OnceInit PROVE OnceInv
  OBVIOUS
<1>1. OnceTyped
  BY DEF OnceInit, OnceTyped, Idle, RunRecord
<1>2. ValueComing /\ NoCellStuck
  BY DEF OnceInit, ValueComing, NoCellStuck
<1> QED
  BY <1>1, <1>2 DEF OnceInv

LEMMA IdleTyped == Idle \in RunRecord /\ Idle.topic = None
BY DEF Idle, RunRecord

LEMMA OnceTypes == OnceInv /\ [OnceNext]_onceVars => OnceTyped'
<1> SUFFICES ASSUME OnceInv, [OnceNext]_onceVars PROVE OnceTyped'
  OBVIOUS
<1>0. OnceTyped
  BY DEF OnceInv
<1> USE DEF OnceTyped, registry, excel, config
<1>1. ASSUME NEW c \in FormulaCells, ReadHit(c), UNCHANGED <<run, worker>> PROVE OnceTyped'
  BY <1>0, <1>1 DEF ReadHit, Hit
<1>2. ASSUME NEW c \in FormulaCells, ReadMiss(c), UNCHANGED <<run, worker>> PROVE OnceTyped'
  <2>1. PICK t \in IF ref[c] # None THEN {ref[c]} ELSE Topics :
          /\ ref' = [ref EXCEPT ![c] = t]
          /\ IF t \in topics THEN UNCHANGED <<topics, connects, dropped>>
             ELSE connects[t] = 0 /\ \E n \in 0 .. 2 : ConnectData(t, n)
    BY <1>2 DEF ReadMiss
  <2>2. t \in Topics
    BY <1>0, <2>1
  <2>3. topics' \subseteq Topics /\ connects' \in [Topics -> Nat]
    BY <1>0, <2>1, <2>2 DEF ConnectData
  <2> QED
    BY <1>0, <1>2, <2>1, <2>2, <2>3 DEF ReadMiss
<1>3. ASSUME NEW c \in FormulaCells, EnterFormula(c) \/ DeleteFormula(c) PROVE OnceTyped'
  BY <1>0, <1>3 DEF EnterFormula, DeleteFormula
<1>4. ASSUME NEW t \in Topics, DisconnectData(t) \/ Refresh(t) PROVE OnceTyped'
  BY <1>0, <1>4 DEF DisconnectData, Refresh
<1>5. ASSUME NEW t \in Topics, NEW r \in Runs, HandleRtdConnect(t, r) PROVE OnceTyped'
  BY <1>0, <1>5 DEF HandleRtdConnect, RunRecord
<1>6. ASSUME NEW r \in Runs, Handler(r) PROVE OnceTyped'
  <2>1. run' \in [Runs -> RunRecord]
    <3>1. CASE run' = [run EXCEPT ![r].at = IF grid THEN "grid" ELSE "push"]
      BY <1>0, <3>1 DEF RunRecord
    <3>2. CASE run' = [run EXCEPT ![r] = [@ EXCEPT !.at = "push", !.what = "error"]]
      BY <1>0, <3>2 DEF RunRecord
    <3>3. CASE run' = [run EXCEPT ![r] = Idle]
      BY <1>0, <3>3, IdleTyped
    <3> QED
      BY <1>6, <3>1, <3>2, <3>3 DEF Handler
  <2> QED
    BY <1>0, <1>6, <2>1 DEF Handler
<1>7. ASSUME NEW r \in Runs, SendOnceGrid(r) PROVE OnceTyped'
  <2>1. run' \in [Runs -> RunRecord]
    <3>1. CASE run' = [run EXCEPT ![r].at = "push"]
      BY <1>0, <3>1 DEF RunRecord
    <3>2. CASE run' = [run EXCEPT ![r] = [@ EXCEPT !.at = "push", !.what = "error"]]
      BY <1>0, <3>2 DEF RunRecord
    <3> QED
      BY <1>7, <3>1, <3>2 DEF SendOnceGrid
  <2> QED
    BY <1>0, <1>7, <2>1 DEF SendOnceGrid, Store
<1>8. ASSUME NEW r \in Runs, Push(r) PROVE OnceTyped'
  <2>1. run' \in [Runs -> RunRecord]
    BY <1>0, <1>8, IdleTyped DEF Push
  <2>2. worker' \in RunRecord
    BY <1>0, <1>8 DEF Push, RunRecord
  <2> QED
    BY <1>0, <1>8, <2>1, <2>2 DEF Push
<1>9. CASE ProcessRtdUpdate
  <2>1. worker.what \in {"result", "error"}
    BY <1>0 DEF RunRecord
  <2> QED
    BY <1>0, <1>9, <2>1, IdleTyped DEF ProcessRtdUpdate, Store
<1>10. CASE ClearNonMemoized \/ Expire \/ UNCHANGED onceVars
  BY <1>0, <1>10 DEF ClearNonMemoized, Expire, onceVars
<1> QED
  BY <1>1, <1>2, <1>3, <1>4, <1>5, <1>6, <1>7, <1>8, <1>9, <1>10 DEF OnceNext, Wrapper

\* What a change of the runs and of the worker leaves on its way.
LEMMA StillDelivers ==
  ASSUME NEW t \in Topics, Delivers(t), UNCHANGED <<connects, run, worker, grid>>,
         dropped \subseteq dropped'
  PROVE  Delivers(t)'
BY DEF Delivers, Stores

LEMMA ValueComingStep == OnceInv /\ [OnceNext]_onceVars => ValueComing'
<1> SUFFICES ASSUME OnceInv, [OnceNext]_onceVars, NEW t \in topics', entry' = "none"
             PROVE Delivers(t)'
  BY DEF ValueComing
<1>0. OnceTyped /\ (t \in topics /\ entry = "none" => Delivers(t)) /\ t \in Topics
  <2>1. t \in Topics
    BY OnceTypes DEF OnceTyped
  <2> QED
    BY <2>1 DEF OnceInv, ValueComing
<1> USE DEF registry, excel, config
<1>1. ASSUME NEW c \in FormulaCells, ReadHit(c), UNCHANGED <<config, run, worker>>
      PROVE  Delivers(t)'
  BY <1>0, <1>1, StillDelivers DEF ReadHit
<1>2. ASSUME NEW c \in FormulaCells, ReadMiss(c), UNCHANGED <<config, run, worker>>
      PROVE  Delivers(t)'
  <2>1. PICK u \in IF ref[c] # None THEN {ref[c]} ELSE Topics :
          IF u \in topics THEN UNCHANGED <<topics, connects, dropped>>
          ELSE connects[u] = 0 /\ \E n \in 0 .. 2 : ConnectData(u, n)
    BY <1>2 DEF ReadMiss
  <2>2. topics # {} => entry = "none"
    BY <1>2 DEF ReadMiss, Hit, Live
  <2>3. CASE u \in topics
    BY <1>0, <1>2, <2>1, <2>2, <2>3, StillDelivers
  <2>4. CASE u \notin topics
    <3>1. PICK n \in 0 .. 2 : ConnectData(u, n)
      BY <2>1, <2>4
    <3>2. u \in Topics
      BY <1>0, <2>1 DEF OnceTyped
    <3>3. CASE t = u
      <4>1. n = 0 => t \in dropped'
        BY <3>1, <3>3 DEF ConnectData
      <4>2. connects'[t] = connects[t] + n /\ connects[t] \in Nat
        BY <1>0, <3>1, <3>2, <3>3 DEF ConnectData, OnceTyped
      <4> QED
        BY <4>1, <4>2 DEF Delivers
    <3>4. CASE t # u
      <4>1. t \in topics /\ connects'[t] = connects[t] /\ (t \in dropped => t \in dropped')
        BY <1>0, <3>1, <3>2, <3>4 DEF ConnectData, OnceTyped
      <4>2. Delivers(t)
        BY <1>0, <2>2, <4>1
      <4> QED
        BY <1>2, <4>1, <4>2 DEF Delivers, Stores
    <3> QED
      BY <3>3, <3>4
  <2> QED
    BY <2>3, <2>4
<1>3. ASSUME NEW c \in FormulaCells, EnterFormula(c) \/ DeleteFormula(c) PROVE Delivers(t)'
  BY <1>0, <1>3, StillDelivers DEF EnterFormula, DeleteFormula
<1>4. ASSUME NEW u \in Topics, DisconnectData(u) \/ Refresh(u) PROVE Delivers(t)'
  BY <1>0, <1>4, StillDelivers DEF DisconnectData, Refresh
<1>5. ASSUME NEW u \in Topics, NEW r \in Runs, HandleRtdConnect(u, r) PROVE Delivers(t)'
  <2>1. Delivers(t)
    BY <1>0, <1>5 DEF HandleRtdConnect
  <2>2. run'[r].topic = u /\ run'[r].at = "handler"
    BY <1>0, <1>5 DEF HandleRtdConnect, OnceTyped
  <2>3. \A s \in Runs \ {r} : run'[s] = run[s]
    BY <1>0, <1>5 DEF HandleRtdConnect, OnceTyped
  <2>4. run[r].topic # t
    BY <1>5, <1>0, IdleTyped, TopicsAssumption DEF HandleRtdConnect
  <2>5. t # u => connects'[t] = connects[t]
    BY <1>0, <1>5 DEF HandleRtdConnect, OnceTyped
  <2>6. UNCHANGED <<worker, grid, dropped>>
    BY <1>5 DEF HandleRtdConnect
  <2> QED
    BY <2>1, <2>2, <2>3, <2>4, <2>5, <2>6 DEF Delivers, Stores
<1>6. ASSUME NEW r \in Runs, Handler(r) PROVE Delivers(t)'
  <2>1. Delivers(t) /\ UNCHANGED <<connects, worker, grid>>
    BY <1>0, <1>6 DEF Handler
  <2>2. \A s \in Runs \ {r} : run'[s] = run[s]
    BY <1>0, <1>6 DEF Handler, OnceTyped
  <2>3. dropped \subseteq dropped'
    BY <1>6 DEF Handler
  <2>4. ASSUME run[r].topic = t PROVE Delivers(t)'
    <3>1. CASE run' = [run EXCEPT ![r].at = IF grid THEN "grid" ELSE "push"]
      <4>1. run'[r].topic = t /\ run'[r].at = (IF grid THEN "grid" ELSE "push")
        BY <1>0, <2>4, <3>1 DEF OnceTyped, RunRecord
      <4> QED
        BY <2>1, <4>1 DEF Delivers, Stores
    <3>2. CASE run' = [run EXCEPT ![r] = [@ EXCEPT !.at = "push", !.what = "error"]]
      <4>1. run'[r].topic = t /\ run'[r].at = "push" /\ run'[r].what = "error"
        BY <1>0, <2>4, <3>2 DEF OnceTyped, RunRecord
      <4> QED
        BY <4>1 DEF Delivers, Stores
    <3>3. CASE dropped' = dropped \union {run[r].topic}
      BY <2>4, <3>3 DEF Delivers
    <3> QED
      BY <1>6, <3>1, <3>2, <3>3 DEF Handler
  <2>5. CASE run[r].topic # t
    BY <2>1, <2>2, <2>3, <2>5 DEF Delivers, Stores
  <2> QED
    BY <2>4, <2>5
<1>7. ASSUME NEW r \in Runs, SendOnceGrid(r) PROVE Delivers(t)'
  <2>1. run' = [run EXCEPT ![r] = [@ EXCEPT !.at = "push", !.what = "error"]] /\ UNCHANGED registry
    BY <1>7 DEF SendOnceGrid, Store
  <2>2. Delivers(t) /\ UNCHANGED <<connects, worker, grid, dropped>>
    BY <1>0, <1>7, <2>1 DEF SendOnceGrid
  <2>3. /\ run'[r].topic = run[r].topic /\ run'[r].at = "push" /\ run'[r].what = "error"
        /\ \A s \in Runs \ {r} : run'[s] = run[s]
    BY <1>0, <2>1 DEF OnceTyped, RunRecord
  <2> QED
    BY <2>2, <2>3 DEF Delivers, Stores
<1>8. ASSUME NEW r \in Runs, Push(r) PROVE Delivers(t)'
  <2>1. Delivers(t) /\ UNCHANGED <<connects, grid>> /\ dropped \subseteq dropped' /\ t \in topics
    BY <1>0, <1>8 DEF Push
  <2>2. \A s \in Runs \ {r} : run'[s] = run[s]
    BY <1>0, <1>8 DEF Push, OnceTyped
  <2>3. worker.topic # t
    BY <1>0, <1>8, IdleTyped, TopicsAssumption DEF Push
  <2>4. CASE run[r].topic = t /\ Stores(run[r])
    <3>1. CASE dropped' = dropped \union {run[r].topic}
      BY <2>4, <3>1 DEF Delivers
    <3>2. CASE worker' = [run[r] EXCEPT !.at = IF run[r].topic \in topics THEN "keyed" ELSE "unknown"]
      <4>1. worker'.topic = t /\ worker'.at = "keyed" /\ worker'.what = run[r].what
        BY <1>0, <2>1, <2>4, <3>2 DEF OnceTyped, RunRecord
      <4> QED
        BY <2>1, <2>4, <4>1 DEF Delivers, Stores
    <3> QED
      BY <1>8, <3>1, <3>2 DEF Push
  <2>5. CASE ~(run[r].topic = t /\ Stores(run[r]))
    <3>1. run[r].at = "push"
      BY <1>8 DEF Push
    <3> QED
      BY <2>1, <2>2, <2>3, <2>5, <3>1 DEF Delivers, Stores
  <2> QED
    BY <2>4, <2>5
<1>9. CASE ProcessRtdUpdate
  <2>1. ~(worker.at = "keyed" /\ Stores(worker)) /\ UNCHANGED registry
    BY <1>0, <1>9 DEF ProcessRtdUpdate, Store, Stores, OnceTyped, RunRecord
  <2>2. Delivers(t) /\ UNCHANGED <<connects, run, grid, dropped>>
    BY <1>0, <1>9, <2>1 DEF ProcessRtdUpdate
  <2> QED
    BY <2>1, <2>2 DEF Delivers, Stores
<1>10. CASE ClearNonMemoized \/ Expire \/ UNCHANGED onceVars
  <2>1. topics' = topics /\ entry = "none" /\ UNCHANGED <<connects, run, worker, grid, dropped>>
    BY <1>10, <1>0 DEF ClearNonMemoized, Expire, onceVars, Live
  <2> QED
    BY <1>0, <2>1, StillDelivers
<1> QED
  BY <1>1, <1>2, <1>3, <1>4, <1>5, <1>6, <1>7, <1>8, <1>9, <1>10 DEF OnceNext, Wrapper

\* What NoCellStuck asks of the topic of a cell that is not about to be recalculated.
Tracked(t) == UnderWay(t) \/ t \in dropped

LEMMA DeliversTracked == ASSUME NEW t \in Topics, Delivers(t) PROVE Tracked(t)
BY DEF Delivers, Tracked, UnderWay

\* A step that moves a connect on to its run, its push, its update and its refresh
\* loses it only when the transport does, or by asking the cells to recalculate.
LEMMA TrackedStep ==
  ASSUME OnceInv, [OnceNext]_onceVars, NEW t \in topics, t \in topics', Tracked(t)
  PROVE  Tracked(t)' \/ {c \in FormulaCells : ref[c] = t} \subseteq recalc'
<1>0. OnceTyped /\ t \in Topics /\ t # None
  BY TopicsAssumption DEF OnceInv, OnceTyped
<1>a. ASSUME UNCHANGED <<connects, run, worker>>, updated \subseteq updated' \union {None},
             dropped \subseteq dropped'
      PROVE  Tracked(t)'
  BY <1>0, <1>a DEF Tracked, UnderWay
<1> USE DEF registry, excel, config
<1>1. ASSUME NEW c \in FormulaCells, Wrapper(c) PROVE Tracked(t)'
  <2>1. /\ UNCHANGED <<run, worker, updated>>
        /\ t \in dropped => t \in dropped' \/ connects'[t] > 0
        /\ connects'[t] > 0 \/ connects'[t] = connects[t]
    <3>1. CASE ReadHit(c)
      BY <1>1, <3>1 DEF Wrapper, ReadHit
    <3>2. CASE ReadMiss(c)
      <4>1. UNCHANGED <<run, worker, updated>>
        BY <1>1 DEF Wrapper
      <4>2. PICK u \in IF ref[c] # None THEN {ref[c]} ELSE Topics :
              IF u \in topics THEN UNCHANGED <<topics, connects, dropped>>
              ELSE connects[u] = 0 /\ \E n \in 0 .. 2 : ConnectData(u, n)
        BY <3>2 DEF ReadMiss
      <4>3. CASE u \in topics
        BY <4>1, <4>2, <4>3
      <4>4. CASE u \notin topics
        BY <1>0, <4>1, <4>2, <4>4 DEF ConnectData, OnceTyped
      <4> QED
        BY <4>3, <4>4
    <3> QED
      BY <1>1, <3>1, <3>2 DEF Wrapper
  <2> QED
    BY <2>1 DEF Tracked, UnderWay
<1>2. ASSUME NEW c \in FormulaCells, EnterFormula(c) \/ DeleteFormula(c) PROVE Tracked(t)'
  BY <1>2, <1>a DEF EnterFormula, DeleteFormula
<1>3. ASSUME NEW u \in Topics, DisconnectData(u) PROVE Tracked(t)'
  BY <1>3 DEF DisconnectData, Tracked, UnderWay
<1>4. ASSUME NEW u \in Topics, Refresh(u)
      PROVE  Tracked(t)' \/ {c \in FormulaCells : ref[c] = t} \subseteq recalc'
  BY <1>4 DEF Refresh, Tracked, UnderWay
<1>5. ASSUME NEW u \in Topics, NEW r \in Runs, HandleRtdConnect(u, r) PROVE Tracked(t)'
  <2>1. run'[r].topic = u /\ \A s \in Runs \ {r} : run'[s] = run[s]
    BY <1>0, <1>5 DEF HandleRtdConnect, OnceTyped
  <2>2. run[r].topic # t
    BY <1>0, <1>5, IdleTyped DEF HandleRtdConnect
  <2>3. t # u => connects'[t] = connects[t]
    BY <1>0, <1>5 DEF HandleRtdConnect, OnceTyped
  <2> QED
    BY <1>5, <2>1, <2>2, <2>3 DEF HandleRtdConnect, Tracked, UnderWay
<1>6. ASSUME NEW r \in Runs, Handler(r) PROVE Tracked(t)'
  <2>1. UNCHANGED <<connects, worker, updated>> /\ dropped \subseteq dropped'
    BY <1>6 DEF Handler
  <2>2. \A s \in Runs \ {r} : run'[s] = run[s]
    BY <1>0, <1>6 DEF Handler, OnceTyped
  <2>3. run'[r].topic = run[r].topic \/ run[r].topic \in dropped'
    <3>1. CASE run' = [run EXCEPT ![r].at = IF grid THEN "grid" ELSE "push"]
      BY <1>0, <3>1 DEF OnceTyped, RunRecord
    <3>2. CASE run' = [run EXCEPT ![r] = [@ EXCEPT !.at = "push", !.what = "error"]]
      BY <1>0, <3>2 DEF OnceTyped, RunRecord
    <3>3. CASE dropped' = dropped \union {run[r].topic}
      BY <3>3
    <3> QED
      BY <1>6, <3>1, <3>2, <3>3 DEF Handler
  <2> QED
    BY <2>1, <2>2, <2>3 DEF Tracked, UnderWay
<1>7. ASSUME NEW r \in Runs, SendOnceGrid(r) PROVE Tracked(t)'
  <2>1. UNCHANGED <<connects, worker, updated, dropped>>
    BY <1>7 DEF SendOnceGrid
  <2>2. \A s \in Runs : run'[s].topic = run[s].topic
    <3>1. CASE run' = [run EXCEPT ![r].at = "push"]
      BY <1>0, <3>1 DEF OnceTyped, RunRecord
    <3>2. CASE run' = [run EXCEPT ![r] = [@ EXCEPT !.at = "push", !.what = "error"]]
      BY <1>0, <3>2 DEF OnceTyped, RunRecord
    <3> QED
      BY <1>7, <3>1, <3>2 DEF SendOnceGrid
  <2> QED
    BY <2>1, <2>2 DEF Tracked, UnderWay
<1>8. ASSUME NEW r \in Runs, Push(r) PROVE Tracked(t)'
  <2>1. UNCHANGED <<connects, updated>> /\ dropped \subseteq dropped'
    BY <1>8 DEF Push
  <2>2. \A s \in Runs \ {r} : run'[s] = run[s]
    BY <1>0, <1>8 DEF Push, OnceTyped
  <2>3. worker.topic # t
    BY <1>0, <1>8, IdleTyped DEF Push
  <2>4. worker'.topic = run[r].topic \/ run[r].topic \in dropped'
    BY <1>0, <1>8 DEF Push, OnceTyped, RunRecord
  <2> QED
    BY <2>1, <2>2, <2>3, <2>4 DEF Tracked, UnderWay
<1>9. CASE ProcessRtdUpdate
  BY <1>0, <1>9 DEF ProcessRtdUpdate, Tracked, UnderWay
<1>10. CASE ClearNonMemoized \/ Expire \/ UNCHANGED onceVars
  BY <1>10, <1>a DEF ClearNonMemoized, Expire, onceVars
<1> QED
  BY <1>1, <1>2, <1>3, <1>4, <1>5, <1>6, <1>7, <1>8, <1>9, <1>10 DEF OnceNext

\* The cells a step does not evaluate keep what they show and refer to, stay marked for
\* recalculation, and keep their topic.
LEMMA OtherCells ==
  ASSUME OnceInv, [OnceNext]_onceVars, NEW c \in FormulaCells, ~Wrapper(c),
         shown'[c] = "loading"
  PROVE  /\ shown[c] = "loading" /\ ref'[c] = ref[c]
         /\ c \in recalc => c \in recalc'
         /\ ref[c] \in topics => ref[c] \in topics'
<1>0. OnceTyped
  BY DEF OnceInv
<1> USE DEF registry, excel, config
<1>1. ASSUME NEW d \in FormulaCells, Wrapper(d)
      PROVE  /\ shown'[c] = shown[c] /\ ref'[c] = ref[c]
             /\ c \in recalc => c \in recalc'
             /\ topics \subseteq topics'
  <2>1. c # d
    BY <1>1
  <2>2. CASE ReadHit(d)
    BY <1>0, <1>1, <2>1, <2>2 DEF Wrapper, ReadHit, OnceTyped
  <2>3. CASE ReadMiss(d)
    BY <1>0, <1>1, <2>1, <2>3 DEF Wrapper, ReadMiss, ConnectData, OnceTyped
  <2> QED
    BY <1>1, <2>2, <2>3 DEF Wrapper
<1>2. ASSUME NEW d \in FormulaCells, EnterFormula(d)
      PROVE  /\ shown'[c] = shown[c] /\ ref'[c] = ref[c]
             /\ c \in recalc => c \in recalc'
             /\ topics \subseteq topics'
  BY <1>2 DEF EnterFormula
<1>3. ASSUME NEW d \in FormulaCells, DeleteFormula(d)
      PROVE  /\ shown'[c] = shown[c] /\ ref'[c] = ref[c]
             /\ c \in recalc => c \in recalc'
             /\ topics \subseteq topics'
  <2>1. c # d
    BY <1>0, <1>3 DEF DeleteFormula, OnceTyped
  <2> QED
    BY <1>0, <1>3, <2>1 DEF DeleteFormula, OnceTyped
<1>4. ASSUME NEW t \in Topics, DisconnectData(t)
      PROVE  /\ shown'[c] = shown[c] /\ ref'[c] = ref[c]
             /\ c \in recalc => c \in recalc'
             /\ ref[c] \in topics => ref[c] \in topics'
  BY <1>4 DEF DisconnectData
<1>5. CASE \/ \E t \in Topics : Refresh(t)
           \/ \E t \in Topics, r \in Runs : HandleRtdConnect(t, r)
           \/ \E r \in Runs : Handler(r) \/ SendOnceGrid(r) \/ Push(r)
           \/ ProcessRtdUpdate \/ ClearNonMemoized \/ Expire \/ UNCHANGED onceVars
  BY <1>5 DEF Refresh, HandleRtdConnect, Handler, SendOnceGrid, Push, ProcessRtdUpdate,
              ClearNonMemoized, Expire, onceVars
<1> QED
  BY <1>1, <1>2, <1>3, <1>4, <1>5 DEF OnceNext

LEMMA NoCellStuckStep == OnceInv /\ [OnceNext]_onceVars => NoCellStuck'
<1> SUFFICES ASSUME OnceInv, [OnceNext]_onceVars, NEW c \in FormulaCells, shown'[c] = "loading",
                    NEW t, t = ref'[c]
             PROVE  t \in topics' /\ (c \in recalc' \/ Tracked(t)')
  BY DEF NoCellStuck, Tracked, UnderWay
<1>0. OnceTyped /\ OnceTyped' /\ NoCellStuck /\ ValueComing'
  BY OnceTypes, ValueComingStep DEF OnceInv
<1>1. CASE Wrapper(c)
  <2>1. ReadMiss(c)
    BY <1>0, <1>1 DEF Wrapper, ReadHit, Hit, OnceTyped
  <2>2. t \in topics' /\ entry' = "none"
    BY <1>0, <2>1 DEF ReadMiss, ConnectData, OnceTyped
  <2>3. t \in Topics /\ Delivers(t)'
    BY <1>0, <2>2 DEF ValueComing, OnceTyped
  <2>4. Tracked(t)'
    BY <2>3 DEF Delivers, Tracked, UnderWay
  <2> QED
    BY <2>2, <2>4
<1>2. CASE ~Wrapper(c)
  <2>1. /\ shown[c] = "loading" /\ t = ref[c]
        /\ c \in recalc => c \in recalc'
        /\ ref[c] \in topics => ref[c] \in topics'
    BY <1>2, OtherCells
  <2>2. t \in topics /\ t \in topics' /\ (c \in recalc \/ Tracked(t))
    BY <1>0, <2>1 DEF NoCellStuck, Tracked
  <2>3. CASE c \in recalc
    BY <2>1, <2>2, <2>3
  <2>4. CASE Tracked(t)
    <3>1. Tracked(t)' \/ {d \in FormulaCells : ref[d] = t} \subseteq recalc'
      BY <2>2, <2>4, TrackedStep
    <3> QED
      BY <2>1, <2>2, <3>1
  <2> QED
    BY <2>2, <2>3, <2>4
<1> QED
  BY <1>1, <1>2

\* For any cells, topics and handler runs: no cell of a one-shot function is left at its
\* loading placeholder, unless the transport lost the connect or the push or the handler
\* panicked.
THEOREM NoCellLeftLoading == OnceSpec => []NoCellStuck
<1>1. OnceInv /\ [OnceNext]_onceVars => OnceInv'
  BY OnceTypes, ValueComingStep, NoCellStuckStep DEF OnceInv
<1>2. OnceInv => NoCellStuck
  BY DEF OnceInv
<1> QED
  BY <1>1, <1>2, OnceStart, PTL DEF OnceSpec
=============================================================================
