--------------------------- MODULE ServerLifecycle ---------------------------
(***************************************************************************)
(* The life of one generated Go server process: Serve (server.go.tmpl),    *)
(* server.RunAndDrain, server.JobPool, server.AsyncBatcher, the shutdown   *)
(* gate of rtd.RtdManager and server.Lifecycle.                            *)
(*                                                                         *)
(* Goroutines: "main" (Serve), "watcher" (WatchParentDeath), the shm       *)
(* dispatchers, the job workers, the batch flusher and the RTD pushers,    *)
(* which belong to user code and are bounded by nothing but the gate.  A   *)
(* process that has exited takes no step.  Closing the client unmaps the   *)
(* shared segment; a goroutine inside a guest->host send then faults.      *)
(***************************************************************************)
EXTENDS Naturals, Sequences, FiniteSets

CONSTANTS Workers,      \* goroutines of the JobPool
          Dispatchers,  \* shm worker routines that call dispatch
          Pushers,      \* goroutines that send RTD updates
          Handles,      \* async handles: each names one request of Excel
          Event,        \* a job that answers no handle (an event handler)
          None,         \* no job
          QueueCap,     \* AsyncBatcher.queue: 1024 slots
          MaxBatch,     \* maxBatchSize: 256 results per flush
          MaxTopics     \* the most topics one Publish fans out to

ASSUME ProcsAssumption == Workers \cap Dispatchers = {}
ASSUME JobsAssumption == Event \notin Handles /\ None \notin Handles \cup {Event}
ASSUME PoolAssumption == Workers # {} /\ IsFiniteSet(Workers)
ASSUME BoundsAssumption == {QueueCap, MaxBatch, MaxTopics} \subseteq Nat \ {0}

Jobs == Handles \cup {Event}
Procs == Workers \cup Dispatchers

VARIABLES
    main,           \* where Serve is
    watcher,        \* where WatchParentDeath is
    signalled,      \* the host signalled an orderly shutdown
    excelAlive,     \* the parent process runs
    phase,          \* where the one ShutdownAndClose body is
    owner,          \* the goroutine whose once.Do runs that body
    asyncOK,        \* asyncDrained of wouldUnmap
    rtdOK,          \* rtdDrained of wouldUnmap
    jobDrainFailed, \* Lifecycle.jobDrainFailed
    closing,        \* client.Close has begun
    mapped,         \* the shared segment is mapped
    exited,         \* the process is gone
    stopped, stop, started,     \* gate, stop channel, started: AsyncBatcher
    flusher, batch, queue,      \* the flush worker, its batch, the results
    rtdStopped, client,         \* RtdManager.stopped, client is set
    sendWG,         \* RtdManager.sendWG: the share of each pusher
    sending,        \* the pusher is inside a guest->host send
    pc, job,        \* a dispatcher's or a worker's place and its job
    jobs, closed,   \* JobPool.queue and whether it is closed
    issued,         \* handles Excel has used
    flushed         \* how many flushes carried the handle's result

hostVars  == <<signalled, excelAlive>>
lifeVars  == <<phase, owner, asyncOK, rtdOK, closing, mapped>>
endVars   == <<jobDrainFailed, exited>>
shutVars  == <<hostVars, lifeVars, endVars>>
serveVars == <<main, watcher>>
drainVars == <<asyncOK, rtdOK>>
segVars   == <<closing, mapped>>
gateVars  == <<stopped, stop>>
flushVars == <<flusher, batch, flushed>>
asyncVars == <<gateVars, started, flushVars, queue>>
rtdVars   == <<rtdStopped, client, sendWG, sending>>
poolVars  == <<pc, job, jobs, closed, issued>>
vars == <<serveVars, shutVars, asyncVars, rtdVars, poolVars>>

Phases == {"new", "latch", "signal", "asyncWait", "rtd", "rtdWait", "decide",
           "close", "closing", "done"}

TypeOK ==
    /\ main \in {"setClient", "store", "spawn", "pool", "wait", "drain",
                 "drainWait", "shutdown", "once", "returned"}
    /\ watcher \in {"start", "armed", "skipped", "shutdown", "once", "exit"}
    /\ phase \in Phases
    /\ owner \in {"none", "main", "watcher"}
    /\ signalled \in BOOLEAN /\ excelAlive \in BOOLEAN
    /\ asyncOK \in BOOLEAN /\ rtdOK \in BOOLEAN /\ jobDrainFailed \in BOOLEAN
    /\ closing \in BOOLEAN /\ mapped \in BOOLEAN /\ exited \in BOOLEAN
    /\ stopped \in BOOLEAN /\ stop \in BOOLEAN /\ started \in BOOLEAN
    /\ rtdStopped \in BOOLEAN /\ client \in BOOLEAN /\ closed \in BOOLEAN
    /\ flusher \in {"none", "top", "recv", "drain", "flush", "exited"}
    /\ batch \in Seq(Handles) /\ Len(batch) <= MaxBatch
    /\ queue \in Seq(Handles) /\ Len(queue) <= QueueCap
    /\ sendWG \in [Pushers -> 0 .. MaxTopics]
    /\ sending \in [Pushers -> BOOLEAN]
    /\ pc \in [Procs -> {"none", "idle", "run", "enqueue", "sync", "exited"}]
    /\ job \in [Procs -> Jobs \cup {None}]
    /\ jobs \in Seq(Jobs)
    /\ issued \subseteq Handles
    /\ flushed \in [Handles -> Nat]

(***************************************************************************)
(* Serve has connected, deferred ShutdownAndClose and started the watcher. *)
(***************************************************************************)
Init ==
    /\ main = "setClient" /\ watcher = "start"
    /\ signalled = FALSE /\ excelAlive = TRUE
    /\ phase = "new" /\ owner = "none" /\ asyncOK = FALSE /\ rtdOK = FALSE
    /\ jobDrainFailed = FALSE /\ closing = FALSE /\ mapped = TRUE
    /\ exited = FALSE
    /\ stopped = FALSE /\ stop = FALSE /\ started = FALSE
    /\ flusher = "none" /\ batch = <<>> /\ queue = <<>>
    /\ rtdStopped = FALSE /\ client = FALSE
    /\ sendWG = [p \in Pushers |-> 0]
    /\ sending = [p \in Pushers |-> FALSE]
    /\ pc = [c \in Procs |-> IF c \in Dispatchers THEN "idle" ELSE "none"]
    /\ job = [c \in Procs |-> None]
    /\ jobs = <<>> /\ closed = FALSE
    /\ issued = {}
    /\ flushed = [h \in Handles |-> 0]

-----------------------------------------------------------------------------
(***************************************************************************)
(* Excel: it signals an orderly shutdown through the segment, or it dies   *)
(* with or without doing so.                                               *)
(***************************************************************************)
SignalShutdown ==
    /\ excelAlive /\ ~signalled
    /\ signalled' = TRUE
    /\ UNCHANGED <<serveVars, asyncVars, rtdVars, poolVars, lifeVars,
                   endVars, excelAlive>>

ExcelDies ==
    /\ excelAlive
    /\ excelAlive' = FALSE
    /\ UNCHANGED <<serveVars, asyncVars, rtdVars, poolVars, lifeVars,
                   endVars, signalled>>

-----------------------------------------------------------------------------
(* Serve: the steps before the message loop. *)

SetClient ==
    /\ main = "setClient"
    /\ client' = TRUE
    /\ main' = "store"
    /\ UNCHANGED <<shutVars, asyncVars, poolVars, watcher, rtdStopped,
                   sendWG, sending>>

(* AsyncBatcher.StartWorker: started.Store(true), then the goroutine. *)
StartWorkerStore ==
    /\ main = "store"
    /\ started' = TRUE
    /\ main' = "spawn"
    /\ UNCHANGED <<shutVars, rtdVars, poolVars, gateVars, flushVars, watcher,
                   queue>>

StartWorkerSpawn ==
    /\ main = "spawn"
    /\ flusher' = "top"
    /\ main' = "pool"
    /\ UNCHANGED <<shutVars, rtdVars, poolVars, gateVars, watcher, started,
                   batch, flushed, queue>>

(* NewJobPool, then RunAndDrain: Handle and Start. *)
StartPool ==
    /\ main = "pool"
    /\ pc' = [c \in Procs |-> IF c \in Workers THEN "idle" ELSE pc[c]]
    /\ main' = "wait"
    /\ UNCHANGED <<shutVars, asyncVars, rtdVars, watcher, job, jobs, closed,
                   issued>>

(***************************************************************************)
(* client.Wait returns once the shm worker routines have exited: the host  *)
(* signalled, or Close stopped them, and none is inside dispatch.          *)
(***************************************************************************)
Quiet == \A d \in Dispatchers : pc[d] = "idle"

(* Wrong variant: the pool is drained before the dispatchers are done. *)
WaitReturnsEarly ==
    /\ main = "wait"
    /\ signalled \/ closing
    /\ main' = "drain"
    /\ UNCHANGED <<shutVars, asyncVars, rtdVars, poolVars, watcher>>

WaitReturns ==
    /\ main = "wait"
    /\ signalled \/ closing
    /\ Quiet
    /\ main' = "drain"
    /\ UNCHANGED <<shutVars, asyncVars, rtdVars, poolVars, watcher>>

(* JobPool.Drain closes the queue, then waits in WaitGroupTimeout. *)
DrainClose ==
    /\ main = "drain"
    /\ closed' = TRUE
    /\ main' = "drainWait"
    /\ UNCHANGED <<shutVars, asyncVars, rtdVars, watcher, pc, job, jobs,
                   issued>>

WorkersDone == \A w \in Workers : pc[w] = "exited"

DrainFinished ==
    /\ main = "drainWait"
    /\ WorkersDone
    /\ main' = "shutdown"
    /\ UNCHANGED <<shutVars, asyncVars, rtdVars, poolVars, watcher>>

(* Wrong variant: a timed-out drain is logged and not reported. *)
DrainTimedOutUnmarked ==
    /\ main = "drainWait"
    /\ main' = "shutdown"
    /\ UNCHANGED <<shutVars, asyncVars, rtdVars, poolVars, watcher>>

(* JobDrainTimeout fires at any time: a user handler may run for ever. *)
DrainTimedOut ==
    /\ main = "drainWait"
    /\ jobDrainFailed' = TRUE
    /\ main' = "shutdown"
    /\ UNCHANGED <<asyncVars, rtdVars, poolVars, lifeVars, hostVars, watcher,
                   exited>>

(* The deferred ShutdownAndClose is done and the user's main returns. *)
MainReturns ==
    /\ main = "once" /\ phase = "done"
    /\ main' = "returned"
    /\ exited' = TRUE
    /\ UNCHANGED <<asyncVars, rtdVars, poolVars, lifeVars, hostVars, watcher,
                   jobDrainFailed>>

-----------------------------------------------------------------------------
(***************************************************************************)
(* WatchParentDeath: skipped when there is no parent handle, otherwise it  *)
(* waits for Excel's exit, shuts down and terminates the process.          *)
(***************************************************************************)
WatcherOpens ==
    /\ watcher = "start"
    /\ watcher' \in {"armed", "skipped"}
    /\ UNCHANGED <<shutVars, asyncVars, rtdVars, poolVars, main>>

(* The wait ends because Excel exited, or fails and the watcher gives up. *)
WatcherWakes ==
    /\ watcher = "armed"
    /\ \/ ~excelAlive /\ watcher' = "shutdown"
       \/ watcher' = "skipped"
    /\ UNCHANGED <<shutVars, asyncVars, rtdVars, poolVars, main>>

WatcherExits ==
    /\ watcher = "once" /\ phase = "done"
    /\ watcher' = "exit"
    /\ exited' = TRUE
    /\ UNCHANGED <<asyncVars, rtdVars, poolVars, lifeVars, hostVars, main,
                   jobDrainFailed>>

-----------------------------------------------------------------------------
(***************************************************************************)
(* Lifecycle.ShutdownAndClose.  The first caller owns once.Do; a second    *)
(* caller parks in it until the body is done.                              *)
(***************************************************************************)
ClaimOnce(caller) ==
    /\ IF phase = "new"
       THEN phase' = "latch" /\ owner' = caller
       ELSE UNCHANGED <<phase, owner>>
    /\ UNCHANGED <<asyncVars, rtdVars, poolVars, hostVars, drainVars,
                   segVars, endVars>>

MainShutsDown ==
    /\ main = "shutdown"
    /\ main' = "once"
    /\ ClaimOnce("main")
    /\ UNCHANGED watcher

WatcherShutsDown ==
    /\ watcher = "shutdown"
    /\ watcher' = "once"
    /\ ClaimOnce("watcher")
    /\ UNCHANGED main

(* AsyncBatcher.Stop: latch the gate, then close the stop channel ... *)
StopLatch ==
    /\ phase = "latch"
    /\ stopped' = TRUE
    /\ phase' = "signal"
    /\ UNCHANGED <<serveVars, rtdVars, poolVars, hostVars, drainVars,
                   segVars, endVars, flushVars, owner, stop, started, queue>>

StopSignal ==
    /\ phase = "signal"
    /\ stop' = TRUE
    /\ phase' = "asyncWait"
    /\ UNCHANGED <<serveVars, rtdVars, poolVars, hostVars, drainVars,
                   segVars, endVars, flushVars, owner, stopped, started,
                   queue>>

(***************************************************************************)
(* ... and wait for workerDone, which is the answer at once when no worker *)
(* was started, or for AsyncDrainTimeout.                                  *)
(***************************************************************************)
FlusherDone == ~started \/ flusher = "exited"

StopReturns(drained) ==
    /\ phase = "asyncWait"
    /\ IF drained THEN FlusherDone ELSE started
    /\ asyncOK' = drained
    /\ phase' = "rtd"
    /\ UNCHANGED <<serveVars, asyncVars, rtdVars, poolVars, hostVars,
                   segVars, endVars, owner, rtdOK>>

(* RtdManager.Stop: latch under mu, then wait for sendWG or the timeout. *)
RtdStopLatch ==
    /\ phase = "rtd"
    /\ rtdStopped' = TRUE
    /\ phase' = "rtdWait"
    /\ UNCHANGED <<serveVars, asyncVars, poolVars, hostVars, drainVars,
                   segVars, endVars, owner, client, sendWG, sending>>

SendsDone == \A p \in Pushers : sendWG[p] = 0

(* Wrong variant: the wait for the sends in flight has no timeout. *)
RtdStopReturnsDrained(drained) ==
    /\ phase = "rtdWait"
    /\ drained /\ SendsDone
    /\ rtdOK' = drained
    /\ phase' = "decide"
    /\ UNCHANGED <<serveVars, asyncVars, rtdVars, poolVars, hostVars, segVars,
                   endVars, owner, asyncOK>>

RtdStopReturns(drained) ==
    /\ phase = "rtdWait"
    /\ drained => SendsDone
    /\ rtdOK' = drained
    /\ phase' = "decide"
    /\ UNCHANGED <<serveVars, asyncVars, rtdVars, poolVars, hostVars,
                   segVars, endVars, owner, asyncOK>>

(* Wrong variant: the verdict of the RTD drain is not honoured. *)
WouldUnmapAnyway == asyncOK /\ ~jobDrainFailed

WouldUnmap == asyncOK /\ rtdOK /\ ~jobDrainFailed

Decide ==
    /\ phase = "decide"
    /\ phase' = IF WouldUnmap THEN "close" ELSE "done"
    /\ UNCHANGED <<serveVars, asyncVars, rtdVars, poolVars, hostVars,
                   drainVars, segVars, endVars, owner>>

(* client.Close stops the shm worker routines, drains them and unmaps. *)
CloseBegins ==
    /\ phase = "close"
    /\ closing' = TRUE
    /\ phase' = "closing"
    /\ UNCHANGED <<serveVars, asyncVars, rtdVars, poolVars, hostVars,
                   drainVars, endVars, owner, mapped>>

CloseUnmaps ==
    /\ phase = "closing"
    /\ Quiet
    /\ mapped' = FALSE
    /\ phase' = "done"
    /\ UNCHANGED <<serveVars, asyncVars, rtdVars, poolVars, hostVars,
                   drainVars, endVars, owner, closing>>

-----------------------------------------------------------------------------
(***************************************************************************)
(* The flush worker of AsyncBatcher.StartWorker: check stop, block in the  *)
(* select, drain the queue up to maxBatchSize, flush.                      *)
(***************************************************************************)
FlusherPreCheck ==
    /\ flusher = "top"
    /\ flusher' = IF stop THEN "exited" ELSE "recv"
    /\ UNCHANGED <<serveVars, shutVars, rtdVars, poolVars, gateVars, started,
                   batch, flushed, queue>>

FlusherStops ==
    /\ flusher = "recv" /\ stop
    /\ flusher' = "exited"
    /\ UNCHANGED <<serveVars, shutVars, rtdVars, poolVars, gateVars, started,
                   batch, flushed, queue>>

BatchHasRoom == Len(batch) < MaxBatch

FlusherReceives ==
    /\ \/ flusher = "recv"
       \/ flusher = "drain" /\ BatchHasRoom
    /\ queue # <<>>
    /\ batch' = Append(batch, Head(queue))
    /\ queue' = Tail(queue)
    /\ flusher' = "drain"
    /\ UNCHANGED <<serveVars, shutVars, rtdVars, poolVars, gateVars, started,
                   flushed>>

(* runFlush enters flushFunc: from here on the goroutine is in a send. *)
FlushBegins ==
    /\ flusher = "drain"
    /\ queue = <<>> \/ ~BatchHasRoom
    /\ flusher' = "flush"
    /\ flushed' = [h \in Handles |->
          flushed[h] + Cardinality({i \in DOMAIN batch : batch[i] = h})]
    /\ UNCHANGED <<serveVars, shutVars, rtdVars, poolVars, gateVars, started,
                   batch, queue>>

(* Wrong variant: the batch is not emptied for the next round. *)
FlushEndsKeepingBatch ==
    /\ flusher = "flush"
    /\ flusher' = "top"
    /\ UNCHANGED <<serveVars, shutVars, rtdVars, poolVars, gateVars, started,
                   batch, flushed, queue>>

(* Wrong variant: a flush that panics takes the worker with it. *)
FlushEndsWorker ==
    /\ flusher = "flush"
    /\ flusher' = "exited"
    /\ batch' = <<>>
    /\ UNCHANGED <<serveVars, shutVars, rtdVars, poolVars, gateVars, started,
                   flushed, queue>>

(* The flush returns, fails or panics (recovered): the worker goes on. *)
FlushEnds ==
    /\ flusher = "flush"
    /\ flusher' = "top"
    /\ batch' = <<>>
    /\ UNCHANGED <<serveVars, shutVars, rtdVars, poolVars, gateVars, started,
                   flushed, queue>>

-----------------------------------------------------------------------------
(***************************************************************************)
(* RTD pushers: SendUpdate, SendErrorUpdate and SendOnceGrid register one  *)
(* send, Publish one for each subscribed topic.  The registration and the  *)
(* gate are one critical section; the sends follow outside it.             *)
(***************************************************************************)
Admits == ~rtdStopped /\ client

BeginSend(p, n) ==
    /\ sendWG[p] = 0
    /\ Admits
    /\ sendWG' = [sendWG EXCEPT ![p] = n]
    /\ sending' = [sending EXCEPT ![p] = TRUE]
    /\ UNCHANGED <<serveVars, shutVars, asyncVars, poolVars, rtdStopped,
                   client>>

(* The last send returned: acknowledged, failed or timed out. *)
SendReturns(p) ==
    /\ sending[p]
    /\ sending' = [sending EXCEPT ![p] = FALSE]
    /\ UNCHANGED <<serveVars, shutVars, asyncVars, poolVars, rtdStopped,
                   client, sendWG>>

(* The deferred endSend(s): one Done at a time. *)
EndSend(p) ==
    /\ ~sending[p] /\ sendWG[p] > 0
    /\ sendWG' = [sendWG EXCEPT ![p] = @ - 1]
    /\ UNCHANGED <<serveVars, shutVars, asyncVars, poolVars, rtdStopped,
                   client, sending>>

-----------------------------------------------------------------------------
(***************************************************************************)
(* dispatch: a request of Excel runs on a dispatcher while the message     *)
(* loop does.  A sync function answers in place.  An async function or an  *)
(* event is submitted to the pool; a full or closed pool drops the event   *)
(* and makes the dispatcher itself answer the handle ("Server Busy").      *)
(***************************************************************************)
Serving(d) == /\ main = "wait" /\ pc[d] = "idle"
              /\ excelAlive /\ ~signalled /\ ~closing

DispatchSync(d) ==
    /\ Serving(d)
    /\ pc' = [pc EXCEPT ![d] = "sync"]
    /\ UNCHANGED <<serveVars, shutVars, asyncVars, rtdVars, job, jobs,
                   closed, issued>>

SyncReturns(d) ==
    /\ pc[d] = "sync"
    /\ pc' = [pc EXCEPT ![d] = "idle"]
    /\ UNCHANGED <<serveVars, shutVars, asyncVars, rtdVars, job, jobs,
                   closed, issued>>

Accepts == ~closed /\ Len(jobs) < Cardinality(Workers)

Submit(d, j) ==
    /\ Serving(d)
    /\ j \notin issued
    /\ issued' = issued \cup ({j} \cap Handles)
    /\ \/ Accepts /\ jobs' = Append(jobs, j) /\ UNCHANGED <<pc, job>>
       \/ ~Accepts /\ j \in Handles
          /\ pc' = [pc EXCEPT ![d] = "run"]
          /\ job' = [job EXCEPT ![d] = j]
          /\ UNCHANGED jobs
       \/ ~Accepts /\ j = Event /\ UNCHANGED <<pc, job, jobs>>
    /\ UNCHANGED <<serveVars, shutVars, asyncVars, rtdVars, closed>>

(* A worker of the pool takes a job, or leaves when the queue is closed. *)
TakeJob(w) ==
    /\ pc[w] = "idle"
    /\ jobs # <<>>
    /\ jobs' = Tail(jobs)
    /\ pc' = [pc EXCEPT ![w] = "run"]
    /\ job' = [job EXCEPT ![w] = Head(jobs)]
    /\ UNCHANGED <<serveVars, shutVars, asyncVars, rtdVars, closed, issued>>

WorkerLeaves(w) ==
    /\ pc[w] = "idle"
    /\ jobs = <<>> /\ closed
    /\ pc' = [pc EXCEPT ![w] = "exited"]
    /\ UNCHANGED <<serveVars, shutVars, asyncVars, rtdVars, job, jobs,
                   closed, issued>>

(***************************************************************************)
(* The job ends: an event handler just returns; an async handler returns,  *)
(* errs or panics and in each case calls QueueResult, whose gate check and *)
(* enqueue are two steps.                                                  *)
(***************************************************************************)
Finished(c) ==
    /\ pc' = [pc EXCEPT ![c] = "idle"]
    /\ job' = [job EXCEPT ![c] = None]

QueueResultCheck(c) ==
    /\ pc[c] = "run"
    /\ IF job[c] = Event \/ stopped
       THEN Finished(c)
       ELSE pc' = [pc EXCEPT ![c] = "enqueue"] /\ UNCHANGED job
    /\ UNCHANGED <<serveVars, shutVars, asyncVars, rtdVars, jobs, closed,
                   issued>>

QueueResultSend(c) ==
    /\ pc[c] = "enqueue"
    /\ queue' = IF Len(queue) < QueueCap THEN Append(queue, job[c]) ELSE queue
    /\ Finished(c)
    /\ UNCHANGED <<serveVars, shutVars, rtdVars, gateVars, flushVars,
                   started, jobs, closed, issued>>

-----------------------------------------------------------------------------
MainStep == SetClient \/ StartWorkerStore \/ StartWorkerSpawn \/ StartPool
            \/ WaitReturns \/ DrainClose \/ DrainFinished \/ DrainTimedOut
            \/ MainShutsDown \/ MainReturns

WatcherStep == WatcherOpens \/ WatcherWakes \/ WatcherShutsDown \/ WatcherExits

ShutdownStep == StopLatch \/ StopSignal
                \/ (\E b \in BOOLEAN : StopReturns(b) \/ RtdStopReturns(b))
                \/ RtdStopLatch \/ Decide \/ CloseBegins \/ CloseUnmaps

FlusherStep == FlusherPreCheck \/ FlusherStops \/ FlusherReceives
               \/ FlushBegins \/ FlushEnds

PusherStep(p) == (\E n \in 1 .. MaxTopics : BeginSend(p, n))
                 \/ SendReturns(p) \/ EndSend(p)

DispatcherStep(d) == DispatchSync(d) \/ SyncReturns(d) \/ \E j \in Jobs : Submit(d, j)

WorkerStep(w) == TakeJob(w) \/ WorkerLeaves(w)

ResultStep(c) == QueueResultCheck(c) \/ QueueResultSend(c)

Running == SignalShutdown \/ ExcelDies \/ MainStep \/ WatcherStep
           \/ ShutdownStep \/ FlusherStep
           \/ (\E p \in Pushers : PusherStep(p))
           \/ (\E d \in Dispatchers : DispatcherStep(d))
           \/ (\E w \in Workers : WorkerStep(w))
           \/ (\E c \in Procs : ResultStep(c))

(* The process is gone: nothing of it moves any more. *)
Gone == exited /\ UNCHANGED vars

Next == (~exited /\ Running) \/ Gone

Spec == Init /\ [][Next]_vars

(***************************************************************************)
(* Fairness: the goroutines of the server and its timers run; a flush ends *)
(* because every send has a timeout and the retry ladder is finite; a sync *)
(* handler returns.  None for async handlers, RTD pushers or Excel.        *)
(***************************************************************************)
Fairness ==
    /\ WF_vars(~exited /\ MainStep)
    /\ WF_vars(~exited /\ WatcherStep)
    /\ WF_vars(~exited /\ ShutdownStep)
    /\ WF_vars(~exited /\ FlusherStep)
    /\ \A d \in Dispatchers :
         WF_vars(~exited /\ (SyncReturns(d) \/ ResultStep(d)))

LiveSpec == Spec /\ Fairness

-----------------------------------------------------------------------------
(***************************************************************************)
(* The shutdown contract of Lifecycle: the segment stays mapped as long as *)
(* the flush worker or any RTD pusher is inside a guest->host send, on     *)
(* every path (orderly exit, parent death, both at once, a worker started  *)
(* while Stop runs, any drain timing out).                                 *)
(***************************************************************************)
MappedWhileSending ==
    flusher = "flush" \/ (\E p \in Pushers : sending[p]) => mapped

(***************************************************************************)
(* RunAndDrain's fourth ordering: when Serve's own deferred                *)
(* ShutdownAndClose unmaps, no job is queued or running.                   *)
(***************************************************************************)
JobsQuietOnOrderlyExit ==
    ~mapped /\ owner = "main" => jobs = <<>> /\ WorkersDone

(***************************************************************************)
(* RunAndDrain's third ordering: once JobPool.Drain has closed the queue   *)
(* no dispatcher is left that could submit to it.                          *)
(***************************************************************************)
NoSubmitAfterDrain == closed => Quiet

(***************************************************************************)
(* The result of an async handle is carried by at most one flush, whether  *)
(* the pool ran its job or the dispatcher answered that it was busy.       *)
(***************************************************************************)
FlushedOnce == \A h \in Handles : flushed[h] <= 1

(***************************************************************************)
(* RtdManager: once Stop has latched the gate the number of registered     *)
(* sends can only fall, so the drain it then waits for is final.           *)
(***************************************************************************)
SendsOnlyFall ==
    [][rtdStopped => \A p \in Pushers : sendWG'[p] <= sendWG[p]]_vars

(***************************************************************************)
(* What the comments of JobPool and of Serve say of every exit, the one    *)
(* after Excel's death included: nothing is unmapped under a running job.  *)
(***************************************************************************)
JobsQuietOnEveryExit ==
    ~mapped => \A w \in Workers : pc[w] \notin {"run", "enqueue"}

(***************************************************************************)
(* An orderly shutdown signalled by the host ends the process, however     *)
(* long async handlers and RTD pushers run; so does the death of Excel,    *)
(* unless the watcher could not get or wait on the parent's handle.        *)
(***************************************************************************)
ShutdownEndsProcess ==
    /\ signalled ~> exited
    /\ ~excelAlive ~> (exited \/ watcher = "skipped")

(***************************************************************************)
(* A queued result is flushed unless the server begins to shut down.       *)
(***************************************************************************)
ResultsFlushed ==
    \A h \in Handles :
        (\E i \in DOMAIN queue : queue[i] = h) ~> (flushed[h] > 0 \/ stopped)
=============================================================================
