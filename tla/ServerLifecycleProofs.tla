------------------------ MODULE ServerLifecycleProofs ------------------------
(***************************************************************************)
(* Proofs about ServerLifecycle for any number of workers, dispatchers,    *)
(* pushers, handles and topics, and any queue and batch size, and about    *)
(* AsyncFlush, which is what its flush worker does with a batch, for any   *)
(* sizes and limits.                                                       *)
(***************************************************************************)
EXTENDS ServerLifecycle, AsyncFlush, SetLemmas, SequenceTheorems, TLAPS

(* What a goroutine at a job holds: QueueResult is only called for handles. *)
JobTyped ==
    \A c \in Procs : /\ pc[c] = "run" => job[c] \in Jobs
                     /\ pc[c] = "enqueue" => job[c] \in Handles

(* runFlush is followed by the reset: a round starts with an empty batch. *)
BatchReset ==
    /\ flusher \in {"none", "top", "recv", "exited"} => batch = <<>>
    /\ main \in {"setClient", "store", "spawn"} => flusher = "none"

TypedInv == TypeOK /\ JobTyped /\ BatchReset

(* The places of one handle in a batch can be counted. *)
LEMMA FlushedType ==
    ASSUME TypeOK
    PROVE  \A h \in Handles :
             flushed[h] + Cardinality({i \in DOMAIN batch : batch[i] = h}) \in Nat
<1> TAKE h \in Handles
<1> DEFINE places == {i \in 1 .. Len(batch) : batch[i] = h}
<1>1. Len(batch) \in Nat /\ DOMAIN batch = 1 .. Len(batch)
  BY DEF TypeOK
<1>2. IsFiniteSet(1 .. Len(batch))
  BY <1>1, FS_Interval
<1>3. IsFiniteSet(places)
  BY <1>2, FS_Subset
<1>4. Cardinality(places) \in Nat
  BY <1>3, FS_CardinalityType
<1>5. flushed[h] \in Nat
  BY DEF TypeOK
<1>6. {i \in DOMAIN batch : batch[i] = h} = places
  BY <1>1
<1> HIDE DEF places
<1> QED
  BY <1>4, <1>5, <1>6

LEMMA TypedInit == Init => TypedInv
<1> SUFFICES ASSUME Init PROVE TypedInv
  OBVIOUS
<1>1. /\ sendWG \in [Pushers -> 0 .. MaxTopics]
      /\ sending \in [Pushers -> BOOLEAN]
      /\ flushed \in [Handles -> Nat]
  BY BoundsAssumption DEF Init
<1>2. /\ pc \in [Procs -> {"none", "idle", "run", "enqueue", "sync", "exited"}]
      /\ job \in [Procs -> Jobs \cup {None}]
      /\ JobTyped
  BY DEF Init, JobTyped
<1>3. /\ batch \in Seq(Handles) /\ Len(batch) <= MaxBatch
      /\ queue \in Seq(Handles) /\ Len(queue) <= QueueCap
      /\ jobs \in Seq(Jobs)
      /\ BatchReset
  BY BoundsAssumption DEF Init, BatchReset
<1>4. /\ signalled \in BOOLEAN /\ excelAlive \in BOOLEAN
      /\ asyncOK \in BOOLEAN /\ rtdOK \in BOOLEAN /\ jobDrainFailed \in BOOLEAN
      /\ closing \in BOOLEAN /\ mapped \in BOOLEAN /\ exited \in BOOLEAN
      /\ stopped \in BOOLEAN /\ stop \in BOOLEAN /\ started \in BOOLEAN
      /\ rtdStopped \in BOOLEAN /\ client \in BOOLEAN /\ closed \in BOOLEAN
  BY DEF Init
<1> QED  BY <1>1, <1>2, <1>3, <1>4 DEF Init, TypedInv, TypeOK, Phases

LEMMA TypedStep == TypedInv /\ [Next]_vars => TypedInv'
<1> SUFFICES ASSUME TypedInv, [Next]_vars PROVE TypedInv'
  OBVIOUS
<1> USE DEF serveVars, shutVars, hostVars, lifeVars, endVars, drainVars, segVars,
            asyncVars, gateVars, flushVars, rtdVars, poolVars
<1> USE DEF Phases
<1>1. CASE SignalShutdown
  BY <1>1 DEF SignalShutdown, TypedInv, TypeOK, JobTyped, BatchReset
<1>2. CASE ExcelDies
  <2>1. excelAlive' \in BOOLEAN
    BY <1>2 DEF ExcelDies
  <2> QED  BY <1>2, <2>1 DEF ExcelDies, TypedInv, TypeOK, JobTyped, BatchReset
<1>3. CASE MainStep
  <2>1. CASE SetClient
    BY <2>1 DEF SetClient, TypedInv, TypeOK, JobTyped, BatchReset
  <2>2. CASE StartWorkerStore
    BY <2>2 DEF StartWorkerStore, TypedInv, TypeOK, JobTyped, BatchReset
  <2>3. CASE StartWorkerSpawn
    BY <2>3 DEF StartWorkerSpawn, TypedInv, TypeOK, JobTyped, BatchReset
  <2>4. CASE StartPool
    BY <2>4 DEF StartPool, Procs, Jobs, TypedInv, TypeOK, JobTyped, BatchReset
  <2>5. CASE WaitReturns
    BY <2>5 DEF WaitReturns, Quiet, TypedInv, TypeOK, JobTyped, BatchReset
  <2>6. CASE DrainClose
    BY <2>6 DEF DrainClose, TypedInv, TypeOK, JobTyped, BatchReset
  <2>7. CASE DrainFinished
    BY <2>7 DEF DrainFinished, WorkersDone, TypedInv, TypeOK, JobTyped, BatchReset
  <2>8. CASE DrainTimedOut
    BY <2>8 DEF DrainTimedOut, TypedInv, TypeOK, JobTyped, BatchReset
  <2>9. CASE MainShutsDown
    BY <2>9 DEF MainShutsDown, ClaimOnce, TypedInv, TypeOK, JobTyped, BatchReset
  <2>10. CASE MainReturns
    BY <2>10 DEF MainReturns, TypedInv, TypeOK, JobTyped, BatchReset
  <2> QED  BY <1>3, <2>1, <2>2, <2>3, <2>4, <2>5, <2>6, <2>7, <2>8, <2>9, <2>10 DEF MainStep
<1>4. CASE WatcherStep
  <2>1. CASE WatcherOpens
    BY <2>1 DEF WatcherOpens, TypedInv, TypeOK, JobTyped, BatchReset
  <2>2. CASE WatcherWakes
    BY <2>2 DEF WatcherWakes, TypedInv, TypeOK, JobTyped, BatchReset
  <2>3. CASE WatcherShutsDown
    BY <2>3 DEF WatcherShutsDown, ClaimOnce, TypedInv, TypeOK, JobTyped, BatchReset
  <2>4. CASE WatcherExits
    BY <2>4 DEF WatcherExits, TypedInv, TypeOK, JobTyped, BatchReset
  <2> QED  BY <1>4, <2>1, <2>2, <2>3, <2>4 DEF WatcherStep
<1>5. CASE ShutdownStep
  <2>1. CASE StopLatch
    BY <2>1 DEF StopLatch, TypedInv, TypeOK, JobTyped, BatchReset
  <2>2. CASE StopSignal
    BY <2>2 DEF StopSignal, TypedInv, TypeOK, JobTyped, BatchReset
  <2>3. ASSUME NEW b \in BOOLEAN, StopReturns(b)
        PROVE  TypedInv'
    BY <2>3 DEF StopReturns, FlusherDone, TypedInv, TypeOK, JobTyped, BatchReset
  <2>4. ASSUME NEW b \in BOOLEAN, RtdStopReturns(b)
        PROVE  TypedInv'
    BY <2>4 DEF RtdStopReturns, SendsDone, TypedInv, TypeOK, JobTyped, BatchReset
  <2>5. CASE RtdStopLatch
    BY <2>5 DEF RtdStopLatch, TypedInv, TypeOK, JobTyped, BatchReset
  <2>6. CASE Decide
    BY <2>6 DEF Decide, WouldUnmap, TypedInv, TypeOK, JobTyped, BatchReset
  <2>7. CASE CloseBegins
    BY <2>7 DEF CloseBegins, TypedInv, TypeOK, JobTyped, BatchReset
  <2>8. CASE CloseUnmaps
    <3>1. mapped' \in BOOLEAN
      BY <2>8 DEF CloseUnmaps
    <3> QED  BY <2>8, <3>1 DEF CloseUnmaps, TypedInv, TypeOK, JobTyped, BatchReset
  <2> QED  BY <1>5, <2>1, <2>2, <2>3, <2>4, <2>5, <2>6, <2>7, <2>8 DEF ShutdownStep
<1>6. CASE FlusherStep
  <2>1. CASE FlusherPreCheck
    BY <2>1 DEF FlusherPreCheck, TypedInv, TypeOK, JobTyped, BatchReset
  <2>2. CASE FlusherStops
    BY <2>2 DEF FlusherStops, TypedInv, TypeOK, JobTyped, BatchReset
  <2>3. CASE FlusherReceives
    <3>1. queue \in Seq(Handles) /\ queue # <<>> /\ Len(queue) <= QueueCap
      BY <2>3 DEF FlusherReceives, TypedInv, TypeOK
    <3>2. /\ Head(queue) \in Handles
          /\ Tail(queue) \in Seq(Handles)
          /\ Len(Tail(queue)) <= QueueCap
      BY <3>1, BoundsAssumption, HeadTailProperties
    <3>3. batch \in Seq(Handles) /\ Len(batch) < MaxBatch
      BY <2>3, BoundsAssumption DEF FlusherReceives, BatchHasRoom, TypedInv,
         TypeOK, BatchReset
    <3>4. batch' \in Seq(Handles) /\ Len(batch') <= MaxBatch
      BY <2>3, <3>2, <3>3, BoundsAssumption, AppendProperties
      DEF FlusherReceives
    <3> QED  BY <2>3, <3>2, <3>4 DEF FlusherReceives, TypedInv, TypeOK, JobTyped,
                BatchReset
  <2>4. CASE FlushBegins
    BY <2>4, FlushedType DEF FlushBegins, BatchHasRoom, TypedInv,
       TypeOK, JobTyped, BatchReset
  <2>5. CASE FlushEnds
    <3>1. batch' = <<>> /\ batch' \in Seq(Handles) /\ Len(batch') <= MaxBatch
      BY <2>5, BoundsAssumption DEF FlushEnds
    <3> QED  BY <2>5, <3>1 DEF FlushEnds, TypedInv, TypeOK, JobTyped, BatchReset
  <2> QED  BY <1>6, <2>1, <2>2, <2>3, <2>4, <2>5 DEF FlusherStep
<1>7. ASSUME NEW p \in Pushers, PusherStep(p)
      PROVE  TypedInv'
  <2>1. ASSUME NEW n \in 1 .. MaxTopics, BeginSend(p, n)
        PROVE  TypedInv'
    BY <2>1, BoundsAssumption, <1>7 DEF BeginSend, Admits, TypedInv,
       TypeOK, JobTyped, BatchReset
  <2>2. CASE SendReturns(p)
    BY <2>2, <1>7 DEF SendReturns, TypedInv, TypeOK, JobTyped, BatchReset
  <2>3. CASE EndSend(p)
    BY <2>3, BoundsAssumption, <1>7 DEF EndSend, TypedInv, TypeOK,
       JobTyped, BatchReset
  <2> QED  BY <1>7, <2>1, <2>2, <2>3 DEF PusherStep
<1>8. ASSUME NEW d \in Dispatchers, DispatcherStep(d)
      PROVE  TypedInv'
  <2>1. CASE DispatchSync(d)
    BY <2>1, <1>8 DEF DispatchSync, Serving, Procs, Jobs, TypedInv,
       TypeOK, JobTyped, BatchReset
  <2>2. CASE SyncReturns(d)
    BY <2>2, <1>8 DEF SyncReturns, Procs, Jobs, TypedInv, TypeOK,
       JobTyped, BatchReset
  <2>3. ASSUME NEW j \in Jobs, Submit(d, j)
        PROVE  TypedInv'
    <3>1. issued' \subseteq Handles
      BY <2>3 DEF Submit, TypedInv, TypeOK
    <3>2. jobs' \in Seq(Jobs)
      <4>1. jobs \in Seq(Jobs)
        BY DEF TypedInv, TypeOK
      <4>2. Append(jobs, j) \in Seq(Jobs)
        BY <4>1, AppendProperties
      <4>3. jobs' = Append(jobs, j) \/ jobs' = jobs
        BY <2>3 DEF Submit
      <4> QED  BY <4>1, <4>2, <4>3
    <3>3. /\ pc' \in [Procs -> {"none", "idle", "run", "enqueue", "sync", "exited"}]
          /\ job' \in [Procs -> Jobs \cup {None}]
          /\ JobTyped'
      BY <1>8, <2>3 DEF Submit, TypedInv, TypeOK, JobTyped, BatchReset, Procs, Jobs
    <3> QED  BY <2>3, <3>1, <3>2, <3>3 DEF Submit, TypedInv, TypeOK, BatchReset
  <2> QED  BY <1>8, <2>1, <2>2, <2>3 DEF DispatcherStep
<1>9. ASSUME NEW w \in Workers, WorkerStep(w)
      PROVE  TypedInv'
  <2>1. CASE TakeJob(w)
    BY <2>1, JobsAssumption, <1>9 DEF TakeJob, Procs, Jobs, TypedInv,
       TypeOK, JobTyped, BatchReset
  <2>2. CASE WorkerLeaves(w)
    BY <2>2, <1>9 DEF WorkerLeaves, Procs, Jobs, TypedInv, TypeOK,
       JobTyped, BatchReset
  <2> QED  BY <1>9, <2>1, <2>2 DEF WorkerStep
<1>10. ASSUME NEW c \in Procs, ResultStep(c)
      PROVE  TypedInv'
  <2>1. CASE QueueResultCheck(c)
    <3>1. /\ pc' \in [Procs -> {"none", "idle", "run", "enqueue", "sync", "exited"}]
          /\ job' \in [Procs -> Jobs \cup {None}]
      BY <1>10, <2>1 DEF QueueResultCheck, Finished, TypedInv, TypeOK
    <3>2. JobTyped'
      BY <1>10, <2>1, JobsAssumption
      DEF QueueResultCheck, Finished, TypedInv, TypeOK, JobTyped, BatchReset, Jobs
    <3> QED  BY <2>1, <3>1, <3>2 DEF QueueResultCheck, TypedInv, TypeOK, BatchReset
  <2>2. CASE QueueResultSend(c)
    BY <2>2, BoundsAssumption, JobsAssumption, <1>10 DEF
       QueueResultSend, Finished, Procs, Jobs, TypedInv, TypeOK, JobTyped, BatchReset
  <2> QED  BY <1>10, <2>1, <2>2 DEF ResultStep
<1>11. CASE UNCHANGED vars
  BY <1>11 DEF TypedInv, TypeOK, JobTyped, BatchReset, vars, serveVars, shutVars, hostVars, lifeVars, endVars, drainVars, segVars, asyncVars, gateVars, flushVars, rtdVars, poolVars
<1> QED  BY <1>1, <1>2, <1>3, <1>4, <1>5, <1>6, <1>7, <1>8, <1>9, <1>10, <1>11 DEF Next, Running, Gone

(***************************************************************************)
(* The batch and the result queue never exceed their capacity, the sends   *)
(* of a pusher never exceed its topics, and every goroutine is at one of   *)
(* its places, in every behaviour.                                         *)
(***************************************************************************)
THEOREM TypeCorrect == Spec => []TypeOK
<1>1. TypedInv => TypeOK
  BY DEF TypedInv
<1> QED  BY <1>1, TypedInit, TypedStep, PTL DEF Spec
-----------------------------------------------------------------------------
(***************************************************************************)
(* The inductive strengthening.  Each gate says what its own latch has     *)
(* made final by the time wouldUnmap relies on it.                         *)
(***************************************************************************)
FlushGate ==
    /\ phase = "asyncWait" => stop
    /\ main = "spawn" => started
    /\ ~started => flusher = "none"
    /\ asyncOK => stop /\ flusher \in {"none", "top", "exited"}

SendGate ==
    /\ phase = "rtdWait" => rtdStopped
    /\ rtdOK => rtdStopped /\ SendsDone
    /\ \A p \in Pushers : sending[p] => sendWG[p] > 0

UnmapGate ==
    /\ ~mapped => phase = "done" /\ asyncOK /\ rtdOK
    /\ phase \in {"close", "closing"} => asyncOK /\ rtdOK

PoolGate ==
    /\ closed => main \in {"drainWait", "shutdown", "once", "returned"}
    /\ main \in {"drain", "drainWait", "shutdown", "once", "returned"} => Quiet
    /\ \A w \in Workers : pc[w] = "exited" => closed /\ jobs = <<>>
    /\ main \in {"shutdown", "once", "returned"} =>
         jobDrainFailed \/ (WorkersDone /\ jobs = <<>>)
    /\ owner = "main" => main \in {"once", "returned"}
    /\ owner = "main" /\ (phase \in {"close", "closing"} \/ ~mapped) =>
         ~jobDrainFailed

SafeInv == FlushGate /\ SendGate /\ UnmapGate /\ PoolGate

LEMMA SafeInit == Init => SafeInv
  BY PoolAssumption, ProcsAssumption
  DEF Init, SafeInv, FlushGate, SendGate, UnmapGate, PoolGate, SendsDone, Quiet,
      WorkersDone, Procs

LEMMA SafeStep == TypedInv /\ SafeInv /\ [Next]_vars => SafeInv'
<1> SUFFICES ASSUME TypedInv, SafeInv, [Next]_vars PROVE SafeInv'
  OBVIOUS
<1> USE DEF serveVars, shutVars, hostVars, lifeVars, endVars, drainVars, segVars,
            asyncVars, gateVars, flushVars, rtdVars, poolVars
<1> USE DEF SafeInv, FlushGate, SendGate, UnmapGate, PoolGate, SendsDone, Quiet,
            WorkersDone
<1>1. CASE SignalShutdown
  BY <1>1 DEF SignalShutdown
<1>2. CASE ExcelDies
  BY <1>2 DEF ExcelDies
<1>3. CASE MainStep
  <2>1. CASE SetClient
    BY <2>1 DEF SetClient
  <2>2. CASE StartWorkerStore
    BY <2>2 DEF StartWorkerStore
  <2>3. CASE StartWorkerSpawn
    BY <2>3 DEF StartWorkerSpawn
  <2>4. CASE StartPool
    BY <2>4, ProcsAssumption, PoolAssumption DEF StartPool, Procs,
       TypedInv, TypeOK
  <2>5. CASE WaitReturns
    BY <2>5 DEF WaitReturns
  <2>6. CASE DrainClose
    BY <2>6 DEF DrainClose
  <2>7. CASE DrainFinished
    BY <2>7, PoolAssumption DEF DrainFinished
  <2>8. CASE DrainTimedOut
    BY <2>8 DEF DrainTimedOut
  <2>9. CASE MainShutsDown
    BY <2>9 DEF MainShutsDown, ClaimOnce
  <2>10. CASE MainReturns
    BY <2>10 DEF MainReturns
  <2> QED  BY <1>3, <2>1, <2>2, <2>3, <2>4, <2>5, <2>6, <2>7, <2>8, <2>9, <2>10 DEF MainStep
<1>4. CASE WatcherStep
  <2>1. CASE WatcherOpens
    BY <2>1 DEF WatcherOpens
  <2>2. CASE WatcherWakes
    BY <2>2 DEF WatcherWakes
  <2>3. CASE WatcherShutsDown
    BY <2>3 DEF WatcherShutsDown, ClaimOnce
  <2>4. CASE WatcherExits
    BY <2>4 DEF WatcherExits
  <2> QED  BY <1>4, <2>1, <2>2, <2>3, <2>4 DEF WatcherStep
<1>5. CASE ShutdownStep
  <2>1. CASE StopLatch
    BY <2>1 DEF StopLatch
  <2>2. CASE StopSignal
    BY <2>2 DEF StopSignal
  <2>3. ASSUME NEW b \in BOOLEAN, StopReturns(b)
        PROVE  SafeInv'
    BY <2>3 DEF StopReturns, FlusherDone
  <2>4. ASSUME NEW b \in BOOLEAN, RtdStopReturns(b)
        PROVE  SafeInv'
    BY <2>4 DEF RtdStopReturns
  <2>5. CASE RtdStopLatch
    BY <2>5 DEF RtdStopLatch
  <2>6. CASE Decide
    BY <2>6 DEF Decide, WouldUnmap
  <2>7. CASE CloseBegins
    BY <2>7 DEF CloseBegins
  <2>8. CASE CloseUnmaps
    BY <2>8 DEF CloseUnmaps
  <2> QED  BY <1>5, <2>1, <2>2, <2>3, <2>4, <2>5, <2>6, <2>7, <2>8 DEF ShutdownStep
<1>6. CASE FlusherStep
  <2>1. CASE FlusherPreCheck
    BY <2>1 DEF FlusherPreCheck
  <2>2. CASE FlusherStops
    BY <2>2 DEF FlusherStops
  <2>3. CASE FlusherReceives
    BY <2>3 DEF FlusherReceives, BatchHasRoom
  <2>4. CASE FlushBegins
    BY <2>4 DEF FlushBegins, BatchHasRoom
  <2>5. CASE FlushEnds
    BY <2>5 DEF FlushEnds
  <2> QED  BY <1>6, <2>1, <2>2, <2>3, <2>4, <2>5 DEF FlusherStep
<1>7. ASSUME NEW p \in Pushers, PusherStep(p)
      PROVE  SafeInv'
  <2>1. ASSUME NEW n \in 1 .. MaxTopics, BeginSend(p, n)
        PROVE  SafeInv'
    BY <2>1, <1>7, BoundsAssumption DEF BeginSend, Admits, TypedInv,
       TypeOK
  <2>2. CASE SendReturns(p)
    BY <2>2, <1>7 DEF SendReturns, TypedInv, TypeOK
  <2>3. CASE EndSend(p)
    BY <2>3, <1>7, BoundsAssumption DEF EndSend, TypedInv, TypeOK
  <2> QED  BY <1>7, <2>1, <2>2, <2>3 DEF PusherStep
<1>8. ASSUME NEW d \in Dispatchers, DispatcherStep(d)
      PROVE  SafeInv'
  <2>1. CASE DispatchSync(d)
    BY <2>1, ProcsAssumption, PoolAssumption, <1>8 DEF DispatchSync,
       Serving, Procs, TypedInv, TypeOK
  <2>2. CASE SyncReturns(d)
    BY <2>2, ProcsAssumption, PoolAssumption, <1>8 DEF SyncReturns,
       Procs, TypedInv, TypeOK
  <2>3. ASSUME NEW j \in Jobs, Submit(d, j)
        PROVE  SafeInv'
    BY <2>3, ProcsAssumption, PoolAssumption, <1>8 DEF Submit, Serving,
       Accepts, Procs, TypedInv, TypeOK
  <2> QED  BY <1>8, <2>1, <2>2, <2>3 DEF DispatcherStep
<1>9. ASSUME NEW w \in Workers, WorkerStep(w)
      PROVE  SafeInv'
  <2>1. CASE TakeJob(w)
    BY <2>1, ProcsAssumption, PoolAssumption, <1>9 DEF TakeJob, Procs,
       TypedInv, TypeOK
  <2>2. CASE WorkerLeaves(w)
    BY <2>2, ProcsAssumption, PoolAssumption, <1>9 DEF WorkerLeaves,
       Procs, TypedInv, TypeOK
  <2> QED  BY <1>9, <2>1, <2>2 DEF WorkerStep
<1>10. ASSUME NEW c \in Procs, ResultStep(c)
      PROVE  SafeInv'
  <2>1. CASE QueueResultCheck(c)
    BY <2>1, ProcsAssumption, PoolAssumption, <1>10 DEF
       QueueResultCheck, Finished, Procs, TypedInv, TypeOK
  <2>2. CASE QueueResultSend(c)
    BY <2>2, ProcsAssumption, PoolAssumption, <1>10 DEF QueueResultSend,
       Finished, Procs, TypedInv, TypeOK
  <2> QED  BY <1>10, <2>1, <2>2 DEF ResultStep
<1>11. CASE UNCHANGED vars
  BY <1>11 DEF vars, serveVars, shutVars, hostVars, lifeVars, endVars, drainVars, segVars, asyncVars, gateVars, flushVars, rtdVars, poolVars
<1> QED  BY <1>1, <1>2, <1>3, <1>4, <1>5, <1>6, <1>7, <1>8, <1>9, <1>10, <1>11 DEF Next, Running, Gone

LEMMA Invariance == Spec => [](TypedInv /\ SafeInv)
  BY TypedInit, TypedStep, SafeInit, SafeStep, PTL DEF Spec

(***************************************************************************)
(* No goroutine is inside a guest->host send when ShutdownAndClose unmaps  *)
(* the segment, for any number of pushers and topics: on the orderly exit, *)
(* after Excel's death, when both race, and whichever drain times out.     *)
(***************************************************************************)
THEOREM NoSendWithoutMapping == Spec => []MappedWhileSending
<1>1. SafeInv => MappedWhileSending
  BY DEF SafeInv, FlushGate, SendGate, UnmapGate, SendsDone, MappedWhileSending
<1> QED  BY <1>1, Invariance, PTL

(***************************************************************************)
(* Serve's own exit unmaps only with every job finished and none queued:   *)
(* RunAndDrain returns after the pool is quiet or marks the drain failed.  *)
(***************************************************************************)
THEOREM OrderlyExitIsQuiet == Spec => []JobsQuietOnOrderlyExit
<1>1. SafeInv => JobsQuietOnOrderlyExit
  BY DEF SafeInv, PoolGate, JobsQuietOnOrderlyExit
<1> QED  BY <1>1, Invariance, PTL

(***************************************************************************)
(* No dispatcher can submit a job once JobPool.Drain has closed the queue. *)
(***************************************************************************)
THEOREM DrainIsLast == Spec => []NoSubmitAfterDrain
<1>1. SafeInv => NoSubmitAfterDrain
  BY DEF SafeInv, PoolGate, NoSubmitAfterDrain
<1> QED  BY <1>1, Invariance, PTL

(***************************************************************************)
(* Once RtdManager.Stop has latched the gate no registration is added, in  *)
(* any step of any goroutine: the counter it waits for can only fall.      *)
(***************************************************************************)
THEOREM SendsFall == Spec => SendsOnlyFall
<1>1. ASSUME TypedInv, [Next]_vars, rtdStopped, NEW q \in Pushers
      PROVE  sendWG'[q] <= sendWG[q]
  <2> DEFINE Stay == sendWG' = sendWG
  <2>1. sendWG[q] \in Nat
    BY <1>1, BoundsAssumption DEF TypedInv, TypeOK
  <2>2. ASSUME NEW p \in Pushers, PusherStep(p)
        PROVE  sendWG'[q] <= sendWG[q]
    <3>1. ~ \E n \in 1 .. MaxTopics : BeginSend(p, n)
      BY <1>1 DEF BeginSend, Admits
    <3>2. CASE SendReturns(p)
      BY <2>1, <3>2 DEF SendReturns
    <3>3. CASE EndSend(p)
      <4>1. sendWG' = [sendWG EXCEPT ![p] = sendWG[p] - 1]
        BY <3>3 DEF EndSend
      <4>2. DOMAIN sendWG = Pushers
        BY <1>1 DEF TypedInv, TypeOK
      <4>3. CASE p = q
        BY <2>1, <4>1, <4>2, <4>3
      <4>4. CASE p # q
        BY <2>1, <4>1, <4>2, <4>4
      <4> QED  BY <4>3, <4>4
    <3> QED  BY <2>2, <3>1, <3>2, <3>3 DEF PusherStep
  <2>3. CASE SignalShutdown \/ ExcelDies \/ MainStep \/ WatcherStep
    <3>1. Stay
      BY <2>3 DEF SignalShutdown, ExcelDies, MainStep, SetClient,
         StartWorkerStore, StartWorkerSpawn, StartPool, WaitReturns, DrainClose,
         DrainFinished, DrainTimedOut, MainShutsDown, MainReturns, WatcherStep,
         WatcherOpens, WatcherWakes, WatcherShutsDown, WatcherExits, ClaimOnce,
         rtdVars
    <3> QED  BY <2>1, <3>1
  <2>4. CASE ShutdownStep \/ FlusherStep
    <3>1. Stay
      BY <2>4 DEF ShutdownStep, StopLatch, StopSignal, StopReturns,
         RtdStopReturns, RtdStopLatch, Decide, CloseBegins, CloseUnmaps,
         FlusherStep, FlusherPreCheck, FlusherStops, FlusherReceives,
         FlushBegins, FlushEnds, rtdVars
    <3> QED  BY <2>1, <3>1
  <2>5. CASE \/ \E d \in Dispatchers : DispatcherStep(d)
             \/ \E w \in Workers : WorkerStep(w)
             \/ \E c \in Procs : ResultStep(c)
    <3>1. Stay
      BY <2>5 DEF DispatcherStep, DispatchSync, SyncReturns, Submit, WorkerStep,
         TakeJob, WorkerLeaves, ResultStep, QueueResultCheck, QueueResultSend,
         rtdVars
    <3> QED  BY <2>1, <3>1
  <2>6. CASE UNCHANGED vars
    BY <2>1, <2>6 DEF vars, rtdVars
  <2> QED  BY <1>1, <2>2, <2>3, <2>4, <2>5, <2>6 DEF Next, Running, Gone
<1>2. TypedInv /\ [Next]_vars =>
        [rtdStopped => \A p \in Pushers : sendWG'[p] <= sendWG[p]]_vars
  BY <1>1
<1> QED  BY <1>2, TypedInit, TypedStep, PTL DEF Spec, SendsOnlyFall
-----------------------------------------------------------------------------
(***************************************************************************)
(* The result of a handle is at one place at a time: its job in the pool's *)
(* queue, the goroutine that runs it, AsyncBatcher's queue, the batch      *)
(* before its flush, or a flush that has carried it.                       *)
(***************************************************************************)
In(s, h) == \E i \in DOMAIN s : s[i] = h
Once(s) == \A i, j \in DOMAIN s : s[i] \in Handles /\ s[i] = s[j] => i = j

Held(h) == \E c \in Procs : job[c] = h
Batched(h) == flusher # "flush" /\ In(batch, h)

OnePlace(h) ==
    /\ In(jobs, h) => ~Held(h) /\ ~In(queue, h) /\ ~Batched(h) /\ flushed[h] = 0
    /\ Held(h) => ~In(queue, h) /\ ~Batched(h) /\ flushed[h] = 0
    /\ In(queue, h) => ~Batched(h) /\ flushed[h] = 0
    /\ Batched(h) => flushed[h] = 0

AnyPlace(h) == In(jobs, h) \/ Held(h) \/ In(queue, h) \/ Batched(h) \/ flushed[h] > 0

HeldOnce == \A c, d \in Procs : job[c] \in Handles /\ job[c] = job[d] => c = d

HandleInv ==
    /\ Once(jobs) /\ Once(queue) /\ Once(batch) /\ HeldOnce
    /\ \A h \in Handles : OnePlace(h) /\ (AnyPlace(h) => h \in issued)
    /\ FlushedOnce

LEMMA InAppend ==
    ASSUME NEW S, NEW s \in Seq(S), NEW e \in S
    PROVE  /\ \A h : In(Append(s, e), h) <=> In(s, h) \/ h = e
           /\ Once(s) /\ (e \in Handles => ~In(s, e)) => Once(Append(s, e))
<1> DEFINE n == Len(s)
           t == Append(s, e)
<1>1. /\ n \in Nat /\ DOMAIN s = 1 .. n /\ DOMAIN t = 1 .. n + 1
      /\ \A i \in 1 .. n : t[i] = s[i]
      /\ t[n + 1] = e
  BY AppendProperties, LenProperties
<1> HIDE DEF n, t
<1>2. \A i \in DOMAIN t : (i \in DOMAIN s /\ t[i] = s[i]) \/ (i = n + 1 /\ t[i] = e)
  BY <1>1
<1>3. \A i \in DOMAIN s : i \in DOMAIN t /\ t[i] = s[i]
  BY <1>1
<1>4. n + 1 \in DOMAIN t
  BY <1>1
<1>5. \A h : In(t, h) <=> In(s, h) \/ h = e
  BY <1>1, <1>2, <1>3, <1>4 DEF In
<1>6. Once(s) /\ (e \in Handles => ~In(s, e)) => Once(t)
  BY <1>2 DEF Once, In
<1> QED  BY <1>5, <1>6 DEF t

LEMMA InTail ==
    ASSUME NEW S, NEW s \in Seq(S), s # <<>>
    PROVE  /\ \A h : In(s, h) <=> h = Head(s) \/ In(Tail(s), h)
           /\ Once(s) => Once(Tail(s)) /\ (Head(s) \in Handles => ~In(Tail(s), Head(s)))
<1> DEFINE n == Len(s)
           t == Tail(s)
<1>1. /\ n \in Nat \ {0} /\ DOMAIN s = 1 .. n /\ Head(s) = s[1]
      /\ DOMAIN t = 1 .. n - 1 /\ \A i \in 1 .. n - 1 : t[i] = s[i + 1]
  BY HeadTailProperties, LenProperties, EmptySeq
<1> HIDE DEF n, t
<1>2. \A i \in DOMAIN s : i = 1 \/ (i - 1 \in DOMAIN t /\ t[i - 1] = s[i])
  BY <1>1
<1>3. \A i \in DOMAIN t : i + 1 \in DOMAIN s /\ i + 1 # 1 /\ t[i] = s[i + 1]
  BY <1>1
<1>4. 1 \in DOMAIN s
  BY <1>1
<1>5. \A h : In(s, h) <=> h = Head(s) \/ In(t, h)
  BY <1>1, <1>2, <1>3, <1>4 DEF In
<1>6. ASSUME Once(s) PROVE Once(t)
  <2> SUFFICES ASSUME NEW i \in DOMAIN t, NEW j \in DOMAIN t, t[i] \in Handles, t[i] = t[j]
               PROVE  i = j
    BY DEF Once
  <2>1. i + 1 = j + 1
    BY <1>3, <1>6 DEF Once
  <2> QED  BY <1>1, <2>1
<1>7. ASSUME Once(s), Head(s) \in Handles PROVE ~In(t, Head(s))
  BY <1>1, <1>3, <1>4, <1>7 DEF Once, In
<1> QED  BY <1>5, <1>6, <1>7 DEF t

\* A flush carries each result of its batch once.
LEMMA CountOnce ==
    ASSUME TypeOK, Once(batch), NEW h \in Handles
    PROVE  Cardinality({i \in DOMAIN batch : batch[i] = h}) = IF In(batch, h) THEN 1 ELSE 0
<1>1. CASE In(batch, h)
  <2>1. PICK i \in DOMAIN batch : batch[i] = h
    BY <1>1 DEF In
  <2>2. {j \in DOMAIN batch : batch[j] = h} = {i}
    BY <2>1 DEF Once
  <2> QED  BY <1>1, <2>2, FS_Singleton
<1>2. CASE ~In(batch, h)
  <2>1. {j \in DOMAIN batch : batch[j] = h} = {}
    BY <1>2 DEF In
  <2> QED  BY <1>2, <2>1, FS_EmptySet
<1> QED  BY <1>1, <1>2

LEMMA HandleInit == Init => HandleInv
<1> SUFFICES ASSUME Init PROVE HandleInv
  OBVIOUS
<1>1. jobs = <<>> /\ queue = <<>> /\ batch = <<>> /\ job = [c \in Procs |-> None]
      /\ flushed = [h \in Handles |-> 0] /\ flusher = "none"
  BY DEF Init
<1>2. Once(jobs) /\ Once(queue) /\ Once(batch)
  BY <1>1 DEF Once
<1>3. \A h \in Handles : ~In(jobs, h) /\ ~Held(h) /\ ~In(queue, h) /\ ~In(batch, h)
                         /\ flushed[h] = 0
  BY <1>1, JobsAssumption DEF In, Held
<1>4. HeldOnce
  BY <1>1, JobsAssumption DEF HeldOnce
<1> QED  BY <1>2, <1>3, <1>4 DEF HandleInv, OnePlace, AnyPlace, Batched, FlushedOnce

\* Steps that move no result.
LEMMA HandleUnmoved ==
    ASSUME HandleInv, UNCHANGED <<job, jobs, queue, batch, flushed, issued>>,
           flusher = "flush" <=> flusher' = "flush"
    PROVE  HandleInv'
BY DEF HandleInv, HeldOnce, OnePlace, AnyPlace, Held, Batched, FlushedOnce, In, Once

LEMMA HandleStep == TypedInv /\ HandleInv /\ [Next]_vars => HandleInv'
<1> SUFFICES ASSUME TypedInv, HandleInv, [Next]_vars PROVE HandleInv'
  OBVIOUS
<1>0. /\ TypeOK /\ JobTyped /\ BatchReset
      /\ Once(jobs) /\ Once(queue) /\ Once(batch) /\ HeldOnce
      /\ \A h \in Handles : OnePlace(h) /\ (AnyPlace(h) => h \in issued)
      /\ \A h \in Handles : flushed[h] \in Nat /\ flushed[h] <= 1
  BY DEF TypedInv, TypeOK, HandleInv, FlushedOnce
<1>t. /\ jobs \in Seq(Jobs) /\ queue \in Seq(Handles) /\ batch \in Seq(Handles)
      /\ job \in [Procs -> Jobs \cup {None}]
  BY <1>0 DEF TypeOK
<1> USE DEF serveVars, shutVars, hostVars, lifeVars, endVars, drainVars, segVars,
            asyncVars, gateVars, flushVars, rtdVars, poolVars
<1>1. CASE SignalShutdown \/ ExcelDies
  BY <1>1, HandleUnmoved DEF SignalShutdown, ExcelDies
<1>2. CASE MainStep
  BY <1>0, <1>2, HandleUnmoved
  DEF MainStep, SetClient, StartWorkerStore, StartWorkerSpawn, StartPool, WaitReturns,
      DrainClose, DrainFinished, DrainTimedOut, MainShutsDown, ClaimOnce, MainReturns,
      BatchReset
<1>3. CASE WatcherStep
  BY <1>3, HandleUnmoved
  DEF WatcherStep, WatcherOpens, WatcherWakes, WatcherShutsDown, ClaimOnce, WatcherExits
<1>4. CASE ShutdownStep
  BY <1>4, HandleUnmoved
  DEF ShutdownStep, StopLatch, StopSignal, StopReturns, RtdStopReturns, RtdStopLatch,
      Decide, CloseBegins, CloseUnmaps
<1>5. CASE FlusherPreCheck \/ FlusherStops
  BY <1>5, HandleUnmoved DEF FlusherPreCheck, FlusherStops
<1>6. CASE FlusherReceives
  <2>1. /\ queue # <<>> /\ queue' = Tail(queue) /\ batch' = Append(batch, Head(queue))
        /\ flusher # "flush" /\ flusher' = "drain" /\ UNCHANGED <<job, jobs, flushed, issued>>
    BY <1>6 DEF FlusherReceives
  <2> DEFINE e == Head(queue)
  <2>2. e \in Handles /\ In(queue, e)
    <3>1. e \in Handles
      BY <1>t, <2>1, HeadTailProperties
    <3> QED  BY <1>t, <2>1, <3>1, InTail
  <2>3. /\ \A h : In(queue, h) <=> h = e \/ In(queue', h)
        /\ Once(queue') /\ ~In(queue', e)
    BY <1>0, <1>t, <2>1, <2>2, InTail
  <2> HIDE DEF e
  <2>4. ~In(batch, e)
    BY <1>0, <2>1, <2>2 DEF OnePlace, Batched
  <2>5. /\ \A h : In(batch', h) <=> In(batch, h) \/ h = e
        /\ Once(batch')
    BY <1>0, <1>t, <2>1, <2>2, <2>4, InAppend DEF e
  <2>6. ASSUME NEW h \in Handles PROVE OnePlace(h)' /\ (AnyPlace(h)' => h \in issued')
    <3>1. OnePlace(h) /\ (AnyPlace(h) => h \in issued)
      BY <1>0
    <3>2. /\ In(jobs', h) <=> In(jobs, h)
          /\ (\E c \in Procs : job'[c] = h) <=> Held(h)
          /\ flushed'[h] = flushed[h]
      BY <2>1 DEF Held
    <3>3. In(queue, h)' => In(queue, h) /\ h # e
      BY <2>3
    <3>4. h = e => In(queue, h)
      BY <2>2
    <3>5. Batched(h)' => Batched(h) \/ h = e
      BY <2>1, <2>5 DEF Batched
    <3>6. Held(h)' <=> Held(h)
      BY <3>2 DEF Held
    <3>7. In(jobs, h)' <=> In(jobs, h)
      BY <3>2
    <3>8. flushed[h]' = flushed[h] /\ issued' = issued
      BY <2>1, <3>2
    <3>9. OnePlace(h)'
      BY <3>1, <3>3, <3>4, <3>5, <3>6, <3>7, <3>8 DEF OnePlace
    <3>10. AnyPlace(h)' => AnyPlace(h)
      BY <3>3, <3>4, <3>5, <3>6, <3>7, <3>8 DEF AnyPlace
    <3> QED  BY <3>1, <3>8, <3>9, <3>10
  <2> QED  BY <1>0, <2>1, <2>3, <2>5, <2>6
           DEF HandleInv, HeldOnce, FlushedOnce, Once
<1>7. CASE FlushBegins
  <2>1. /\ flusher = "drain" /\ flusher' = "flush"
        /\ UNCHANGED <<job, jobs, queue, batch, issued>>
        /\ \A h \in Handles : flushed'[h] = flushed[h] + (IF In(batch, h) THEN 1 ELSE 0)
    BY <1>0, <1>7, CountOnce DEF FlushBegins
  <2>2. ASSUME NEW h \in Handles
        PROVE  OnePlace(h)' /\ (AnyPlace(h)' => h \in issued') /\ flushed'[h] <= 1
    <3>1. OnePlace(h) /\ (AnyPlace(h) => h \in issued) /\ flushed[h] \in Nat /\ flushed[h] <= 1
      BY <1>0
    <3>2. CASE In(batch, h)
      <4>1. /\ ~In(jobs, h) /\ ~Held(h) /\ ~In(queue, h) /\ flushed[h] = 0 /\ h \in issued
        BY <2>1, <3>1, <3>2 DEF OnePlace, AnyPlace, Batched
      <4>2. flushed'[h] = 1
        BY <2>1, <3>2, <4>1
      <4> QED  BY <2>1, <4>1, <4>2 DEF OnePlace, AnyPlace, Batched, Held, In
    <3>3. CASE ~In(batch, h)
      <4>1. flushed'[h] = flushed[h]
        BY <2>1, <3>1, <3>3
      <4> QED  BY <2>1, <3>1, <3>3, <4>1 DEF OnePlace, AnyPlace, Batched, Held, In
    <3> QED  BY <3>2, <3>3
  <2> QED  BY <1>0, <2>1, <2>2 DEF HandleInv, HeldOnce, FlushedOnce, Once
<1>8. CASE FlushEnds
  <2>1. /\ batch' = <<>> /\ flusher' = "top" /\ flusher = "flush"
        /\ UNCHANGED <<job, jobs, queue, flushed, issued>>
    BY <1>8 DEF FlushEnds
  <2>2. Once(batch') /\ \A h : ~In(batch', h)
    BY <2>1 DEF Once, In
  <2>3. ASSUME NEW h \in Handles PROVE OnePlace(h)' /\ (AnyPlace(h)' => h \in issued')
    BY <1>0, <2>1, <2>2 DEF OnePlace, AnyPlace, Batched, Held, In
  <2> QED  BY <1>0, <2>1, <2>2, <2>3 DEF HandleInv, HeldOnce, FlushedOnce, Once
<1>9. ASSUME NEW p \in Pushers, PusherStep(p) PROVE HandleInv'
  BY <1>9, HandleUnmoved DEF PusherStep, BeginSend, SendReturns, EndSend
<1>10. ASSUME NEW d \in Dispatchers, DispatchSync(d) \/ SyncReturns(d) PROVE HandleInv'
  BY <1>10, HandleUnmoved DEF DispatchSync, SyncReturns
<1>11. ASSUME NEW d \in Dispatchers, NEW j \in Jobs, Submit(d, j) PROVE HandleInv'
  <2>1. /\ j \notin issued /\ issued' = issued \cup ({j} \cap Handles)
        /\ UNCHANGED <<queue, batch, flushed, flusher>>
    BY <1>11 DEF Submit
  <2>2. j \in Handles => ~AnyPlace(j)
    BY <1>0, <2>1
  <2>3. CASE jobs' = Append(jobs, j) /\ UNCHANGED job
    <3>1. /\ \A h : In(jobs', h) <=> In(jobs, h) \/ h = j
          /\ Once(jobs')
      BY <1>0, <1>t, <1>11, <2>2, <2>3, InAppend DEF AnyPlace
    <3>2. ASSUME NEW h \in Handles PROVE OnePlace(h)' /\ (AnyPlace(h)' => h \in issued')
      <4>1. OnePlace(h) /\ (AnyPlace(h) => h \in issued) /\ flushed[h] \in Nat
        BY <1>0
      <4>2. /\ (\E c \in Procs : job'[c] = h) <=> Held(h)
            /\ In(queue', h) <=> In(queue, h)
            /\ In(batch', h) <=> In(batch, h)
        BY <2>1, <2>3 DEF Held
      <4> QED  BY <2>1, <2>2, <3>1, <4>1, <4>2 DEF OnePlace, AnyPlace, Batched, Held, In
    <3> QED  BY <1>0, <2>1, <2>3, <3>1, <3>2 DEF HandleInv, HeldOnce, FlushedOnce, Once
  <2>4. CASE j \in Handles /\ job' = [job EXCEPT ![d] = j] /\ UNCHANGED jobs
    <3>1. d \in Procs
      BY <1>11 DEF Procs
    <3>2. /\ job'[d] = j /\ \A c \in Procs \ {d} : job'[c] = job[c]
      BY <1>t, <2>4, <3>1
    <3>3. \A c \in Procs : job[c] # j
      BY <2>2, <2>4 DEF AnyPlace, Held
    <3>4. HeldOnce'
      BY <1>0, <3>2, <3>3 DEF HeldOnce
    <3>5. ASSUME NEW h \in Handles PROVE OnePlace(h)' /\ (AnyPlace(h)' => h \in issued')
      <4>1. OnePlace(h) /\ (AnyPlace(h) => h \in issued) /\ flushed[h] \in Nat
        BY <1>0
      <4>2. (\E c \in Procs : job'[c] = h) => Held(h) \/ h = j
        BY <3>2 DEF Held
      <4>3. /\ In(jobs', h) <=> In(jobs, h)
            /\ In(queue', h) <=> In(queue, h)
            /\ In(batch', h) <=> In(batch, h)
        BY <2>1, <2>4
      <4> QED  BY <2>1, <2>2, <4>1, <4>2, <4>3 DEF OnePlace, AnyPlace, Batched, Held, In
    <3> QED  BY <1>0, <2>1, <2>4, <3>4, <3>5 DEF HandleInv, FlushedOnce, Once
  <2>5. CASE j = Event /\ UNCHANGED <<job, jobs>>
    <3>1. issued' = issued
      BY <2>1, <2>5, JobsAssumption
    <3> QED  BY <2>1, <2>5, <3>1, HandleUnmoved
  <2> QED  BY <1>11, <2>3, <2>4, <2>5 DEF Submit
<1>12. ASSUME NEW w \in Workers, TakeJob(w) PROVE HandleInv'
  <2> DEFINE e == Head(jobs)
  <2>1. /\ jobs # <<>> /\ jobs' = Tail(jobs) /\ job' = [job EXCEPT ![w] = e]
        /\ UNCHANGED <<queue, batch, flushed, flusher, issued>> /\ w \in Procs
    BY <1>12 DEF TakeJob, Procs
  <2>2. /\ \A h : In(jobs, h) <=> h = e \/ In(jobs', h)
        /\ Once(jobs') /\ (e \in Handles => ~In(jobs', e))
    BY <1>0, <1>t, <2>1, InTail
  <2> HIDE DEF e
  <2>3. /\ job'[w] = e /\ \A c \in Procs \ {w} : job'[c] = job[c]
    BY <1>t, <2>1
  <2>4. e \in Handles => \A c \in Procs : job[c] # e
    BY <1>0, <2>2 DEF OnePlace, Held
  <2>5. HeldOnce'
    BY <1>0, <2>3, <2>4 DEF HeldOnce
  <2>6. ASSUME NEW h \in Handles PROVE OnePlace(h)' /\ (AnyPlace(h)' => h \in issued')
    <3>1. OnePlace(h) /\ (AnyPlace(h) => h \in issued) /\ flushed[h] \in Nat
      BY <1>0
    <3>2. (\E c \in Procs : job'[c] = h) => Held(h) \/ h = e
      BY <2>3 DEF Held
    <3>3. /\ In(queue', h) <=> In(queue, h)
          /\ In(batch', h) <=> In(batch, h)
      BY <2>1
    <3> QED  BY <2>1, <2>2, <3>1, <3>2, <3>3 DEF OnePlace, AnyPlace, Batched, Held, In
  <2> QED  BY <1>0, <2>1, <2>2, <2>5, <2>6 DEF HandleInv, FlushedOnce, Once
<1>13. ASSUME NEW w \in Workers, WorkerLeaves(w) PROVE HandleInv'
  BY <1>13, HandleUnmoved DEF WorkerLeaves
<1>14. ASSUME NEW c \in Procs, Finished(c),
              UNCHANGED <<jobs, batch, flushed, flusher, issued>>, Once(queue'),
              \A h \in Handles : In(queue', h) => In(queue, h) \/ job[c] = h
       PROVE  HandleInv'
  <2>1. job'[c] = None /\ \A d \in Procs \ {c} : job'[d] = job[d]
    BY <1>t, <1>14 DEF Finished
  <2>2. HeldOnce'
    BY <1>0, <2>1, JobsAssumption DEF HeldOnce
  <2>3. ASSUME NEW h \in Handles PROVE OnePlace(h)' /\ (AnyPlace(h)' => h \in issued')
    <3>1. OnePlace(h) /\ (AnyPlace(h) => h \in issued) /\ flushed[h] \in Nat
      BY <1>0
    <3>2. (\E d \in Procs : job'[d] = h) => Held(h) /\ job[c] # h
      <4>1. ASSUME NEW d \in Procs, job'[d] = h PROVE Held(h) /\ job[c] # h
        <5>1. d # c /\ job[d] = h
          BY <2>1, <4>1, JobsAssumption
        <5> QED  BY <1>0, <5>1 DEF Held, HeldOnce
      <4> QED  BY <4>1
    <3>3. job[c] = h => Held(h)
      BY DEF Held
    <3>4. /\ In(jobs', h) <=> In(jobs, h)
          /\ In(batch', h) <=> In(batch, h)
      BY <1>14
    <3> QED  BY <1>14, <3>1, <3>2, <3>3, <3>4 DEF OnePlace, AnyPlace, Batched, Held, In
  <2> QED  BY <1>0, <1>14, <2>2, <2>3 DEF HandleInv, FlushedOnce, Once
<1>15. ASSUME NEW c \in Procs, QueueResultCheck(c) PROVE HandleInv'
  <2>1. CASE Finished(c)
    <3>1. UNCHANGED <<jobs, queue, batch, flushed, flusher, issued>>
      BY <1>15 DEF QueueResultCheck
    <3>2. Once(queue') /\ \A h \in Handles : In(queue', h) => In(queue, h) \/ job[c] = h
      BY <1>0, <3>1
    <3> QED  BY <1>14, <2>1, <3>1, <3>2
  <2>2. CASE UNCHANGED job
    BY <1>15, <2>2, HandleUnmoved DEF QueueResultCheck
  <2> QED  BY <1>15, <2>1, <2>2 DEF QueueResultCheck
<1>16. ASSUME NEW c \in Procs, QueueResultSend(c) PROVE HandleInv'
  <2>1. /\ Finished(c) /\ UNCHANGED <<jobs, batch, flushed, flusher, issued>>
        /\ queue' = Append(queue, job[c]) \/ queue' = queue
        /\ job[c] \in Handles
    BY <1>0, <1>16 DEF QueueResultSend, JobTyped
  <2>2. ~In(queue, job[c])
    BY <1>0, <2>1 DEF OnePlace, Held
  <2>3. /\ \A h : In(Append(queue, job[c]), h) <=> In(queue, h) \/ h = job[c]
        /\ Once(Append(queue, job[c]))
    BY <1>0, <1>t, <2>1, <2>2, InAppend
  <2>4. Once(queue') /\ \A h \in Handles : In(queue', h) => In(queue, h) \/ job[c] = h
    BY <1>0, <2>1, <2>3
  <2> QED  BY <1>14, <2>1, <2>4
<1>17. CASE UNCHANGED vars
  BY <1>17, HandleUnmoved DEF vars
<1> QED  BY <1>1, <1>2, <1>3, <1>4, <1>5, <1>6, <1>7, <1>8, <1>9, <1>10, <1>11, <1>12,
            <1>13, <1>15, <1>16, <1>17
         DEF Next, Running, Gone, FlusherStep, DispatcherStep, WorkerStep, ResultStep

(***************************************************************************)
(* AsyncBatcher and JobPool, for any number of goroutines and handles: the *)
(* result of a handle is carried by at most one flush, whether a worker of *)
(* the pool ran its job or the dispatcher answered that it was busy.       *)
(***************************************************************************)
THEOREM ResultsFlushedOnce == Spec => []FlushedOnce
<1>1. TypedInv /\ HandleInv => FlushedOnce
  BY DEF HandleInv
<1>2. Init => TypedInv /\ HandleInv
  BY TypedInit, HandleInit
<1>3. TypedInv /\ HandleInv /\ [Next]_vars => TypedInv' /\ HandleInv'
  BY TypedStep, HandleStep
<1> QED  BY <1>1, <1>2, <1>3, PTL DEF Spec
-----------------------------------------------------------------------------
(***************************************************************************)
(* AsyncFlush: every result waits at one place of the stack, or has had    *)
(* its one outcome.                                                        *)
(***************************************************************************)

\* The stack w of calls has a result of h, and none of it twice.
InBatch(b, h) == \E i \in DOMAIN b : b[i].handle = h
WaitsIn(w, h) == \E k \in DOMAIN w : InBatch(w[k].batch, h)
OnceIn(w) ==
  \A k, l \in DOMAIN w : \A i \in DOMAIN w[k].batch, j \in DOMAIN w[l].batch :
    w[k].batch[i].handle = w[l].batch[j].handle => k = l /\ i = j

FlushTyped ==
  /\ limit \in Limits
  /\ size \in [BatchHandles -> ResultSizes]
  /\ work \in Seq(Call) /\ OnceIn(work)
  /\ outcome \in [BatchHandles -> Seq({"value", "lost", "diagnostic", "dropped"})]
  /\ largest \in Nat /\ largest <= limit

\* A call has results as they were queued, or the diagnostic of one that does not fit.
AsQueued(c) ==
  IF c.substituted
  THEN /\ Len(c.batch) = 1 /\ c.batch[1].bytes = DiagnosticSize
       /\ ~FitsAlone(c.batch[1].handle)
  ELSE \A i \in DOMAIN c.batch : c.batch[i].bytes = size[c.batch[i].handle]

CallsAsQueued == \A k \in DOMAIN work : AsQueued(work[k])

\* What may become of a result.
Outcomes(h) ==
  IF FitsAlone(h) THEN {"value", "lost"}
  ELSE IF Framing + DiagnosticSize <= limit THEN {"diagnostic", "lost"}
  ELSE {"dropped"}

Done(h) == Len(outcome[h]) = 1 /\ outcome[h][1] \in Outcomes(h)

WaitsOrDone ==
  \A h \in BatchHandles : IF WaitsIn(work, h) THEN outcome[h] = <<>> ELSE Done(h)

AsyncFlushInv == FlushTyped /\ CallsAsQueued /\ WaitsOrDone

(***************************************************************************)
(* The size of a payload: what any one of its results takes, and more.     *)
(***************************************************************************)

\* SizesUpTo is the function its recursion describes.
LEMMA SizesUpToIs ==
  ASSUME NEW b \in Seq(Result)
  PROVE  SizesUpTo(b) = [i \in 0 .. Len(b) |->
                           IF i = 0 THEN Framing ELSE SizesUpTo(b)[i - 1] + b[i].bytes]
<1> DEFINE Sums(n, f) == f = [i \in 0 .. n |-> IF i = 0 THEN Framing ELSE f[i - 1] + b[i].bytes]
           T == {n \in Nat : \E f : Sums(n, f)}
<1>1. 0 \in T
  <2>1. Sums(0, [i \in 0 .. 0 |-> Framing])
    OBVIOUS
  <2> QED
    BY <2>1
<1>2. ASSUME NEW n \in T PROVE n + 1 \in T
  <2>1. PICK f : Sums(n, f)
    OBVIOUS
  <2> DEFINE g == [i \in 0 .. n + 1 |-> IF i = n + 1 THEN f[n] + b[n + 1].bytes ELSE f[i]]
             h == [i \in 0 .. n + 1 |-> IF i = 0 THEN Framing ELSE g[i - 1] + b[i].bytes]
  <2>2. ASSUME NEW i \in 0 .. n + 1 PROVE g[i] = h[i]
    <3>1. CASE i = 0
      <4>1. f[0] = Framing
        BY <2>1
      <4> QED
        BY <3>1, <4>1
    <3>2. CASE i = n + 1
      BY <3>2
    <3>3. CASE i \in 1 .. n
      <4>1. f[i] = f[i - 1] + b[i].bytes
        BY <2>1, <3>3
      <4> QED
        BY <3>3, <4>1
    <3> QED
      BY <3>1, <3>2, <3>3
  <2>3. g = h
    BY <2>2
  <2>4. Sums(n + 1, g)
    BY <2>3
  <2> HIDE DEF g, h
  <2>5. \E k : Sums(n + 1, k)
    BY <2>4
  <2>6. n + 1 \in Nat
    OBVIOUS
  <2> HIDE DEF Sums
  <2> QED
    BY <2>5, <2>6
<1>3. Nat \subseteq T
  <2> HIDE DEF Sums
  <2> SUFFICES T \in SUBSET Nat /\ 0 \in T /\ \A n \in T : n + 1 \in T
    BY AllNaturals
  <2> QED
    BY <1>1, <1>2
<1>4. \E f : Sums(Len(b), f)
  BY <1>3
<1> QED
  BY <1>4 DEF SizesUpTo

LEMMA SizesGrow ==
  ASSUME NEW b \in Seq(Result)
  PROVE  \A n \in 0 .. Len(b) :
           /\ SizesUpTo(b)[n] \in Nat
           /\ \A j \in 1 .. n : Framing + b[j].bytes <= SizesUpTo(b)[n]
<1> DEFINE Grows(n) == /\ SizesUpTo(b)[n] \in Nat /\ Framing <= SizesUpTo(b)[n]
                       /\ \A j \in 1 .. n : Framing + b[j].bytes <= SizesUpTo(b)[n]
           T == {n \in Nat : n <= Len(b) => Grows(n)}
<1>0. Framing \in Nat /\ Len(b) \in Nat /\ \A i \in 1 .. Len(b) : b[i].bytes \in Nat
  <2>1. \A i \in 1 .. Len(b) : b[i] \in Result
    BY ElementOfSeq
  <2> QED
    BY <2>1, SizesAssumption DEF Result
<1>1. 0 \in T
  <2>1. SizesUpTo(b)[0] = Framing
    BY <1>0, SizesUpToIs
  <2> QED
    BY <1>0, <2>1
<1>2. ASSUME NEW n \in T PROVE n + 1 \in T
  <2> SUFFICES ASSUME n + 1 <= Len(b) PROVE Grows(n + 1)
    OBVIOUS
  <2>1. Grows(n) /\ n \in Nat
    BY <1>0
  <2>2. SizesUpTo(b)[n + 1] = SizesUpTo(b)[n] + b[n + 1].bytes
    <3>1. n + 1 \in 0 .. Len(b) /\ n + 1 # 0 /\ (n + 1) - 1 = n
      BY <1>0, <2>1
    <3> QED
      BY <3>1, SizesUpToIs
  <2>3. b[n + 1].bytes \in Nat
    BY <1>0, <2>1
  <2> QED
    BY SMTT(30), <1>0, <2>1, <2>2, <2>3
<1>3. Nat \subseteq T
  <2> HIDE DEF Grows
  <2>1. T \in SUBSET Nat /\ 0 \in T /\ \A n \in T : n + 1 \in T
    BY <1>1, <1>2
  <2> HIDE DEF T
  <2> QED
    BY <2>1, AllNaturals
<1> QED
  BY <1>0, <1>3

\* A payload takes at least what each of its results takes, and a single one takes that.
LEMMA PayloadSizes ==
  ASSUME NEW b \in Seq(Result)
  PROVE  /\ PayloadSize(b) \in Nat
         /\ \A j \in 1 .. Len(b) : Framing + b[j].bytes <= PayloadSize(b)
         /\ Len(b) = 1 => PayloadSize(b) = Framing + b[1].bytes
<1>1. Len(b) \in Nat
  OBVIOUS
<1>2. ASSUME Len(b) = 1 PROVE PayloadSize(b) = Framing + b[1].bytes
  <2>1. SizesUpTo(b)[1] = SizesUpTo(b)[0] + b[1].bytes /\ SizesUpTo(b)[0] = Framing
    <3>1. 0 \in 0 .. Len(b) /\ 1 \in 0 .. Len(b)
      BY <1>2
    <3>2. SizesUpTo(b)[0] = Framing
      BY <3>1, SizesUpToIs
    <3>3. SizesUpTo(b)[1] = SizesUpTo(b)[1 - 1] + b[1].bytes
      BY <3>1, SizesUpToIs
    <3> QED
      BY <3>2, <3>3
  <2> QED
    BY <1>2, <2>1 DEF PayloadSize
<1> QED
  BY <1>1, <1>2, SizesGrow DEF PayloadSize

(***************************************************************************)
(* The stack of calls: what its top and the rest of it have.               *)
(***************************************************************************)

\* The top of the stack and the rest have different results.
LEMMA TopAndRest ==
  ASSUME NEW w \in Seq(Call), w # <<>>, OnceIn(w), NEW h
  PROVE  /\ WaitsIn(w, h) <=> InBatch(Head(w).batch, h) \/ WaitsIn(Tail(w), h)
         /\ ~(InBatch(Head(w).batch, h) /\ WaitsIn(Tail(w), h))
<1>1. /\ Len(w) \in Nat \ {0} /\ DOMAIN w = 1 .. Len(w) /\ Head(w) = w[1]
      /\ DOMAIN Tail(w) = 1 .. Len(w) - 1
      /\ \A k \in 1 .. Len(w) - 1 : Tail(w)[k] = w[k + 1]
  BY HeadTailProperties, LenProperties, EmptySeq
<1>2. ASSUME WaitsIn(w, h) PROVE InBatch(Head(w).batch, h) \/ WaitsIn(Tail(w), h)
  <2>1. PICK k \in 1 .. Len(w) : InBatch(w[k].batch, h)
    BY <1>1, <1>2 DEF WaitsIn
  <2>2. k = 1 \/ (k - 1 \in 1 .. Len(w) - 1 /\ Tail(w)[k - 1] = w[k])
    BY <1>1
  <2> QED
    BY <1>1, <2>1, <2>2 DEF WaitsIn
<1>3. InBatch(Head(w).batch, h) => WaitsIn(w, h)
  BY <1>1 DEF WaitsIn
<1>4. ASSUME NEW k \in DOMAIN Tail(w), InBatch(Tail(w)[k].batch, h)
      PROVE  WaitsIn(w, h) /\ ~InBatch(Head(w).batch, h)
  <2>1. k + 1 \in DOMAIN w /\ k + 1 # 1 /\ 1 \in DOMAIN w /\ InBatch(w[k + 1].batch, h)
    BY <1>1, <1>4
  <2>2. ~InBatch(w[1].batch, h)
    BY <2>1 DEF OnceIn, InBatch
  <2> QED
    BY <1>1, <2>1, <2>2 DEF WaitsIn
<1> QED
  BY <1>2, <1>3, <1>4 DEF WaitsIn

\* The rest is a stack of its own.
LEMMA RestOnce ==
  ASSUME NEW w \in Seq(Call), w # <<>>, OnceIn(w)
  PROVE  /\ Head(w) \in Call /\ Tail(w) \in Seq(Call) /\ OnceIn(Tail(w))
         /\ \A k \in DOMAIN Tail(w) : \E l \in DOMAIN w : Tail(w)[k] = w[l]
         /\ 1 \in DOMAIN w /\ Head(w) = w[1]
<1>1. /\ Len(w) \in Nat \ {0} /\ DOMAIN w = 1 .. Len(w) /\ Head(w) = w[1]
      /\ DOMAIN Tail(w) = 1 .. Len(w) - 1 /\ Head(w) \in Call /\ Tail(w) \in Seq(Call)
      /\ \A k \in 1 .. Len(w) - 1 : Tail(w)[k] = w[k + 1]
  BY HeadTailProperties, LenProperties, EmptySeq
<1>2. ASSUME NEW k \in DOMAIN Tail(w), NEW l \in DOMAIN Tail(w),
             NEW i \in DOMAIN Tail(w)[k].batch, NEW j \in DOMAIN Tail(w)[l].batch,
             Tail(w)[k].batch[i].handle = Tail(w)[l].batch[j].handle
      PROVE  k = l /\ i = j
  <2>1. k + 1 \in DOMAIN w /\ l + 1 \in DOMAIN w /\ Tail(w)[k] = w[k + 1] /\ Tail(w)[l] = w[l + 1]
    BY <1>1
  <2>2. k + 1 = l + 1 /\ i = j
    BY <1>2, <2>1 DEF OnceIn
  <2> QED
    BY <1>1, <2>2
<1>3. \A k \in DOMAIN Tail(w) : k + 1 \in DOMAIN w
  BY <1>1
<1> QED
  BY <1>1, <1>2, <1>3 DEF OnceIn

\* Calls pushed on a stack that has none of their results.
LEMMA PushedOnce ==
  ASSUME NEW new \in Seq(Call), NEW w \in Seq(Call), OnceIn(new), OnceIn(w),
         \A h : ~(WaitsIn(new, h) /\ WaitsIn(w, h))
  PROVE  /\ new \o w \in Seq(Call) /\ OnceIn(new \o w)
         /\ \A h : WaitsIn(new \o w, h) <=> WaitsIn(new, h) \/ WaitsIn(w, h)
         /\ \A k \in DOMAIN (new \o w) : \/ \E l \in DOMAIN new : (new \o w)[k] = new[l]
                                         \/ \E l \in DOMAIN w : (new \o w)[k] = w[l]
<1> DEFINE n == Len(new)
           m == Len(w)
           all == new \o w
<1>1. /\ n \in Nat /\ m \in Nat /\ DOMAIN new = 1 .. n /\ DOMAIN w = 1 .. m
      /\ all \in Seq(Call) /\ DOMAIN all = 1 .. n + m
      /\ \A k \in 1 .. n + m : all[k] = IF k <= n THEN new[k] ELSE w[k - n]
  BY ConcatProperties, LenProperties
<1> HIDE DEF n, m, all
<1>2. ASSUME NEW k \in DOMAIN all
      PROVE  \/ k \in DOMAIN new /\ all[k] = new[k]
             \/ k - n \in DOMAIN w /\ all[k] = w[k - n]
  BY <1>1
<1>3. \A k \in DOMAIN new : k \in DOMAIN all /\ all[k] = new[k]
  BY <1>1
<1>4. ASSUME NEW k \in DOMAIN w PROVE k + n \in DOMAIN all /\ all[k + n] = w[k]
  BY <1>1
<1>5. \A h : WaitsIn(all, h) <=> WaitsIn(new, h) \/ WaitsIn(w, h)
  BY <1>2, <1>3, <1>4 DEF WaitsIn
<1>6. ASSUME NEW k \in DOMAIN all, NEW l \in DOMAIN all,
             NEW i \in DOMAIN all[k].batch, NEW j \in DOMAIN all[l].batch,
             all[k].batch[i].handle = all[l].batch[j].handle
      PROVE  k = l /\ i = j
  <2>1. CASE k \in DOMAIN new /\ all[k] = new[k] /\ l \in DOMAIN new /\ all[l] = new[l]
    BY <1>6, <2>1 DEF OnceIn
  <2>2. CASE k - n \in DOMAIN w /\ all[k] = w[k - n] /\ l - n \in DOMAIN w /\ all[l] = w[l - n]
    <3>1. k - n = l - n /\ i = j
      BY <1>6, <2>2 DEF OnceIn
    <3> QED
      BY <1>1, <3>1
  <2>3. ASSUME NEW p \in DOMAIN new, NEW q \in DOMAIN w,
               NEW x \in DOMAIN new[p].batch, NEW y \in DOMAIN w[q].batch
        PROVE  new[p].batch[x].handle # w[q].batch[y].handle
    <3>1. /\ WaitsIn(new, new[p].batch[x].handle)
          /\ WaitsIn(w, w[q].batch[y].handle)
      BY <2>3 DEF WaitsIn, InBatch
    <3> QED
      BY <3>1
  <2> QED
    BY <1>2, <1>6, <2>1, <2>2, <2>3
<1>7. OnceIn(all)
  BY <1>6 DEF OnceIn
<1> QED
  BY <1>1, <1>2, <1>5, <1>7 DEF all

\* The two halves of a batch have its results.
LEMMA HalvesOnce ==
  ASSUME NEW b \in Seq(Result), Len(b) > 1,
         \A i, j \in DOMAIN b : b[i].handle = b[j].handle => i = j
  PROVE  LET new == <<[batch |-> Halves(b)[1], substituted |-> FALSE],
                      [batch |-> Halves(b)[2], substituted |-> FALSE]>>
         IN  /\ new \in Seq(Call) /\ OnceIn(new)
             /\ \A h : WaitsIn(new, h) <=> InBatch(b, h)
             /\ \A k \in DOMAIN new : /\ ~new[k].substituted
                                      /\ \A i \in DOMAIN new[k].batch :
                                           \E j \in DOMAIN b : new[k].batch[i] = b[j]
<1> DEFINE mid == Len(b) \div 2
           x == SubSeq(b, 1, mid)
           y == SubSeq(b, mid + 1, Len(b))
           new == <<[batch |-> x, substituted |-> FALSE], [batch |-> y, substituted |-> FALSE]>>
<1>1. Len(b) \in Nat /\ mid \in Nat /\ mid >= 1 /\ mid < Len(b) /\ DOMAIN b = 1 .. Len(b)
  BY LenProperties
<1> HIDE DEF mid
<1>2. x \in Seq(Result) /\ DOMAIN x = 1 .. mid /\ \A i \in 1 .. mid : x[i] = b[i]
  <2>1. \A i \in 1 .. mid : b[i] \in Result
    BY <1>1, ElementOfSeq
  <2>2. /\ x \in Seq(Result) /\ Len(x) = mid
        /\ \A i \in 1 .. mid : x[i] = b[i]
    BY <1>1, <2>1, SubSeqProperties
  <2> QED
    BY <2>2, LenProperties
<1>3. /\ y \in Seq(Result) /\ DOMAIN y = 1 .. Len(b) - mid
      /\ \A i \in 1 .. Len(b) - mid : y[i] = b[mid + i]
  <2>1. \A i \in mid + 1 .. Len(b) : b[i] \in Result
    BY <1>1, ElementOfSeq
  <2> DEFINE m == mid + 1
             n == Len(b)
  <2>2. m \in Int /\ n \in Int /\ \A i \in m .. n : b[i] \in Result
    BY <1>1, <2>1
  <2>3. /\ y \in Seq(Result) /\ Len(y) = (IF m <= n THEN n - m + 1 ELSE 0)
        /\ \A i \in 1 .. n - m + 1 : y[i] = b[m + i - 1]
    <3> HIDE DEF m, n
    <3>1. /\ SubSeq(b, m, n) \in Seq(Result)
          /\ Len(SubSeq(b, m, n)) = (IF m <= n THEN n - m + 1 ELSE 0)
          /\ \A i \in 1 .. n - m + 1 : SubSeq(b, m, n)[i] = b[m + i - 1]
      BY <2>2, SubSeqProperties
    <3> QED
      BY <3>1 DEF m, n
  <2>4. m <= n /\ n - m + 1 = Len(b) - mid /\ \A i \in Nat : m + i - 1 = mid + i
    BY <1>1
  <2> HIDE DEF m, n
  <2>5. Len(y) = Len(b) - mid
    BY <2>3, <2>4
  <2>6. \A i \in 1 .. Len(b) - mid : y[i] = b[mid + i]
    BY SMTT(30), <2>3, <2>4
  <2> QED
    BY <2>3, <2>5, <2>6, LenProperties
<1> HIDE DEF x, y
<1>4. /\ new \in Seq(Call) /\ DOMAIN new = {1, 2}
      /\ new[1].batch = x /\ new[2].batch = y /\ ~new[1].substituted /\ ~new[2].substituted
  BY <1>2, <1>3 DEF Call
<1> HIDE DEF new
<1>5. OnceIn(new)
  <2>1. \A i, j \in DOMAIN x : x[i].handle = x[j].handle => i = j
    BY <1>1, <1>2
  <2>2. \A i, j \in DOMAIN y : y[i].handle = y[j].handle => i = j
    <3> SUFFICES ASSUME NEW i \in DOMAIN y, NEW j \in DOMAIN y, y[i].handle = y[j].handle
                 PROVE  i = j
      OBVIOUS
    <3>1. mid + i \in DOMAIN b /\ mid + j \in DOMAIN b
      BY <1>1, <1>3
    <3>2. mid + i = mid + j
      BY <1>3, <3>1
    <3> QED
      BY <1>1, <1>3, <3>2
  <2>3. ASSUME NEW i \in DOMAIN x, NEW j \in DOMAIN y PROVE x[i].handle # y[j].handle
    <3>1. i \in DOMAIN b /\ mid + j \in DOMAIN b /\ i # mid + j
      BY <1>1, <1>2, <1>3
    <3> QED
      BY <1>2, <1>3, <3>1
  <2> QED
    BY <1>4, <2>1, <2>2, <2>3 DEF OnceIn
<1>6. ASSUME NEW i \in DOMAIN b
      PROVE  \/ i \in DOMAIN x /\ x[i] = b[i]
             \/ i - mid \in DOMAIN y /\ y[i - mid] = b[i]
  BY <1>1, <1>2, <1>3
<1>7. \A i \in DOMAIN x : i \in DOMAIN b /\ x[i] = b[i]
  BY <1>1, <1>2
<1>8. \A i \in DOMAIN y : mid + i \in DOMAIN b /\ y[i] = b[mid + i]
  BY <1>1, <1>3
<1>9. \A h : WaitsIn(new, h) <=> InBatch(x, h) \/ InBatch(y, h)
  BY <1>4 DEF WaitsIn
<1>10. \A h : InBatch(x, h) \/ InBatch(y, h) <=> InBatch(b, h)
  BY <1>6, <1>7, <1>8 DEF InBatch
<1>11. /\ Halves(b)[1] = x /\ Halves(b)[2] = y
  BY DEF Halves, mid, x, y
<1>12. \A k \in DOMAIN new : /\ ~new[k].substituted
                             /\ \A i \in DOMAIN new[k].batch :
                                  \E j \in DOMAIN b : new[k].batch[i] = b[j]
  BY <1>4, <1>7, <1>8
<1>13. <<[batch |-> Halves(b)[1], substituted |-> FALSE],
         [batch |-> Halves(b)[2], substituted |-> FALSE]>> = new
  BY <1>11 DEF new
<1> QED
  BY <1>4, <1>5, <1>9, <1>10, <1>12, <1>13

LEMMA FlushStart == FlushInit => AsyncFlushInv
<1> SUFFICES ASSUME FlushInit PROVE AsyncFlushInv
  OBVIOUS
<1>1. PICK order \in SetToSeqs(BatchHandles) :
        work = <<[batch |-> [i \in DOMAIN order |->
                               [handle |-> order[i], bytes |-> size[order[i]]]],
                  substituted |-> FALSE]>>
  BY DEF FlushInit
<1> DEFINE n == Cardinality(BatchHandles)
           b == [i \in DOMAIN order |-> [handle |-> order[i], bytes |-> size[order[i]]]]
<1>2. n \in Nat
  BY SizesAssumption, FS_CardinalityType
<1>3. order \in [1 .. n -> BatchHandles] /\ \A i, j \in 1 .. n : i # j => order[i] # order[j]
  BY DEF SetToSeqs
<1>4. \A h \in BatchHandles : \E i \in 1 .. n : order[i] = h
  <2>1. order \in Injection(1 .. n, BatchHandles)
    BY <1>3 DEF Injection, IsInjective
  <2>2. Cardinality(1 .. n) = n
    <3>1. 1 \in Int /\ n \in Int
      BY <1>2
    <3>2. Cardinality(1 .. n) = IF 1 > n THEN 0 ELSE n - 1 + 1
      BY <3>1, FS_Interval
    <3> HIDE DEF n
    <3> QED
      BY <1>2, <3>2
  <2>3. order \in Surjection(1 .. n, BatchHandles)
    BY <2>1, <2>2, SizesAssumption, FS_Injection
  <2> QED
    BY <2>3 DEF Surjection
<1> HIDE DEF n
<1>5. size \in [BatchHandles -> ResultSizes] /\ limit \in Limits /\ largest = 0
      /\ outcome = [h \in BatchHandles |-> <<>>]
  BY DEF FlushInit
<1>6. /\ DOMAIN b = 1 .. n
      /\ \A i \in 1 .. n : /\ b[i] = [handle |-> order[i], bytes |-> size[order[i]]]
                           /\ b[i].handle = order[i] /\ b[i].bytes = size[order[i]]
  BY <1>3
<1>7. b \in Seq(Result)
  <2>1. \A i \in 1 .. n : b[i] \in Result
    BY <1>3, <1>5, <1>6, SizesAssumption DEF Result
  <2>2. b \in [1 .. n -> Result]
    BY <1>6, <2>1
  <2> QED
    BY <1>2, <2>2, SeqDef
<1> HIDE DEF b
<1>8. work \in Seq(Call) /\ DOMAIN work = {1} /\ work[1].batch = b /\ ~work[1].substituted
  BY <1>1, <1>7 DEF Call, b
<1>9. OnceIn(work)
  <2>1. \A i, j \in DOMAIN b : b[i].handle = b[j].handle => i = j
    BY <1>3, <1>6
  <2> QED
    BY <1>8, <2>1 DEF OnceIn
<1>10. \A h \in BatchHandles : WaitsIn(work, h)
  <2>1. \A h \in BatchHandles : InBatch(b, h)
    BY <1>4, <1>6 DEF InBatch
  <2> QED
    BY <1>8, <2>1 DEF WaitsIn
<1>11. CallsAsQueued
  <2>1. \A i \in DOMAIN b : b[i].bytes = size[b[i].handle]
    BY <1>6
  <2> QED
    BY <1>8, <2>1 DEF CallsAsQueued, AsQueued
<1>12. FlushTyped
  BY <1>5, <1>8, <1>9, SizesAssumption DEF FlushTyped
<1> QED
  BY <1>5, <1>10, <1>11, <1>12 DEF AsyncFlushInv, WaitsOrDone

\* A batch on the stack has no result twice, and its handles are cells'.
LEMMA TopBatch ==
  ASSUME FlushTyped, work # <<>>
  PROVE  /\ Top \in Call /\ Top.batch \in Seq(Result)
         /\ \A i, j \in DOMAIN Top.batch : Top.batch[i].handle = Top.batch[j].handle => i = j
         /\ \A h : InBatch(Top.batch, h) => h \in BatchHandles
<1>1. 1 \in DOMAIN work /\ Top = work[1] /\ Top \in Call /\ OnceIn(work)
  BY RestOnce DEF FlushTyped, Top
<1>2. Top.batch \in Seq(Result)
  BY <1>1 DEF Call
<1>3. \A i \in DOMAIN Top.batch : Top.batch[i].handle \in BatchHandles
  <2>1. \A i \in DOMAIN Top.batch : Top.batch[i] \in Result
    BY <1>2, LenProperties, ElementOfSeq
  <2> QED
    BY <2>1 DEF Result
<1> QED
  BY <1>1, <1>2, <1>3 DEF OnceIn, InBatch

\* Recording what becomes of every result of the top call.
LEMMA RecordStep ==
  ASSUME AsyncFlushInv, work # <<>>, work' = Tail(work), UNCHANGED <<limit, size>>,
         NEW what \in {"value", "lost", "diagnostic", "dropped"}, Record(Top.batch, what),
         \A h : InBatch(Top.batch, h) => what \in Outcomes(h),
         largest' \in Nat, largest' <= limit
  PROVE  AsyncFlushInv'
<1>0. FlushTyped /\ CallsAsQueued /\ WaitsOrDone
  BY DEF AsyncFlushInv
<1>1. work \in Seq(Call) /\ OnceIn(work)
  BY <1>0 DEF FlushTyped
<1>2. /\ work' \in Seq(Call) /\ OnceIn(work')
      /\ \A k \in DOMAIN work' : \E l \in DOMAIN work : work'[k] = work[l]
  BY <1>1, RestOnce
<1>3. \A h : /\ WaitsIn(work, h) <=> InBatch(Top.batch, h) \/ WaitsIn(work', h)
             /\ ~(InBatch(Top.batch, h) /\ WaitsIn(work', h))
  BY <1>1, TopAndRest DEF Top
<1>4. \A h \in BatchHandles :
        outcome'[h] = IF InBatch(Top.batch, h) THEN Append(outcome[h], what) ELSE outcome[h]
  BY DEF Record, InBatch
<1>5. outcome' \in [BatchHandles -> Seq({"value", "lost", "diagnostic", "dropped"})]
  <2>1. ASSUME NEW h \in BatchHandles
        PROVE  outcome'[h] \in Seq({"value", "lost", "diagnostic", "dropped"})
    <3>1. outcome[h] \in Seq({"value", "lost", "diagnostic", "dropped"})
      BY <1>0 DEF FlushTyped
    <3>2. Append(outcome[h], what) \in Seq({"value", "lost", "diagnostic", "dropped"})
      BY <3>1, AppendProperties
    <3> QED
      BY <1>4, <3>1, <3>2
  <2>2. outcome' = [h \in BatchHandles |-> outcome'[h]]
    BY DEF Record
  <2> QED
    BY <2>1, <2>2
<1>6. FlushTyped'
  BY <1>0, <1>2, <1>5 DEF FlushTyped, OnceIn
<1>7. CallsAsQueued'
  <2>1. \A k \in DOMAIN work' : AsQueued(work'[k])
    BY <1>0, <1>2 DEF CallsAsQueued
  <2> QED
    BY <2>1 DEF CallsAsQueued, AsQueued, FitsAlone
<1>8. ASSUME NEW h \in BatchHandles
      PROVE  IF WaitsIn(work', h) THEN outcome'[h] = <<>>
             ELSE Len(outcome'[h]) = 1 /\ outcome'[h][1] \in Outcomes(h)
  <2>1. CASE InBatch(Top.batch, h)
    <3>1. outcome[h] = <<>> /\ ~WaitsIn(work', h)
      BY <1>0, <1>3, <2>1 DEF WaitsOrDone
    <3>2. outcome'[h] = Append(<<>>, what)
      BY <1>4, <2>1, <3>1
    <3>3. Len(outcome'[h]) = 1 /\ outcome'[h][1] = what
      BY <3>2
    <3> QED
      BY <2>1, <3>1, <3>3
  <2>2. CASE ~InBatch(Top.batch, h)
    BY <1>0, <1>3, <1>4, <2>2 DEF WaitsOrDone, Done
  <2> QED
    BY <2>1, <2>2
<1>9. WaitsOrDone'
  BY <1>8 DEF WaitsOrDone, Done, Outcomes, FitsAlone, WaitsIn, InBatch
<1> QED
  BY <1>6, <1>7, <1>9 DEF AsyncFlushInv

\* Replacing the top call by calls that have its results.
LEMMA ReplaceStep ==
  ASSUME AsyncFlushInv, work # <<>>, NEW new \in Seq(Call), OnceIn(new),
         \A h : WaitsIn(new, h) <=> InBatch(Top.batch, h),
         \A k \in DOMAIN new : AsQueued(new[k]),
         work' = new \o Tail(work), UNCHANGED <<limit, size, outcome, largest>>
  PROVE  AsyncFlushInv'
<1>0. FlushTyped /\ CallsAsQueued /\ WaitsOrDone
  BY DEF AsyncFlushInv
<1> DEFINE rest == Tail(work)
<1>1. work \in Seq(Call) /\ OnceIn(work)
  BY <1>0 DEF FlushTyped
<1>2. /\ rest \in Seq(Call) /\ OnceIn(rest)
      /\ \A k \in DOMAIN rest : \E l \in DOMAIN work : rest[k] = work[l]
  BY <1>1, RestOnce
<1>3. \A h : /\ WaitsIn(work, h) <=> InBatch(Top.batch, h) \/ WaitsIn(rest, h)
             /\ ~(InBatch(Top.batch, h) /\ WaitsIn(rest, h))
  BY <1>1, TopAndRest DEF Top
<1> HIDE DEF rest
<1>4. /\ work' \in Seq(Call) /\ OnceIn(work')
      /\ \A h : WaitsIn(work', h) <=> WaitsIn(new, h) \/ WaitsIn(rest, h)
      /\ \A k \in DOMAIN work' : \/ \E l \in DOMAIN new : work'[k] = new[l]
                                 \/ \E l \in DOMAIN rest : work'[k] = rest[l]
  <2>1. work' = new \o rest
    BY DEF rest
  <2>2. \A h : ~(WaitsIn(new, h) /\ WaitsIn(rest, h))
    BY <1>3
  <2>3. OnceIn(new) /\ rest \in Seq(Call) /\ OnceIn(rest)
    BY <1>2
  <2>4. /\ new \o rest \in Seq(Call) /\ OnceIn(new \o rest)
        /\ \A h : WaitsIn(new \o rest, h) <=> WaitsIn(new, h) \/ WaitsIn(rest, h)
        /\ \A k \in DOMAIN (new \o rest) : \/ \E l \in DOMAIN new : (new \o rest)[k] = new[l]
                                           \/ \E l \in DOMAIN rest : (new \o rest)[k] = rest[l]
    BY <2>2, <2>3, PushedOnce
  <2> QED
    BY <2>1, <2>4
<1>5. FlushTyped'
  BY <1>0, <1>4 DEF FlushTyped, OnceIn
<1>6. CallsAsQueued'
  <2>1. \A k \in DOMAIN work' : AsQueued(work'[k])
    BY <1>0, <1>2, <1>4 DEF CallsAsQueued
  <2> QED
    BY <2>1 DEF CallsAsQueued, AsQueued, FitsAlone
<1>7. \A h : WaitsIn(work', h) <=> WaitsIn(work, h)
  BY <1>3, <1>4
<1>8. WaitsOrDone'
  <2>1. \A h \in BatchHandles : IF WaitsIn(work', h) THEN outcome[h] = <<>> ELSE Done(h)
    BY <1>0, <1>7 DEF WaitsOrDone
  <2> QED
    BY <2>1 DEF WaitsOrDone, Done, Outcomes, FitsAlone, WaitsIn, InBatch
<1> QED
  BY <1>5, <1>6, <1>8 DEF AsyncFlushInv

LEMMA FlushInvStep == AsyncFlushInv /\ [FlushNext]_asyncFlushVars => AsyncFlushInv'
<1> SUFFICES ASSUME AsyncFlushInv, [FlushNext]_asyncFlushVars PROVE AsyncFlushInv'
  OBVIOUS
<1>0. FlushTyped /\ CallsAsQueued /\ WaitsOrDone
  BY DEF AsyncFlushInv
<1> DEFINE b == Top.batch
<1>1. ASSUME work # <<>>
      PROVE  /\ b \in Seq(Result) /\ AsQueued(Top) /\ Top.substituted \in BOOLEAN /\ Top \in Call
             /\ \A i, j \in DOMAIN b : b[i].handle = b[j].handle => i = j
             /\ \A h : InBatch(b, h) => h \in BatchHandles
             /\ PayloadSize(b) \in Nat /\ DOMAIN b = 1 .. Len(b) /\ Len(b) \in Nat
             /\ \A j \in DOMAIN b : Framing + b[j].bytes <= PayloadSize(b)
             /\ Len(b) = 1 => PayloadSize(b) = Framing + b[1].bytes
  <2>1. /\ Top \in Call /\ b \in Seq(Result)
        /\ \A i, j \in DOMAIN b : b[i].handle = b[j].handle => i = j
        /\ \A h : InBatch(b, h) => h \in BatchHandles
    BY <1>0, <1>1, TopBatch
  <2>2. AsQueued(Top)
    BY <1>0, <1>1, RestOnce DEF FlushTyped, CallsAsQueued, Top
  <2>3. DOMAIN b = 1 .. Len(b) /\ Len(b) \in Nat
    BY <2>1, LenProperties
  <2>4. Top.substituted \in BOOLEAN
    BY <2>1 DEF Call
  <2> HIDE DEF b
  <2> QED
    BY <2>1, <2>2, <2>3, <2>4, PayloadSizes DEF b
<1>2. /\ limit \in Nat /\ largest \in Nat /\ largest <= limit /\ Framing \in Nat
      /\ DiagnosticSize \in Nat /\ \A h \in BatchHandles : size[h] \in Nat
  BY <1>0, SizesAssumption DEF FlushTyped
<1> HIDE DEF b
<1>3. CASE Transmit
  <2>1. work # <<>> /\ PayloadSize(b) <= limit
    BY <1>1, <1>2, <1>3 DEF Transmit, OverLimit, b
  <2>2. largest' \in Nat /\ largest' <= limit
    BY <1>1, <1>2, <1>3, <2>1 DEF Transmit, b
  <2>3. PICK what \in {"value", "lost", "diagnostic"} :
          /\ Record(b, what)
          /\ what = "value" => ~Top.substituted
          /\ what = "diagnostic" => Top.substituted
    BY <1>1, <1>3, <2>1 DEF Transmit, b
  <2>4. ASSUME NEW h, InBatch(b, h) PROVE what \in Outcomes(h)
    <3>1. PICK i \in DOMAIN b : b[i].handle = h
      BY <2>4 DEF InBatch
    <3>2. h \in BatchHandles /\ Framing + b[i].bytes <= limit
      <4>1. h \in BatchHandles
        BY <1>1, <2>1, <2>4
      <4>2. Framing + b[i].bytes <= PayloadSize(b) /\ b[i].bytes \in Nat
        <5>1. b[i] \in Result
          BY <1>1, <2>1, ElementOfSeq
        <5> QED
          BY <1>1, <2>1, <5>1 DEF Result
      <4> QED
        BY <1>1, <1>2, <2>1, <4>1, <4>2
    <3>3. CASE Top.substituted
      <4>1. i = 1 /\ b[1].bytes = DiagnosticSize /\ ~FitsAlone(h)
        BY <1>1, <2>1, <3>1, <3>3 DEF AsQueued, b
      <4> QED
        BY <2>3, <3>2, <3>3, <4>1 DEF Outcomes
    <3>4. CASE ~Top.substituted
      <4>1. b[i].bytes = size[h]
        BY <1>1, <2>1, <3>1, <3>4 DEF AsQueued, b
      <4> QED
        BY <2>3, <3>2, <3>4, <4>1 DEF Outcomes, FitsAlone
    <3> QED
      BY <3>3, <3>4
  <2> QED
    BY <1>3, <2>1, <2>2, <2>3, <2>4, RecordStep DEF Transmit, b
<1>4. CASE Split
  <2>1. work # <<>> /\ Len(b) > 1 /\ UNCHANGED <<limit, size, outcome, largest>>
    BY <1>4 DEF Split, b
  <2> DEFINE new == <<[batch |-> Halves(b)[1], substituted |-> FALSE],
                      [batch |-> Halves(b)[2], substituted |-> FALSE]>>
  <2>2. work' = new \o Tail(work)
    BY <1>4 DEF Split, b
  <2>3. /\ new \in Seq(Call) /\ OnceIn(new)
        /\ \A h : WaitsIn(new, h) <=> InBatch(b, h)
        /\ \A k \in DOMAIN new : /\ ~new[k].substituted
                                 /\ \A i \in DOMAIN new[k].batch :
                                      \E j \in DOMAIN b : new[k].batch[i] = b[j]
    BY <1>1, <2>1, HalvesOnce
  <2> HIDE DEF new
  <2>4. ~Top.substituted
    BY <1>1, <2>1 DEF AsQueued, b
  <2>5. \A j \in DOMAIN b : b[j].bytes = size[b[j].handle]
    BY <1>1, <2>1, <2>4 DEF AsQueued, b
  <2>6. \A k \in DOMAIN new : AsQueued(new[k])
    BY <2>3, <2>5 DEF AsQueued
  <2> QED
    BY <2>1, <2>2, <2>3, <2>6, ReplaceStep DEF b
<1>5. CASE Substitute
  <2>1. /\ work # <<>> /\ Len(b) = 1 /\ ~Top.substituted /\ PayloadSize(b) > limit
        /\ UNCHANGED <<limit, size, outcome, largest>>
    BY <1>5 DEF Substitute, OverLimit, b
  <2> DEFINE r == [b[1] EXCEPT !.bytes = DiagnosticSize]
             c == [batch |-> <<r>>, substituted |-> TRUE]
             new == <<c>>
  <2>2. work' = new \o Tail(work)
    BY <1>5 DEF Substitute, b
  <2>3. b[1] \in Result /\ b[1].handle \in BatchHandles
    <3>1. b \in Seq(Result) /\ 1 \in 1 .. Len(b)
      BY <1>1, <2>1
    <3>2. b[1] \in Result
      BY <3>1, ElementOfSeq
    <3> QED
      BY <3>2 DEF Result
  <2>4. r \in Result /\ r.handle = b[1].handle /\ r.bytes = DiagnosticSize
    BY <1>2, <2>3 DEF Result
  <2> HIDE DEF r
  <2>5. /\ new \in Seq(Call) /\ DOMAIN new = {1} /\ new[1] = c
        /\ DOMAIN c.batch = {1} /\ c.batch[1] = r /\ Len(c.batch) = 1 /\ c.substituted
    BY <2>4 DEF Call
  <2> HIDE DEF new, c
  <2>6. OnceIn(new)
    BY <2>5 DEF OnceIn
  <2>7. \A h : WaitsIn(new, h) <=> InBatch(b, h)
    <3>1. DOMAIN b = {1}
      BY <1>1, <2>1
    <3> QED
      BY <2>4, <2>5, <3>1 DEF WaitsIn, InBatch
  <2>8. ~FitsAlone(b[1].handle)
    <3>1. b[1].bytes = size[b[1].handle]
      BY <1>1, <2>1 DEF AsQueued, b
    <3> QED
      BY <1>1, <1>2, <2>1, <2>3, <3>1 DEF FitsAlone
  <2>9. \A k \in DOMAIN new : AsQueued(new[k])
    BY <2>4, <2>5, <2>8 DEF AsQueued
  <2> QED
    BY <2>1, <2>2, <2>5, <2>6, <2>7, <2>9, ReplaceStep DEF b
<1>6. CASE Drop
  <2>1. /\ work # <<>> /\ Len(b) = 1 /\ Top.substituted /\ PayloadSize(b) > limit
        /\ Record(b, "dropped") /\ work' = Tail(work) /\ UNCHANGED <<limit, size, largest>>
    BY <1>6 DEF Drop, OverLimit, b
  <2>2. ASSUME NEW h, InBatch(b, h) PROVE "dropped" \in Outcomes(h)
    <3>1. b[1].handle = h
      BY <1>1, <2>1, <2>2 DEF InBatch
    <3>2. ~FitsAlone(h) /\ b[1].bytes = DiagnosticSize
      BY <1>1, <2>1, <3>1 DEF AsQueued, b
    <3> QED
      BY <1>1, <1>2, <2>1, <3>2 DEF Outcomes
  <2>3. largest' \in Nat /\ largest' <= limit
    BY <1>2, <2>1
  <2> QED
    BY <2>1, <2>2, <2>3, RecordStep DEF b
<1>7. CASE UNCHANGED asyncFlushVars
  BY <1>0, <1>7 DEF asyncFlushVars, AsyncFlushInv, FlushTyped, CallsAsQueued, WaitsOrDone,
                    AsQueued, FitsAlone, Done, Outcomes, OnceIn, WaitsIn, InBatch
<1> QED
  BY <1>3, <1>4, <1>5, <1>6, <1>7 DEF FlushNext

\* flushAsyncBatchBounded, for any batch, sizes and limits: when the recursion ends every
\* handle has had one outcome, the one its own size calls for, and no transfer was over
\* the limit.
THEOREM OneOutcomeForEach == FlushSpec => []OneOutcomeEach
<1>1. AsyncFlushInv => OneOutcomeEach
  <2> SUFFICES ASSUME AsyncFlushInv PROVE OneOutcomeEach
    OBVIOUS
  <2>1. work = <<>> => \A h : ~WaitsIn(work, h)
    BY DEF WaitsIn
  <2> QED
    BY <2>1 DEF AsyncFlushInv, FlushTyped, WaitsOrDone, Done, Outcomes, OneOutcomeEach
<1> QED
  BY <1>1, FlushStart, FlushInvStep, PTL DEF FlushSpec
=============================================================================
