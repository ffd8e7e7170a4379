# A TLA+ verification of xll-gen

xll-gen turns Go functions into an Excel add-in. A small C++ library, the XLL, runs inside
Excel and forwards calls through shared memory to a Go server in a process of its own. This
directory models the parts of both halves in which correctness depends on the order of
events: what several goroutines, threads and processes do to shared state, what happens
when a message or its answer is lost, what a teardown may cut off, what a bound does when
it is reached.

Contents: [the system](#the-system), [modules](#modules), [runs](#runs),
[bounds](#bounds), [fairness](#fairness), [proofs](#proofs),
[where code and text disagree](#where-code-and-text-disagree),
[not modelled](#not-modelled), [plan](#plan).

## The system

"Guest" is the Go server, "host" the XLL; both words are the source's. The shared memory
library (`shm`) is a dependency: a call occupies a slot, the other side's handler runs, and
the answer comes back in the same slot or the caller times out.

| Part | Source | State | Operations |
|---|---|---|---|
| Go chunk reassembly | `pkg/server/{manager,types,handlers}.go` | cache of buffers, poison set, per buffer the received segments and a dispatched flag | HandleChunk on many goroutines; the sweep; Close |
| XLL chunk registry | `xll_worker.{h,cpp}` | partial messages, poison set | HandleChunk on the worker thread; the sweep |
| XLL worker thread | `xll_worker.cpp` | latches, batch, last sweep | take calls, dispatch, sweep, leave |
| Go senders | `pkg/chunk`, `async_batcher.go`, `rtd/manager.go` | position and attempt of each send | frame, send, retry, give up |
| Async result flush | `async_batcher.go`, `batcher.go` | result queue, the batch in hand | queue, batch, split, substitute, send |
| Server lifecycle | `lifecycle.go`, `run.go`, `jobpool.go`, `drain.go`, generated `Serve` | done channel, once, gates, wait groups, job queue | serve, drain, stop, unmap, exit |
| Calculation cycle | `command_batcher.go`, `command_flush.go`, `xll_events.cpp`, `xll_deferred_commands.cpp` | per-cell buffers, command queue, deferred queue, arm flag | schedule, flush at calc end, defer, run |
| Greedy mesh | `pkg/algo`, `xll_greedy_mesh.h` | none | cells to rectangles |
| Reference cache | `refcache.go`, `xll_ipc.cpp` | the server's cache, the XLL's list of what it sent | send once per cycle, look up, clear at calc end |
| Result cache | `xll_cache.{h,cpp}` | memoised results with their ages | look up, store, expire |
| RTD topics | `rtd/manager.go`, `rtd/server.h`, `xll_rtd*.cpp` | topics, subscribers, connect generations, pending updates | connect, disconnect, publish, notify, refresh |
| RTD one-shot results | `rtd/runonce.go`, `xll_rtd_once*.h` | results and grids by key, with their topics | run once, deliver, claim, clear |
| Host teardown | `xll_lifecycle.{h,cpp}` | phase latches, threads, module pin | quiesce, reap threads, destroy, unload |
| Server launch | `xll_launch.cpp`, `xll_embed.cpp` | process and job handles, monitor thread | extract, spawn, watch |
| Ribbon connect | `ribbon_connect.cpp`, `ribbon_addin.cpp` | attempt counter, connected flag | try, re-arm, stop |
| Configuration and generator | `internal/config`, `internal/generator`, `internal/templates`, `cmd` | `xll.yaml`, the generated tree, the pins in `go.mod` | apply defaults, validate, generate, init |
| flatc cache | `internal/flatc` | the cached binary, shared by processes | find, download, extract, publish |
| Other tools | `internal/{regtest,smoketest}`, `cmd`, `experiments` | none that outlives a command | doctor, build, test by hand |

How the parts interact:

- Excel's threads call the XLL's wrappers; a wrapper sends a request to the guest and waits.
  Large requests arrive at the guest as frames (*Go chunk reassembly*).
- The guest calls the host with async results, RTD updates and one-shot grids. The XLL's
  worker thread answers them; large ones arrive as frames (*XLL chunk registry*).
- A UDF that is asynchronous runs in the job pool and leaves its result in the async batcher;
  one flush goroutine sends the batches.
- At the end of each calculation the XLL makes a synchronous call to the guest; the answer
  carries the commands that UDFs scheduled, which the XLL executes later from a macro.
- A function's grid argument is shipped once per calculation under its content hash and looked
  up by the goroutine of an RTD connect (*Reference cache*); a function with caching asks the
  XLL's *Result cache* before it calls the server.
- Before any of this, `xll-gen generate` turns `xll.yaml` into the sources of both halves. What
  one half expects of the other at run time was decided by templates that do not read each other.
- Excel dies, is closed, or disables the add-in: either half may find the other gone. The
  guest must not release the mapping under a send, and neither may hang.

What makes each part hard, and the property that says it is right, is listed as *hazards* in
`PROJECT.json`, each at its line.

## Modules

| Module | Kind | Stands on |
|---|---|---|
| `SetLemmas` | facts about finite sets, integer intervals and sequences | - |
| `ChunkReassembly`, `ChunkReassemblyProofs` | the server's reassembler, goroutine by goroutine | `SetLemmas` |
| `ChunkContract` | what a chunk receiver promises (abstract) | - |
| `HostChunks`, `HostChunksProofs` | the XLL's registry; implements `ChunkContract` | `SetLemmas`, `ChunkContract` |
| `GuestTransfer` | senders, slots, worker thread and registry together; its theorems are in `HostChunksProofs` | `HostChunks` |
| `AsyncFlush` | the recursive split of a batch of async results | - |
| `ServerLifecycle` | the server process from Serve to exit | - |
| `ServerLifecycleProofs` | proofs about it and about the flush of a batch | `ServerLifecycle`, `AsyncFlush` |
| `CalcCycle` | scheduled commands, from the server's buffers to the sheet | `NoValue` |
| `CalcCycleProofs` | proofs about it and about `RtdOnce` | `CalcCycle`, `RtdOnce` |
| `NoValue` | the value of what is not there, which several modules share | - |
| `RtdTopics` | RTD topics: connects, disconnects, contexts, subscriptions | `NoValue` |
| `RtdUpdates` | RTD values on their way from the server to the cells | `NoValue` |
| `RtdProofs` | proofs about both | `RtdTopics`, `RtdUpdates` |
| `RtdOnce` | one-shot functions: registry, topics, RunOnce, the wrapper | `NoValue` |
| `RefCache` | payloads of composite RTD arguments, on both sides | `ExcelThreads` |
| `ExcelThreads` | who calls the server from inside Excel | - |
| `ResultCache` | the XLL's result cache and its memo of digests | `NoValue` |
| `CacheProofs` | proofs about both caches | `RefCache`, `ResultCache` |
| `ProjectConfig` | `xll.yaml` to what the templates emit: defaults, validation, emission | - |
| `CodeGen` | the generated tree across runs of `generate` and `init` | - |
| `FlatcCache` | the flatc binary that several xll-gen processes share | - |
| `ToolchainProofs` | proofs about the three stages | the three |

| Checked instance | Puts together |
|---|---|
| `MCChunkReassembly` | `ChunkReassembly` |
| `MCHostChunks` | `GuestTransfer`: its registry by itself, or behind the worker thread |
| `MCGuestTransfer` | `GuestTransfer` with the host going away |
| `MCAsyncFlush` | `AsyncFlush`; the liveness of `CalcCycle` |
| `MCServerLifecycle` | `ServerLifecycle` |
| `MCCalcCycle` | `CalcCycle`; `RtdOnce` |
| `MCRtd` | `RtdTopics`; `RtdUpdates`; `RefCache`; `ResultCache` |
| `MCProjectConfig`, `MCToolchain` | `ProjectConfig`; `CodeGen`; `FlatcCache` |

`MC*` modules give the constants of each module finite values; the `.cfg` files are TLC's.
Components that share no variable share a run: a state is a tuple of theirs, and one is stepped
while the others are at an initial state. Their state spaces add up instead of multiplying, and
nothing is lost, because every property speaks of one component. A component with many initial
states waits at one of them (`Waiting`, `ResultWaiting`), and leaves from all of them. In
`MCAsyncFlush`, which has liveness of both, the flush ends before `CalcCycle` begins.

**ChunkReassembly.** `Procs` are the goroutines inside `SystemHandler.HandleChunk`; `pc` says
between which two critical sections each of them is. One action is one critical section: of the
manager's `chunkMutex`, which guards both maps, `IsPoisoned`, `GetChunkBuffer` (the actions
`RefuseTotal`, `ReuseBuffer`, `ResetBuffer`, `OpenTransfer`, `RefuseTransfer` are its returns),
`PoisonTransfer` and `RemoveChunkBuffer`; of the buffer's own mutex, the segment claim
(`AcceptChunk`, `RejectChunk`). `Dispatch` is the call of the payload's handler. Buffers live at
addresses (`heap`), because a goroutine may hold a buffer that the cache has since replaced; the
garbage collector returns the ones nobody can reach. `received` is the source's sorted list of
half-open segments as a set; `ClaimSegment` looks at the two neighbours a binary search finds, as
the source does.

**HostChunks.** One action per frame, since only the worker thread touches the registry:
`partials[id]` is the `PartialMessage` map entry, `poisoned[id]` the age of a poison entry.
Arithmetic on totals, offsets and lengths is modulo `Modulus`, the source's `uint32_t`, so a
bounds check that adds before it compares would wrap. Ages stand for `steady_clock`: a Tick is
the passing of `kChunkStaleTtl`. `handed` is what the last step passed to a processor.

**ChunkContract** keeps, for each transfer, how many bytes have been accepted and which; it
allows exactly this: a byte is accepted at most once, delivery happens in the step that
accepts the last byte, a transfer may be given up at any time. `HostChunks` is shown to
implement it with the mapping written at `Contract == INSTANCE ChunkContract WITH ...`.

**GuestTransfer.** A sender is between `SendBegins` and its answer; `call` is what the worker
is inside. `CallLost` and `AnswerLost` are the two ways in which a send fails without the
sender being able to tell. An empty payload, for which `Send` returns without sending, is left
out. `AttemptFails` is the retry policy (`chunk.Sender`, `sendWithRetry`,
and `SendOnceGrid`, which has one attempt). `Swallow` is the callback that finds a latch set.
`copies` and `cutOff` are history.

**AsyncFlush.** The recursion of `flushAsyncBatchBounded` is a stack of calls, `work`;
`Transmit`, `Split`, `Substitute` and `Drop` are its branches.

**ServerLifecycle.** Goroutines: `main` (Serve), the parent-death watcher, the shm
dispatchers, the pool workers, the flush worker, and pushers of RTD updates that belong to
user code. `phase`/`owner` is the single body of `ShutdownAndClose` under `sync.Once`; the
wait groups and gates keep their names. `closing` and `mapped` are shm's `Close`. A goroutine
inside `SendGuestCall` is `sending`, a pool job or the flush worker in its own state.

**CalcCycle.** Both halves of the calculation cycle. On the server every operation of the
`CommandBatcher` is one critical section: `BufferCells` and `EnqueueRange` are the two ways of
`ScheduleSet` and `ScheduleFormat`, `FlushCommands` is the calculation-end handler's flush. How many
commands a flush makes of a value's cells depends on the rectangles that cover them, 32 to a
command; the model lets it be any number. On
the XLL, Excel's STA thread is inside one event at a time (`sta`), waits for the handler
`awaited`, and defers what it is told (`DeferCalcEndCommands`, `ScheduleDeferredRunner`) to the
runner (`RunnerBegins`, `ExecuteCommand`, `RunnerEnds`), inside which Excel may nest another
event. A handler whose call has timed out goes on (`LateHandlerReturns`). `Teardown` and
`Reload` are the add-in being disabled and enabled again in the same Excel; the `xlcOnTime` by which
the teardown tries to cancel the runner is refused there (`xll_deferred_commands.cpp:325`), and the
branch in which Excel takes it is left out. `last` and `lost`
are history: the value scheduled last for a cell, and whether an error path dropped it.

**RtdTopics.** Excel's STA thread is inside `DisconnectData` of `leaving` or idle; `thread[c]` is
the detached thread of a `ConnectData`, with its attempts. `connectReq` and `disconnectReq` are
requests that sit in a slot and may be handled in any order, late, or never. On the server
`gen[g]` is what one `HandleRtdConnect` started: its context, and its handler's goroutine, which
subscribes the topic (`HandlerSubscribes`) or leaves a stream behind (`HandlerReturns`).
`registered` is `connectCancels`; the deregister function that `RegisterConnectCancel` returns is
left out because the handler does not use it. `orderly` is history: topics whose last
`ConnectData` found nothing of theirs under way.

**RtdUpdates.** `calls` are updates in slots, `worker` where the worker thread is between looking
`g_rtdServer` up and posting, `pending` and `posted` the coalescing flag and the message,
`inWndProc` and `told` the STA thread's window procedure and Excel between `UpdateNotify` and
`RefreshData`. A late value for the former use of a reused topic id is shown in the cells of its new
use: the code has no guard against it, so `updated` is the last stored update of the id since its
`ConnectData`, whoever sent it.

**RtdOnce.** One function with one argument list in several cells: one registry key. `Wrapper`
is the generated function: a hit puts the value into the cell, a miss clears the entry and calls
xlfRtd, where Excel keeps the cell's topic, shares another, or connects a new one. `run[r]` is
`RunOnce`/`RunOnceGrid` on the server, whose grid goes ahead of the token that makes Excel ask
(`SendOnceGrid`, then `Push`). `worker` is between finding the topic's key and storing under it.
`ClearNonMemoized` is the calculation's end with its three retention policies; `lost` is history:
topics whose connect or final push the transport lost, or whose handler panicked.

**RefCache.** A calculation thread is inside `SendRefCachePayloadOnce`; `sent` is `g_sentRefCache`,
`held` the server's cache. `sta` is the calculation event the STA thread waits in: each clears its
half, the XLL's before the call, the server's when the call is handled, and a call given up is
handled at any later time. `topic` is the connect of the topic that carries a token, which
`ResolveArg` looks up in a goroutine of its own. `lateClear` is history: a call given up in an
earlier cycle has cleared the server's half in this one.

**ResultCache.** Each evaluation of a cached function is a call in five steps, because
`GetOrComputeRefHash` computes with no lock held: `LookUpMemo`, `HashContent`, `Remember`, `Hit` or
`Miss`, and the conversion that calls the server. A result is represented by the content it is the
result of. `Identity` is the digest of a reference whose cells Excel refuses because they are not
calculated yet; Excel then calls the function again. `gate` is `iterativeCalc_`, refreshed only
when a calculation ends.

**ProjectConfig.** `ApplyDefaults`, `Validate` and the advisory are operators on a record with one
field for each key of `xll.yaml` that they read; every template decision is an operator named for
what it decides (`InterfaceImports`, `TypeText`, `Signature`, `RequestFieldIds`). A text is
what is asked of it: whether its characters are legal, and its length. The ways from Excel to a
handler are relations, one for each loop that renders one: `EventRegistrations` (events to
procedures), `Exports` (procedures to messages), `Click` (buttons to messages), `dispatch` (messages
to methods) and `XllService` (the methods declared). One set of message numbers stands for both
`xll_ipc.h` and `msgid.go`, which a test of the repository keeps equal. The steps are those of the
command: parse, validate or refuse, advise, emit or abort inside a template.

**CodeGen.** `tree` maps a file to what it was rendered from. One action is one step of `generate`
or `init`, in order; each may fail, and the process may be killed inside one, which leaves the file
it was writing torn. Between runs the user edits `xll.yaml` or installs another xll-gen. Each
`go get` of `updateDependencies` is taken to move its own pin only; `go mod tidy`, which moves none,
and the `go get` of xll-gen itself in development mode are left out.

**FlatcCache.** One action is one step of `EnsureFlatc` between two file operations. Callers of one
process take turns under `flatcMu`; callers of two processes do not, and a process may be killed
anywhere. An archive may have a flatc for another platform as well.

## Runs

| Run | Question | Answer |
|---|---|---|
| `chunk_reassembly` | Can two goroutines break the completion contract, dispatch twice, write under a dispatch, or pass a bound? Is what a stopped sender leaves behind reclaimed? | no; yes |
| `chunk_poison_race` | Does a rejected transfer stay rejected? | no: see below |
| `host_chunks` | Same for the XLL's registry, with 32-bit wrap; does it implement the contract? Behind the worker thread: does success mean delivered, through lost calls and answers, a full registry, expiry and a teardown? Does every send return, and is every remnant swept? | it does; yes, for a host that is not going away |
| `guest_transfer_quiesce` | Does success mean delivered while the host goes away? | no: see below |
| `async_flush` | Does splitting lose, repeat or overfill, and does it end? Do deferred commands reach the sheet? | no, yes; yes, if Excel takes the schedules |
| `server_lifecycle` | Is the mapping ever released under a send; are drains and flushes right? Do both shutdown triggers end the process, whatever user code does? | it is not; they are; they do |
| `server_unmap_under_job` | Is the pool drained on every exit? | no: see below |
| `calc_cycle` | Does every cell get the value scheduled last for it? Do the armed flag and Excel's list agree, also across a teardown? Is a cell with a one-shot function ever left at its placeholder? | yes; yes; no, unless the transport lost its connect or result, or its handler panicked |
| `calc_canceled_order` | Is a cancel handler over before the calculation-end handler starts? | no: see below |
| `rtd` | Through duplicated, late and lost requests and reused ids: does a context outlive its registration, or a connected topic lose its own? Does a refreshed cell show the value stored last, and is every stored value shown? Is what the XLL believes shipped held by the server? Is a cached result ever stale when a calculation is over? | no; yes; yes; no, with the exceptions below |
| `rtd_payload_cleared` | Is a payload that was shipped there when the topic's connect asks for it? | no: see below |
| `toolchain` | Is what `Validate` accepts emitted consistently, and do its functions, events, commands and buttons each reach their handler? Is the tree current after a run that ended well, whatever earlier ones left? Does a flatc that was returned run? | yes, with the exceptions below |

Every property of a passing run has a mutant in `PROJECT.json`: a change of one mapped
definition, such as a dropped neighbour test or a missing reset, under which TLC finds the
property violated in the same run.

## Bounds

- `ChunkReassembly`: two goroutines (every pair of critical sections can interleave), three
  addresses (one more than goroutines can hold, so that a buffer is freed and reused), frames with
  every kind of defect, and both limits at 1, so that admission, pruning and eviction are always
  at their limit. Ages stop at `ChunkBufferTTL + 1`: the code only asks whether the TTL has passed.
- `HostChunks`: frames of three ids, limits of 2, an 8-value `uint32_t` whose largest legal total is
  4, so that `offset + length` wraps with small numbers.
- `GuestTransfer`: a transfer in frames (a first and a last) with two attempts a send (a failed one
  and a retry), a whole one with one attempt, as a small grid has, and frames of two other producers
  that fill the registry. The two modes of the run (`alone`) share the limits and the registry; the
  worker's fairness is stated for the one in which there is a worker, and the liveness properties
  speak of it only.
- `AsyncFlush`: all batches of four results with sizes below, at and above the limits; two
  levels of recursion.
- `ServerLifecycle`: one worker and one dispatcher, a pusher, two handles over a queue of one, so
  that the queue can be full, and batches of two. The safety invariant is proved for any number of
  them.
- `CalcCycle`: two cells and two values (two writers of one cell in every order), two schedules, one
  refused `xlcOnTime`, one reload; ranges at and above `BatchingThreshold`, which is 1, groups that
  take one command or two, and replies at and above `MaxReply`. Two handlers, so that one that was
  given up runs beside the next.
- `RtdOnce`, in the run of `CalcCycle`: one formula cell, two topic ids (the key has two topics at
  times) and one handler run, both return shapes and all three policies. Two cells with one run,
  and one cell with two runs, have been searched alone without a violation.
- `RtdTopics`, `RtdUpdates`: one topic whose id is connected twice with the same or another key, two
  attempts each, and four generations, so that every attempt can be handled; two topics that share
  the message, and three values, so that an update overtakes one that waits and one that is being
  refreshed. One refused post and one refresh without memory.
- `RefCache`: one token that two threads need, and two calls given up and handled later, so that a
  shipping and a calculation end can both be late. Two tokens have been searched alone, without a
  violation.
- `ResultCache`: two cells that share a range, two contents: one thread can fill the memo or the
  cache while the other is at any step of its call.
- `ProjectConfig`: projects that differ from a plain one in one section at a time, plus pairs of
  functions, commands and events under every kind of name (equal, equal but for case, not an
  identifier, a default's, one of the add-in's own); the rules of `Validate` relate no more
  than two elements or sections.
- `CodeGen`: two releases, one of which renames a source file, and two runs: what a run finds is what
  the scaffold, the user or one earlier run (of either release, ended or killed) left.
- `FlatcCache`: two callers in one process and one in another: a turn under the lock and a race
  without it.

## Fairness

- Frames: `WF` of each goroutine inside `HandleChunk` (it never blocks on another party), of the
  cleanup ticker and of time. None for the arrival of frames.
- Guest transfer: `WF` of each sender (a shm send returns or times out), of the worker's handlers
  and loop (no blocking call outside shm), and of time. None for other producers' frames and for
  the teardown. Time may not pass the sweep period twice while the worker is between two
  batches: a tick stands for more than the 10 s between sweeps, and the loop's idle wait is
  shorter.
- Server: `WF` of `main`, the watcher, the shutdown body and the flush worker, of whose waits each
  has a timeout (`asyncDrainTimeout`, `rtdDrainTimeout`, the job drain), and of synchronous
  handlers. None for asynchronous handlers and pushers, which are user code, nor for Excel.
- Calculation cycle: `WF` of the end of an event (its call times out after 2 s) and of the
  handlers; `SF` of the runner, because Excel comes back to an idle point after every event and
  dispatches what its OnTime list holds there, though another event may come before it. None for
  schedules, calculations, date formats and the add-in's being disabled.
- Async flush: `WF` of the flush worker's steps (`FlushStep`), each of which is a computation or a
  send with a timeout. It is stated of the step as the run takes it, with its guard.
- `RtdOnce`, `RefCache`, `ResultCache` and the toolchain have safety properties only. What must
  happen eventually to a one-shot cell is stated as safety: something is still under way for it.
- RTD updates: `WF` of the worker's signalling (it runs to the end of an update), of the window
  procedure (the STA thread pumps its messages whenever it is idle) and of Excel's refresh once it
  has been told. None for sends, for the worker's taking of a call, for connects, disconnects and
  terminations.

## The shared-memory library

It is not part of the repository; the models use it as `src/` does. A send occupies a slot until
the answer or a timeout. A call that times out may or may not have been handled, and its late
answer is dropped, never taken for the answer of a later call. `Close` waits for nobody.

## Proofs

TLAPS proves the theorems below for all values of the constants that satisfy the modules'
assumptions. `PROJECT.json` lists them with the properties they establish.

- **ChunkReassemblyProofs.** `CompletePayload` is not inductive: completion compares a sum of
  lengths with the total. The invariant adds that the accepted segments of every buffer are
  pairwise disjoint and inside the buffer, that the sum equals their size, and what each
  goroutine at each program counter may assume of the buffer it holds: a buffer being dispatched
  is complete and claimed once, and a claimed buffer accepts nothing. Disjointness survives
  because the two neighbours of the binary search bound all other segments (a lemma on sets of
  disjoint intervals in `SetLemmas`).
- **HostChunksProofs.** The type invariant, the bounds, then `Coverage`: segments are disjoint,
  within the first frame's total, and `received` counts exactly their bytes. From it come
  `WritesInBounds`, `HandedComplete` and, action by action, the refinement of `ChunkContract`
  (`RegistryImplementsContract`). All of it is proved of any frame of the wire's types (`HostStep`),
  so that it carries over to `GuestTransfer`, whose senders build their own.
- **NilIsDelivered, ChunkedIsOnce, HealthyIsAccepted**, in the same module, rest on one invariant of a
  payload (`PayloadInv`). What the registry holds of it ends before the frame its sender is at, or is
  that frame (`Known`): a resent frame is then a duplicate and the next one new, so nothing is ever
  poisoned. Until it is delivered or cut off, every byte that was acknowledged is there (`Retained`),
  and an entry that has all bytes is not in the registry any more: the last acknowledgement means
  delivered. Afterwards the sender is at the last frame, which is not the first, and no entry it
  reopens gets byte 0 again (`Spent`): no second delivery.
- **ServerLifecycleProofs.** `TypedInv` relates each goroutine's place with the job or batch it
  holds. `SafeInv` has one gate per kind of sender: `FlushGate`, `SendGate`, `UnmapGate`,
  `PoolGate`, each of the form "once the shutdown body has passed this point with a drained
  verdict, nobody of this kind is inside, and the gate keeps it so".
  `ResultsFlushedOnce` adds the places of a handle (`HandleInv`): it is once in the queue, once in
  the batch, with one job, or has been flushed, and in no two of these.
- **OneOutcomeForEach**, in the same module. The work stack always holds, from its top, consecutive
  pieces of the batch, none of them handled yet (`AsyncFlushInv`): a call on results that fit, or
  two halves of one that do not. That a batch above the limit has at least two results, or one that
  does not fit alone, rests on a lemma about `PayloadSize`: no part is larger than the whole. It is
  proved by induction over lengths as sets of numbers (`AllNaturals` in `SetLemmas`).
- **CalcCycleProofs.** `ArmedMatchesOnTime` and `DeferredHasRunner` are inductive together with
  the types of the flag and the list (`RunnerInv`); most actions leave its variables alone, which
  one lemma says for all of them. `LastWins` needs, besides types, that a reply is held by the event
  that waits for it, and that only the runner has commands in its hand (`CycleInv`). The step lemmas
  say of each hand-over (buffer to queue, queue to reply, reply to deferred queue, queue to hand)
  that the last write on its way to a cell stays the last. `NoCellStuck` adds that a topic which has
  been answered has its value stored, unless the clearing was followed by a recalculation
  (`ValueComing`).
- **RtdProofs.** The manager's part of `RtdTopics` (`SubscriptionsAgree`, `LiveContextIsRegistered`)
  is inductive with the types and the fact that whoever can still act on a topic has one
  (`ManagerInv`). `ConnectedStaysLive` needs in addition that a registered generation is live and of
  its topic, that the latest connect of a topic has the key of its present use, and that in an
  orderly use nothing of an earlier one is under way: no attempt of an earlier thread, and no
  disconnect until `leaving` is the topic (`UseInv`). In `RtdUpdates`, `PendingIsPosted` needs that
  the worker posts only while no message is queued; `DirtyIsAnnounced` that only an existing
  RtdServer has dirty topics; and `RefreshedCellIsCurrent` that the value stored last stays in
  `m_topicData` while its topic is connected (`StoredIsKept`).
- **CacheProofs.** `SentIsHeld` is not inductive: a thread that has its answer marks the token
  later, and the server clears its half at a time of its own. The invariant adds who waits for which
  call (`CallsAwaited`: one call a sender, of the kind and token it waits for), that an answered
  shipping has put its payload there (`AnswersHold`), and that nothing is evaluated while an event
  waits and the XLL's half is empty then (`EventsQuiet`). A calculation-end call somebody waits for
  can then only clear when nothing counts as sent. `ServedIsCurrent` speaks of the end of a
  calculation; `ServedInv` says what the memo, each call under way and the cache hold meanwhile:
  a memoized digest is of the content its range has, unless the gate lags behind the option.
- **ToolchainProofs.** `EnsuredFlatcRuns` needs only that what has a name in the cache is whole
  (`FlatcTyped`), which holds because it is renamed into place last. `FinishedTreeIsCurrent` relates
  the position in the list of steps with their effects: every step that is over has had its effect,
  and no later one undoes it (`CodeGenInv`), whatever tree the run began with. The theorems about
  `ProjectConfig` follow the record through defaults and validation (`ConfigInv`), then each template
  decision, case by case over the modes and types; the projects themselves are any. That calls arrive
  (`CallsOfAcceptedProjectsArrive`) comes from two facts: a name says which procedure it is, because
  the exports are distinct, and a message says which case it is, because the user's ids lie above the
  fixed ones and `Validate` keeps function and command names apart.

The assumptions on constants are those of the modules: limits are numbers, names of one kind differ
from those of another (`None` is no topic, no digest is a content), sets that the code enumerates are
finite, and `Lower`, which stands for `strings.ToLower`, leaves its own results alone.

`HandedComplete`, `SendsOnlyFall`, `PendingIsPosted`, `DirtyIsAnnounced` and the type invariants of the
modules above are proved; no run repeats them.

Two forms are kept out of the modules and the proofs, because tlapm 1.4.5 misreads them. Its SMT
encoding of `[f EXCEPT ![a] = x, ![b] = y]` asserts both values even when `a = b`, which is a
contradiction; that also goes for two nested `EXCEPT`s. And in an `EXCEPT` written inside another,
the inner `@` names the wrong value. So an entry is updated once, as a whole
(`![r] = [@ EXCEPT !.at = ..., !.what = ...]`), the eviction of the oldest poisoned id is a function
of its own (`Evicted`), and inner values are spelled out.

Every invariant and every action property that a passing run checks is proved. Checked by TLC only:
liveness, which needs fairness, and the refutations of the five runs that expect one.

## Where code and text disagree

1. `IsPoisoned` and `GetChunkBuffer` are two critical sections (`handlers.go:74` and `:102`): a
   chunk between them reopens a transfer that another goroutine has just poisoned, though
   `manager.go:487` says every later chunk is rejected. The completion contract is unharmed.
2. On the parent's death the server unmaps and exits with pool jobs running
   (`lifecycle.go:176`), though `server.go.tmpl:127` speaks of "the SAME drain as the normal
   exit". Sends are still gated.
3. While the host goes away, its worker answers a call it has not looked at with success
   (`xll_worker.cpp:383`), so `SendOnceGrid` can report a grid as delivered that was dropped.
4. A payload that was shipped and acknowledged may be gone when it is needed: the connect of the
   topic travels on a detached thread, its handler is a goroutine, and neither is waited for before
   the calculation end clears the server's cache (`refarg.go:37`). The topic shows an error and stays
   connected, so nothing retries. `xll_main.cpp.tmpl:1305` says "a present entry means the payload is
   KNOWN-DELIVERED" and "Never a lost ship"; `refarg.go:48` blames a server restart.
5. The XLL promises that a cancel handler "is guaranteed to have completed before Excel is allowed
   to fire CalculationEnded" (`xll_events.cpp:180`), but waits 2 s (`:194`): a longer handler runs
   beside the calculation-end handler.

Noticed, and not stated as properties: `handlers.go:268` says that every entry of `connectCancels`
is removed because every connected topic is eventually disconnected, but a disconnect whose one
send times out, or that finds no slot, is not repeated, and a connect may be handled after its
disconnect. `manager.go:206` says that the deregister function "MUST" be deferred, which
`handlers.go:270` deliberately does not. `xll_rtd_notify.cpp:89` and `:103` log "falling back to
direct NotifyUpdate", but without a window `SignalRtdUpdate` returns (`:122`) and nothing notifies.
The worker uses `g_rtdServer` (`xll_rtd.cpp:200`) while the STA thread may release it
(`xll_rtd.h:59`). `RefreshData` takes the dirty topics out of its set before it allocates the array
for them, and drops them when that fails (`rtd/server.h:377`); the models let it happen, and say of
such topics only that nothing wrong is shown.

Known limits of the properties:

- *Payload cache.* A calculation-end call that is given up and handled in the next cycle empties the
  server's half while the XLL goes on believing it full, until the next calculation ends
  (`lateClear`).
- *Result cache.* Iterative calculation that is switched on between two calculations runs its first
  cycle with the memo (`lagged`). And a digest of the reference alone, taken when Excel refuses the
  cells (`xll_cache.cpp:240`), is kept by the memo (`:546`): when Excel calls the function again in
  the same cycle, the memo answers, so the result is stored and found under a key that does not
  depend on the content, until its TTL, though `xll_main.cpp.tmpl:1770` says that the key tracks it.
  Without the exception for `Identity`, TLC finds a cell that shows the result of an earlier content.
- *One-shot functions.* A handler that panics pushes nothing, and its cell keeps its placeholder. A
  second connect of a topic cancels the context of the first run, whose error may be stored after the
  second run's result. A late push for a reused topic id is stored under the id's new key.
- *Configuration.* Names are compared exactly (`config.go:890`, `:1081`, `:1087`), though Excel
  takes `Add` and `ADD` for one name, as `excel_names.go:162` says: two such functions are accepted,
  and which one a cell gets is Excel's choice, which the model does not make. A ribbon click does
  compare without case, the add-in's own members first (`ribbon_addin.cpp:248`): the button of a
  command named `OnConnection`, or like an earlier command but for case, goes elsewhere, and is
  excepted in `ButtonsReached`. Exported procedures that share a name do not link
  (`ExportsDistinct`). Some accepted projects do not compile: two elements whose handlers get one Go
  method name, a lower-case function name, an argument named like a parameter the template adds
  (`ctx`, `topicID`, `caller`). A function of mode `rtd` in a project with `rtd.enabled: false` ends
  nowhere (stated so in `FunctionsReached`). The registration text is modelled without the
  asynchronous handle and the flags at its end. A `memoize_ttl` below a millisecond is emitted as 0.
- *Generation.* The Go files of a function that was removed stay in `ipc/`; they still compile. A run
  of `init` that fails half-way is repeated with `--force`.

## Not modelled

- Data conversions (`converters.go`, `fbany`, FlatBuffer building, type mapping): functions without
  state, on which no ordering property depends.
- The templates' text beyond the decisions in `ProjectConfig`, `init`'s `--dev`, and the commands
  `doctor`, `build`, `version`; regtest, smoketest and the experiments, which are run by hand.
- Logging, the scratch workbook, the throttle interval, the ribbon's COM surface: thin layers over
  Excel's own interfaces.
- The outgoing half of `ChunkManager` (`AddOutgoingChunk`, `GetNextChunk`, `HandleAck`): no
  production path calls it.
- The greedy mesh: a pure function of a set of cells, in Go and in C++.
- The host's teardown (`xll_lifecycle.cpp`) apart from its two latches, which are modelled where they
  bite; with it the RTD teardown in the connect thread and the window procedure, a window that could
  not be created, and the starting and joining of the worker thread.
- Server launch, the job object and the monitor thread; the ribbon's connect retry.
- A failing xlfRtd call in a one-shot wrapper.
- `shm` itself, Excel and Windows, which the models describe only as the code uses them.

## Plan

Still open, the most important behaviour first:

1. `HostTeardown`: quiesce, reap, destroy, unload, and a second load in the same process.
2. That `ChunkReassembly`, too, implements `ChunkContract`, buffer by buffer: there a payload is
   complete in one critical section and handed over in a later one.
3. `RibbonConnect`, `DateFormats`, `GreedyMesh`: small modules that can share an existing run.
