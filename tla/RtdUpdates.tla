---------------------------- MODULE RtdUpdates ----------------------------
(***************************************************************************)
(* The way of an RTD value from the Go server to Excel's cells.            *)
(*                                                                         *)
(* Handlers, streams and Publish send values.  The XLL's worker thread     *)
(* takes one at a time, stores it in the RtdServer and posts a coalesced   *)
(* message to a window of the STA thread.  The window's procedure notifies *)
(* Excel, which calls RefreshData some time later for what has changed.    *)
(* Excel terminates and releases the RtdServer when no topic is left and   *)
(* starts a new one when it needs it.  A message can be refused by a full  *)
(* queue, a refresh can fail to allocate its array: each happens at most   *)
(* once here.                                                              *)
(***************************************************************************)
EXTENDS Naturals, FiniteSets, NoValue

CONSTANTS
  Lines,    \* topic ids
  Vals,      \* values a topic can have
  MaxSends   \* bound: values sent

VARIABLES
  connected,  \* the topics Excel has connected
  cell,       \* cell[t]: what the cells of t show
  server,     \* an RtdServer exists, with Excel's callback
  told,       \* Excel has been notified and has not refreshed yet
  inWndProc,  \* the STA thread is inside RtdNotifyWndProc
  data,       \* m_topicData
  dirty,      \* m_dirtyTopics
  pending,    \* g_rtdNotifyPending
  posted,     \* notify messages in the STA thread's queue
  worker,     \* what the worker thread does with an update
  updateCalls,      \* the updates in slots that the worker may still take
  sentUpdates,       \* bound: values sent so far
  failed,     \* bound: which of the failures below has happened
  updated,    \* history: the update of t stored last since its ConnectData
  refused,    \* history: the post for the latest update was refused
  lost        \* history: topics of a refresh that failed

excelSide == <<connected, cell, server, told, inWndProc>>
notifyVars == <<pending, posted>>
bounds == <<sentUpdates, failed>>
history == <<updated, refused, lost>>
updateVars == <<excelSide, data, dirty, notifyVars, worker, updateCalls, bounds, history>>

Update == [topic : Lines, val : Vals]

UpdatesTypeOK ==
  /\ connected \subseteq Lines
  /\ cell \in [Lines -> Vals \union {None, "placeholder", "GettingData"}]
  /\ {server, told, inWndProc, pending, refused} \subseteq BOOLEAN
  /\ data \in [Lines -> Vals \union {None}]
  /\ dirty \subseteq Lines
  /\ posted \in Nat
  /\ worker \in [at : {"idle", "taken", "dangling", "stored", "posting"},
                 upd : Update \union {None}]
  /\ updateCalls \subseteq Update
  /\ sentUpdates \in Nat
  /\ failed \subseteq {"post", "refresh"}
  /\ updated \in [Lines -> Vals \union {None}]
  /\ lost \subseteq Lines

WorkerIdle == [at |-> "idle", upd |-> None]

UpdatesInit ==
  /\ connected = {}
  /\ cell = [t \in Lines |-> None]
  /\ server = FALSE
  /\ told = FALSE
  /\ inWndProc = FALSE
  /\ data = [t \in Lines |-> None]
  /\ dirty = {}
  /\ pending = FALSE
  /\ posted = 0
  /\ worker = WorkerIdle
  /\ updateCalls = {}
  /\ sentUpdates = 0
  /\ failed = {}
  /\ updated = [t \in Lines |-> None]
  /\ refused = FALSE
  /\ lost = {}

-----------------------------------------------------------------------------
(***************************************************************************)
(* Excel's STA thread, which is inside one call at a time.                 *)
(***************************************************************************)

ServerStart ==
  /\ ~inWndProc
  /\ ~server
  /\ server' = TRUE
  /\ UNCHANGED <<connected, cell, told, inWndProc, data, dirty, notifyVars, worker,
                 updateCalls, bounds, history>>

\* ConnectData returns the placeholder.
ConnectDataShows(t) ==
  /\ ~inWndProc
  /\ server
  /\ t \notin connected
  /\ connected' = connected \union {t}
  /\ cell' = [cell EXCEPT ![t] = "placeholder"]
  /\ updated' = [updated EXCEPT ![t] = None]
  /\ UNCHANGED <<server, told, inWndProc, data, dirty, notifyVars, worker, updateCalls,
                 bounds, refused, lost>>

\* DisconnectData erases the value and leaves m_dirtyTopics alone.
DisconnectDataErases(t) ==
  /\ ~inWndProc
  /\ t \in connected
  /\ connected' = connected \ {t}
  /\ cell' = [cell EXCEPT ![t] = None]
  /\ data' = [data EXCEPT ![t] = None]
  /\ updated' = [updated EXCEPT ![t] = None]
  /\ UNCHANGED <<server, told, inWndProc, dirty, notifyVars, worker, updateCalls, bounds,
                 refused, lost>>

\* The last topic is gone: Excel terminates and releases the RtdServer, which
\* the worker may have looked up already.
ServerTerminate ==
  /\ ~inWndProc
  /\ server
  /\ connected = {}
  /\ server' = FALSE
  /\ told' = FALSE
  /\ data' = [t \in Lines |-> None]
  /\ dirty' = {}
  /\ lost' = {}
  /\ worker' = IF worker.at = "taken" THEN [worker EXCEPT !.at = "dangling"] ELSE worker
  /\ UNCHANGED <<connected, cell, inWndProc, notifyVars, updateCalls, bounds, updated, refused>>

\* RtdNotifyWndProc: the flag is cleared first.
WndProcBegins ==
  /\ ~inWndProc
  /\ posted > 0
  /\ posted' = posted - 1
  /\ pending' = FALSE
  /\ inWndProc' = TRUE
  /\ UNCHANGED <<connected, cell, server, told, data, dirty, worker, updateCalls, bounds,
                 history>>

\* NotifyUpdate, if there is a callback.
WndProcEnds ==
  /\ inWndProc
  /\ inWndProc' = FALSE
  /\ told' = (told \/ server)
  /\ UNCHANGED <<connected, cell, server, data, dirty, notifyVars, worker, updateCalls,
                 bounds, history>>

\* RefreshData takes the dirty topics; Excel ignores those that it does not
\* know.
RefreshData ==
  /\ ~inWndProc
  /\ told
  /\ told' = FALSE
  /\ dirty' = {}
  /\ cell' = [t \in Lines |->
       IF t \notin dirty \intersect connected THEN cell[t]
       ELSE IF data[t] = None THEN "GettingData" ELSE data[t]]
  /\ lost' = lost \ dirty
  /\ UNCHANGED <<connected, server, inWndProc, data, notifyVars, worker, updateCalls, bounds,
                 updated, refused>>

\* The array cannot be allocated when the dirty topics have been taken.
RefreshDataFails ==
  /\ ~inWndProc
  /\ told
  /\ dirty # {}
  /\ "refresh" \notin failed
  /\ failed' = failed \union {"refresh"}
  /\ told' = FALSE
  /\ dirty' = {}
  /\ lost' = lost \union dirty
  /\ UNCHANGED <<connected, cell, server, inWndProc, data, notifyVars, worker, updateCalls,
                 sentUpdates, updated, refused>>

-----------------------------------------------------------------------------
(***************************************************************************)
(* The Go side.  SendUpdate does not look at the subscriptions: a value is *)
(* sent to any topic id, also a disconnected one, by any goroutine.        *)
(* Publish is one such call for each topic of its snapshot, and goes on    *)
(* after a failed one.                                                     *)
(***************************************************************************)

SendUpdate(t, v) ==
  /\ sentUpdates < MaxSends
  /\ sentUpdates' = sentUpdates + 1
  /\ updateCalls' = updateCalls \union {[topic |-> t, val |-> v]}
  /\ UNCHANGED <<excelSide, data, dirty, notifyVars, worker, failed, history>>

\* The send has timed out and the call is never looked at.
SendTimesOut(upd) ==
  /\ upd \in updateCalls
  /\ updateCalls' = updateCalls \ {upd}
  /\ UNCHANGED <<excelSide, data, dirty, notifyVars, worker, bounds, history>>

-----------------------------------------------------------------------------
(***************************************************************************)
(* The XLL's worker thread.                                                *)
(***************************************************************************)

\* ProcessRtdUpdate looks g_rtdServer up.
ProcessRtdUpdate(upd) ==
  /\ worker.at = "idle"
  /\ upd \in updateCalls
  /\ updateCalls' = updateCalls \ {upd}
  /\ worker' = IF server THEN [at |-> "taken", upd |-> upd] ELSE worker
  /\ UNCHANGED <<excelSide, data, dirty, notifyVars, bounds, history>>

\* Mutant: a value that waits for its refresh is not overwritten.
UpdateTopicOnce ==
  /\ worker.at = "taken"
  /\ LET upd == worker.upd
     IN /\ data' = IF upd.topic \in dirty THEN data ELSE [data EXCEPT ![upd.topic] = upd.val]
        /\ dirty' = dirty \union {upd.topic}
        /\ updated' = [updated EXCEPT ![upd.topic] = upd.val]
  /\ worker' = [worker EXCEPT !.at = "stored"]
  /\ refused' = FALSE
  /\ UNCHANGED <<excelSide, notifyVars, updateCalls, bounds, lost>>

\* UpdateTopic, under m_topicMutex; also for a topic that is disconnected.
UpdateTopic ==
  /\ worker.at = "taken"
  /\ LET upd == worker.upd
     IN /\ data' = [data EXCEPT ![upd.topic] = upd.val]
        /\ dirty' = dirty \union {upd.topic}
        /\ updated' = [updated EXCEPT ![upd.topic] = upd.val]
  /\ worker' = [worker EXCEPT !.at = "stored"]
  /\ refused' = FALSE
  /\ UNCHANGED <<excelSide, notifyVars, updateCalls, bounds, lost>>

\* The RtdServer has been released since the look-up: the value is written to
\* freed memory, and is not seen again.
UpdateTopicDangling ==
  /\ worker.at = "dangling"
  /\ worker' = [worker EXCEPT !.at = "stored"]
  /\ refused' = FALSE
  /\ UNCHANGED <<excelSide, data, dirty, notifyVars, updateCalls, bounds, updated, lost>>

\* SignalRtdUpdate: the exchange; only its 0 -> 1 transition posts.
SignalRtdUpdate ==
  /\ worker.at = "stored"
  /\ pending' = TRUE
  /\ worker' = IF pending THEN WorkerIdle ELSE [WorkerIdle EXCEPT !.at = "posting"]
  /\ UNCHANGED <<excelSide, data, dirty, posted, updateCalls, bounds, history>>

PostMessage ==
  /\ worker.at = "posting"
  /\ posted' = posted + 1
  /\ worker' = WorkerIdle
  /\ UNCHANGED <<excelSide, data, dirty, pending, updateCalls, bounds, history>>

\* Mutant: the flag is not rolled back.
PostMessageFailsArmed ==
  /\ worker.at = "posting"
  /\ "post" \notin failed
  /\ failed' = failed \union {"post"}
  /\ refused' = TRUE
  /\ worker' = WorkerIdle
  /\ UNCHANGED <<excelSide, data, dirty, notifyVars, updateCalls, sentUpdates, updated, lost>>

\* The flag is rolled back, so that the next update posts.
PostMessageFails ==
  /\ worker.at = "posting"
  /\ "post" \notin failed
  /\ failed' = failed \union {"post"}
  /\ refused' = TRUE
  /\ pending' = FALSE
  /\ worker' = WorkerIdle
  /\ UNCHANGED <<excelSide, data, dirty, posted, updateCalls, sentUpdates, updated, lost>>

-----------------------------------------------------------------------------
ExcelSteps ==
  \/ ServerStart \/ ServerTerminate
  \/ \E t \in Lines : ConnectDataShows(t) \/ DisconnectDataErases(t)
  \/ WndProcBegins \/ WndProcEnds \/ RefreshData \/ RefreshDataFails

Senders ==
  \/ \E t \in Lines, v \in Vals : SendUpdate(t, v)
  \/ \E upd \in updateCalls : SendTimesOut(upd)

Posts == PostMessage \/ PostMessageFails

Worker ==
  \/ \E upd \in updateCalls : ProcessRtdUpdate(upd)
  \/ UpdateTopic \/ UpdateTopicDangling \/ SignalRtdUpdate \/ Posts

UpdatesNext == ExcelSteps \/ Senders \/ Worker

UpdatesSpec == UpdatesInit /\ [][UpdatesNext]_updateVars

\* The worker thread runs on, the STA thread pumps its messages whenever it is
\* idle, and Excel refreshes after it has been notified.
UpdatesFairness ==
  /\ WF_updateVars(SignalRtdUpdate) /\ WF_updateVars(Posts)
  /\ WF_updateVars(WndProcBegins) /\ WF_updateVars(WndProcEnds)
  /\ WF_updateVars(RefreshData)

UpdatesLiveSpec == UpdatesSpec /\ UpdatesFairness

-----------------------------------------------------------------------------
(***************************************************************************)
(* Properties.                                                             *)
(***************************************************************************)

\* The coalescing flag is set exactly while a notify message is in the queue
\* of the STA thread or about to be.
PendingIsPosted ==
  /\ posted <= 1
  /\ pending <=> posted = 1 \/ worker.at = "posting"

\* Values that wait for a refresh are always announced: Excel has been told,
\* or a message is on its way, or the worker is about to post one.  When a post
\* is refused they wait for the next update, and for no longer.
DirtyIsAnnounced ==
  dirty # {} /\ ~refused
    => told \/ inWndProc \/ posted > 0 \/ worker.at \in {"stored", "posting"}

\* What the cells of a topic show after a refresh is the value stored last
\* since the topic was connected, however updates, refreshes, disconnects and
\* restarts of the RtdServer interleave; unless the refresh itself failed.
RefreshedCellIsCurrent ==
  \A t \in connected : updated[t] # None /\ t \notin dirty \union lost
                         => cell[t] = updated[t]

\* A stored value reaches its cells, unless it is overwritten or the topic is
\* disconnected first, or the post or the refresh for it failed.
UpdatesShown ==
  \A t \in Lines, v \in Vals :
    t \in connected /\ updated[t] = v
      ~> cell[t] = v \/ updated[t] # v \/ t \notin connected \/ refused \/ t \in lost
=============================================================================
