----------------------------- MODULE RtdTopics -----------------------------
(***************************************************************************)
(* Real-time data topics: Excel, the XLL's connect threads and the Go      *)
(* server's RtdManager.                                                    *)
(*                                                                         *)
(* Excel's STA thread calls ConnectData and DisconnectData.  A connect is  *)
(* forwarded by a detached thread, in short attempts; a disconnect is      *)
(* forwarded once, on the STA thread, with a time-out.  A request whose    *)
(* attempt has timed out may still be handled later, or never.  On the     *)
(* server a connect registers the cancel function of a new context under   *)
(* the topic and spawns the user's handler, which subscribes the topic to  *)
(* its key, or leaves a goroutine that streams values until the context    *)
(* is cancelled.  Excel reuses the ids of topics that it has disconnected. *)
(*                                                                         *)
(* What happens to a value that is sent is the subject of RtdUpdates.      *)
(***************************************************************************)
EXTENDS Naturals, FiniteSets, NoValue

CONSTANTS
  Topics,          \* topic ids
  Keys,            \* topic strings
  MaxConnects,     \* bound: calls of ConnectData
  MaxAttempts,     \* kMaxAttempts
  MaxGens          \* bound: generations

ASSUME RtdTopicsAssumption ==
  /\ None \notin Keys \union Topics
  /\ {MaxConnects, MaxAttempts, MaxGens} \subseteq Nat

Connects == 1..MaxConnects   \* the detached threads
Gens == 1..MaxGens           \* connectGen

VARIABLES
  excel,         \* excel[t]: the key Excel has connected t with, or None
  leaving,       \* the topic whose DisconnectData the STA thread is inside
  thread,        \* thread[c]: a detached thread of ConnectData
  connectReq,    \* connectReq[c]: its attempts that the server may still handle
  disconnectReq, \* disconnectReq[t]: disconnects that it may still handle
  gen,           \* gen[g]: the context and the handler of a generation
  connectGen,    \* RtdManager.connectGen
  registered,    \* connectCancels: the generation registered for a topic, or 0
  idToKey,       \* RtdManager.idToKey
  keyToIDs,      \* RtdManager.keyToIDs
  orderly        \* history: topics connected when nothing else was under way

staVars == <<excel, leaving>>
requests == <<connectReq, disconnectReq>>
subscriptions == <<idToKey, keyToIDs>>
managerVars == <<gen, connectGen, registered, subscriptions>>
vars == <<staVars, thread, requests, managerVars, orderly>>

TypeOK ==
  /\ excel \in [Topics -> Keys \union {None}]
  /\ leaving \in Topics \union {None}
  /\ thread \in [Connects -> [at : {"none", "ready", "waiting", "acked"},
                              topic : Topics \union {None}, key : Keys \union {None},
                              tries : 0..MaxAttempts]]
  /\ connectReq \in [Connects -> SUBSET (1..MaxAttempts)]
  /\ disconnectReq \in [Topics -> Nat]
  /\ gen \in [Gens -> [topic : Topics \union {None}, key : Keys \union {None},
                       ctx : {"none", "live", "cancelled"},
                       run : {"none", "spawned", "returned"}]]
  /\ connectGen \in Gens \union {0}
  /\ registered \in [Topics -> Gens \union {0}]
  /\ idToKey \in [Topics -> Keys \union {None}]
  /\ keyToIDs \in [Keys -> SUBSET Topics]
  /\ orderly \subseteq Topics

Init ==
  /\ excel = [t \in Topics |-> None]
  /\ leaving = None
  /\ thread = [c \in Connects |-> [at |-> "none", topic |-> None, key |-> None, tries |-> 0]]
  /\ connectReq = [c \in Connects |-> {}]
  /\ disconnectReq = [t \in Topics |-> 0]
  /\ gen = [g \in Gens |-> [topic |-> None, key |-> None, ctx |-> "none", run |-> "none"]]
  /\ connectGen = 0
  /\ registered = [t \in Topics |-> 0]
  /\ idToKey = [t \in Topics |-> None]
  /\ keyToIDs = [k \in Keys |-> {}]
  /\ orderly = {}

-----------------------------------------------------------------------------
(***************************************************************************)
(* Excel's STA thread, which is inside one call at a time.                 *)
(***************************************************************************)

\* Something about t is under way between the XLL and the server.
UnderWay(t) ==
  \/ \E c \in Connects : /\ thread[c].topic = t
                         /\ \/ thread[c].at = "ready" /\ thread[c].tries < MaxAttempts
                            \/ thread[c].at = "waiting"
                            \/ connectReq[c] # {}
  \/ disconnectReq[t] > 0

\* ConnectData spawns the detached thread.
ConnectData(c, t, k) ==
  /\ leaving = None
  /\ excel[t] = None
  /\ thread[c].at = "none"
  /\ \A d \in Connects : d < c => thread[d].at # "none"
  /\ thread' = [thread EXCEPT ![c] = [at |-> "ready", topic |-> t, key |-> k, tries |-> 0]]
  /\ excel' = [excel EXCEPT ![t] = k]
  /\ orderly' = IF UnderWay(t) THEN orderly \ {t} ELSE orderly \union {t}
  /\ UNCHANGED <<leaving, requests, managerVars>>

\* DisconnectData: one send, or none when no slot is free.
DisconnectBegins(t) ==
  /\ leaving = None
  /\ excel[t] # None
  /\ leaving' = t
  /\ \/ disconnectReq' = [disconnectReq EXCEPT ![t] = @ + 1]
     \/ UNCHANGED disconnectReq
  /\ UNCHANGED <<excel, thread, connectReq, managerVars, orderly>>

\* The send returns, with an answer or by its time-out.
DisconnectReturns ==
  /\ leaving # None
  /\ leaving' = None
  /\ excel' = [excel EXCEPT ![leaving] = None]
  /\ UNCHANGED <<thread, requests, managerVars, orderly>>

-----------------------------------------------------------------------------
(***************************************************************************)
(* The detached thread of ConnectData.  It gives up after its last attempt *)
(* or when a teardown starts: it is then "ready" for ever.                 *)
(***************************************************************************)

\* An attempt: the request is in a slot, and the thread waits 250 ms.
Attempt(c) ==
  /\ thread[c].at = "ready"
  /\ thread[c].tries < MaxAttempts
  /\ thread' = [thread EXCEPT ![c] = [@ EXCEPT !.at = "waiting", !.tries = thread[c].tries + 1]]
  /\ connectReq' = [connectReq EXCEPT ![c] = @ \union {thread[c].tries + 1}]
  /\ UNCHANGED <<staVars, disconnectReq, managerVars, orderly>>

\* No slot is free.
AttemptSkipped(c) ==
  /\ thread[c].at = "ready"
  /\ thread[c].tries < MaxAttempts
  /\ thread' = [thread EXCEPT ![c].tries = @ + 1]
  /\ UNCHANGED <<staVars, requests, managerVars, orderly>>

AttemptTimesOut(c) ==
  /\ thread[c].at = "waiting"
  /\ thread' = [thread EXCEPT ![c].at = "ready"]
  /\ UNCHANGED <<staVars, requests, managerVars, orderly>>

\* A request that nobody waits for may never be looked at.
ConnectWithdrawn(c, a) ==
  /\ a \in connectReq[c]
  /\ ~(thread[c].at = "waiting" /\ thread[c].tries = a)
  /\ connectReq' = [connectReq EXCEPT ![c] = @ \ {a}]
  /\ UNCHANGED <<staVars, thread, disconnectReq, managerVars, orderly>>

DisconnectWithdrawn(t) ==
  /\ disconnectReq[t] > 0
  /\ leaving # t
  /\ disconnectReq' = [disconnectReq EXCEPT ![t] = @ - 1]
  /\ UNCHANGED <<staVars, thread, connectReq, managerVars, orderly>>

-----------------------------------------------------------------------------
(***************************************************************************)
(* The server: RtdManager, every operation of which is one critical        *)
(* section of mu, and the handlers of the two requests.                    *)
(***************************************************************************)

\* Mutant: the topic stays in the set of its old key.
SubscribeUnmoved(k, t) ==
  /\ keyToIDs' = [keyToIDs EXCEPT ![k] = @ \union {t}]
  /\ idToKey' = [idToKey EXCEPT ![t] = k]

\* A topic of another key is moved.
Subscribe(k, t) ==
  /\ keyToIDs' = [l \in Keys |-> IF l = k THEN keyToIDs[l] \union {t} ELSE keyToIDs[l] \ {t}]
  /\ idToKey' = [idToKey EXCEPT ![t] = k]

\* The context of h is cancelled; there is none when h is 0.
Cancelled(h) == [g \in Gens |-> IF g = h THEN [gen[g] EXCEPT !.ctx = "cancelled"] ELSE gen[g]]

\* Mutant: the stale registration is overwritten and not cancelled.
RegisterConnectCancelUncancelled(t, k) ==
  LET g == connectGen + 1
  IN /\ connectGen' = g
     /\ gen' = [gen EXCEPT ![g] = [topic |-> t, key |-> k, ctx |-> "live", run |-> "spawned"]]
     /\ registered' = [registered EXCEPT ![t] = g]

\* A new generation; a stale registration of the topic is cancelled.
RegisterConnectCancel(t, k) ==
  LET g == connectGen + 1
  IN /\ connectGen' = g
     /\ gen' = [Cancelled(registered[t]) EXCEPT
                  ![g] = [topic |-> t, key |-> k, ctx |-> "live", run |-> "spawned"]]
     /\ registered' = [registered EXCEPT ![t] = g]

\* The subscription goes and the context is cancelled.
Unsubscribe(t) ==
  /\ keyToIDs' = [k \in Keys |-> keyToIDs[k] \ {t}]
  /\ idToKey' = [idToKey EXCEPT ![t] = None]
  /\ gen' = Cancelled(registered[t])
  /\ registered' = [registered EXCEPT ![t] = 0]
  /\ UNCHANGED connectGen

\* HandleRtdConnect; the answer counts only for the attempt that waits.
HandleRtdConnect(c, a) ==
  /\ a \in connectReq[c]
  /\ connectGen < MaxGens
  /\ connectReq' = [connectReq EXCEPT ![c] = @ \ {a}]
  /\ RegisterConnectCancel(thread[c].topic, thread[c].key)
  /\ thread' = IF thread[c].at = "waiting" /\ thread[c].tries = a
                 THEN [thread EXCEPT ![c].at = "acked"]
                 ELSE thread
  /\ UNCHANGED <<staVars, disconnectReq, subscriptions, orderly>>

HandleRtdDisconnect(t) ==
  /\ disconnectReq[t] > 0
  /\ disconnectReq' = [disconnectReq EXCEPT ![t] = @ - 1]
  /\ Unsubscribe(t)
  /\ UNCHANGED <<staVars, thread, connectReq, orderly>>

-----------------------------------------------------------------------------
(***************************************************************************)
(* The user's handler, in a goroutine of its own.                          *)
(***************************************************************************)

\* onConnect subscribes the topic and returns.
HandlerSubscribes(g) ==
  /\ gen[g].run = "spawned"
  /\ gen' = [gen EXCEPT ![g].run = "returned"]
  /\ Subscribe(gen[g].key, gen[g].topic)
  /\ UNCHANGED <<staVars, thread, requests, connectGen, registered, orderly>>

\* Mutant: the context is cancelled when onConnect returns.
HandlerReturnsCancelled(g) ==
  /\ gen[g].run = "spawned"
  /\ gen' = [gen EXCEPT ![g] = [@ EXCEPT !.run = "returned", !.ctx = "cancelled"]]
  /\ UNCHANGED <<staVars, thread, requests, connectGen, registered, subscriptions, orderly>>

\* onConnect returns without a subscription; a goroutine that streams goes on
\* for as long as the context is live.
HandlerReturns(g) ==
  /\ gen[g].run = "spawned"
  /\ gen' = [gen EXCEPT ![g].run = "returned"]
  /\ UNCHANGED <<staVars, thread, requests, connectGen, registered, subscriptions, orderly>>

-----------------------------------------------------------------------------
Excel ==
  \/ \E c \in Connects, t \in Topics, k \in Keys : ConnectData(c, t, k)
  \/ \E t \in Topics : DisconnectBegins(t)
  \/ DisconnectReturns

Thread(c) ==
  \/ Attempt(c) \/ AttemptSkipped(c) \/ AttemptTimesOut(c)
  \/ \E a \in 1..MaxAttempts : ConnectWithdrawn(c, a)

Server ==
  \/ \E c \in Connects, a \in 1..MaxAttempts : HandleRtdConnect(c, a)
  \/ \E t \in Topics : HandleRtdDisconnect(t) \/ DisconnectWithdrawn(t)

Handler(g) == HandlerSubscribes(g) \/ HandlerReturns(g)

Next ==
  \/ Excel
  \/ \E c \in Connects : Thread(c)
  \/ Server
  \/ \E g \in Gens : Handler(g)

Spec == Init /\ [][Next]_vars

-----------------------------------------------------------------------------
(***************************************************************************)
(* Properties.                                                             *)
(***************************************************************************)

\* The two subscription maps of RtdManager stay each other's inverse, through
\* duplicated connects, reused ids and subscriptions after the disconnect:
\* Publish reaches a topic exactly under the key it was subscribed to last.
SubscriptionsAgree ==
  \A k \in Keys, t \in Topics : t \in keyToIDs[k] <=> idToKey[t] = k

\* A context that is not cancelled is the registered one of its topic, so that
\* a disconnect can find it: neither a duplicated connect nor a reused id
\* leaves a handler running that nobody can stop.
LiveContextIsRegistered ==
  \A g \in Gens : gen[g].ctx = "live" => registered[gen[g].topic] = g

\* A topic whose connect the server has acknowledged keeps a live context for
\* its own key until Excel disconnects it, whatever duplicates of the connect
\* arrive and whether its handler has returned or streams; unless its id was
\* reused while requests of its former use were under way.
ConnectedStaysLive ==
  \A c \in Connects :
    LET t == thread[c].topic
    IN (/\ thread[c].at = "acked"
        /\ \A d \in Connects : d > c => thread[d].topic # t
        /\ excel[t] # None
        /\ leaving # t
        /\ t \in orderly)
       => /\ registered[t] # 0
          /\ gen[registered[t]].key = excel[t]
          /\ gen[registered[t]].ctx = "live"
=============================================================================
