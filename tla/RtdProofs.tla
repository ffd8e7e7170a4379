----------------------------- MODULE RtdProofs -----------------------------
(***************************************************************************)
(* Proofs about RtdTopics, for any number of topics, keys, connects,       *)
(* attempts and generations, and about RtdUpdates, for any number of lines,*)
(* values and sends.                                                       *)
(***************************************************************************)
EXTENDS RtdTopics, RtdUpdates, TLAPS

(***************************************************************************)
(* The first part of the inductive invariant is about RtdManager: who has  *)
(* a topic and a key, and what its maps say of each other.                 *)
(***************************************************************************)

\* A thread that runs, and one whose request may be handled, has a topic.
ThreadsNamed ==
  \A c \in Connects :
    /\ thread[c].at # "none" => thread[c].topic \in Topics /\ thread[c].key \in Keys
    /\ thread[c].at = "none" => thread[c].topic = None /\ connectReq[c] = {}

\* So has a generation whose handler or context is alive.
GensNamed ==
  \A g \in Gens : gen[g].run = "spawned" \/ gen[g].ctx = "live"
                    => gen[g].topic \in Topics /\ gen[g].key \in Keys

ManagerInv ==
  /\ TypeOK
  /\ ThreadsNamed
  /\ GensNamed
  /\ SubscriptionsAgree
  /\ LiveContextIsRegistered

(***************************************************************************)
(* The second part is about one use of a topic id, from ConnectData to     *)
(* DisconnectData.                                                         *)
(***************************************************************************)

\* Connects are numbered in the order of their calls.
ThreadsInOrder ==
  \A c, d \in Connects : c < d /\ thread[c].at = "none" => thread[d].at = "none"

\* A registered generation is a live one of its own topic.
RegisteredIsLive ==
  \A t \in Topics : registered[t] # 0 => /\ registered[t] <= connectGen
                                         /\ gen[registered[t]].topic = t
                                         /\ gen[registered[t]].ctx = "live"

Latest(c, t) == thread[c].topic = t /\ \A d \in Connects : d > c => thread[d].topic # t

\* The latest connect of a topic has the key of its present use.
LatestHasKey ==
  \A c \in Connects, t \in Topics : Latest(c, t) /\ excel[t] # None => thread[c].key = excel[t]

\* Nothing of c is under way.
Quiet(c) ==
  /\ connectReq[c] = {}
  /\ thread[c].at # "waiting"
  /\ ~(thread[c].at = "ready" /\ thread[c].tries < MaxAttempts)

\* In an orderly use nothing of an earlier use is under way.
OrderlyIsAlone ==
  \A t \in orderly :
    excel[t] # None =>
      /\ leaving # t => disconnectReq[t] = 0
      /\ \A c, d \in Connects : thread[d].topic = t /\ thread[c].topic = t /\ d < c => Quiet(d)

UseInv ==
  /\ ThreadsInOrder
  /\ RegisteredIsLive
  /\ LatestHasKey
  /\ OrderlyIsAlone
  /\ ConnectedStaysLive

-----------------------------------------------------------------------------

LEMMA ManagerInit == Init => ManagerInv
BY RtdTopicsAssumption
   DEF Init, ManagerInv, TypeOK, ThreadsNamed, GensNamed, SubscriptionsAgree,
       LiveContextIsRegistered, Connects, Gens

\* The steps of Excel and of the connect threads leave the manager alone.
LEMMA ManagerUnrelated ==
  ASSUME ManagerInv, UNCHANGED managerVars, TypeOK', ThreadsNamed'
  PROVE  ManagerInv'
BY DEF ManagerInv, managerVars, subscriptions, GensNamed, SubscriptionsAgree,
       LiveContextIsRegistered

LEMMA ExcelKeepsManager ==
  ASSUME ManagerInv, Excel
  PROVE  ManagerInv'
<1> USE DEF ManagerInv, TypeOK, ThreadsNamed, staVars, requests, managerVars, subscriptions
<1>1. ASSUME NEW c \in Connects, NEW t \in Topics, NEW k \in Keys, ConnectData(c, t, k)
      PROVE  ManagerInv'
  <2>1. thread'[c] = [at |-> "ready", topic |-> t, key |-> k, tries |-> 0]
    BY <1>1 DEF ConnectData
  <2>2. \A d \in Connects \ {c} : thread'[d] = thread[d]
    BY <1>1 DEF ConnectData
  <2>3. 0 \in 0..MaxAttempts
    BY RtdTopicsAssumption
  <2>4. thread' \in [Connects -> [at : {"none", "ready", "waiting", "acked"},
                                 topic : Topics \union {None}, key : Keys \union {None},
                                 tries : 0..MaxAttempts]]
    BY <1>1, <2>3 DEF ConnectData
  <2>5. TypeOK'
    BY <1>1, <2>4 DEF ConnectData
  <2>6. ThreadsNamed'
    BY <1>1, <2>1, <2>2 DEF ConnectData
  <2> QED
    BY <1>1, <2>5, <2>6, ManagerUnrelated DEF ConnectData
<1>2. ASSUME NEW t \in Topics, DisconnectBegins(t) PROVE ManagerInv'
  <2>1. TypeOK'
    BY <1>2 DEF DisconnectBegins
  <2>2. ThreadsNamed'
    BY <1>2 DEF DisconnectBegins
  <2> QED
    BY <1>2, <2>1, <2>2, ManagerUnrelated DEF DisconnectBegins
<1>3. ASSUME DisconnectReturns PROVE ManagerInv'
  <2>1. TypeOK'
    BY <1>3 DEF DisconnectReturns
  <2>2. ThreadsNamed'
    BY <1>3 DEF DisconnectReturns
  <2> QED
    BY <1>3, <2>1, <2>2, ManagerUnrelated DEF DisconnectReturns
<1> QED
  BY <1>1, <1>2, <1>3 DEF Excel

LEMMA ThreadKeepsManager ==
  ASSUME ManagerInv, NEW c \in Connects, Thread(c)
  PROVE  ManagerInv'
<1> USE DEF ManagerInv, TypeOK, ThreadsNamed, staVars, requests, managerVars, subscriptions
<1>1. CASE Attempt(c)
  <2>1. thread[c].tries + 1 \in 0..MaxAttempts /\ thread[c].tries + 1 \in 1..MaxAttempts
    BY <1>1, RtdTopicsAssumption DEF Attempt
  <2> DEFINE T == [at : {"none", "ready", "waiting", "acked"},
                   topic : Topics \union {None}, key : Keys \union {None},
                   tries : 0..MaxAttempts]
             Tried(x) == [x EXCEPT !.at = "waiting", !.tries = @ + 1]
  <2>2. \A x \in T : x.tries + 1 \in 0..MaxAttempts => Tried(x) \in T
    OBVIOUS
  <2>3. thread \in [Connects -> T]
    OBVIOUS
  <2>4. thread' \in [Connects -> T]
    <3>1. /\ thread' = [d \in Connects |-> thread'[d]]
          /\ \A d \in Connects \ {c} : thread'[d] = thread[d]
      BY <1>1, <2>3 DEF Attempt
    <3>2. thread'[c] = Tried(thread[c])
      BY <1>1, <2>3 DEF Attempt
    <3>3. Tried(thread[c]) \in T
      BY <2>1, <2>2, <2>3
    <3> HIDE DEF T, Tried
    <3> QED
      BY <2>3, <3>1, <3>2, <3>3
  <2>5. TypeOK'
    BY <1>1, <2>1, <2>4 DEF Attempt
  <2>6. ThreadsNamed'
    BY <1>1 DEF Attempt
  <2> QED
    BY <1>1, <2>5, <2>6, ManagerUnrelated DEF Attempt
<1>2. CASE AttemptSkipped(c)
  <2>1. thread[c].tries + 1 \in 0..MaxAttempts
    BY <1>2, RtdTopicsAssumption DEF AttemptSkipped
  <2>2. TypeOK'
    BY <1>2, <2>1 DEF AttemptSkipped
  <2>3. ThreadsNamed'
    BY <1>2 DEF AttemptSkipped
  <2> QED
    BY <1>2, <2>2, <2>3, ManagerUnrelated DEF AttemptSkipped
<1>3. CASE AttemptTimesOut(c)
  <2>1. TypeOK'
    BY <1>3 DEF AttemptTimesOut
  <2>2. ThreadsNamed'
    BY <1>3 DEF AttemptTimesOut
  <2> QED
    BY <1>3, <2>1, <2>2, ManagerUnrelated DEF AttemptTimesOut
<1>4. ASSUME NEW a \in 1..MaxAttempts, ConnectWithdrawn(c, a) PROVE ManagerInv'
  <2>1. TypeOK'
    BY <1>4 DEF ConnectWithdrawn
  <2>2. ThreadsNamed'
    BY <1>4 DEF ConnectWithdrawn
  <2> QED
    BY <1>4, <2>1, <2>2, ManagerUnrelated DEF ConnectWithdrawn
<1> QED
  BY <1>1, <1>2, <1>3, <1>4 DEF Thread

(***************************************************************************)
(* Cancelling a context leaves the topic, the key and the handler alone,   *)
(* and no other context.                                                   *)
(***************************************************************************)
LEMMA CancelledGens ==
  ASSUME ManagerInv, NEW h \in Gens \union {0}
  PROVE  /\ Cancelled(h) \in [Gens -> [topic : Topics \union {None}, key : Keys \union {None},
                                      ctx : {"none", "live", "cancelled"},
                                      run : {"none", "spawned", "returned"}]]
         /\ \A g \in Gens : /\ Cancelled(h)[g].topic = gen[g].topic
                            /\ Cancelled(h)[g].key = gen[g].key
                            /\ Cancelled(h)[g].run = gen[g].run
                            /\ g # h => Cancelled(h)[g] = gen[g]
                            /\ g = h => Cancelled(h)[g].ctx = "cancelled"
<1> DEFINE Gen == [topic : Topics \union {None}, key : Keys \union {None},
                   ctx : {"none", "live", "cancelled"}, run : {"none", "spawned", "returned"}]
<1>1. gen \in [Gens -> Gen]
  BY DEF ManagerInv, TypeOK
<1>2. \A x \in Gen : LET y == [x EXCEPT !.ctx = "cancelled"]
                    IN  /\ y \in Gen /\ y.ctx = "cancelled"
                        /\ y.topic = x.topic /\ y.key = x.key /\ y.run = x.run
  OBVIOUS
<1> HIDE DEF Gen
<1>3. Cancelled(h) \in [Gens -> Gen]
  BY <1>1, <1>2 DEF Cancelled
<1>4. ASSUME NEW g \in Gens
      PROVE  /\ Cancelled(h)[g].topic = gen[g].topic
             /\ Cancelled(h)[g].key = gen[g].key
             /\ Cancelled(h)[g].run = gen[g].run
             /\ g # h => Cancelled(h)[g] = gen[g]
             /\ g = h => Cancelled(h)[g].ctx = "cancelled"
  BY <1>1, <1>2 DEF Cancelled
<1> QED
  BY <1>3, <1>4 DEF Gen

LEMMA ConnectKeepsManager ==
  ASSUME ManagerInv, NEW c \in Connects, NEW a \in 1..MaxAttempts, HandleRtdConnect(c, a)
  PROVE  ManagerInv'
<1> DEFINE t == thread[c].topic
           k == thread[c].key
           g == connectGen + 1
           new == [topic |-> t, key |-> k, ctx |-> "live", run |-> "spawned"]
<1>1. t \in Topics /\ k \in Keys
  BY DEF HandleRtdConnect, ManagerInv, ThreadsNamed, TypeOK
<1>2. g \in Gens
  BY RtdTopicsAssumption DEF HandleRtdConnect, ManagerInv, TypeOK, Gens
<1>3. registered[t] \in Gens \union {0}
  BY <1>1 DEF ManagerInv, TypeOK
<1>4. /\ gen' = [Cancelled(registered[t]) EXCEPT ![g] = new]
      /\ registered' = [registered EXCEPT ![t] = g]
      /\ connectGen' = g
  BY DEF HandleRtdConnect, RegisterConnectCancel
<1>5. /\ gen'[g] = new
      /\ \A h \in Gens \ {g} : gen'[h] = Cancelled(registered[t])[h]
  BY <1>2, <1>3, <1>4, CancelledGens
<1>6. registered'[t] = g /\ \A u \in Topics \ {t} : registered'[u] = registered[u]
  BY <1>1, <1>4 DEF ManagerInv, TypeOK
<1>7. TypeOK'
  <2>1. gen' \in [Gens -> [topic : Topics \union {None}, key : Keys \union {None},
                          ctx : {"none", "live", "cancelled"},
                          run : {"none", "spawned", "returned"}]]
    BY <1>1, <1>3, <1>4, CancelledGens
  <2>2. registered' \in [Topics -> Gens \union {0}] /\ connectGen' \in Gens \union {0}
    BY <1>1, <1>2, <1>4 DEF ManagerInv, TypeOK
  <2>3. thread' \in [Connects -> [at : {"none", "ready", "waiting", "acked"},
                                 topic : Topics \union {None}, key : Keys \union {None},
                                 tries : 0..MaxAttempts]]
    BY DEF HandleRtdConnect, ManagerInv, TypeOK
  <2> QED
    BY <2>1, <2>2, <2>3
       DEF HandleRtdConnect, ManagerInv, TypeOK, staVars, subscriptions
<1>8. ThreadsNamed'
  BY DEF HandleRtdConnect, ManagerInv, ThreadsNamed, TypeOK
<1>9. GensNamed'
  <2> SUFFICES ASSUME NEW h \in Gens, gen'[h].run = "spawned" \/ gen'[h].ctx = "live"
               PROVE  gen'[h].topic \in Topics /\ gen'[h].key \in Keys
    BY DEF GensNamed
  <2>1. CASE h = g
    BY <1>1, <1>5, <2>1
  <2>2. CASE h # g
    <3>1. gen'[h] = Cancelled(registered[t])[h]
      BY <1>5, <2>2
    <3>2. gen[h].run = "spawned" \/ gen[h].ctx = "live"
      BY <1>3, <3>1, CancelledGens
    <3>3. gen[h].topic \in Topics /\ gen[h].key \in Keys
      BY <3>2 DEF ManagerInv, GensNamed
    <3> QED
      BY <1>3, <3>1, <3>3, CancelledGens
  <2> QED
    BY <2>1, <2>2
<1>10. SubscriptionsAgree'
  BY DEF HandleRtdConnect, ManagerInv, SubscriptionsAgree, subscriptions
<1>11. LiveContextIsRegistered'
  <2> SUFFICES ASSUME NEW h \in Gens, gen'[h].ctx = "live"
               PROVE  registered'[gen'[h].topic] = h
    BY DEF LiveContextIsRegistered
  <2>1. CASE h = g
    BY <1>5, <1>6, <2>1
  <2>2. CASE h # g
    <3>1. h # registered[t] /\ gen'[h] = gen[h]
      BY <1>3, <1>5, <2>2, CancelledGens
    <3>2. registered[gen[h].topic] = h /\ gen[h].topic \in Topics
      BY <3>1 DEF ManagerInv, LiveContextIsRegistered, GensNamed
    <3> QED
      BY <1>6, <3>1, <3>2
  <2> QED
    BY <2>1, <2>2
<1> QED
  BY <1>7, <1>8, <1>9, <1>10, <1>11 DEF ManagerInv

LEMMA DisconnectKeepsManager ==
  ASSUME ManagerInv, NEW t \in Topics, HandleRtdDisconnect(t)
  PROVE  ManagerInv'
<1>1. registered[t] \in Gens \union {0}
  BY DEF ManagerInv, TypeOK
<1>2. /\ gen' = Cancelled(registered[t])
      /\ registered' = [registered EXCEPT ![t] = 0]
      /\ idToKey' = [idToKey EXCEPT ![t] = None]
      /\ keyToIDs' = [k \in Keys |-> keyToIDs[k] \ {t}]
  BY DEF HandleRtdDisconnect, Unsubscribe
<1>3. TypeOK'
  <2>1. gen' \in [Gens -> [topic : Topics \union {None}, key : Keys \union {None},
                          ctx : {"none", "live", "cancelled"},
                          run : {"none", "spawned", "returned"}]]
    BY <1>1, <1>2, CancelledGens
  <2>2. /\ registered' \in [Topics -> Gens \union {0}]
        /\ idToKey' \in [Topics -> Keys \union {None}]
        /\ keyToIDs' \in [Keys -> SUBSET Topics]
    BY <1>2 DEF ManagerInv, TypeOK
  <2>3. disconnectReq' \in [Topics -> Nat]
    BY DEF HandleRtdDisconnect, ManagerInv, TypeOK
  <2> QED
    BY <2>1, <2>2, <2>3
       DEF HandleRtdDisconnect, Unsubscribe, ManagerInv, TypeOK, staVars
<1>4. ThreadsNamed'
  BY DEF HandleRtdDisconnect, ManagerInv, ThreadsNamed
<1>5. GensNamed'
  BY <1>1, <1>2, CancelledGens DEF GensNamed, ManagerInv
<1>6. SubscriptionsAgree'
  BY <1>2, RtdTopicsAssumption DEF ManagerInv, TypeOK, SubscriptionsAgree
<1>7. LiveContextIsRegistered'
  <2> SUFFICES ASSUME NEW h \in Gens, gen'[h].ctx = "live"
               PROVE  registered'[gen'[h].topic] = h
    BY DEF LiveContextIsRegistered
  <2>1. h # registered[t] /\ gen'[h] = gen[h]
    BY <1>1, <1>2, CancelledGens
  <2>2. registered[gen[h].topic] = h /\ gen[h].topic \in Topics
    BY <2>1 DEF ManagerInv, LiveContextIsRegistered, GensNamed
  <2> QED
    BY <1>2, <2>1, <2>2 DEF ManagerInv, TypeOK
<1> QED
  BY <1>3, <1>4, <1>5, <1>6, <1>7 DEF ManagerInv

LEMMA HandlerKeepsManager ==
  ASSUME ManagerInv, NEW g \in Gens, Handler(g)
  PROVE  ManagerInv'
<1>1. gen' = [gen EXCEPT ![g].run = "returned"]
  BY DEF Handler, HandlerSubscribes, HandlerReturns
<1>2. /\ gen' \in [Gens -> [topic : Topics \union {None}, key : Keys \union {None},
                            ctx : {"none", "live", "cancelled"},
                            run : {"none", "spawned", "returned"}]]
      /\ \A h \in Gens : /\ gen'[h].topic = gen[h].topic /\ gen'[h].key = gen[h].key
                         /\ gen'[h].ctx = gen[h].ctx
                         /\ gen'[h].run = "spawned" => gen[h].run = "spawned"
  <2> DEFINE Gen == [topic : Topics \union {None}, key : Keys \union {None},
                     ctx : {"none", "live", "cancelled"},
                     run : {"none", "spawned", "returned"}]
  <2>1. gen \in [Gens -> Gen]
    BY DEF ManagerInv, TypeOK
  <2>2. \A x \in Gen : LET y == [x EXCEPT !.run = "returned"]
                      IN  /\ y \in Gen /\ y.run = "returned"
                          /\ y.topic = x.topic /\ y.key = x.key /\ y.ctx = x.ctx
    OBVIOUS
  <2> HIDE DEF Gen
  <2>3. gen' \in [Gens -> Gen]
    BY <1>1, <2>1, <2>2
  <2>4. ASSUME NEW h \in Gens
        PROVE  /\ gen'[h].topic = gen[h].topic /\ gen'[h].key = gen[h].key
               /\ gen'[h].ctx = gen[h].ctx
               /\ gen'[h].run = "spawned" => gen[h].run = "spawned"
    BY <1>1, <2>1, <2>2
  <2> QED
    BY <2>3, <2>4 DEF Gen
<1>3. GensNamed'
  BY <1>2 DEF ManagerInv, GensNamed
<1>4. ThreadsNamed' /\ LiveContextIsRegistered'
  <2>1. UNCHANGED <<thread, connectReq, registered>>
    BY DEF Handler, HandlerSubscribes, HandlerReturns, requests
  <2> QED
    BY <1>2, <2>1 DEF ManagerInv, ThreadsNamed, LiveContextIsRegistered
<1>5. gen[g].topic \in Topics /\ gen[g].key \in Keys
  BY DEF Handler, HandlerSubscribes, HandlerReturns, ManagerInv, GensNamed
<1>6. TypeOK' /\ SubscriptionsAgree'
  <2>1. CASE HandlerSubscribes(g)
    <3>1. /\ keyToIDs' = [l \in Keys |-> IF l = gen[g].key THEN keyToIDs[l] \union {gen[g].topic}
                                                          ELSE keyToIDs[l] \ {gen[g].topic}]
          /\ idToKey' = [idToKey EXCEPT ![gen[g].topic] = gen[g].key]
      BY <2>1 DEF HandlerSubscribes, Subscribe
    <3>2. keyToIDs' \in [Keys -> SUBSET Topics] /\ idToKey' \in [Topics -> Keys \union {None}]
      BY <1>5, <3>1 DEF ManagerInv, TypeOK
    <3>3. TypeOK'
      BY <1>2, <2>1, <3>2 DEF HandlerSubscribes, ManagerInv, TypeOK, staVars, requests
    <3>4. SubscriptionsAgree'
      BY <1>5, <3>1 DEF ManagerInv, TypeOK, SubscriptionsAgree
    <3> QED
      BY <3>3, <3>4
  <2>2. CASE HandlerReturns(g)
    BY <1>2, <2>2 DEF HandlerReturns, ManagerInv, TypeOK, SubscriptionsAgree, staVars,
                      requests, subscriptions
  <2> QED
    BY <2>1, <2>2 DEF Handler
<1> QED
  BY <1>3, <1>4, <1>6 DEF ManagerInv

LEMMA ManagerStep == ManagerInv /\ [Next]_vars => ManagerInv'
<1> SUFFICES ASSUME ManagerInv, [Next]_vars PROVE ManagerInv'
  OBVIOUS
<1>1. ASSUME NEW t \in Topics, DisconnectWithdrawn(t) PROVE ManagerInv'
  <2>1. TypeOK' /\ ThreadsNamed'
    BY <1>1 DEF DisconnectWithdrawn, ManagerInv, TypeOK, ThreadsNamed, staVars,
                managerVars, subscriptions
  <2> QED
    BY <1>1, <2>1, ManagerUnrelated DEF DisconnectWithdrawn
<1>2. CASE UNCHANGED vars
  BY <1>2 DEF vars, staVars, requests, managerVars, subscriptions, ManagerInv, TypeOK,
              ThreadsNamed, GensNamed, SubscriptionsAgree, LiveContextIsRegistered
<1>3. CASE Server
  BY <1>1, <1>3, ConnectKeepsManager, DisconnectKeepsManager DEF Server
<1> QED
  BY <1>2, <1>3, ExcelKeepsManager, ThreadKeepsManager, HandlerKeepsManager DEF Next

THEOREM ManagerInvariance == Spec => []ManagerInv
BY ManagerInit, ManagerStep, PTL DEF Spec

(***************************************************************************)
(* Subscribe and Unsubscribe keep the two maps each other's inverse.       *)
(***************************************************************************)
THEOREM SubscriptionsStayInverse == Spec => []SubscriptionsAgree
<1>1. ManagerInv => SubscriptionsAgree
  BY DEF ManagerInv
<1> QED
  BY <1>1, ManagerInvariance, PTL

(***************************************************************************)
(* No handler runs on a context that no disconnect could cancel.           *)
(***************************************************************************)
THEOREM LiveContextsAreRegistered == Spec => []LiveContextIsRegistered
<1>1. ManagerInv => LiveContextIsRegistered
  BY DEF ManagerInv
<1> QED
  BY <1>1, ManagerInvariance, PTL

-----------------------------------------------------------------------------
(***************************************************************************)
(* The uses of a topic id.                                                 *)
(***************************************************************************)

LEMMA UseInit == Init => UseInv
BY DEF Init, UseInv, ThreadsInOrder, RegisteredIsLive, LatestHasKey, OrderlyIsAlone,
       ConnectedStaysLive, Latest, Connects

LEMMA ConnectDataKeepsUse ==
  ASSUME ManagerInv, UseInv, NEW c \in Connects, NEW t \in Topics, NEW k \in Keys,
         ConnectData(c, t, k)
  PROVE  UseInv'
<1> USE DEF Connects
<1>1. /\ thread'[c] = [at |-> "ready", topic |-> t, key |-> k, tries |-> 0]
      /\ \A d \in Connects \ {c} : thread'[d] = thread[d]
      /\ excel'[t] = k /\ \A u \in Topics \ {t} : excel'[u] = excel[u]
      /\ k # None
  BY RtdTopicsAssumption DEF ConnectData, ManagerInv, TypeOK
<1>2. UNCHANGED <<leaving, connectReq, disconnectReq, gen, connectGen, registered>>
  BY DEF ConnectData, requests, managerVars
<1>3. \A d \in Connects : /\ d < c => thread[d].at # "none"
                          /\ d > c => thread[d].at = "none" /\ thread[d].topic = None
  BY DEF ConnectData, UseInv, ThreadsInOrder, ManagerInv, ThreadsNamed
<1>4. None \notin Topics /\ thread[c].at = "none" /\ thread[c].topic = None
  BY RtdTopicsAssumption DEF ConnectData, ManagerInv, ThreadsNamed
<1>5. ThreadsInOrder'
  <2> SUFFICES ASSUME NEW d \in Connects, NEW e \in Connects, d < e, thread'[d].at = "none"
               PROVE  thread'[e].at = "none"
    BY DEF ThreadsInOrder
  <2>1. d # c /\ ~(d < c)
    <3>1. d # c
      BY <1>1
    <3>2. thread[d].at = "none"
      BY <1>1, <3>1
    <3> QED
      BY <1>3, <3>1, <3>2
  <2>2. e > c
    BY <2>1, RtdTopicsAssumption
  <2> QED
    BY <1>1, <1>3, <2>2
<1>6. RegisteredIsLive'
  BY <1>2 DEF UseInv, RegisteredIsLive
<1>7. ASSUME NEW d \in Connects, NEW u \in Topics, Latest(d, u)'
      PROVE  IF u = t THEN d = c ELSE d # c /\ Latest(d, u)
  <2>1. CASE u = t
    <3>1. ~(c > d)
      BY <1>1, <1>7, <2>1 DEF Latest
    <3>2. ~(d > c)
      BY <1>1, <1>3, <1>4, <1>7, <2>1 DEF Latest
    <3> QED
      BY <2>1, <3>1, <3>2
  <2>2. CASE u # t
    BY <1>1, <1>4, <1>7, <2>2 DEF Latest
  <2> QED
    BY <2>1, <2>2
<1>8. LatestHasKey'
  <2> SUFFICES ASSUME NEW d \in Connects, NEW u \in Topics, Latest(d, u)', excel'[u] # None
               PROVE  thread'[d].key = excel'[u]
    BY DEF LatestHasKey
  <2>1. CASE u = t
    BY <1>1, <1>7, <2>1
  <2>2. CASE u # t
    <3>1. thread[d].key = excel[u]
      BY <1>1, <1>7, <2>2 DEF UseInv, LatestHasKey
    <3> QED
      BY <1>1, <1>7, <2>2, <3>1
  <2> QED
    BY <2>1, <2>2
<1>9. OrderlyIsAlone'
  <2> SUFFICES ASSUME NEW u \in orderly', excel'[u] # None
               PROVE  /\ leaving' # u => disconnectReq'[u] = 0
                      /\ \A b, d \in Connects :
                           thread'[d].topic = u /\ thread'[b].topic = u /\ d < b => Quiet(d)'
    BY DEF OrderlyIsAlone
  <2>1. u \in Topics
    BY DEF ConnectData, ManagerInv, TypeOK
  <2>2. CASE u = t
    <3>1. ~UnderWay(t)
      BY <2>2 DEF ConnectData
    <3>2. disconnectReq[t] = 0
      BY <3>1 DEF UnderWay, ManagerInv, TypeOK
    <3>3. ASSUME NEW b \in Connects, NEW d \in Connects,
                 thread'[d].topic = t, thread'[b].topic = t, d < b
          PROVE  Quiet(d)'
      <4>1. ~(d > c)
        BY <1>1, <1>3, <1>4, <3>3
      <4>2. d # c
        BY <1>1, <1>3, <1>4, <3>3
      <4>3. thread'[d] = thread[d] /\ thread[d].topic = t
        BY <1>1, <3>3, <4>2
      <4> QED
        BY <1>2, <3>1, <4>3 DEF UnderWay, Quiet
    <3> QED
      BY <1>2, <2>2, <3>2, <3>3
  <2>3. CASE u # t
    <3>1. u \in orderly /\ excel[u] # None
      BY <1>1, <2>1, <2>3 DEF ConnectData
    <3>2. ASSUME NEW b \in Connects, NEW d \in Connects,
                 thread'[d].topic = u, thread'[b].topic = u, d < b
          PROVE  Quiet(d)'
      <4>1. d # c /\ b # c
        BY <1>1, <2>3, <3>2
      <4>2. thread'[d] = thread[d] /\ thread'[b] = thread[b]
        BY <1>1, <4>1
      <4>3. Quiet(d)
        BY <3>1, <3>2, <4>2 DEF UseInv, OrderlyIsAlone
      <4> QED
        BY <1>2, <4>2, <4>3 DEF Quiet
    <3> QED
      BY <1>2, <3>1, <3>2 DEF UseInv, OrderlyIsAlone
  <2> QED
    BY <2>2, <2>3
<1>10. ConnectedStaysLive'
  <2> SUFFICES ASSUME NEW d \in Connects, NEW u,  u = thread'[d].topic,
                      thread'[d].at = "acked",
                      \A e \in Connects : e > d => thread'[e].topic # u,
                      excel'[u] # None, leaving' # u, u \in orderly'
               PROVE  /\ registered'[u] # 0
                      /\ gen'[registered'[u]].key = excel'[u]
                      /\ gen'[registered'[u]].ctx = "live"
    BY DEF ConnectedStaysLive
  <2>1. d # c /\ thread'[d] = thread[d]
    BY <1>1
  <2>2. u \in Topics
    BY DEF ConnectData, ManagerInv, TypeOK
  <2>3. Latest(d, u)'
    BY <2>2 DEF Latest
  <2>4. u # t /\ Latest(d, u)
    BY <1>7, <2>1, <2>2, <2>3
  <2>5. excel[u] = excel'[u] /\ u \in orderly
    BY <1>1, <2>2, <2>4 DEF ConnectData
  <2> QED
    BY <1>2, <2>1, <2>4, <2>5 DEF UseInv, ConnectedStaysLive, Latest
<1> QED
  BY <1>5, <1>6, <1>8, <1>9, <1>10 DEF UseInv

\* Steps that change neither the threads nor the manager.
LEMMA DisconnectDataKeepsUse ==
  ASSUME ManagerInv, UseInv,
         (\E t \in Topics : DisconnectBegins(t)) \/ DisconnectReturns
  PROVE  UseInv'
<1>1. UNCHANGED <<thread, connectReq, gen, connectGen, registered, orderly>>
  BY DEF DisconnectBegins, DisconnectReturns, requests, managerVars
<1>2. ThreadsInOrder' /\ RegisteredIsLive'
  BY <1>1 DEF UseInv, ThreadsInOrder, RegisteredIsLive
<1>3. \A u \in Topics : excel'[u] # None => /\ excel'[u] = excel[u]
                                            /\ leaving' # u =>
                                                  /\ leaving # u
                                                  /\ disconnectReq'[u] = disconnectReq[u]
  <2>1. ASSUME NEW t \in Topics, DisconnectBegins(t), NEW u \in Topics, leaving' # u
        PROVE  leaving # u /\ disconnectReq'[u] = disconnectReq[u]
    BY <2>1, RtdTopicsAssumption DEF DisconnectBegins, ManagerInv, TypeOK
  <2>2. ASSUME NEW t \in Topics, DisconnectBegins(t) PROVE UNCHANGED excel
    BY <2>2 DEF DisconnectBegins
  <2>3. CASE DisconnectReturns
    BY <2>3, RtdTopicsAssumption DEF DisconnectReturns, requests, ManagerInv, TypeOK
  <2> QED
    BY <2>1, <2>2, <2>3
<1>4. LatestHasKey'
  <2> SUFFICES ASSUME NEW d \in Connects, NEW u \in Topics, Latest(d, u)', excel'[u] # None
               PROVE  thread'[d].key = excel'[u]
    BY DEF LatestHasKey
  <2>1. Latest(d, u) /\ excel[u] # None /\ excel'[u] = excel[u]
    BY <1>1, <1>3 DEF Latest
  <2> QED
    BY <1>1, <2>1 DEF UseInv, LatestHasKey
<1>5. OrderlyIsAlone'
  <2> SUFFICES ASSUME NEW u \in orderly, excel'[u] # None
               PROVE  /\ leaving' # u => disconnectReq'[u] = 0
                      /\ \A b, d \in Connects :
                           thread[d].topic = u /\ thread[b].topic = u /\ d < b => Quiet(d)'
    BY <1>1 DEF OrderlyIsAlone
  <2>1. u \in Topics
    BY DEF ManagerInv, TypeOK
  <2>2. excel[u] # None /\ (leaving' # u => leaving # u /\ disconnectReq'[u] = disconnectReq[u])
    BY <1>3, <2>1
  <2>3. \A d \in Connects : Quiet(d)' <=> Quiet(d)
    BY <1>1 DEF Quiet
  <2> QED
    BY <2>2, <2>3 DEF UseInv, OrderlyIsAlone
<1>6. ConnectedStaysLive'
  <2> SUFFICES ASSUME NEW d \in Connects, NEW u,  u = thread[d].topic,
                      thread[d].at = "acked",
                      \A e \in Connects : e > d => thread[e].topic # u,
                      excel'[u] # None, leaving' # u, u \in orderly
               PROVE  /\ registered[u] # 0
                      /\ gen[registered[u]].key = excel'[u]
                      /\ gen[registered[u]].ctx = "live"
    BY <1>1 DEF ConnectedStaysLive
  <2>1. u \in Topics
    BY DEF ManagerInv, TypeOK
  <2>2. excel[u] # None /\ excel'[u] = excel[u] /\ leaving # u
    BY <1>3, <2>1
  <2> QED
    BY <2>2 DEF UseInv, ConnectedStaysLive
<1> QED
  BY <1>2, <1>4, <1>5, <1>6 DEF UseInv

(***************************************************************************)
(* Steps of a thread, its request apart: they change what the thread does, *)
(* and only of a thread that has something under way.                      *)
(***************************************************************************)
LEMMA ThreadStepKeepsUse ==
  ASSUME ManagerInv, UseInv, NEW c \in Connects, ~Quiet(c),
         UNCHANGED <<staVars, disconnectReq, gen, connectGen, registered, orderly>>,
         \A d \in Connects :
           /\ thread'[d].topic = thread[d].topic
           /\ thread'[d].key = thread[d].key
           /\ thread'[d].at = "none" <=> thread[d].at = "none"
           /\ thread'[d].at = "acked" => thread[d].at = "acked"
           /\ d # c => thread'[d] = thread[d] /\ connectReq'[d] = connectReq[d]
  PROVE  UseInv'
<1>1. \A d \in Connects, u \in Topics : Latest(d, u)' <=> Latest(d, u)
  BY DEF Latest
<1>2. ThreadsInOrder' /\ RegisteredIsLive' /\ LatestHasKey'
  BY <1>1 DEF UseInv, ThreadsInOrder, RegisteredIsLive, LatestHasKey, staVars
<1>3. OrderlyIsAlone'
  <2> SUFFICES ASSUME NEW u \in orderly, excel[u] # None,
                      NEW b \in Connects, NEW d \in Connects,
                      thread[d].topic = u, thread[b].topic = u, d < b
               PROVE  Quiet(d)'
    BY DEF UseInv, OrderlyIsAlone, staVars
  <2>1. Quiet(d)
    BY DEF UseInv, OrderlyIsAlone
  <2>2. d # c
    BY <2>1
  <2> QED
    BY <2>1, <2>2 DEF Quiet
<1>4. ConnectedStaysLive'
  BY DEF UseInv, ConnectedStaysLive, staVars
<1> QED
  BY <1>2, <1>3, <1>4 DEF UseInv

LEMMA ThreadKeepsUse ==
  ASSUME ManagerInv, UseInv, NEW c \in Connects, Thread(c)
  PROVE  UseInv'
<1> USE DEF ManagerInv, TypeOK, requests, managerVars
<1>1. CASE Attempt(c)
  <2>1. /\ ~Quiet(c)
        /\ UNCHANGED <<staVars, disconnectReq, gen, connectGen, registered, orderly>>
    BY <1>1 DEF Attempt, Quiet
  <2>2. \A d \in Connects :
           /\ thread'[d].topic = thread[d].topic
           /\ thread'[d].key = thread[d].key
           /\ thread'[d].at = "none" <=> thread[d].at = "none"
           /\ thread'[d].at = "acked" => thread[d].at = "acked"
           /\ d # c => thread'[d] = thread[d] /\ connectReq'[d] = connectReq[d]
    BY <1>1 DEF Attempt
  <2> QED
    BY <2>1, <2>2, ThreadStepKeepsUse
<1>2. CASE AttemptSkipped(c)
  <2>1. /\ ~Quiet(c)
        /\ UNCHANGED <<staVars, disconnectReq, gen, connectGen, registered, orderly>>
    BY <1>2 DEF AttemptSkipped, Quiet
  <2>2. \A d \in Connects :
           /\ thread'[d].topic = thread[d].topic
           /\ thread'[d].key = thread[d].key
           /\ thread'[d].at = "none" <=> thread[d].at = "none"
           /\ thread'[d].at = "acked" => thread[d].at = "acked"
           /\ d # c => thread'[d] = thread[d] /\ connectReq'[d] = connectReq[d]
    BY <1>2 DEF AttemptSkipped
  <2> QED
    BY <2>1, <2>2, ThreadStepKeepsUse
<1>3. CASE AttemptTimesOut(c)
  <2>1. /\ ~Quiet(c)
        /\ UNCHANGED <<staVars, disconnectReq, gen, connectGen, registered, orderly>>
    BY <1>3 DEF AttemptTimesOut, Quiet
  <2>2. \A d \in Connects :
           /\ thread'[d].topic = thread[d].topic
           /\ thread'[d].key = thread[d].key
           /\ thread'[d].at = "none" <=> thread[d].at = "none"
           /\ thread'[d].at = "acked" => thread[d].at = "acked"
           /\ d # c => thread'[d] = thread[d] /\ connectReq'[d] = connectReq[d]
    BY <1>3 DEF AttemptTimesOut
  <2> QED
    BY <2>1, <2>2, ThreadStepKeepsUse
<1>4. ASSUME NEW a \in 1..MaxAttempts, ConnectWithdrawn(c, a) PROVE UseInv'
  <2>1. /\ ~Quiet(c)
        /\ UNCHANGED <<staVars, disconnectReq, gen, connectGen, registered, orderly>>
    BY <1>4 DEF ConnectWithdrawn, Quiet
  <2>2. \A d \in Connects :
           /\ thread'[d].topic = thread[d].topic
           /\ thread'[d].key = thread[d].key
           /\ thread'[d].at = "none" <=> thread[d].at = "none"
           /\ thread'[d].at = "acked" => thread[d].at = "acked"
           /\ d # c => thread'[d] = thread[d] /\ connectReq'[d] = connectReq[d]
    BY <1>4 DEF ConnectWithdrawn
  <2> QED
    BY <2>1, <2>2, ThreadStepKeepsUse
<1> QED
  BY <1>1, <1>2, <1>3, <1>4 DEF Thread

(***************************************************************************)
(* A connect that is handled is the latest of its topic when the use is    *)
(* orderly, and registers a live generation with the key of that use; it   *)
(* cancels no generation of another topic.                                 *)
(***************************************************************************)
LEMMA ConnectKeepsUse ==
  ASSUME ManagerInv, UseInv, NEW c \in Connects, NEW a \in 1..MaxAttempts,
         HandleRtdConnect(c, a)
  PROVE  UseInv'
<1> DEFINE t == thread[c].topic
           k == thread[c].key
           g == connectGen + 1
           new == [topic |-> t, key |-> k, ctx |-> "live", run |-> "spawned"]
<1>1. t \in Topics /\ ~Quiet(c)
  BY DEF HandleRtdConnect, ManagerInv, ThreadsNamed, TypeOK, Quiet
<1>2. g \in Gens /\ connectGen \in Nat
  BY RtdTopicsAssumption DEF HandleRtdConnect, ManagerInv, TypeOK, Gens
<1>3. registered[t] \in Gens \union {0}
  BY <1>1 DEF ManagerInv, TypeOK
<1>4. /\ gen' = [Cancelled(registered[t]) EXCEPT ![g] = new]
      /\ registered' = [registered EXCEPT ![t] = g]
      /\ connectGen' = g
  BY DEF HandleRtdConnect, RegisterConnectCancel
<1>5. /\ gen'[g] = new
      /\ \A h \in Gens \ {g} : gen'[h] = Cancelled(registered[t])[h]
  BY <1>2, <1>3, <1>4, CancelledGens
<1>6. registered'[t] = g /\ \A u \in Topics \ {t} : registered'[u] = registered[u]
  BY <1>1, <1>4 DEF ManagerInv, TypeOK
<1>7. UNCHANGED <<excel, leaving, disconnectReq, orderly>>
  BY DEF HandleRtdConnect, staVars
<1>8. \A d \in Connects : /\ thread'[d].topic = thread[d].topic
                          /\ thread'[d].key = thread[d].key
                          /\ thread'[d].at = "none" <=> thread[d].at = "none"
                          /\ d # c => thread'[d] = thread[d] /\ connectReq'[d] = connectReq[d]
  BY DEF HandleRtdConnect, ManagerInv, TypeOK
<1>9. \A d \in Connects, u \in Topics : Latest(d, u)' <=> Latest(d, u)
  BY <1>8 DEF Latest
<1>10. ASSUME NEW u \in Topics \ {t}, registered[u] # 0
       PROVE  /\ registered[u] \in Gens \ {g} /\ registered[u] <= g
              /\ gen'[registered[u]] = gen[registered[u]]
  <2> DEFINE h == registered[u]
  <2>1. h \in Gens
    BY <1>10 DEF ManagerInv, TypeOK
  <2>2. h <= connectGen /\ gen[h].topic = u
    BY <1>10 DEF UseInv, RegisteredIsLive
  <2>3. h # g /\ h <= g
    BY <1>2, <2>1, <2>2, RtdTopicsAssumption DEF Gens
  <2>4. h # registered[t]
    BY <1>1, <1>10, <2>2 DEF UseInv, RegisteredIsLive
  <2> QED
    BY <1>3, <1>5, <2>1, <2>3, <2>4, CancelledGens
<1>11. ThreadsInOrder' /\ LatestHasKey'
  BY <1>7, <1>8, <1>9 DEF UseInv, ThreadsInOrder, LatestHasKey
<1>12. RegisteredIsLive'
  <2> SUFFICES ASSUME NEW u \in Topics, registered'[u] # 0
               PROVE  /\ registered'[u] <= g
                      /\ gen'[registered'[u]].topic = u
                      /\ gen'[registered'[u]].ctx = "live"
    BY <1>4 DEF RegisteredIsLive
  <2>1. CASE u = t
    BY <1>2, <1>5, <1>6, <2>1
  <2>2. CASE u # t
    <3>1. registered'[u] = registered[u]
      BY <1>6, <2>2
    <3> QED
      BY <1>10, <2>2, <3>1 DEF UseInv, RegisteredIsLive
  <2> QED
    BY <2>1, <2>2
<1>13. OrderlyIsAlone'
  <2> SUFFICES ASSUME NEW u \in orderly, excel[u] # None,
                      NEW b \in Connects, NEW d \in Connects,
                      thread[d].topic = u, thread[b].topic = u, d < b
               PROVE  Quiet(d)'
    BY <1>7, <1>8 DEF UseInv, OrderlyIsAlone
  <2>1. Quiet(d)
    BY DEF UseInv, OrderlyIsAlone
  <2>2. d # c
    BY <1>1, <2>1
  <2> QED
    BY <1>8, <2>1, <2>2 DEF Quiet
<1>14. ConnectedStaysLive'
  <2> SUFFICES ASSUME NEW d \in Connects, NEW u,  u = thread[d].topic,
                      thread'[d].at = "acked",
                      \A e \in Connects : e > d => thread[e].topic # u,
                      excel[u] # None, leaving # u, u \in orderly
               PROVE  /\ registered'[u] # 0
                      /\ gen'[registered'[u]].key = excel[u]
                      /\ gen'[registered'[u]].ctx = "live"
    BY <1>7, <1>8 DEF ConnectedStaysLive
  <2>1. u \in Topics
    BY DEF ManagerInv, TypeOK
  <2>2. CASE u = t
    <3>1. ~(c < d)
      BY <1>1, <2>2 DEF UseInv, OrderlyIsAlone
    <3>2. ~(d < c)
      BY <2>2
    <3>3. d = c
      BY <3>1, <3>2, RtdTopicsAssumption DEF Connects
    <3>4. Latest(c, t)
      BY <2>2, <3>3 DEF Latest
    <3>5. k = excel[t]
      BY <1>1, <2>2, <3>4 DEF UseInv, LatestHasKey
    <3> QED
      BY <1>2, <1>5, <1>6, <2>2, <3>5, RtdTopicsAssumption DEF Gens
  <2>3. CASE u # t
    <3>1. d # c /\ thread[d].at = "acked"
      BY <1>8, <2>3
    <3>2. /\ registered[u] # 0
          /\ gen[registered[u]].key = excel[u]
          /\ gen[registered[u]].ctx = "live"
      BY <3>1 DEF UseInv, ConnectedStaysLive
    <3> QED
      BY <1>6, <1>10, <2>1, <2>3, <3>2
  <2> QED
    BY <2>2, <2>3
<1> QED
  BY <1>11, <1>12, <1>13, <1>14 DEF UseInv

(***************************************************************************)
(* A disconnect that is handled finds its topic disconnected, or about to  *)
(* be, when the use is orderly.                                            *)
(***************************************************************************)
LEMMA DisconnectKeepsUse ==
  ASSUME ManagerInv, UseInv, NEW t \in Topics, HandleRtdDisconnect(t)
  PROVE  UseInv'
<1>1. registered[t] \in Gens \union {0}
  BY DEF ManagerInv, TypeOK
<1>2. /\ gen' = Cancelled(registered[t])
      /\ registered'[t] = 0
      /\ \A u \in Topics \ {t} : registered'[u] = registered[u]
      /\ \A u \in Topics \ {t} : disconnectReq'[u] = disconnectReq[u]
      /\ disconnectReq[t] > 0
      /\ UNCHANGED <<excel, leaving, thread, connectReq, connectGen, orderly>>
  BY DEF HandleRtdDisconnect, Unsubscribe, staVars, ManagerInv, TypeOK
<1>3. ASSUME NEW u \in Topics \ {t}, registered[u] # 0
      PROVE  gen'[registered[u]] = gen[registered[u]]
  <2> DEFINE h == registered[u]
  <2>1. h \in Gens
    BY <1>3 DEF ManagerInv, TypeOK
  <2>2. h # registered[t]
    BY <1>3 DEF UseInv, RegisteredIsLive
  <2> QED
    BY <1>1, <1>2, <2>1, <2>2, CancelledGens
<1>4. ThreadsInOrder' /\ LatestHasKey'
  BY <1>2 DEF UseInv, ThreadsInOrder, LatestHasKey, Latest
<1>5. RegisteredIsLive'
  <2> SUFFICES ASSUME NEW u \in Topics, registered'[u] # 0
               PROVE  /\ registered'[u] <= connectGen
                      /\ gen'[registered'[u]].topic = u
                      /\ gen'[registered'[u]].ctx = "live"
    BY <1>2 DEF RegisteredIsLive
  <2>1. u # t /\ registered'[u] = registered[u]
    BY <1>2
  <2> QED
    BY <1>3, <2>1 DEF UseInv, RegisteredIsLive
<1>6. \A u \in orderly : excel[u] # None /\ leaving # u => u # t
  BY <1>2 DEF UseInv, OrderlyIsAlone
<1>7. orderly \subseteq Topics
  BY DEF ManagerInv, TypeOK
<1>8. OrderlyIsAlone'
  <2>1. \A d \in Connects : Quiet(d)' <=> Quiet(d)
    BY <1>2 DEF Quiet
  <2> QED
    BY <1>2, <1>6, <1>7, <2>1 DEF UseInv, OrderlyIsAlone
<1>9. ConnectedStaysLive'
  <2> SUFFICES ASSUME NEW d \in Connects, NEW u,  u = thread[d].topic,
                      thread[d].at = "acked",
                      \A e \in Connects : e > d => thread[e].topic # u,
                      excel[u] # None, leaving # u, u \in orderly
               PROVE  /\ registered'[u] # 0
                      /\ gen'[registered'[u]].key = excel[u]
                      /\ gen'[registered'[u]].ctx = "live"
    BY <1>2 DEF ConnectedStaysLive
  <2>1. u \in Topics \ {t}
    BY <1>6, <1>7
  <2>2. /\ registered[u] # 0
        /\ gen[registered[u]].key = excel[u]
        /\ gen[registered[u]].ctx = "live"
    BY DEF UseInv, ConnectedStaysLive
  <2> QED
    BY <1>2, <1>3, <2>1, <2>2
<1> QED
  BY <1>4, <1>5, <1>8, <1>9 DEF UseInv

LEMMA WithdrawnKeepsUse ==
  ASSUME ManagerInv, UseInv, NEW t \in Topics, DisconnectWithdrawn(t)
  PROVE  UseInv'
<1>1. UNCHANGED <<excel, leaving, thread, connectReq, gen, connectGen, registered, orderly>>
  BY DEF DisconnectWithdrawn, staVars, managerVars
<1>2. \A u \in Topics : disconnectReq[u] = 0 => disconnectReq'[u] = 0
  BY DEF DisconnectWithdrawn, ManagerInv, TypeOK
<1>3. ThreadsInOrder' /\ RegisteredIsLive' /\ LatestHasKey' /\ ConnectedStaysLive'
  BY <1>1 DEF UseInv, ThreadsInOrder, RegisteredIsLive, LatestHasKey, Latest,
              ConnectedStaysLive
<1>4. OrderlyIsAlone'
  <2>1. \A d \in Connects : Quiet(d)' <=> Quiet(d)
    BY <1>1 DEF Quiet
  <2>2. orderly \subseteq Topics
    BY DEF ManagerInv, TypeOK
  <2> QED
    BY <1>1, <1>2, <2>1, <2>2 DEF UseInv, OrderlyIsAlone
<1> QED
  BY <1>3, <1>4 DEF UseInv

LEMMA HandlerKeepsUse ==
  ASSUME ManagerInv, UseInv, NEW g \in Gens, Handler(g)
  PROVE  UseInv'
<1>1. /\ gen' = [gen EXCEPT ![g].run = "returned"]
      /\ UNCHANGED <<excel, leaving, thread, connectReq, disconnectReq, connectGen,
                     registered, orderly>>
  BY DEF Handler, HandlerSubscribes, HandlerReturns, staVars, requests
<1>2. \A h \in Gens : /\ gen'[h].topic = gen[h].topic /\ gen'[h].key = gen[h].key
                      /\ gen'[h].ctx = gen[h].ctx
  BY <1>1 DEF ManagerInv, TypeOK
<1>3. \A u \in Topics : registered[u] # 0 => registered[u] \in Gens
  BY DEF ManagerInv, TypeOK
<1>4. ThreadsInOrder' /\ LatestHasKey' /\ OrderlyIsAlone'
  BY <1>1 DEF UseInv, ThreadsInOrder, LatestHasKey, Latest, OrderlyIsAlone, Quiet
<1>5. RegisteredIsLive'
  BY <1>1, <1>2, <1>3 DEF UseInv, RegisteredIsLive
<1>6. ConnectedStaysLive'
  <2>1. orderly \subseteq Topics
    BY DEF ManagerInv, TypeOK
  <2> QED
    BY <1>1, <1>2, <1>3, <2>1 DEF UseInv, ConnectedStaysLive
<1> QED
  BY <1>4, <1>5, <1>6 DEF UseInv

LEMMA UseStep == ManagerInv /\ UseInv /\ [Next]_vars => UseInv'
<1> SUFFICES ASSUME ManagerInv, UseInv, [Next]_vars PROVE UseInv'
  OBVIOUS
<1>1. CASE Excel
  BY <1>1, ConnectDataKeepsUse, DisconnectDataKeepsUse DEF Excel
<1>2. CASE Server
  BY <1>2, ConnectKeepsUse, DisconnectKeepsUse, WithdrawnKeepsUse DEF Server
<1>3. CASE UNCHANGED vars
  BY <1>3 DEF vars, staVars, requests, managerVars, UseInv, ThreadsInOrder,
              RegisteredIsLive, LatestHasKey, Latest, OrderlyIsAlone, Quiet,
              ConnectedStaysLive
<1> QED
  BY <1>1, <1>2, <1>3, ThreadKeepsUse, HandlerKeepsUse DEF Next

(***************************************************************************)
(* From the acknowledgement of its connect until Excel disconnects it, a   *)
(* topic has a live context with its own key, through every duplicate of   *)
(* the connect.                                                            *)
(***************************************************************************)
THEOREM ConnectedTopicsStayLive == Spec => []ConnectedStaysLive
<1>1. UseInv => ConnectedStaysLive
  BY DEF UseInv
<1> QED
  BY <1>1, ManagerInvariance, UseInit, UseStep, PTL DEF Spec

(***************************************************************************)
(* RtdUpdates: one invariant, which joins the coalescing flag, the message *)
(* window's queue and the dirty topics to what Excel's cells show.         *)
(***************************************************************************)

\* What the worker holds is an update, for the present RtdServer once it has
\* been looked up.
WorkerHolds ==
  /\ worker.at \in {"taken", "dangling"} => worker.upd \in Update
  /\ worker.at = "taken" => server

\* A notify message is posted only when there is none.
PostsOne == worker.at = "posting" => posted = 0

\* Only an RtdServer has dirty topics.
DirtyHasServer == dirty # {} => server

\* The value stored last since the topic was connected is still stored.
StoredIsKept == \A t \in connected : updated[t] # None => data[t] = updated[t]

UpdatesInv ==
  /\ UpdatesTypeOK
  /\ WorkerHolds
  /\ PostsOne
  /\ PendingIsPosted
  /\ DirtyHasServer
  /\ DirtyIsAnnounced
  /\ StoredIsKept
  /\ RefreshedCellIsCurrent

-----------------------------------------------------------------------------

LEMMA IdleWorker == WorkerIdle \in [at : {"idle", "taken", "dangling", "stored", "posting"},
                             upd : Update \union {None}]
BY DEF WorkerIdle

LEMMA UpdatesStart == UpdatesInit => UpdatesInv
<1> SUFFICES ASSUME UpdatesInit PROVE UpdatesInv
  OBVIOUS
<1>1. UpdatesTypeOK
  BY IdleWorker DEF UpdatesInit, UpdatesTypeOK
<1> QED
  BY <1>1 DEF UpdatesInit, UpdatesInv, WorkerHolds, PostsOne, PendingIsPosted, DirtyHasServer,
              DirtyIsAnnounced, StoredIsKept, RefreshedCellIsCurrent, WorkerIdle

LEMMA ExcelKeepsTypes == UpdatesTypeOK /\ ExcelSteps => UpdatesTypeOK'
<1> SUFFICES ASSUME UpdatesTypeOK, ExcelSteps PROVE UpdatesTypeOK'
  OBVIOUS
<1> USE DEF UpdatesTypeOK, excelSide, notifyVars, bounds, history
<1>1. CASE ServerStart
  BY <1>1 DEF ServerStart
<1>2. ASSUME NEW t \in Lines, ConnectDataShows(t) PROVE UpdatesTypeOK'
  BY <1>2 DEF ConnectDataShows
<1>3. ASSUME NEW t \in Lines, DisconnectDataErases(t) PROVE UpdatesTypeOK'
  BY <1>3 DEF DisconnectDataErases
<1>4. CASE ServerTerminate
  <2>1. worker' \in [at : {"idle", "taken", "dangling", "stored", "posting"},
                     upd : Update \union {None}]
    BY <1>4 DEF ServerTerminate
  <2> QED
    BY <1>4, <2>1 DEF ServerTerminate
<1>5. CASE WndProcBegins
  <2>1. posted' \in Nat
    BY <1>5 DEF WndProcBegins
  <2> QED
    BY <1>5, <2>1 DEF WndProcBegins
<1>6. CASE WndProcEnds
  <2>1. told' \in BOOLEAN
    BY <1>6 DEF WndProcEnds
  <2> QED
    BY <1>6, <2>1 DEF WndProcEnds
<1>7. CASE RefreshData
  <2>1. cell' \in [Lines -> Vals \union {None, "placeholder", "GettingData"}]
    BY <1>7 DEF RefreshData
  <2> QED
    BY <1>7, <2>1 DEF RefreshData
<1>8. CASE RefreshDataFails
  BY <1>8 DEF RefreshDataFails
<1> QED
  BY <1>1, <1>2, <1>3, <1>4, <1>5, <1>6, <1>7, <1>8 DEF ExcelSteps

LEMMA ExcelKeepsUpdates == UpdatesInv /\ ExcelSteps => UpdatesInv'
<1> SUFFICES ASSUME UpdatesInv, ExcelSteps PROVE UpdatesInv'
  OBVIOUS
<1>0. UpdatesTypeOK /\ UpdatesTypeOK'
  BY ExcelKeepsTypes DEF UpdatesInv
<1> USE DEF UpdatesInv, WorkerHolds, PostsOne, PendingIsPosted, DirtyHasServer, DirtyIsAnnounced,
            StoredIsKept, RefreshedCellIsCurrent, excelSide, notifyVars, bounds, history
<1>1. CASE ServerStart
  BY <1>0, <1>1 DEF ServerStart
<1>2. ASSUME NEW t \in Lines, ConnectDataShows(t) PROVE UpdatesInv'
  <2>1. /\ updated'[t] = None
        /\ \A u \in Lines \ {t} : updated'[u] = updated[u] /\ cell'[u] = cell[u]
    BY <1>0, <1>2 DEF ConnectDataShows, UpdatesTypeOK
  <2>2. connected' = connected \union {t} /\ connected \subseteq Lines
    BY <1>0, <1>2 DEF ConnectDataShows, UpdatesTypeOK
  <2>3. StoredIsKept' /\ RefreshedCellIsCurrent'
    BY <1>2, <2>1, <2>2 DEF ConnectDataShows
  <2> QED
    BY <1>0, <1>2, <2>3 DEF ConnectDataShows
<1>3. ASSUME NEW t \in Lines, DisconnectDataErases(t) PROVE UpdatesInv'
  <2>1. \A u \in Lines \ {t} : updated'[u] = updated[u] /\ cell'[u] = cell[u] /\ data'[u] = data[u]
    BY <1>0, <1>3 DEF DisconnectDataErases, UpdatesTypeOK
  <2>2. connected' = connected \ {t} /\ connected \subseteq Lines
    BY <1>0, <1>3 DEF DisconnectDataErases, UpdatesTypeOK
  <2>3. StoredIsKept' /\ RefreshedCellIsCurrent'
    BY <1>3, <2>1, <2>2 DEF DisconnectDataErases
  <2> QED
    BY <1>0, <1>3, <2>3 DEF DisconnectDataErases
<1>4. CASE ServerTerminate
  <2>1. /\ worker'.at = IF worker.at = "taken" THEN "dangling" ELSE worker.at
        /\ worker'.upd = worker.upd
    BY <1>0, <1>4 DEF ServerTerminate, UpdatesTypeOK
  <2> QED
    BY <1>0, <1>4, <2>1 DEF ServerTerminate
<1>5. CASE WndProcBegins
  <2>1. posted = 1 /\ posted' = 0
    BY <1>0, <1>5 DEF WndProcBegins, UpdatesTypeOK
  <2> QED
    BY <1>0, <1>5, <2>1 DEF WndProcBegins
<1>6. CASE WndProcEnds
  BY <1>0, <1>6 DEF WndProcEnds
<1>7. CASE RefreshData
  <2>1. \A u \in connected : u \in dirty /\ updated[u] # None => cell'[u] = updated[u]
    BY <1>0, <1>7 DEF RefreshData, UpdatesTypeOK
  <2>2. \A u \in connected : u \notin dirty => cell'[u] = cell[u]
    BY <1>0, <1>7 DEF RefreshData, UpdatesTypeOK
  <2>3. RefreshedCellIsCurrent'
    BY <1>7, <2>1, <2>2 DEF RefreshData
  <2> QED
    BY <1>0, <1>7, <2>3 DEF RefreshData
<1>8. CASE RefreshDataFails
  BY <1>0, <1>8 DEF RefreshDataFails
<1> QED
  BY <1>1, <1>2, <1>3, <1>4, <1>5, <1>6, <1>7, <1>8 DEF ExcelSteps

LEMMA SendersKeepUpdates == UpdatesInv /\ Senders => UpdatesInv'
<1> SUFFICES ASSUME UpdatesInv, Senders PROVE UpdatesInv'
  OBVIOUS
<1>1. UNCHANGED <<connected, cell, server, told, inWndProc, data, dirty, pending, posted,
                  worker, failed, updated, refused, lost>>
  BY DEF Senders, SendUpdate, SendTimesOut, excelSide, notifyVars, bounds, history
<1>2. updateCalls' \subseteq Update /\ sentUpdates' \in Nat
  <2>1. ASSUME NEW t \in Lines, NEW v \in Vals, SendUpdate(t, v)
        PROVE  updateCalls' \subseteq Update
    BY <2>1 DEF SendUpdate, UpdatesInv, UpdatesTypeOK, Update
  <2>2. ASSUME NEW t \in Lines, NEW v \in Vals, SendUpdate(t, v)
        PROVE  sentUpdates' \in Nat
    BY <2>2 DEF SendUpdate, UpdatesInv, UpdatesTypeOK
  <2>3. ASSUME NEW upd \in updateCalls, SendTimesOut(upd)
        PROVE  updateCalls' \subseteq Update /\ sentUpdates' \in Nat
    BY <2>3 DEF SendTimesOut, UpdatesInv, UpdatesTypeOK, bounds
  <2> QED
    BY <2>1, <2>2, <2>3 DEF Senders
<1> QED
  BY <1>1, <1>2 DEF UpdatesInv, UpdatesTypeOK, WorkerHolds, PostsOne, PendingIsPosted, DirtyHasServer,
                    DirtyIsAnnounced, StoredIsKept, RefreshedCellIsCurrent

LEMMA WorkerKeepsUpdates == UpdatesInv /\ Worker => UpdatesInv'
<1> SUFFICES ASSUME UpdatesInv, Worker PROVE UpdatesInv'
  OBVIOUS
<1>0. UpdatesTypeOK
  BY DEF UpdatesInv
<1> USE DEF UpdatesInv, WorkerHolds, PostsOne, PendingIsPosted, DirtyHasServer, DirtyIsAnnounced,
            StoredIsKept, RefreshedCellIsCurrent, excelSide, notifyVars, bounds, history
<1>1. ASSUME NEW upd \in updateCalls, ProcessRtdUpdate(upd) PROVE UpdatesInv'
  <2>1. upd \in Update
    BY <1>0 DEF UpdatesTypeOK
  <2>2. CASE server
    <3>1. worker' = [at |-> "taken", upd |-> upd]
      BY <1>1, <2>2 DEF ProcessRtdUpdate
    <3>2. UpdatesTypeOK'
      BY <1>0, <1>1, <2>1, <3>1 DEF ProcessRtdUpdate, UpdatesTypeOK
    <3> QED
      BY <1>0, <1>1, <2>1, <2>2, <3>1, <3>2 DEF ProcessRtdUpdate
  <2>3. CASE ~server
    <3>1. UpdatesTypeOK'
      BY <1>0, <1>1, <2>3 DEF ProcessRtdUpdate, UpdatesTypeOK
    <3> QED
      BY <1>0, <1>1, <2>3, <3>1 DEF ProcessRtdUpdate
  <2> QED
    BY <2>2, <2>3
<1>2. CASE UpdateTopic
  <2> DEFINE t == worker.upd.topic
             v == worker.upd.val
  <2>1. t \in Lines /\ v \in Vals /\ server
    BY <1>2 DEF UpdateTopic, Update
  <2>2. /\ data' = [data EXCEPT ![t] = v]
        /\ dirty' = dirty \union {t}
        /\ updated' = [updated EXCEPT ![t] = v]
    BY <1>2 DEF UpdateTopic
  <2>3. worker'.at = "stored" /\ worker' \in [at : {"idle", "taken", "dangling", "stored", "posting"},
                                              upd : Update \union {None}]
    BY <1>0, <1>2 DEF UpdateTopic, UpdatesTypeOK
  <2>4. UpdatesTypeOK'
    BY <1>0, <1>2, <2>1, <2>2, <2>3 DEF UpdateTopic, UpdatesTypeOK
  <2>5. StoredIsKept'
    BY <1>0, <1>2, <2>1, <2>2 DEF UpdateTopic, UpdatesTypeOK
  <2>6. RefreshedCellIsCurrent'
    BY <1>0, <1>2, <2>1, <2>2 DEF UpdateTopic, UpdatesTypeOK
  <2> QED
    BY <1>2, <2>1, <2>3, <2>4, <2>5, <2>6 DEF UpdateTopic
<1>3. CASE UpdateTopicDangling
  <2>1. worker'.at = "stored" /\ worker' \in [at : {"idle", "taken", "dangling", "stored", "posting"},
                                              upd : Update \union {None}]
    BY <1>0, <1>3 DEF UpdateTopicDangling, UpdatesTypeOK
  <2>2. UpdatesTypeOK'
    BY <1>0, <1>3, <2>1 DEF UpdateTopicDangling, UpdatesTypeOK
  <2> QED
    BY <1>3, <2>1, <2>2 DEF UpdateTopicDangling
<1>4. CASE SignalRtdUpdate
  <2>1. worker' \in [at : {"idle", "taken", "dangling", "stored", "posting"},
                     upd : Update \union {None}]
    BY <1>4 DEF SignalRtdUpdate, WorkerIdle
  <2>2. worker'.at = IF pending THEN "idle" ELSE "posting"
    BY <1>4 DEF SignalRtdUpdate, WorkerIdle
  <2>3. UpdatesTypeOK'
    BY <1>0, <1>4, <2>1 DEF SignalRtdUpdate, UpdatesTypeOK
  <2>4. ~pending => posted = 0
    BY <1>0 DEF UpdatesTypeOK
  <2> QED
    BY <1>0, <1>4, <2>2, <2>3, <2>4 DEF SignalRtdUpdate
<1>5. CASE PostMessage
  <2>1. worker' = WorkerIdle /\ worker'.at = "idle" /\ posted' = 1
    BY <1>0, <1>5 DEF PostMessage, WorkerIdle, UpdatesTypeOK
  <2>2. UpdatesTypeOK'
    BY <1>0, <1>5, <2>1 DEF PostMessage, UpdatesTypeOK, WorkerIdle
  <2> QED
    BY <1>0, <1>5, <2>1, <2>2 DEF PostMessage
<1>6. CASE PostMessageFails
  <2>1. worker' = WorkerIdle /\ worker'.at = "idle"
    BY <1>6 DEF PostMessageFails, WorkerIdle
  <2>2. UpdatesTypeOK'
    <3>1. failed' \subseteq {"post", "refresh"} /\ refused' \in BOOLEAN /\ pending' \in BOOLEAN
      BY <1>0, <1>6 DEF PostMessageFails, UpdatesTypeOK
    <3> QED
      BY <1>0, <1>6, <2>1, <3>1, IdleWorker DEF PostMessageFails, UpdatesTypeOK
  <2> QED
    BY <1>0, <1>6, <2>1, <2>2 DEF PostMessageFails
<1> QED
  BY <1>1, <1>2, <1>3, <1>4, <1>5, <1>6 DEF Worker, Posts

LEMMA UpdatesStep == UpdatesInv /\ [UpdatesNext]_updateVars => UpdatesInv'
<1>1. UpdatesInv /\ UNCHANGED updateVars => UpdatesInv'
  BY DEF updateVars, excelSide, notifyVars, bounds, history, UpdatesInv, UpdatesTypeOK, WorkerHolds, PostsOne,
         PendingIsPosted, DirtyHasServer, DirtyIsAnnounced, StoredIsKept,
         RefreshedCellIsCurrent
<1> QED
  BY <1>1, ExcelKeepsUpdates, SendersKeepUpdates, WorkerKeepsUpdates DEF UpdatesNext

THEOREM UpdatesInvariance == UpdatesSpec => []UpdatesInv
BY UpdatesStart, UpdatesStep, PTL DEF UpdatesSpec

(***************************************************************************)
(* The coalescing flag never outlives its message, and there is at most    *)
(* one message.                                                            *)
(***************************************************************************)
THEOREM FlagMatchesMessage == UpdatesSpec => []PendingIsPosted
<1>1. UpdatesInv => PendingIsPosted
  BY DEF UpdatesInv
<1> QED
  BY <1>1, UpdatesInvariance, PTL

(***************************************************************************)
(* No stored value waits unannounced, but for a refused post, and then     *)
(* only until the next update.                                             *)
(***************************************************************************)
THEOREM StoredValuesAreAnnounced == UpdatesSpec => []DirtyIsAnnounced
<1>1. UpdatesInv => DirtyIsAnnounced
  BY DEF UpdatesInv
<1> QED
  BY <1>1, UpdatesInvariance, PTL

(***************************************************************************)
(* After a refresh the cells of a topic show the value stored last.        *)
(***************************************************************************)
THEOREM RefreshedCellsAreCurrent == UpdatesSpec => []RefreshedCellIsCurrent
<1>1. UpdatesInv => RefreshedCellIsCurrent
  BY DEF UpdatesInv
<1> QED
  BY <1>1, UpdatesInvariance, PTL
=============================================================================
