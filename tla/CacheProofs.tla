----------------------------- MODULE CacheProofs -----------------------------
(***************************************************************************)
(* The XLL's two caches.  RefCache: what the XLL believes shipped is held  *)
(* by the server, for any number of tokens, calculation threads and calls  *)
(* given up.  ResultCache: a cached function shows the result for what its *)
(* range holds, for any number of cells, ranges and contents.              *)
(*                                                                         *)
(* SentIsHeld is not inductive: a thread that has its answer marks the     *)
(* token later, and a call of an event is handled while the XLL's half is  *)
(* empty only because its sender waits.  SentInv adds who waits for which  *)
(* call, and what an answer says of the server's half.  ServedIsCurrent    *)
(* speaks of the end of a calculation; ServedInv says what the memo, the   *)
(* calls under way and the cache hold meanwhile.                           *)
(***************************************************************************)
EXTENDS RefCache, ResultCache, TLAPS

(* --- RefCache ----------------------------------------------------------- *)

\* A call has at most one sender, who waits for it and has no answer yet.
CallsAwaited ==
  /\ \A c, d \in posts : c.by = d.by /\ c.by # Nobody => c = d
  /\ \A c \in posts : c.by \notin answered
  /\ \A c \in posts : c.by = Sta => c.kind = sta
  /\ \A c \in posts : c.by \in Threads =>
       /\ shipper[c.by].at = "sending"
       /\ c.kind = "refcache"
       /\ c.token = shipper[c.by].token
  /\ \A c \in posts : c.kind = "refcache" => c.token \in Tokens

\* An answered shipping has put its payload into the server's half.
AnswersHold ==
  /\ Sta \in answered => sta # "none"
  /\ \A t \in Threads :
       /\ t \in answered =>
            shipper[t].at = "sending" /\ (lateClear \/ shipper[t].token \in held)
       /\ shipper[t].at = "acked" => lateClear \/ shipper[t].token \in held
       /\ shipper[t].at # "idle" => shipper[t].token \in Tokens

\* Nothing is evaluated while an event waits, and the XLL's half is empty at the end.
EventsQuiet ==
  /\ sta # "none" => AllIdle
  /\ sta = "ended" => sentRefCache = {}

SentInv == RefCacheTypeOK /\ CallsAwaited /\ AnswersHold /\ EventsQuiet /\ SentIsHeld

\* The initial states are well-typed and empty.
LEMMA SentInit == RefCacheInit => SentInv
<1> SUFFICES ASSUME RefCacheInit PROVE SentInv
  OBVIOUS
<1>1. RefCacheTypeOK
  BY DEF RefCacheInit, RefCacheTypeOK, ShipperIdle, NoTopic, Calls
<1>2. CallsAwaited /\ AnswersHold /\ EventsQuiet /\ SentIsHeld
  BY DEF RefCacheInit, CallsAwaited, AnswersHold, EventsQuiet, SentIsHeld, ShipperIdle, AllIdle
<1>3. QED
  BY <1>1, <1>2 DEF SentInv

\* Every action keeps the shape of the state.
LEMMA StepTypeOK == SentInv /\ RefCacheNext => RefCacheTypeOK'
<1> SUFFICES ASSUME SentInv, RefCacheNext PROVE RefCacheTypeOK'
  OBVIOUS
<1> USE CallersDiffer DEF SentInv, RefCacheTypeOK
<1>1. ASSUME NEW t \in Threads, NEW k \in Tokens, AlreadySent(t, k) PROVE RefCacheTypeOK'
  BY <1>1 DEF AlreadySent, ConnectDataWith
<1>2. ASSUME NEW t \in Threads, NEW k \in Tokens, SendRefCachePayloadOnce(t, k)
      PROVE RefCacheTypeOK'
  BY <1>2 DEF SendRefCachePayloadOnce, Post, Calls, Kinds
<1>3. ASSUME NEW t \in Threads, SendSucceeds(t) PROVE RefCacheTypeOK'
  BY <1>3 DEF SendSucceeds
<1>4. ASSUME NEW t \in Threads, MarkSent(t) PROVE RefCacheTypeOK'
  BY <1>4 DEF MarkSent, ConnectDataWith, AnswersHold, ShipperIdle
<1>5. ASSUME NEW t \in Threads, SendFails(t) PROVE RefCacheTypeOK'
  <2>1. posts' \subseteq Calls /\ answered' \subseteq Threads \cup {Sta}
    BY <1>5 DEF SendFails, GiveUp, Calls
  <2>2. QED
    BY <1>5, <2>1 DEF SendFails, ConnectDataWith, AnswersHold, ShipperIdle
<1>6. ASSUME CalculationEndedClears PROVE RefCacheTypeOK'
  <2>1. posts' \subseteq Calls
    BY <1>6 DEF CalculationEndedClears, Post, Calls, Kinds
  <2>2. lateClear' \in BOOLEAN /\ sentRefCache' \subseteq Tokens
    BY <1>6 DEF CalculationEndedClears
  <2>3. QED
    BY <1>6, <2>1, <2>2 DEF CalculationEndedClears
<1>7. ASSUME CalculationCanceled PROVE RefCacheTypeOK'
  BY <1>7 DEF CalculationCanceled, Post, Calls, Kinds
<1>8. ASSUME EventReturns PROVE RefCacheTypeOK'
  <2>1. posts' \subseteq Calls /\ answered' \subseteq Threads \cup {Sta}
    BY <1>8 DEF EventReturns, GiveUp, Calls
  <2>2. QED
    BY <1>8, <2>1 DEF EventReturns
<1>9. ASSUME NEW c \in posts,
             HandleSetRefCache(c) \/ HandleCalculationEnded(c) \/ HandleCalculationCanceled(c)
      PROVE RefCacheTypeOK'
  <2>1. posts' \subseteq Calls /\ answered' \subseteq Threads \cup {Sta}
    BY <1>9 DEF HandleSetRefCache, HandleCalculationEnded, HandleCalculationCanceled,
                Handled, Calls
  <2>2. QED
    BY <1>9, <2>1 DEF HandleSetRefCache, HandleCalculationEnded,
                      HandleCalculationCanceled, CallsAwaited
<1>10. ASSUME NEW k \in Tokens, ResolveArg(k) PROVE RefCacheTypeOK'
  BY <1>10 DEF ResolveArg
<1>11. ASSUME NEW k \in Tokens, DisconnectDataOf(k) PROVE RefCacheTypeOK'
  BY <1>11 DEF DisconnectDataOf, NoTopic
<1>12. QED
  BY <1>1, <1>2, <1>3, <1>4, <1>5, <1>6, <1>7, <1>8, <1>9, <1>10, <1>11
  DEF RefCacheNext

\* The posting of a call by one who has none and no answer.
LEMMA PostAwaited ==
  ASSUME SentInv, NEW who \in Threads \cup {Sta}, NEW kind, NEW k,
         Post(who, kind, k), \A c \in posts : c.by # who
  PROVE  /\ \A c, d \in posts' : c.by = d.by /\ c.by # Nobody => c = d
         /\ \A c \in posts' :
              c \in posts \/ (c.by = who /\ c.kind = kind /\ c.token = k)
  BY DEF Post, SentInv, CallsAwaited

\* A call given up is nobody's, the other calls stay as they are.
LEMMA GiveUpAwaited ==
  ASSUME SentInv, NEW who \in Threads \cup {Sta}, GiveUp(who)
  PROVE  /\ \A c, d \in posts' : c.by = d.by /\ c.by # Nobody => c = d
         /\ \A c \in posts' : c.by # who
         /\ \A c \in posts' : c.by # Nobody => c \in posts
         /\ \A c \in posts' : \E d \in posts : c.kind = d.kind /\ c.token = d.token
         /\ who \notin answered'
         /\ answered' \subseteq answered
<1> USE CallersDiffer DEF SentInv, CallsAwaited
<1>1. CASE who \in answered /\ answered' = answered \ {who} /\ posts' = posts
  BY <1>1
<1>2. ASSUME NEW c \in posts, c.by = who,
             posts' = (posts \ {c}) \cup {[c EXCEPT !.by = Nobody]}, answered' = answered
      PROVE  /\ \A e, d \in posts' : e.by = d.by /\ e.by # Nobody => e = d
             /\ \A e \in posts' : e.by # who
             /\ \A e \in posts' : e.by # Nobody => e \in posts
             /\ \A e \in posts' : \E d \in posts : e.kind = d.kind /\ e.token = d.token
             /\ who \notin answered'
             /\ answered' \subseteq answered
  <2> DEFINE gone == [c EXCEPT !.by = Nobody]
  <2>1. gone.by = Nobody /\ gone.kind = c.kind /\ gone.token = c.token
    BY DEF RefCacheTypeOK, Calls
  <2>2. \A e \in posts' : e = gone \/ (e \in posts /\ e # c)
    BY <1>2
  <2> HIDE DEF gone
  <2>3. who \notin answered
    BY <1>2
  <2>4. QED
    BY <1>2, <2>1, <2>2, <2>3
<1>3. QED
  BY <1>1, <1>2 DEF GiveUp

\* The calculation threads' actions.
LEMMA ThreadStep ==
  ASSUME SentInv, NEW t \in Threads,
         \/ \E k \in Tokens : AlreadySent(t, k) \/ SendRefCachePayloadOnce(t, k)
         \/ SendSucceeds(t)
         \/ MarkSent(t)
         \/ SendFails(t)
  PROVE  CallsAwaited' /\ AnswersHold' /\ EventsQuiet' /\ SentIsHeld'
<1> USE CallersDiffer DEF SentInv
<1>1. ASSUME NEW k \in Tokens, AlreadySent(t, k)
      PROVE  CallsAwaited' /\ AnswersHold' /\ EventsQuiet' /\ SentIsHeld'
  BY <1>1 DEF AlreadySent, CallsAwaited, AnswersHold, EventsQuiet, AllIdle, SentIsHeld
<1>2. ASSUME NEW k \in Tokens, SendRefCachePayloadOnce(t, k)
      PROVE  CallsAwaited' /\ AnswersHold' /\ EventsQuiet' /\ SentIsHeld'
  <2>1. /\ shipper[t].at = "idle" /\ sta = "none"
        /\ shipper' = [shipper EXCEPT ![t] = [at |-> "sending", token |-> k]]
        /\ Post(t, "refcache", k)
        /\ UNCHANGED <<sentRefCache, held, sta, answered, lateClear>>
    BY <1>2 DEF SendRefCachePayloadOnce, ShipperIdle
  <2>2. t \notin answered /\ \A c \in posts : c.by # t
    BY <2>1 DEF CallsAwaited, AnswersHold
  <2>3. CallsAwaited'
    <3>1. /\ \A c, d \in posts' : c.by = d.by /\ c.by # Nobody => c = d
          /\ \A c \in posts' :
               c \in posts \/ (c.by = t /\ c.kind = "refcache" /\ c.token = k)
      BY <2>1, <2>2, PostAwaited
    <3>2. shipper'[t].at = "sending" /\ shipper'[t].token = k
      BY <2>1 DEF RefCacheTypeOK
    <3>3. \A u \in Threads : u # t => shipper'[u] = shipper[u]
      BY <2>1 DEF RefCacheTypeOK
    <3>4. QED
      BY <2>1, <2>2, <3>1, <3>2, <3>3 DEF CallsAwaited
  <2>4. AnswersHold'
    BY <2>1, <2>2 DEF AnswersHold, RefCacheTypeOK
  <2>5. EventsQuiet' /\ SentIsHeld'
    BY <2>1 DEF EventsQuiet, SentIsHeld
  <2>6. QED
    BY <2>3, <2>4, <2>5
<1>3. ASSUME SendSucceeds(t)
      PROVE  CallsAwaited' /\ AnswersHold' /\ EventsQuiet' /\ SentIsHeld'
  <2>1. CallsAwaited'
    BY <1>3 DEF SendSucceeds, CallsAwaited, RefCacheTypeOK
  <2>2. AnswersHold'
    BY <1>3 DEF SendSucceeds, AnswersHold, RefCacheTypeOK
  <2>3. EventsQuiet' /\ SentIsHeld'
    BY <1>3 DEF SendSucceeds, EventsQuiet, AllIdle, ShipperIdle, SentIsHeld
  <2>4. QED
    BY <2>1, <2>2, <2>3
<1>4. ASSUME MarkSent(t)
      PROVE  CallsAwaited' /\ AnswersHold' /\ EventsQuiet' /\ SentIsHeld'
  <2>1. CallsAwaited'
    BY <1>4 DEF MarkSent, CallsAwaited, ShipperIdle, RefCacheTypeOK
  <2>2. AnswersHold'
    BY <1>4 DEF MarkSent, AnswersHold, ShipperIdle, RefCacheTypeOK
  <2>3. EventsQuiet' /\ SentIsHeld'
    BY <1>4 DEF MarkSent, EventsQuiet, AllIdle, ShipperIdle, AnswersHold, SentIsHeld
  <2>4. QED
    BY <2>1, <2>2, <2>3
<1>5. ASSUME SendFails(t)
      PROVE  CallsAwaited' /\ AnswersHold' /\ EventsQuiet' /\ SentIsHeld'
  <2>1. /\ shipper[t].at = "sending"
        /\ GiveUp(t)
        /\ shipper' = [shipper EXCEPT ![t] = ShipperIdle]
        /\ UNCHANGED <<sentRefCache, held, sta, lateClear>>
    BY <1>5 DEF SendFails
  <2>2. /\ \A c, d \in posts' : c.by = d.by /\ c.by # Nobody => c = d
        /\ \A c \in posts' : c.by # t
        /\ \A c \in posts' : c.by # Nobody => c \in posts
        /\ \A c \in posts' : \E d \in posts : c.kind = d.kind /\ c.token = d.token
        /\ t \notin answered'
        /\ answered' \subseteq answered
    BY <2>1, GiveUpAwaited
  <2>3. \A u \in Threads : u # t => shipper'[u] = shipper[u]
    BY <2>1 DEF RefCacheTypeOK
  <2>4. shipper'[t].at = "idle"
    BY <2>1 DEF RefCacheTypeOK, ShipperIdle
  <2>5. CallsAwaited'
    <3>1. \A c \in posts' : c.by \notin answered'
      BY <2>2, StepTypeOK, <1>5 DEF CallsAwaited, RefCacheTypeOK, RefCacheNext
    <3>2. \A c \in posts' : c.by = Sta => c.kind = sta'
      BY <2>1, <2>2 DEF CallsAwaited
    <3>3. \A c \in posts' : c.by \in Threads =>
            shipper'[c.by].at = "sending" /\ c.kind = "refcache"
            /\ c.token = shipper'[c.by].token
      BY <2>2, <2>3 DEF CallsAwaited
    <3>4. \A c \in posts' : c.kind = "refcache" => c.token \in Tokens
      BY <2>2 DEF CallsAwaited
    <3>5. QED
      BY <2>2, <3>1, <3>2, <3>3, <3>4 DEF CallsAwaited
  <2>6. AnswersHold'
    BY <2>1, <2>2, <2>3, <2>4 DEF AnswersHold
  <2>7. EventsQuiet' /\ SentIsHeld'
    BY <2>1 DEF EventsQuiet, AllIdle, ShipperIdle, SentIsHeld
  <2>8. QED
    BY <2>5, <2>6, <2>7
<1>6. QED
  BY <1>1, <1>2, <1>3, <1>4, <1>5

\* The events, on the STA.
LEMMA EventStep ==
  ASSUME SentInv, CalculationEndedClears \/ CalculationCanceled \/ EventReturns
  PROVE  CallsAwaited' /\ AnswersHold' /\ EventsQuiet' /\ SentIsHeld'
<1> USE CallersDiffer DEF SentInv
<1>1. ASSUME CalculationEndedClears \/ CalculationCanceled
      PROVE  CallsAwaited' /\ AnswersHold' /\ EventsQuiet' /\ SentIsHeld'
  <2> DEFINE kind == IF CalculationEndedClears THEN "ended" ELSE "canceled"
  <2>1. /\ sta = "none" /\ AllIdle /\ sta' = kind /\ Post(Sta, kind, Nobody)
        /\ kind \in {"ended", "canceled"}
        /\ UNCHANGED <<held, shipper, answered>>
    BY <1>1 DEF CalculationEndedClears, CalculationCanceled
  <2>2. kind = "ended" => sentRefCache' = {}
    BY <1>1 DEF CalculationEndedClears
  <2>3. (sentRefCache' = {}) \/ (sentRefCache' = sentRefCache /\ lateClear' = lateClear)
    BY <1>1 DEF CalculationEndedClears, CalculationCanceled
  <2> HIDE DEF kind
  <2>4. \A t \in Threads : shipper[t].at = "idle" /\ t \notin answered
    BY <2>1 DEF AllIdle, ShipperIdle, AnswersHold
  <2>5. \A c \in posts : c.by = Nobody
    <3>1. \A c \in posts : c.by \in Threads \cup {Sta, Nobody} /\ c.kind # "none"
      BY DEF RefCacheTypeOK, Calls, Kinds
    <3>2. \A c \in posts : c.by \notin Threads /\ c.by # Sta
      BY <2>1, <2>4, <3>1 DEF CallsAwaited
    <3>3. QED
      BY <3>1, <3>2
  <2>6. Sta \notin answered
    BY <2>1 DEF AnswersHold
  <2>7. CallsAwaited'
    <3>1. /\ \A c, d \in posts' : c.by = d.by /\ c.by # Nobody => c = d
          /\ \A c \in posts' :
               c \in posts \/ (c.by = Sta /\ c.kind = kind /\ c.token = Nobody)
      BY <2>1, <2>5, PostAwaited
    <3>2. \A c \in posts' : c \in posts \/ (c.by = Sta /\ c.kind \in {"ended", "canceled"})
      BY <2>1, <3>1
    <3>3. QED
      BY <2>1, <2>5, <2>6, <3>1, <3>2 DEF CallsAwaited
  <2>8. AnswersHold'
    BY <2>1, <2>4, <2>6 DEF AnswersHold
  <2>9. EventsQuiet' /\ SentIsHeld'
    BY <2>1, <2>2, <2>3 DEF EventsQuiet, AllIdle, SentIsHeld
  <2>10. QED
    BY <2>7, <2>8, <2>9
<1>2. ASSUME EventReturns
      PROVE  CallsAwaited' /\ AnswersHold' /\ EventsQuiet' /\ SentIsHeld'
  <2>1. /\ sta' = "none" /\ sta # "none"
        /\ UNCHANGED <<sentRefCache, held, shipper, lateClear>>
    BY <1>2 DEF EventReturns
  <2>2. GiveUp(Sta)
    BY <1>2 DEF EventReturns, GiveUp
  <2>3. /\ \A c, d \in posts' : c.by = d.by /\ c.by # Nobody => c = d
        /\ \A c \in posts' : c.by # Sta
        /\ \A c \in posts' : c.by # Nobody => c \in posts
        /\ \A c \in posts' : \E d \in posts : c.kind = d.kind /\ c.token = d.token
        /\ Sta \notin answered'
        /\ answered' \subseteq answered
    BY <2>2, GiveUpAwaited
  <2>4. \A c \in posts' : c.by \notin answered'
    BY <2>3 DEF CallsAwaited, RefCacheTypeOK
  <2>5. CallsAwaited'
    BY <2>1, <2>3, <2>4 DEF CallsAwaited
  <2>6. AnswersHold' /\ EventsQuiet' /\ SentIsHeld'
    BY <2>1, <2>3 DEF AnswersHold, EventsQuiet, SentIsHeld
  <2>7. QED
    BY <2>5, <2>6
<1>3. QED
  BY <1>1, <1>2

\* The server handles a call: it is gone, and its sender, if it waits, has an answer.
LEMMA HandledAwaited ==
  ASSUME SentInv, NEW c \in posts, Handled(c)
  PROVE  /\ posts' \subseteq posts /\ c \notin posts'
         /\ \A d \in posts' : d.by \notin answered'
         /\ answered' \subseteq answered \cup ({c.by} \ {Nobody})
BY DEF SentInv, Handled, CallsAwaited, RefCacheTypeOK

\* The server's handlers of the three calls.
LEMMA ServerStep ==
  ASSUME SentInv, NEW c \in posts,
         HandleSetRefCache(c) \/ HandleCalculationEnded(c) \/ HandleCalculationCanceled(c)
  PROVE  CallsAwaited' /\ AnswersHold' /\ EventsQuiet' /\ SentIsHeld'
<1> USE CallersDiffer DEF SentInv
<1>1. Handled(c) /\ UNCHANGED <<sentRefCache, shipper, sta>>
  BY DEF HandleSetRefCache, HandleCalculationEnded, HandleCalculationCanceled
<1>2. /\ posts' \subseteq posts /\ c \notin posts'
      /\ \A d \in posts' : d.by \notin answered'
      /\ answered' \subseteq answered \cup ({c.by} \ {Nobody})
  BY <1>1, HandledAwaited
<1>3. CallsAwaited'
  BY <1>1, <1>2 DEF CallsAwaited
<1>4. EventsQuiet'
  BY <1>1 DEF EventsQuiet, AllIdle
<1>5. Sta \in answered' => sta' # "none"
  <2>1. c.by = Sta => sta # "none"
    BY DEF CallsAwaited, RefCacheTypeOK, Calls, Kinds
  <2>2. QED
    BY <1>1, <1>2, <2>1 DEF AnswersHold
<1>6. ASSUME HandleSetRefCache(c) PROVE AnswersHold' /\ SentIsHeld'
  <2>1. c.kind = "refcache" /\ held' = held \cup {c.token} /\ lateClear' = lateClear
    BY <1>6 DEF HandleSetRefCache
  <2>2. c.by \in Threads => shipper[c.by].at = "sending" /\ c.token = shipper[c.by].token
    BY DEF CallsAwaited
  <2>3. QED
    BY <1>1, <1>2, <1>5, <2>1, <2>2 DEF AnswersHold, SentIsHeld
<1>7. ASSUME HandleCalculationEnded(c) PROVE AnswersHold' /\ SentIsHeld'
  <2>1. c.kind = "ended" /\ held' = {} /\ lateClear' = (lateClear \/ c.by = Nobody)
    BY <1>7 DEF HandleCalculationEnded
  <2>2. c.by \in {Sta, Nobody}
    BY <2>1 DEF CallsAwaited, RefCacheTypeOK, Calls
  <2>3. CASE c.by = Nobody
    BY <1>1, <1>2, <1>5, <2>1, <2>3 DEF AnswersHold, SentIsHeld
  <2>4. CASE c.by = Sta
    <3>1. sta = "ended"
      BY <2>1, <2>4 DEF CallsAwaited
    <3>2. AllIdle /\ sentRefCache = {}
      BY <3>1 DEF EventsQuiet
    <3>3. \A t \in Threads : shipper[t].at = "idle"
      <4>1. \A t \in Threads : shipper[t] = ShipperIdle
        BY <3>2 DEF AllIdle
      <4>2. ShipperIdle.at = "idle"
        BY DEF ShipperIdle
      <4>3. QED
        BY <4>1, <4>2
    <3>4. \A t \in Threads : t \notin answered
      BY <3>3 DEF AnswersHold
    <3>5. QED
      BY <1>1, <1>2, <1>5, <2>1, <2>4, <3>2, <3>3, <3>4 DEF AnswersHold, SentIsHeld
  <2>5. QED
    BY <2>2, <2>3, <2>4
<1>8. ASSUME HandleCalculationCanceled(c) PROVE AnswersHold' /\ SentIsHeld'
  <2>1. c.kind = "canceled" /\ UNCHANGED <<held, lateClear>>
    BY <1>8 DEF HandleCalculationCanceled
  <2>2. c.by \notin Threads
    BY <2>1 DEF CallsAwaited
  <2>3. QED
    BY <1>1, <1>2, <1>5, <2>1, <2>2 DEF AnswersHold, SentIsHeld
<1>9. QED
  BY <1>3, <1>4, <1>6, <1>7, <1>8

\* SentInv holds in every reachable state.
THEOREM SentInvariance == RefCacheSpec => []SentInv
<1>1. ASSUME SentInv, [RefCacheNext]_refCacheVars PROVE SentInv'
  <2>1. CASE RefCacheNext
    <3>1. RefCacheTypeOK'
      BY <1>1, <2>1, StepTypeOK
    <3>2. CallsAwaited' /\ AnswersHold' /\ EventsQuiet' /\ SentIsHeld'
      <4>1. ASSUME NEW t \in Threads,
                   \/ \E k \in Tokens : AlreadySent(t, k) \/ SendRefCachePayloadOnce(t, k)
                   \/ SendSucceeds(t)
                   \/ MarkSent(t)
                   \/ SendFails(t)
            PROVE  CallsAwaited' /\ AnswersHold' /\ EventsQuiet' /\ SentIsHeld'
        BY <1>1, <4>1, ThreadStep
      <4>2. ASSUME CalculationEndedClears \/ CalculationCanceled \/ EventReturns
            PROVE  CallsAwaited' /\ AnswersHold' /\ EventsQuiet' /\ SentIsHeld'
        BY <1>1, <4>2, EventStep
      <4>3. ASSUME NEW c \in posts,
                   \/ HandleSetRefCache(c)
                   \/ HandleCalculationEnded(c)
                   \/ HandleCalculationCanceled(c)
            PROVE  CallsAwaited' /\ AnswersHold' /\ EventsQuiet' /\ SentIsHeld'
        BY <1>1, <4>3, ServerStep
      <4>4. ASSUME NEW k \in Tokens, ResolveArg(k) \/ DisconnectDataOf(k)
            PROVE  CallsAwaited' /\ AnswersHold' /\ EventsQuiet' /\ SentIsHeld'
        <5>1. UNCHANGED <<sentRefCache, held, shipper, sta, posts, answered, lateClear>>
          BY <4>4 DEF ResolveArg, DisconnectDataOf
        <5>2. QED
          BY <1>1, <5>1 DEF SentInv, CallsAwaited, AnswersHold, EventsQuiet, AllIdle,
                            SentIsHeld
      <4>5. QED
        BY <2>1, <4>1, <4>2, <4>3, <4>4 DEF RefCacheNext
    <3>3. QED
      BY <3>1, <3>2 DEF SentInv
  <2>2. CASE UNCHANGED refCacheVars
    BY <1>1, <2>2 DEF SentInv, refCacheVars, RefCacheTypeOK, CallsAwaited, AnswersHold, EventsQuiet, AllIdle,
                      SentIsHeld
  <2>3. QED
    BY <1>1, <2>1, <2>2
<1>2. QED
  BY <1>1, SentInit, PTL DEF RefCacheSpec

\* What g_sentRefCache says was shipped is in the server's RefCache, unless an abandoned
\* calculation-end call was handled in this cycle.
THEOREM SentStaysHeld == RefCacheSpec => []SentIsHeld
<1>1. SentInv => SentIsHeld
  BY DEF SentInv
<1>2. QED
  BY <1>1, SentInvariance, PTL

(* --- ResultCache -------------------------------------------------------- *)

\* The digest a call looks up with is a digest.
DigestKnown ==
  \A c \in Cells : call[c].at \in {"remember", "get", "convert"} => call[c].digest \in Digests

\* The memo holds nothing between calculations, nor while the gate bypasses it, and
\* every calculation ends with every call done.
MemoFresh == ~calculating \/ gate => \A r \in Ranges : memo[r] = None
CallsOver == ~calculating => \A c \in Cells : call[c].at = "done"
MemoFilledByCell == (\E r \in Ranges : memo[r] # None) => Cells # {}

\* Iteration without the gate is noticed by the first call of the cycle.
LagNoticed ==
  calculating /\ iterative /\ ~gate /\ (\E c \in Cells : call[c].at # "todo") => lagged

\* Before that, every digest is of the present content or of the reference alone, and
\* a result stored under the digest of a content is its result.
DigestsCurrent ==
  ~lagged =>
    /\ \A r \in Ranges : memo[r] \in {None, Identity, content[r]}
    /\ \A c \in Cells :
         call[c].at \in {"remember", "get", "convert"} =>
           call[c].digest \in {Identity, content[arg[c]]}
    /\ \A r \in Ranges, d \in Contents : cache[<<r, d>>] \in {None, d}
    /\ \A c \in Cells : call[c].at = "done" =>
         shown[c] \in {None, content[arg[c]]} \/ call[c].digest = Identity

ServedInv ==
  /\ ResultCacheTypeOK
  /\ DigestKnown /\ MemoFresh /\ CallsOver /\ MemoFilledByCell /\ LagNoticed
  /\ DigestsCurrent

LEMMA ServedInit == ResultCacheInit => ServedInv
<1> SUFFICES ASSUME ResultCacheInit PROVE ServedInv
  OBVIOUS
<1>1. ResultCacheTypeOK
  BY DEF ResultCacheInit, ResultCacheTypeOK, Digests, Done
<1>2. DigestKnown /\ MemoFresh /\ CallsOver /\ MemoFilledByCell /\ LagNoticed
  BY DEF ResultCacheInit, DigestKnown, MemoFresh, CallsOver, MemoFilledByCell, LagNoticed, Done
<1>3. DigestsCurrent
  BY DEF ResultCacheInit, DigestsCurrent, Done, Digests
<1> QED
  BY <1>1, <1>2, <1>3 DEF ServedInv

Evaluation == [at : {"todo", "coerce", "remember", "get", "convert", "done"},
               digest : Digests \union {None}, refused : BOOLEAN]

LEMMA CallsTyped == Done \in Evaluation /\ Todo \in Evaluation /\ Todo.at = "todo"
BY DEF Done, Todo, Evaluation

\* Excel has the value, or calls again.
LEMMA Returned ==
  ASSUME ResultCacheTypeOK, NEW c \in Cells, NEW value \in Contents, Return(c, value)
  PROVE  /\ call' \in [Cells -> Evaluation] /\ shown' \in [Cells -> Contents \union {None}]
         /\ \A d \in Cells \ {c} : call'[d] = call[d] /\ shown'[d] = shown[d]
         /\ \/ call'[c].at = "todo" /\ shown' = shown
            \/ /\ call'[c].at = "done" /\ call'[c].digest = call[c].digest
               /\ shown'[c] = value
<1>1. call \in [Cells -> Evaluation] /\ shown \in [Cells -> Contents \union {None}]
  BY DEF ResultCacheTypeOK, Evaluation
<1>2. CASE call[c].refused
  BY <1>1, <1>2, CallsTyped DEF Return
<1>3. CASE ~call[c].refused
  <2>1. call' = [call EXCEPT ![c].at = "done"] /\ shown' = [shown EXCEPT ![c] = value]
    BY <1>3 DEF Return
  <2> QED
    BY <1>1, <2>1 DEF Evaluation
<1> QED
  BY <1>2, <1>3

LEMMA AskedAgain ==
  ASSUME ResultCacheTypeOK, NEW c \in Cells, NEW x \in Evaluation, call' = [call EXCEPT ![c] = x]
  PROVE  call' \in [Cells -> Evaluation] /\ call'[c] = x
         /\ \A d \in Cells \ {c} : call'[d] = call[d]
BY DEF ResultCacheTypeOK, Evaluation

LEMMA ServedTypes == ServedInv /\ [ResultCacheNext]_resultCacheVars => ResultCacheTypeOK'
<1> SUFFICES ASSUME ServedInv, [ResultCacheNext]_resultCacheVars PROVE ResultCacheTypeOK'
  OBVIOUS
<1>1. ResultCacheTypeOK /\ DigestKnown
  BY DEF ServedInv
<1>2. CASE Recalculate \/ NextIteration
  <2>1. call' \in [Cells -> Evaluation]
    BY <1>2, CallsTyped DEF Recalculate, NextIteration
  <2> QED
    BY <1>1, <1>2, <2>1 DEF Recalculate, NextIteration, ResultCacheTypeOK, Evaluation
<1>3. CASE SetIterative \/ CalculationEndedForgets \/ UNCHANGED resultCacheVars
  BY <1>1, <1>3 DEF SetIterative, CalculationEndedForgets, resultCacheVars, excelVars,
                    ResultCacheTypeOK
<1>4. ASSUME NEW r \in Ranges, CalculateRange(r) PROVE ResultCacheTypeOK'
  BY <1>1, <1>4 DEF CalculateRange, ResultCacheTypeOK
<1>5. ASSUME NEW c \in Cells, LookUpMemo(c) PROVE ResultCacheTypeOK'
  <2>1. lagged' \in BOOLEAN /\ refPathUsed' \in BOOLEAN
    BY <1>5 DEF LookUpMemo
  <2>2. \A e \in Evaluation, d \in Digests :
          [e EXCEPT !.at = "get", !.digest = d] \in Evaluation
          /\ [e EXCEPT !.at = "coerce"] \in Evaluation
    BY DEF Evaluation
  <2>3. arg[c] \in Ranges /\ memo[arg[c]] \in Digests \cup {None}
    BY <1>1 DEF ResultCacheTypeOK
  <2>4. call \in [Cells -> Evaluation]
    BY <1>1 DEF ResultCacheTypeOK, Evaluation
  <2>5. call' \in [Cells -> Evaluation]
    <3>1. CASE ~gate /\ memo[arg[c]] # None
      BY <1>5, <2>2, <2>3, <2>4, <3>1 DEF LookUpMemo
    <3>2. CASE ~(~gate /\ memo[arg[c]] # None)
      <4>1. call' = [call EXCEPT ![c] = [@ EXCEPT !.at = "coerce"]]
        BY <1>5, <3>2 DEF LookUpMemo
      <4>2. [call[c] EXCEPT !.at = "coerce"] \in Evaluation
        BY <2>4 DEF Evaluation
      <4> QED
        BY <2>4, <4>1, <4>2
    <3> QED
      BY <3>1, <3>2
  <2> QED
    BY <1>1, <1>5, <2>1, <2>5 DEF LookUpMemo, excelVars, ResultCacheTypeOK, Evaluation
<1>6. ASSUME NEW c \in Cells, HashContent(c) PROVE ResultCacheTypeOK'
  BY <1>1, <1>6 DEF HashContent, excelVars, ResultCacheTypeOK, Digests
<1>7. ASSUME NEW c \in Cells, Remember(c) PROVE ResultCacheTypeOK'
  BY <1>1, <1>7 DEF Remember, excelVars, ResultCacheTypeOK
<1>8. ASSUME NEW c \in Cells, Hit(c) PROVE ResultCacheTypeOK'
  <2>1. Key(c) \in Ranges \X Digests
    BY <1>1, <1>8 DEF Hit, Key, ResultCacheTypeOK, DigestKnown
  <2>2. cache[Key(c)] \in Contents
    BY <1>1, <1>8, <2>1 DEF Hit, ResultCacheTypeOK
  <2> QED
    BY <1>1, <1>8, <2>2, Returned DEF Hit, excelVars, ResultCacheTypeOK, Evaluation
<1>9. ASSUME NEW c \in Cells, Miss(c) \/ ConvertRefused(c) PROVE ResultCacheTypeOK'
  <2>1. CASE Miss(c)
    <3>1. call' \in [Cells -> Evaluation]
      <4>1. call \in [Cells -> Evaluation]
        BY <1>1 DEF ResultCacheTypeOK, Evaluation
      <4>2. [call[c] EXCEPT !.at = "convert"] \in Evaluation
        BY <4>1 DEF Evaluation
      <4>3. call' = [call EXCEPT ![c] = [@ EXCEPT !.at = "convert"]]
        BY <2>1 DEF Miss
      <4> QED
        BY <4>1, <4>2, <4>3
    <3> QED
      BY <1>1, <2>1, <3>1 DEF Miss, excelVars, ResultCacheTypeOK, Evaluation
  <2>2. CASE ConvertRefused(c)
    BY <1>1, <2>2, CallsTyped, AskedAgain DEF ConvertRefused, excelVars, ResultCacheTypeOK,
                                              Evaluation
  <2> QED
    BY <1>9, <2>1, <2>2
<1>10. ASSUME NEW c \in Cells, CallServer(c) PROVE ResultCacheTypeOK'
  <2>1. content[arg[c]] \in Contents
    BY <1>1 DEF ResultCacheTypeOK
  <2>2. cache' \in [Ranges \X Digests -> Contents \union {None}]
    BY <1>1, <1>10, <2>1 DEF CallServer, ResultCacheTypeOK
  <2> QED
    BY <1>1, <1>10, <2>1, <2>2, Returned DEF CallServer, excelVars, ResultCacheTypeOK, Evaluation
<1>11. ASSUME NEW k \in DOMAIN cache, Expire(k) PROVE ResultCacheTypeOK'
  BY <1>1, <1>11 DEF Expire, excelVars, ResultCacheTypeOK
<1> QED
  BY <1>2, <1>3, <1>4, <1>5, <1>6, <1>7, <1>8, <1>9, <1>10, <1>11 DEF ResultCacheNext

\* Who may call, and what the memo may hold, independent of the digests themselves.
Discipline == DigestKnown /\ MemoFresh /\ CallsOver /\ MemoFilledByCell /\ LagNoticed

LEMMA DisciplineStep == ServedInv /\ [ResultCacheNext]_resultCacheVars => Discipline'
<1> SUFFICES ASSUME ServedInv, [ResultCacheNext]_resultCacheVars PROVE Discipline'
  OBVIOUS
<1> USE DEF Discipline, DigestKnown, MemoFresh, CallsOver, MemoFilledByCell, LagNoticed
<1>1. ResultCacheTypeOK /\ Discipline
  BY DEF ServedInv
<1>2. CASE Recalculate \/ NextIteration
  BY <1>1, <1>2 DEF Recalculate, NextIteration, Todo, AllDone
<1>3. CASE SetIterative \/ CalculationEndedForgets \/ UNCHANGED resultCacheVars
  BY <1>1, <1>3 DEF SetIterative, CalculationEndedForgets, resultCacheVars, excelVars, AllDone
<1>4. ASSUME NEW r \in Ranges, CalculateRange(r) PROVE Discipline'
  BY <1>1, <1>4 DEF CalculateRange
<1>5. ASSUME NEW c \in Cells, LookUpMemo(c) PROVE Discipline'
  BY <1>1, <1>5 DEF LookUpMemo, excelVars, ResultCacheTypeOK
<1>6. ASSUME NEW c \in Cells, HashContent(c) PROVE Discipline'
  BY <1>1, <1>6 DEF HashContent, excelVars, ResultCacheTypeOK, Digests
<1>7. ASSUME NEW c \in Cells, Remember(c) PROVE Discipline'
  BY <1>1, <1>7 DEF Remember, excelVars, ResultCacheTypeOK
<1>8. ASSUME NEW c \in Cells, Hit(c) PROVE Discipline'
  BY <1>1, <1>8 DEF Hit, Return, excelVars, ResultCacheTypeOK, Todo
<1>9. ASSUME NEW c \in Cells, Miss(c) \/ ConvertRefused(c) PROVE Discipline'
  <2>1. CASE Miss(c)
    BY <1>1, <2>1 DEF Miss, excelVars, ResultCacheTypeOK
  <2>2. CASE ConvertRefused(c)
    BY <1>1, <2>2, CallsTyped, AskedAgain DEF ConvertRefused, excelVars
  <2> QED
    BY <1>9, <2>1, <2>2
<1>10. ASSUME NEW c \in Cells, CallServer(c) PROVE Discipline'
  BY SMTT(30), <1>1, <1>10 DEF CallServer, Return, excelVars, ResultCacheTypeOK, Todo
<1>11. ASSUME NEW k \in DOMAIN cache, Expire(k) PROVE Discipline'
  BY <1>1, <1>11 DEF Expire, excelVars
<1> QED
  BY <1>2, <1>3, <1>4, <1>5, <1>6, <1>7, <1>8, <1>9, <1>10, <1>11 DEF ResultCacheNext

LEMMA DigestsStep == ServedInv /\ [ResultCacheNext]_resultCacheVars => DigestsCurrent'
<1> SUFFICES ASSUME ServedInv, [ResultCacheNext]_resultCacheVars, ~lagged' PROVE DigestsCurrent'
  BY DEF DigestsCurrent
<1>0. /\ ResultCacheTypeOK /\ DigestKnown /\ MemoFresh /\ CallsOver /\ MemoFilledByCell
      /\ LagNoticed /\ DigestsCurrent
  BY DEF ServedInv
<1>1. ~lagged
  BY DEF ResultCacheNext, Recalculate, NextIteration, SetIterative, CalculationEndedForgets,
         CalculateRange, LookUpMemo, HashContent, Remember, Hit, Miss, ConvertRefused,
         CallServer, Expire, resultCacheVars
<1> USE DEF DigestsCurrent
<1>2. CASE Recalculate
  BY <1>0, <1>1, <1>2 DEF Recalculate, Todo, MemoFresh
<1>3. CASE NextIteration
  <2>1. \A r \in Ranges : memo[r] = None
    <3>1. CASE gate
      BY <1>0, <3>1 DEF MemoFresh
    <3>2. CASE ~gate
      <4>1. Cells = {}
        BY <1>0, <1>1, <1>3, <3>2 DEF NextIteration, AllDone, LagNoticed
      <4> QED
        BY <1>0, <4>1 DEF MemoFilledByCell
    <3> QED
      BY <3>1, <3>2
  <2> QED
    BY <1>0, <1>1, <1>3, <2>1 DEF NextIteration, Todo
<1>4. CASE SetIterative \/ CalculationEndedForgets \/ UNCHANGED resultCacheVars
  BY <1>0, <1>1, <1>4 DEF SetIterative, CalculationEndedForgets, resultCacheVars, excelVars
<1>5. ASSUME NEW r \in Ranges, CalculateRange(r) PROVE DigestsCurrent'
  BY <1>0, <1>1, <1>5 DEF CalculateRange
<1>6. ASSUME NEW c \in Cells, LookUpMemo(c) PROVE DigestsCurrent'
  BY <1>0, <1>1, <1>6 DEF LookUpMemo, excelVars, ResultCacheTypeOK
<1>7. ASSUME NEW c \in Cells, HashContent(c) PROVE DigestsCurrent'
  BY <1>0, <1>1, <1>7 DEF HashContent, excelVars, ResultCacheTypeOK
<1>8. ASSUME NEW c \in Cells, Remember(c) PROVE DigestsCurrent'
  BY <1>0, <1>1, <1>8 DEF Remember, excelVars, ResultCacheTypeOK
<1>9. ASSUME NEW c \in Cells, Hit(c) PROVE DigestsCurrent'
  <2>1. call[c].digest \in Contents =>
          cache[Key(c)] = call[c].digest /\ call[c].digest = content[arg[c]]
    BY <1>0, <1>1, <1>9, DigestsAssumption DEF Hit, Key, ResultCacheTypeOK
  <2>2. call[c].digest \in Contents \/ call[c].digest = Identity
    BY <1>0, <1>9 DEF Hit, DigestKnown, Digests
  <2> QED
    BY SMTT(30), <1>0, <1>1, <1>9, <2>1, <2>2 DEF Hit, Return, excelVars, ResultCacheTypeOK, Todo
<1>10. ASSUME NEW c \in Cells, Miss(c) \/ ConvertRefused(c) PROVE DigestsCurrent'
  <2>1. CASE Miss(c)
    BY <1>0, <1>1, <2>1 DEF Miss, excelVars, ResultCacheTypeOK
  <2>2. CASE ConvertRefused(c)
    BY <1>0, <1>1, <2>2, CallsTyped, AskedAgain DEF ConvertRefused, excelVars
  <2> QED
    BY <1>10, <2>1, <2>2
<1>11. ASSUME NEW c \in Cells, CallServer(c) PROVE DigestsCurrent'
  <2>1. \A r \in Ranges, d \in Contents : cache'[<<r, d>>] \in {None, d}
    <3>1. call[c].digest \in {Identity, content[arg[c]]}
      BY <1>0, <1>1, <1>11 DEF CallServer
    <3>2. Key(c) \in Ranges \X Digests /\ Identity \notin Contents
      BY <1>0, <1>11, DigestsAssumption DEF CallServer, Key, ResultCacheTypeOK, DigestKnown
    <3>3. cache' = [cache EXCEPT ![Key(c)] = content[arg[c]]] /\ content[arg[c]] \in Contents
      BY <1>0, <1>11 DEF CallServer, ResultCacheTypeOK
    <3> TAKE r \in Ranges, d \in Contents
    <3>4. CASE <<r, d>> = Key(c)
      BY <1>0, <3>1, <3>2, <3>3, <3>4 DEF Key, ResultCacheTypeOK
    <3>5. CASE <<r, d>> # Key(c)
      BY <1>0, <1>1, <3>3, <3>5 DEF ResultCacheTypeOK, Digests
    <3> QED
      BY <3>4, <3>5
  <2> QED
    <3>1. content[arg[c]] \in Contents
      BY <1>0 DEF ResultCacheTypeOK
    <3>2. Return(c, content[arg[c]]) /\ UNCHANGED <<excelVars, memo>>
      BY <1>11 DEF CallServer
    <3>3. UNCHANGED <<arg, content, memo>>
      BY <3>2 DEF excelVars
    <3>4. \A d \in Cells : call'[d].at = "done" =>
            shown'[d] \in {None, content[arg[d]]} \/ call'[d].digest = Identity
      BY <1>0, <1>1, <3>1, <3>2, Returned
    <3>5. \A d \in Cells : call'[d].at \in {"remember", "get", "convert"} =>
            call'[d].digest \in {Identity, content[arg[d]]}
      BY <1>0, <1>1, <3>1, <3>2, Returned
    <3> QED
      BY <1>0, <1>1, <2>1, <3>3, <3>4, <3>5
<1>12. ASSUME NEW k \in DOMAIN cache, Expire(k) PROVE DigestsCurrent'
  BY <1>0, <1>1, <1>12 DEF Expire, excelVars, ResultCacheTypeOK
<1> QED
  BY <1>2, <1>3, <1>4, <1>5, <1>6, <1>7, <1>8, <1>9, <1>10, <1>11, <1>12 DEF ResultCacheNext

\* For any cells, ranges and contents: when a calculation is over, every cached function
\* shows the result for what its range holds, with the exceptions ServedIsCurrent names.
THEOREM ServedStaysCurrent == ResultCacheSpec => []ServedIsCurrent
<1>1. ServedInv /\ [ResultCacheNext]_resultCacheVars => ServedInv'
  BY ServedTypes, DisciplineStep, DigestsStep DEF ServedInv, Discipline
<1>2. ServedInv => ServedIsCurrent
  BY DEF ServedInv, ServedIsCurrent, CallsOver, DigestsCurrent
<1> QED
  BY <1>1, <1>2, ServedInit, PTL DEF ResultCacheSpec
==============================================================================
