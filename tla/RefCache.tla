------------------------------ MODULE RefCache ------------------------------
(***************************************************************************)
(* Composite arguments of RTD formulas.                                    *)
(*                                                                         *)
(* A grid or range argument does not fit into a topic string.  The wrapper *)
(* hashes it to a token, ships the payload under the token to the server's *)
(* RefCache, at most once per calculation cycle (g_sentRefCache), and calls*)
(* xlfRtd with the token.  The topic's connect travels on a thread of its  *)
(* own, and its handler, a goroutine, looks the token up.                  *)
(*                                                                         *)
(* One event, CalculationEnded, clears both halves of this cache: the XLL's*)
(* set in the event itself, the server's when it handles the event's call. *)
(* A call that times out is handled all the same, at any later time.       *)
(*                                                                         *)
(* Excel is external: it fires its calculation events when no formula is   *)
(* being evaluated.                                                        *)
(***************************************************************************)
EXTENDS ExcelThreads, Naturals, FiniteSets

CONSTANTS
  Tokens,      \* content hashes of the arguments
  MaxTimeouts  \* bound: calls given up and not handled yet

VARIABLES
  sentRefCache,       \* g_sentRefCache
  held,       \* the tokens of the server's RefCache
  shipper,     \* of each calculation thread: where it is in SendRefCachePayloadOnce
  sta,        \* the event whose call the STA waits for, "none" outside
  posts,      \* calls posted and not handled yet
  answered,   \* callers whose call has been handled
  topic,      \* of each token: the topic that carries it
  lateClear   \* history: an abandoned call cleared the server's half in this cycle

refCacheVars == <<sentRefCache, held, shipper, sta, posts, answered, topic, lateClear>>

ShipperIdle == [at |-> "idle", token |-> Nobody]
NoTopic == [at |-> "none", shipped |-> FALSE]

Kinds == {"refcache", "ended", "canceled"}
Calls == [by : Threads \cup {Sta, Nobody}, kind : Kinds, token : Tokens \cup {Nobody}]

RefCacheTypeOK ==
  /\ sentRefCache \subseteq Tokens
  /\ held \subseteq Tokens
  /\ shipper \in [Threads -> [at : {"idle", "sending", "acked"},
                             token : Tokens \cup {Nobody}]]
  /\ sta \in {"none", "ended", "canceled"}
  /\ posts \subseteq Calls
  /\ answered \subseteq Threads \cup {Sta}
  /\ topic \in [Tokens -> [at : {"none", "connecting", "resolved", "missed"},
                           shipped : BOOLEAN]]
  /\ lateClear \in BOOLEAN

RefCacheInit ==
  /\ sentRefCache = {}
  /\ held = {}
  /\ shipper = [t \in Threads |-> ShipperIdle]
  /\ sta = "none"
  /\ posts = {}
  /\ answered = {}
  /\ topic = [k \in Tokens |-> NoTopic]
  /\ lateClear = FALSE

Post(who, kind, k) == posts' = posts \cup {[by |-> who, kind |-> kind, token |-> k]}

\* The caller's time is up: its call stays in the slot and is handled later, or it
\* has been handled and the answer is not read.
GiveUp(who) ==
  \/ /\ who \in answered
     /\ answered' = answered \ {who}
     /\ UNCHANGED posts
  \/ \E c \in posts :
       /\ c.by = who
       /\ Cardinality({d \in posts : d.by = Nobody}) < MaxTimeouts
       /\ posts' = (posts \ {c}) \cup {[c EXCEPT !.by = Nobody]}
       /\ UNCHANGED answered

\* xlfRtd: Excel connects the topic, unless it has one with these strings; ConnectData
\* starts the thread that sends the connect and returns.
ConnectDataWith(k, shipped) ==
  topic' = IF topic[k].at = "none"
           THEN [topic EXCEPT ![k] = [at |-> "connecting", shipped |-> shipped]]
           ELSE topic

(* --- calculation threads ------------------------------------------------ *)

\* The wrapper finds its token in g_sentRefCache: nothing is built or sent.
AlreadySent(t, k) ==
  /\ sta = "none" /\ shipper[t] = ShipperIdle
  /\ k \in sentRefCache
  /\ ConnectDataWith(k, TRUE)
  /\ UNCHANGED <<sentRefCache, held, shipper, sta, posts, answered, lateClear>>

SendRefCachePayloadOnce(t, k) ==
  /\ sta = "none" /\ shipper[t] = ShipperIdle
  /\ k \notin sentRefCache
  /\ shipper' = [shipper EXCEPT ![t] = [at |-> "sending", token |-> k]]
  /\ Post(t, "refcache", k)
  /\ UNCHANGED <<sentRefCache, held, sta, answered, topic, lateClear>>

SendSucceeds(t) ==
  /\ shipper[t].at = "sending" /\ t \in answered
  /\ shipper' = [shipper EXCEPT ![t].at = "acked"]
  /\ answered' = answered \ {t}
  /\ UNCHANGED <<sentRefCache, held, sta, posts, topic, lateClear>>

MarkSent(t) ==
  /\ shipper[t].at = "acked"
  /\ sentRefCache' = sentRefCache \cup {shipper[t].token}
  /\ shipper' = [shipper EXCEPT ![t] = ShipperIdle]
  /\ ConnectDataWith(shipper[t].token, TRUE)
  /\ UNCHANGED <<held, sta, posts, answered, lateClear>>

\* The payload is not known to have arrived; the wrapper warns and calls xlfRtd.
SendFails(t) ==
  /\ shipper[t].at = "sending"
  /\ GiveUp(t)
  /\ shipper' = [shipper EXCEPT ![t] = ShipperIdle]
  /\ ConnectDataWith(shipper[t].token, FALSE)
  /\ UNCHANGED <<sentRefCache, held, sta, lateClear>>

(* --- calculation events, on the STA ------------------------------------- *)

AllIdle == \A t \in Threads : shipper[t] = ShipperIdle

\* The event clears the XLL's half before its call lets the server clear the other.
CalculationEndedClears ==
  /\ sta = "none" /\ AllIdle
  /\ sentRefCache' = {}
  /\ lateClear' = FALSE
  /\ sta' = "ended"
  /\ Post(Sta, "ended", Nobody)
  /\ UNCHANGED <<held, shipper, answered, topic>>

\* Excel has abandoned its calculation; the notification touches neither half.
CalculationCanceled ==
  /\ sta = "none" /\ AllIdle
  /\ sta' = "canceled"
  /\ Post(Sta, "canceled", Nobody)
  /\ UNCHANGED <<sentRefCache, held, shipper, answered, topic, lateClear>>

EventReturns ==
  /\ sta # "none"
  /\ \/ Sta \in answered /\ answered' = answered \ {Sta} /\ UNCHANGED posts
     \/ GiveUp(Sta)
  /\ sta' = "none"
  /\ UNCHANGED <<sentRefCache, held, shipper, topic, lateClear>>

(* --- the server --------------------------------------------------------- *)

Handled(c) ==
  /\ posts' = posts \ {c}
  /\ answered' = answered \cup ({c.by} \ {Nobody})

HandleSetRefCache(c) ==
  /\ c.kind = "refcache"
  /\ held' = held \cup {c.token}
  /\ Handled(c)
  /\ UNCHANGED <<sentRefCache, shipper, sta, topic, lateClear>>

HandleCalculationEnded(c) ==
  /\ c.kind = "ended"
  /\ held' = {}
  /\ Handled(c)
  /\ lateClear' = (lateClear \/ c.by = Nobody)
  /\ UNCHANGED <<sentRefCache, shipper, sta, topic>>

\* Mutant: the server's half is cleared, as HandleCalculationEnded does.
HandleCalculationCanceledClears(c) ==
  /\ c.kind = "canceled"
  /\ held' = {}
  /\ Handled(c)
  /\ UNCHANGED <<sentRefCache, shipper, sta, topic, lateClear>>

HandleCalculationCanceled(c) ==
  /\ c.kind = "canceled"
  /\ Handled(c)
  /\ UNCHANGED <<sentRefCache, held, shipper, sta, topic, lateClear>>

\* The connect's goroutine resolves the argument, or pushes an error to the topic,
\* which stays connected.
ResolveArg(k) ==
  /\ topic[k].at = "connecting"
  /\ topic' = [topic EXCEPT ![k].at = IF k \in held THEN "resolved" ELSE "missed"]
  /\ UNCHANGED <<sentRefCache, held, shipper, sta, posts, answered, lateClear>>

\* No cell has the formula any more.
DisconnectDataOf(k) ==
  /\ topic[k].at \in {"resolved", "missed"}
  /\ topic' = [topic EXCEPT ![k] = NoTopic]
  /\ UNCHANGED <<sentRefCache, held, shipper, sta, posts, answered, lateClear>>

RefCacheNext ==
  \/ \E t \in Threads :
       \/ \E k \in Tokens : AlreadySent(t, k) \/ SendRefCachePayloadOnce(t, k)
       \/ SendSucceeds(t)
       \/ MarkSent(t)
       \/ SendFails(t)
  \/ CalculationEndedClears
  \/ CalculationCanceled
  \/ EventReturns
  \/ \E c \in posts :
       \/ HandleSetRefCache(c)
       \/ HandleCalculationEnded(c)
       \/ HandleCalculationCanceled(c)
  \/ \E k \in Tokens : ResolveArg(k) \/ DisconnectDataOf(k)

RefCacheSpec == RefCacheInit /\ [][RefCacheNext]_refCacheVars

(* --- properties --------------------------------------------------------- *)

\* A token in g_sentRefCache is one the server holds, so a wrapper that skips the
\* shipping loses nothing; through time-outs, cancelled calculations and handlers that
\* run late. Only the calculation-end call of an earlier cycle, handled late, may break
\* it, and only until the next CalculationEnded.
SentIsHeld == lateClear \/ sentRefCache \subseteq held

\* A payload that was shipped and acknowledged is there when its topic's connect asks
\* for it.
ShippedIsFound == \A k \in Tokens : topic[k].at = "missed" => ~topic[k].shipped
=============================================================================
