------------------------------ MODULE RtdOnce ------------------------------
(***************************************************************************)
(* One function of mode "rtd-once" called with one argument list from      *)
(* several cells: the wrapper, which puts a value in the cell only when the*)
(* registry has one and issues xlfRtd otherwise; the topics Excel connects *)
(* for it; RunOnce and RunOnceGrid on the server; the worker thread that   *)
(* fills the registry; and CalculationEnded, which empties it.             *)
(*                                                                         *)
(* A topic id is used again after its disconnect, a connect is handled     *)
(* once, twice or not at all, any push may be lost, and the user           *)
(* recalculates, enters and deletes the formula at will.  The notification *)
(* between UpdateTopic and Excel's refresh is RtdUpdates.                  *)
(***************************************************************************)
EXTENDS Naturals, FiniteSets, NoValue

CONSTANTS
  FormulaCells,     \* cells that may call the function with these arguments
  Topics,           \* topic ids
  Runs              \* handler runs that may be under way at a time

ASSUME TopicsAssumption == None \notin Topics

VARIABLES
  policy,           \* "once", "memoize_ttl" or "memoize"
  grid,             \* the function returns a grid or a numgrid
  entry,            \* the registry's entry: "none", "result", "error" (transient)
  expired,          \* the entry is older than memoize_ttl
  topics,           \* topicToKey: the connected topics
  ref,              \* ref[c]: the topic cell c refers to
  shown,            \* shown[c]: what the cell shows
  recalc,           \* cells Excel is to recalculate
  connects,         \* connects[t]: times a connect of t is still to be handled
  run,              \* run[r]: a handler run on the server
  worker,           \* the RtdUpdate the worker thread is processing
  updated,          \* topics with a value Excel has not been told of
  dropped           \* history: topics whose connect or final push got lost

onceVars == <<policy, grid, entry, expired, topics, ref, shown, recalc, connects, run,
              worker, updated, dropped>>

registry == <<entry, expired>>
excel == <<ref, shown, recalc>>
config == <<policy, grid>>

Idle == [topic |-> None, at |-> "idle", what |-> "result"]

OnceInit ==
  /\ policy \in {"once", "memoize_ttl", "memoize"}
  /\ grid \in BOOLEAN
  /\ entry = "none" /\ expired = FALSE
  /\ topics = {}
  /\ ref = [c \in FormulaCells |-> None]
  /\ shown = [c \in FormulaCells |-> "blank"]
  /\ recalc = {}
  /\ connects = [t \in Topics |-> 0]
  /\ run = [r \in Runs |-> Idle]
  /\ worker = Idle
  /\ updated = {} /\ dropped = {}

(* --- the XLL, on Excel's calculation thread ----------------------------- *)

Live == topics # {}

\* TryGetResult and TryGet: an entry without a live topic is gone when it is an error
\* or has expired.
Hit == entry # "none" /\ (Live \/ (entry = "result" /\ ~(policy = "memoize_ttl" /\ expired)))

ReadHit(c) ==
  /\ Hit
  /\ shown' = [shown EXCEPT ![c] = entry]
  /\ ref' = [ref EXCEPT ![c] = None]
  /\ UNCHANGED <<registry, topics, connects, dropped>>

\* RtdServer::ConnectData.
ConnectData(t, n) ==
  /\ topics' = topics \union {t}
  /\ connects' = [connects EXCEPT ![t] = @ + n]
  /\ dropped' = IF n = 0 THEN dropped \union {t} ELSE dropped \ {t}

\* xlfRtd: a cell keeps its topic, shares one that is connected, or gets a new one.
ReadMiss(c) ==
  /\ ~Hit
  /\ entry' = "none" /\ expired' = FALSE
  /\ shown' = [shown EXCEPT ![c] = "loading"]
  /\ \E t \in IF ref[c] # None THEN {ref[c]} ELSE Topics :
       /\ ref' = [ref EXCEPT ![c] = t]
       /\ IF t \in topics THEN UNCHANGED <<topics, connects, dropped>>
          ELSE connects[t] = 0 /\ \E n \in 0 .. 2 : ConnectData(t, n)

Wrapper(c) ==
  /\ shown[c] # "blank" \/ c \in recalc
  /\ ReadHit(c) \/ ReadMiss(c)
  /\ recalc' = recalc \ {c}
  /\ UNCHANGED <<config, run, worker, updated>>

EnterFormula(c) ==
  /\ shown[c] = "blank"
  /\ recalc' = recalc \union {c}
  /\ UNCHANGED <<config, registry, topics, ref, shown, connects, run, worker, updated, dropped>>

DeleteFormula(c) ==
  /\ shown[c] # "blank"
  /\ shown' = [shown EXCEPT ![c] = "blank"]
  /\ ref' = [ref EXCEPT ![c] = None]
  /\ recalc' = recalc \ {c}
  /\ UNCHANGED <<config, registry, topics, connects, run, worker, updated, dropped>>

\* Excel disconnects a topic that no cell refers to.
DisconnectData(t) ==
  /\ t \in topics /\ \A c \in FormulaCells : ref[c] # t
  /\ topics' = topics \ {t}
  /\ updated' = updated \ {t}
  /\ UNCHANGED <<config, registry, excel, connects, run, worker, dropped>>

\* Mutant: an entry is dropped although a connected topic may still ask for it.
ClearNonMemoizedLive ==
  /\ entry # "none"
  /\ entry = "error" \/ policy = "once" \/ (policy = "memoize_ttl" /\ expired)
  /\ entry' = "none" /\ expired' = FALSE
  /\ UNCHANGED <<config, topics, excel, connects, run, worker, updated, dropped>>

\* CalculationEnded: ClearNonMemoized.
ClearNonMemoized ==
  /\ entry # "none" /\ ~Live
  /\ entry = "error" \/ policy = "once" \/ (policy = "memoize_ttl" /\ expired)
  /\ entry' = "none" /\ expired' = FALSE
  /\ UNCHANGED <<config, topics, excel, connects, run, worker, updated, dropped>>

Expire ==
  /\ policy = "memoize_ttl" /\ entry # "none" /\ ~expired
  /\ expired' = TRUE
  /\ UNCHANGED <<config, entry, topics, excel, connects, run, worker, updated, dropped>>

\* RefreshData hands Excel the value of t.
Refresh(t) ==
  /\ t \in updated
  /\ updated' = updated \ {t}
  /\ recalc' = recalc \union {c \in FormulaCells : ref[c] = t}
  /\ UNCHANGED <<config, registry, topics, ref, shown, connects, run, worker, dropped>>

(* --- the server --------------------------------------------------------- *)

HandleRtdConnect(t, r) ==
  /\ connects[t] > 0 /\ run[r] = Idle
  /\ connects' = [connects EXCEPT ![t] = @ - 1]
  /\ run' = [run EXCEPT ![r] = [topic |-> t, at |-> "handler", what |-> "result"]]
  /\ UNCHANGED <<config, registry, topics, excel, worker, updated, dropped>>

\* The handler returns, fails (a cancelled context and an argument that is no longer
\* cached are failures too), or panics: then nothing is pushed.
Handler(r) ==
  /\ run[r].at = "handler"
  /\ \/ /\ run' = [run EXCEPT ![r].at = IF grid THEN "grid" ELSE "push"]
        /\ UNCHANGED dropped
     \/ /\ run' = [run EXCEPT ![r] = [@ EXCEPT !.at = "push", !.what = "error"]]
        /\ UNCHANGED dropped
     \/ /\ run' = [run EXCEPT ![r] = Idle]
        /\ dropped' = dropped \union {run[r].topic}
  /\ UNCHANGED <<config, registry, topics, excel, connects, worker, updated>>

Store(what) == entry' = what /\ expired' = FALSE

\* SendOnceGrid returns when the worker thread has stored the grid, or with an error,
\* whether it was stored or not.
SendOnceGrid(r) ==
  /\ run[r].at = "grid" /\ worker = Idle
  /\ \/ Store("result") /\ run' = [run EXCEPT ![r].at = "push"]
     \/ /\ Store("result") \/ UNCHANGED registry
        /\ run' = [run EXCEPT ![r] = [@ EXCEPT !.at = "push", !.what = "error"]]
  /\ UNCHANGED <<config, topics, excel, connects, worker, updated, dropped>>

\* SendUpdate and SendErrorUpdate: the worker thread takes the message and looks up the
\* topic's key, or the message is lost.
Push(r) ==
  /\ run[r].at = "push" /\ worker = Idle
  /\ run' = [run EXCEPT ![r] = Idle]
  /\ \/ /\ worker' = [run[r] EXCEPT !.at = IF run[r].topic \in topics THEN "keyed" ELSE "unknown"]
        /\ UNCHANGED dropped
     \/ /\ dropped' = dropped \union {run[r].topic}
        /\ UNCHANGED worker
  /\ UNCHANGED <<config, registry, topics, excel, connects, updated>>

\* The rest of ProcessRtdUpdate: a grid's readiness token is not a value.
ProcessRtdUpdate ==
  /\ worker # Idle
  /\ IF worker.at = "keyed" /\ (worker.what = "error" \/ ~grid) THEN Store(worker.what)
     ELSE UNCHANGED registry
  /\ updated' = updated \union ({worker.topic} \intersect topics)
  /\ worker' = Idle
  /\ UNCHANGED <<config, topics, excel, connects, run, dropped>>

OnceNext ==
  \/ \E c \in FormulaCells : Wrapper(c) \/ EnterFormula(c) \/ DeleteFormula(c)
  \/ \E t \in Topics : DisconnectData(t) \/ Refresh(t)
  \/ \E t \in Topics, r \in Runs : HandleRtdConnect(t, r)
  \/ \E r \in Runs : Handler(r) \/ SendOnceGrid(r) \/ Push(r)
  \/ ProcessRtdUpdate \/ ClearNonMemoized \/ Expire

OnceSpec == OnceInit /\ [][OnceNext]_onceVars

(* --- properties --------------------------------------------------------- *)

UnderWay(t) ==
  \/ connects[t] > 0 \/ worker.topic = t \/ t \in updated
  \/ \E r \in Runs : run[r].topic = t

\* No cell is left at its loading placeholder.  A cell that shows it refers to a
\* connected topic, and a connect, a run, a push or a refresh that will recalculate it
\* is still under way, unless the transport lost the connect or the push or the handler
\* panicked: the registry holds the value whenever the recalculation asks for it.
NoCellStuck ==
  \A c \in FormulaCells : shown[c] = "loading" =>
    /\ ref[c] \in topics
    /\ c \in recalc \/ UnderWay(ref[c]) \/ ref[c] \in dropped
=============================================================================
