---------------------------- MODULE ResultCache -----------------------------
(***************************************************************************)
(* The XLL's cache of function results, CacheManager.                      *)
(*                                                                         *)
(* A function with caching hashes its arguments to a key and looks for a   *)
(* result under it before it calls the server.  The digest of a range is   *)
(* computed from its cells (xlCoerce), once per calculation cycle: the memo*)
(* is emptied when Excel's calculation ends.  Iterative calculation changes*)
(* cells within a cycle, so a gate, refreshed when a calculation ends,     *)
(* bypasses the memo.  When Excel refuses the cells, because they are not  *)
(* calculated yet, the digest is that of the reference alone.              *)
(*                                                                         *)
(* Excel is external: it calls a function again whose arguments were not   *)
(* calculated when it asked for them, and iterates on one thread.          *)
(***************************************************************************)
EXTENDS Naturals, NoValue

CONSTANTS
  Cells,      \* cells with a cached function
  Ranges,     \* what they refer to
  Contents,   \* the cells of a range, by content
  Identity    \* digest of a reference whose cells Excel refused

ASSUME DigestsAssumption == None # Identity /\ {None, Identity} \cap Contents = {}

Digests == Contents \cup {Identity}

VARIABLES
  arg,          \* the range each function cell refers to
  content,      \* of each range: its cells
  uncalced,     \* ranges Excel has not calculated yet in this cycle
  calculating,
  iterative,    \* Excel's setting
  gate,         \* iterativeCalc_
  refPathUsed,  \* refPathUsed_
  memo,         \* refCache_: range -> digest
  cache,        \* cache_: key -> result, by the content it is the result of
  call,         \* of each function cell: its call, while Excel evaluates it
  shown,        \* of each function cell: its value, likewise by content
  lagged        \* history: iterative calculation ran before the gate knew of it

excelVars == <<arg, content, uncalced, calculating, iterative>>
resultCacheVars == <<excelVars, gate, refPathUsed, memo, cache, call, shown, lagged>>

Done == [at |-> "done", digest |-> None, refused |-> FALSE]
Todo == [at |-> "todo", digest |-> None, refused |-> FALSE]

ResultCacheInit ==
  /\ arg \in [Cells -> Ranges]
  /\ content \in [Ranges -> Contents]
  /\ uncalced = {}
  /\ calculating = FALSE
  /\ iterative \in BOOLEAN
  /\ gate \in {iterative, FALSE}     \* xlAutoOpen asks, and may get no answer
  /\ refPathUsed = FALSE
  /\ memo = [r \in Ranges |-> None]
  /\ cache = [k \in Ranges \X Digests |-> None]
  /\ call = [c \in Cells |-> Done]
  /\ shown = [c \in Cells |-> None]
  /\ lagged = FALSE

(* --- Excel -------------------------------------------------------------- *)

\* Something changed; formula ranges are not calculated yet.
Recalculate ==
  /\ ~calculating
  /\ calculating' = TRUE
  /\ content' \in [Ranges -> Contents]
  /\ uncalced' \in SUBSET Ranges
  /\ call' = [c \in Cells |-> Todo]
  /\ UNCHANGED <<arg, iterative, gate, refPathUsed, memo, cache, shown, lagged>>

CalculateRange(r) ==
  /\ r \in uncalced
  /\ uncalced' = uncalced \ {r}
  /\ UNCHANGED <<arg, content, calculating, iterative, gate, refPathUsed, memo, cache,
                 call, shown, lagged>>

AllDone == uncalced = {} /\ \A c \in Cells : call[c].at = "done"

\* One more iteration of a circular reference, in the same cycle.
NextIteration ==
  /\ calculating /\ iterative /\ AllDone
  /\ content' \in [Ranges -> Contents]
  /\ call' = [c \in Cells |-> Todo]
  /\ UNCHANGED <<arg, uncalced, calculating, iterative, gate, refPathUsed, memo, cache,
                 shown, lagged>>

SetIterative ==
  /\ ~calculating
  /\ iterative' = ~iterative
  /\ UNCHANGED <<arg, content, uncalced, calculating, gate, refPathUsed, memo, cache,
                 call, shown, lagged>>

(* --- a cached function, on a calculation thread ------------------------- *)

\* GetOrComputeRefHash looks the range up in the memo.
LookUpMemo(c) ==
  /\ call[c].at = "todo"
  /\ refPathUsed' = TRUE
  /\ call' = [call EXCEPT ![c] =
       IF ~gate /\ memo[arg[c]] # None
       THEN [@ EXCEPT !.at = "get", !.digest = memo[arg[c]]]
       ELSE [@ EXCEPT !.at = "coerce"]]
  /\ lagged' = (lagged \/ (iterative /\ ~gate))
  /\ UNCHANGED <<excelVars, gate, memo, cache, shown>>

\* computeFn, with no lock held: the content, or the reference when Excel refuses.
HashContent(c) ==
  /\ call[c].at = "coerce"
  /\ LET refuses == arg[c] \in uncalced IN
     call' = [call EXCEPT ![c] =
       [at |-> "remember", digest |-> IF refuses THEN Identity ELSE content[arg[c]],
        refused |-> refuses]]
  /\ UNCHANGED <<excelVars, gate, refPathUsed, memo, cache, shown, lagged>>

Remember(c) ==
  /\ call[c].at = "remember"
  /\ memo' = IF gate THEN memo ELSE [memo EXCEPT ![arg[c]] = call[c].digest]
  /\ call' = [call EXCEPT ![c].at = "get"]
  /\ UNCHANGED <<excelVars, gate, refPathUsed, cache, shown, lagged>>

Key(c) == <<arg[c], call[c].digest>>

\* Excel takes the value, unless it refused cells to this call: then it calls again.
Return(c, value) ==
  IF call[c].refused
  THEN call' = [call EXCEPT ![c] = Todo] /\ UNCHANGED shown
  ELSE /\ call' = [call EXCEPT ![c].at = "done"]
       /\ shown' = [shown EXCEPT ![c] = value]

Hit(c) ==
  /\ call[c].at = "get"
  /\ cache[Key(c)] # None
  /\ Return(c, cache[Key(c)])
  /\ UNCHANGED <<excelVars, gate, refPathUsed, memo, cache, lagged>>

Miss(c) ==
  /\ call[c].at = "get"
  /\ cache[Key(c)] = None
  /\ call' = [call EXCEPT ![c].at = "convert"]
  /\ UNCHANGED <<excelVars, gate, refPathUsed, memo, cache, shown, lagged>>

\* ConvertGridArg asks Excel for the cells again; the wrapper returns #VALUE! when it
\* refuses.
ConvertRefused(c) ==
  /\ call[c].at = "convert"
  /\ arg[c] \in uncalced
  /\ call' = [call EXCEPT ![c] = Todo]
  /\ UNCHANGED <<excelVars, gate, refPathUsed, memo, cache, shown, lagged>>

\* The server computes the result, and the wrapper stores it under the key.
CallServer(c) ==
  /\ call[c].at = "convert"
  /\ arg[c] \notin uncalced
  /\ cache' = [cache EXCEPT ![Key(c)] = content[arg[c]]]
  /\ Return(c, content[arg[c]])
  /\ UNCHANGED <<excelVars, gate, refPathUsed, memo, lagged>>

(* --- calculation end and expiry ----------------------------------------- *)

\* Mutant: the memo is left as it is.
CalculationEndedKeepsMemo ==
  /\ calculating /\ AllDone
  /\ calculating' = FALSE
  /\ gate' \in IF refPathUsed THEN {gate, iterative} ELSE {gate}
  /\ refPathUsed' = FALSE
  /\ UNCHANGED <<arg, content, uncalced, iterative, memo, cache, call, shown, lagged>>

\* HandleCalculationEnded: RefreshIterativeCalcMode, which may get no answer, and
\* ClearRefCache.
CalculationEndedForgets ==
  /\ calculating /\ AllDone
  /\ calculating' = FALSE
  /\ gate' \in IF refPathUsed THEN {gate, iterative} ELSE {gate}
  /\ refPathUsed' = FALSE
  /\ memo' = [r \in Ranges |-> None]
  /\ UNCHANGED <<arg, content, uncalced, iterative, cache, call, shown, lagged>>

\* The entry's time to live is over.
Expire(k) ==
  /\ cache[k] # None
  /\ cache' = [cache EXCEPT ![k] = None]
  /\ UNCHANGED <<excelVars, gate, refPathUsed, memo, call, shown, lagged>>

ResultCacheNext ==
  \/ Recalculate
  \/ NextIteration
  \/ SetIterative
  \/ CalculationEndedForgets
  \/ \E r \in Ranges : CalculateRange(r)
  \/ \E c \in Cells :
       \/ LookUpMemo(c)
       \/ HashContent(c)
       \/ Remember(c)
       \/ Hit(c)
       \/ Miss(c)
       \/ ConvertRefused(c)
       \/ CallServer(c)
  \/ \E k \in DOMAIN cache : Expire(k)

ResultCacheSpec == ResultCacheInit /\ [][ResultCacheNext]_resultCacheVars

(* --- properties --------------------------------------------------------- *)

ResultCacheTypeOK ==
  /\ arg \in [Cells -> Ranges]
  /\ content \in [Ranges -> Contents]
  /\ uncalced \subseteq Ranges
  /\ {calculating, iterative, gate, refPathUsed, lagged} \subseteq BOOLEAN
  /\ memo \in [Ranges -> Digests \cup {None}]
  /\ cache \in [Ranges \X Digests -> Contents \cup {None}]
  /\ call \in [Cells -> [at : {"todo", "coerce", "remember", "get", "convert", "done"},
                         digest : Digests \cup {None}, refused : BOOLEAN]]
  /\ shown \in [Cells -> Contents \cup {None}]

\* When a calculation is over, every cached function shows the result for what its
\* range holds: whichever calculation thread filled the memo or the cache, however often
\* Excel iterated or called again, and whatever expired meanwhile.  Two cases are known
\* to the code or follow from it, and are excepted: iterative calculation that was
\* switched on and ran before a calculation end refreshed the gate, and a digest of the
\* reference alone, which the memo keeps for the rest of the cycle.
ServedIsCurrent ==
  ~calculating /\ ~lagged =>
    \A c \in Cells :
      shown[c] \in {None, content[arg[c]]} \/ call[c].digest = Identity
=============================================================================
