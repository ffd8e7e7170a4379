---------------------------- MODULE MCAsyncFlush ----------------------------
(***************************************************************************)
(* Batches of four results of every mix of sizes: some fit together, some  *)
(* only alone, some not at all.                                            *)
(*                                                                         *)
(* The liveness of CalcCycle is checked in the same run, on an instance    *)
(* smaller than that of its safety run: the two share no variable, and     *)
(* the flush runs first, before anything is scheduled.                     *)
(***************************************************************************)
EXTENDS AsyncFlush, CalcCycle

\* CalcCycle is stepped after one of the flushes, which has returned.
Returned ==
  /\ work = <<>> /\ limit = 3
  /\ \A h \in BatchHandles : size[h] = 1 /\ outcome[h] = <<"value">>

DrainInit == FlushInit /\ Init

FlushStep == Init /\ FlushNext /\ UNCHANGED vars

\* No step of CalcCycle is taken while the flush runs, so that its fairness is that of
\* LiveSpec.
DrainSpec ==
  /\ DrainInit
  /\ [][FlushStep \/ (Returned /\ Next /\ UNCHANGED asyncFlushVars)]_<<asyncFlushVars, vars>>
  /\ WF_<<asyncFlushVars, vars>>(FlushStep)
  /\ WF_vars(EventEnds)
  /\ SF_vars(Runner)
  /\ WF_vars(Handling)
=============================================================================
