---------------------------- MODULE MCToolchain ----------------------------
(***************************************************************************)
(* ProjectConfig, CodeGen and FlatcCache in one run: the three stages of   *)
(* `xll-gen generate`.  They share no variable, so each is stepped from the*)
(* initial states of the two others.                                       *)
(*                                                                         *)
(* CodeGen gets two releases of xll-gen, one of which renamed a source     *)
(* file; FlatcCache two callers in one process and one in another.         *)
(***************************************************************************)
EXTENDS MCProjectConfig, CodeGen, FlatcCache

CONSTANTS first, second, foreign

MCAssetsOf ==
  [old |-> {<<"src", "xll_worker.cpp">>, <<"include", "xll_log.h">>},
   new |-> {<<"src", "xll_thread.cpp">>, <<"include", "xll_log.h">>,
            <<"tools", "compressor.cpp">>}]

MCCallers == {first, second, foreign}
MCProcessOf == [c \in MCCallers |-> IF c = foreign THEN 2 ELSE 1]

\* Where each component waits while another one is stepped.
Waiting == cfg = Project /\ stage = "parsed" /\ warned = FALSE
TreeWaiting == CodeGenInit /\ version = "old" /\ functions = {} /\ ribbon = FALSE
CacheWaiting == FlatcInit /\ system = "none" /\ archive = {}

ToolchainInit ==
  \/ Init /\ TreeWaiting /\ CacheWaiting
  \/ Waiting /\ CodeGenInit /\ CacheWaiting
  \/ Waiting /\ TreeWaiting /\ FlatcInit

ToolchainNext ==
  \/ TreeWaiting /\ CacheWaiting /\ Next /\ UNCHANGED <<codeGenVars, flatcVars>>
  \/ Waiting /\ CacheWaiting /\ CodeGenNext /\ UNCHANGED <<vars, flatcVars>>
  \/ Waiting /\ TreeWaiting /\ FlatcNext /\ UNCHANGED <<vars, codeGenVars>>

ToolchainSpec == ToolchainInit /\ [][ToolchainNext]_<<vars, codeGenVars, flatcVars>>
=============================================================================
