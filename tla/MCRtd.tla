------------------------------- MODULE MCRtd -------------------------------
(***************************************************************************)
(* RtdTopics and RtdUpdates in one run, with the two caches that formulas  *)
(* go through, RefCache and ResultCache.                                   *)
(*                                                                         *)
(* The modules share no variable, so a state of all is a tuple and every   *)
(* property below is about one part of it: nothing is lost when only one   *)
(* of them leaves its initial states.                                      *)
(*                                                                         *)
(* RtdTopics gets one topic, whose id is reused with the same or the other *)
(* key; RtdUpdates two topics, which share the window message; RefCache two*)
(* calculation threads that need one token; ResultCache two cells that     *)
(* refer to one range.                                                     *)
(***************************************************************************)
EXTENDS RtdTopics, RtdUpdates, RefCache, ResultCache

\* Where ResultCache waits while another one is stepped: one of its initial states.
ResultWaiting ==
  ~ iterative /\ content = [r \in Ranges |-> CHOOSE x \in Contents : TRUE] /\ ResultCacheInit

RtdInit == Init /\ UpdatesInit /\ RefCacheInit /\ ResultCacheInit

RtdNext ==
  \/ UpdatesInit /\ RefCacheInit /\ ResultWaiting
     /\ Next /\ UNCHANGED <<updateVars, refCacheVars, resultCacheVars>>
  \/ Init /\ RefCacheInit /\ ResultWaiting
     /\ UpdatesNext /\ UNCHANGED <<vars, refCacheVars, resultCacheVars>>
  \/ Init /\ UpdatesInit /\ ResultWaiting
     /\ RefCacheNext /\ UNCHANGED <<vars, updateVars, resultCacheVars>>
  \/ Init /\ UpdatesInit /\ RefCacheInit
     /\ ResultCacheNext /\ UNCHANGED <<vars, updateVars, refCacheVars>>

RtdSpec ==
  /\ RtdInit
  /\ [][RtdNext]_<<vars, updateVars, refCacheVars, resultCacheVars>>
  /\ UpdatesFairness
=============================================================================
