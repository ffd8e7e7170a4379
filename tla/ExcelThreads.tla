---------------------------- MODULE ExcelThreads ----------------------------
(***************************************************************************)
(* Who calls the server from inside Excel.                                 *)
(***************************************************************************)

CONSTANTS
  Threads,     \* Excel's calculation threads
  Sta,         \* the thread of the calculation events
  Nobody       \* whom an abandoned call would answer

ASSUME CallersDiffer == Sta \notin Threads /\ Nobody \notin Threads \cup {Sta}
=============================================================================
