----------------------------- MODULE FlatcCache -----------------------------
(***************************************************************************)
(* EnsureFlatc: the callers of several xll-gen processes share one cached  *)
(* flatc.  A caller that finds none of the pinned version downloads the    *)
(* release archive and publishes the binary with a rename; callers of one  *)
(* process take turns (flatcMu), processes do not, and any process may be  *)
(* killed between two steps.                                               *)
(*                                                                         *)
(* A file of the cache is "absent", "torn" (being written), "plain" (whole,*)
(* but not executable) or "exe".  Requests to the release server are one   *)
(* step that succeeds or fails.                                            *)
(***************************************************************************)
EXTENDS Naturals, FiniteSets

CONSTANTS
  Callers,
  Processes,
  ProcessOf         \* the process a caller runs in

VARIABLES
  system,           \* flatc in PATH: "none", "required" or "other" version
  archive,          \* basenames of the flatc entries of the release archive
  cached,           \* the files of binDir, by name
  part,             \* the caller's *.part file
  entries,          \* archive entries the caller still has to look at
  extracted,        \* an entry was extracted
  pc,               \* where the caller is in EnsureFlatc
  result            \* what its last call returned

flatcVars == <<system, archive, cached, part, entries, extracted, pc, result>>

Platform == "flatc"       \* platform.ExeName("flatc")
Foreign == "flatc.exe"    \* the name on another platform

Return(c, r) ==
  /\ pc' = [pc EXCEPT ![c] = "out"]
  /\ result' = [result EXCEPT ![c] = r]

FlatcInit ==
  /\ system \in {"none", "required", "other"}
  /\ archive \in SUBSET {Platform, Foreign}
  /\ cached = [base \in {Platform, Foreign} |-> "absent"]
  /\ part = [c \in Callers |-> "absent"]
  /\ entries = [c \in Callers |-> {}]
  /\ extracted = [c \in Callers |-> FALSE]
  /\ pc = [c \in Callers |-> "out"]
  /\ result = [c \in Callers |-> "none"]

MutexFree(c) ==
  \A d \in Callers : ProcessOf[d] = ProcessOf[c] => pc[d] = "out"

\* The lookup in PATH and in the cache.
EnsureFlatc(c) ==
  /\ pc[c] = "out" /\ MutexFree(c)
  /\ \/ /\ system = "required"
        /\ Return(c, "system")
     \/ /\ system # "required" /\ cached[Platform] # "absent"
        /\ Return(c, "cache")
     \/ /\ system # "required" /\ cached[Platform] = "absent"
        /\ pc' = [pc EXCEPT ![c] = "download"]
        /\ UNCHANGED result
  /\ UNCHANGED <<system, archive, cached, part, entries, extracted>>

\* The release, the asset for this platform and the archive, or an error of any.
downloadFlatc(c) ==
  /\ pc[c] = "download"
  /\ \/ /\ pc' = [pc EXCEPT ![c] = "entry"]
        /\ entries' = [entries EXCEPT ![c] = archive]
        /\ extracted' = [extracted EXCEPT ![c] = FALSE]
        /\ UNCHANGED result
     \/ Return(c, "error") /\ UNCHANGED <<entries, extracted>>
  /\ UNCHANGED <<system, archive, cached, part>>

CreatePart(c, base) ==
  /\ pc[c] = "entry" /\ base \in entries[c]
  /\ part' = [part EXCEPT ![c] = "torn"]
  /\ pc' = [pc EXCEPT ![c] = base]
  /\ UNCHANGED <<system, archive, cached, entries, extracted, result>>

Extracting(c) == pc[c] \in {Platform, Foreign}

\* io.Copy, then os.Chmod; a failure of either removes the part.
Extract(c) ==
  /\ Extracting(c)
  /\ \/ /\ part[c] = "torn"
        /\ part' = [part EXCEPT ![c] = "plain"]
     \/ /\ part[c] = "plain"
        /\ part' = [part EXCEPT ![c] = "exe"]
  /\ UNCHANGED <<system, archive, cached, entries, extracted, pc, result>>

ExtractFails(c) ==
  /\ Extracting(c) /\ part[c] \in {"torn", "plain"}
  /\ part' = [part EXCEPT ![c] = "absent"]
  /\ Return(c, "error")
  /\ UNCHANGED <<system, archive, cached, entries, extracted>>

NextEntry(c) ==
  /\ entries' = [entries EXCEPT ![c] = @ \ {pc[c]}]
  /\ extracted' = [extracted EXCEPT ![c] = TRUE]
  /\ pc' = [pc EXCEPT ![c] = "entry"]
  /\ UNCHANGED result

\* Mutant: the mode is set after the rename.
PublishBeforeChmod(c) ==
  /\ Extracting(c) /\ part[c] = "plain"
  /\ cached' = [cached EXCEPT ![pc[c]] = part[c]]
  /\ part' = [part EXCEPT ![c] = "absent"]
  /\ NextEntry(c)
  /\ UNCHANGED <<system, archive>>

Publish(c) ==
  /\ Extracting(c) /\ part[c] = "exe"
  /\ cached' = [cached EXCEPT ![pc[c]] = part[c]]
  /\ part' = [part EXCEPT ![c] = "absent"]
  /\ NextEntry(c)
  /\ UNCHANGED <<system, archive>>

\* os.Rename failed: accepted when another process's file is in place.
PublishFails(c) ==
  /\ Extracting(c) /\ part[c] = "exe"
  /\ part' = [part EXCEPT ![c] = "absent"]
  /\ IF cached[pc[c]] # "absent" THEN NextEntry(c)
     ELSE Return(c, "error") /\ UNCHANGED <<entries, extracted>>
  /\ UNCHANGED <<system, archive, cached>>

\* The archive held a flatc binary, and it is the one of this platform.
Verify(c) ==
  /\ pc[c] = "entry" /\ entries[c] = {}
  /\ Return(c, IF extracted[c] /\ cached[Platform] # "absent" THEN "cache" ELSE "error")
  /\ UNCHANGED <<system, archive, cached, part, entries, extracted>>

\* A killed process leaves its part behind; the next call takes a fresh name.
Kill(q) ==
  /\ \E c \in Callers : ProcessOf[c] = q /\ pc[c] # "out"
  /\ pc' = [c \in Callers |-> IF ProcessOf[c] = q THEN "out" ELSE pc[c]]
  /\ result' = [c \in Callers |-> IF ProcessOf[c] = q THEN "none" ELSE result[c]]
  /\ UNCHANGED <<system, archive, cached, part, entries, extracted>>

FlatcNext ==
  \/ \E c \in Callers :
       \/ EnsureFlatc(c) \/ downloadFlatc(c)
       \/ \E base \in {Platform, Foreign} : CreatePart(c, base)
       \/ Extract(c) \/ ExtractFails(c) \/ Publish(c) \/ PublishFails(c) \/ Verify(c)
  \/ \E q \in Processes : Kill(q)

FlatcSpec == FlatcInit /\ [][FlatcNext]_flatcVars

(* --- properties --------------------------------------------------------- *)

\* What EnsureFlatc returns can be executed, from the moment it returns and for as
\* long as the caller keeps the path: it is a flatc of the pinned version, whole and
\* executable, whatever other processes extract, and whichever was killed meanwhile.
EnsuredRuns ==
  \A c \in Callers :
    /\ result[c] = "system" => system = "required"
    /\ result[c] = "cache" => cached[Platform] = "exe"
=============================================================================
