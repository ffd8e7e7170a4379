------------------------------- MODULE CodeGen -------------------------------
(***************************************************************************)
(* The generated tree across runs of `xll-gen generate` and `init`: the    *)
(* files a run writes in its order, what it prunes and what it leaves, with*)
(* the user editing xll.yaml or installing another xll-gen between runs,   *)
(* and any step failing or the process being killed inside it.             *)
(*                                                                         *)
(* A file is <<directory, name>>; its content is what it was rendered from.*)
(* torn marks a file whose write did not finish (os.WriteFile and flatc    *)
(* truncate the file they replace), local a Go or C++ file that still      *)
(* includes flatc's local protocol package.  init is `init --force`, and   *)
(* the dependency it adds with --dev is left out.                          *)
(***************************************************************************)
EXTENDS Naturals, Sequences

CONSTANTS
  Functions,        \* names that xll.yaml may list
  Versions,
  AssetsOf,         \* version -> the embedded files, as <<directory, name>>
  Scaffold,         \* the functions in the xll.yaml that init writes
  MaxRuns

\* Every asset is written below one of the three C++ directories.
ASSUME CodeGenAssumption ==
  /\ Scaffold \subseteq Functions
  /\ \A v \in Versions : AssetsOf[v] \subseteq {"src", "include", "tools"} \X STRING

VARIABLES
  version, functions, ribbon,   \* the installed xll-gen and the xll.yaml on disk
  tree,             \* the files that exist, with their content
  pins,             \* the xll-gen version whose pin go.mod has of each dependency
  behind,           \* the run printed that a dependency was not updated
  step,             \* the step the run is at, 0 when none runs
  runs,
  outcome           \* how the last run ended; "edited" when its inputs changed since

codeGenVars == <<version, functions, ribbon, tree, pins, behind, step, runs, outcome>>

Dependencies == {"shm", "types"}

Content(isLocal) ==
  [version |-> version, functions |-> functions, ribbon |-> ribbon,
   torn |-> FALSE, local |-> isLocal]

Torn == [Content(FALSE) EXCEPT !.torn = TRUE]

IpcFiles == {<<"ipc", f>> : f \in functions}
RibbonHeaders ==
  IF ribbon THEN {<<"include", "ribbon_xml.h">>, <<"include", "ribbon_images.h">>} ELSE {}

Written(t, files, content) ==
  [p \in DOMAIN t \union files |-> IF p \in files THEN content ELSE t[p]]

\* Mutant: the embedded files are written over the old ones.
WithoutNothing(t, dir) == t

Without(t, dir) == [p \in {q \in DOMAIN t : q[1] # dir} |-> t[p]]

Step(kind, dir, files, isLocal) ==
  [kind |-> kind, dir |-> dir, files |-> files, local |-> isLocal]

Prune(dir) == Step("prune", dir, {}, FALSE)
Write(files) == Step("write", "", files, FALSE)
Flatc(files) == Step("write", "", files, TRUE)
Fix(dir) == Step("fix", dir, {}, FALSE)
GoGet(dependency) == Step("go get", dependency, {}, FALSE)

Document(name) == Write({<<"package", name>>})

Steps ==
  << Prune("src"), Prune("include"), Prune("tools"),
     Write(AssetsOf[version]),
     Document("protocol.fbs"), Document("schema.fbs"),
     Flatc(IpcFiles), Fix("ipc"),
     Flatc({<<"include", "schema_generated.h">>}), Fix("include"),
     Document("interface.go"), Document("server.go"), Document("xll_main.cpp"),
     Write(RibbonHeaders),
     Document("CMakeLists.txt"), Document("Taskfile.yml"),
     GoGet("shm"), GoGet("types") >>

LocalIn(t, dir) == {p \in DOMAIN t : p[1] = dir /\ t[p].local}

Fixed(t, files) ==
  [p \in DOMAIN t |-> IF p \in files THEN [t[p] EXCEPT !.local = FALSE] ELSE t[p]]

After(t, s) ==
  CASE s.kind = "prune" -> Without(t, s.dir)
    [] s.kind = "write" -> Written(t, s.files, Content(s.local))
    [] s.kind = "fix" -> Fixed(t, LocalIn(t, s.dir))
    [] s.kind = "go get" -> t

\* A step that stops half-way has done nothing, has removed or rewritten some of its
\* files, or has left the one it was writing torn.
PartlyPruned(t, dir) ==
  {[p \in DOMAIN t \ gone |-> t[p]] : gone \in SUBSET {q \in DOMAIN t : q[1] = dir}}

PartlyWritten(t, files, content) ==
  {Written(Written(t, done, content), last, Torn) :
     done \in SUBSET files, last \in {{}} \union {{p} : p \in files}}

PartlyFixed(t, files) ==
  {Written(Fixed(t, done), last, Torn) :
     done \in SUBSET files, last \in {{}} \union {{p} : p \in files}}

Interrupted(t, s) ==
  CASE s.kind = "prune" -> PartlyPruned(t, s.dir)
    [] s.kind = "write" -> PartlyWritten(t, s.files, Content(s.local))
    [] s.kind = "fix" -> PartlyFixed(t, LocalIn(t, s.dir))
    [] s.kind = "go get" -> {t}

CodeGenInit ==
  /\ version \in Versions
  /\ functions \in SUBSET Functions
  /\ ribbon \in BOOLEAN
  /\ tree = [p \in {} |-> 0]
  /\ pins = [d \in Dependencies |-> "none"]
  /\ behind = FALSE
  /\ step = 0
  /\ runs = 0
  /\ outcome = "edited"

runGenerate ==
  /\ step = 0 /\ runs < MaxRuns
  /\ step' = 1
  /\ runs' = runs + 1
  /\ behind' = FALSE
  /\ outcome' = "running"
  /\ UNCHANGED <<version, functions, ribbon, tree, pins>>

\* init --force replaces the project directory, writes a fresh xll.yaml and go.mod,
\* and generates.
runInit ==
  /\ step = 0 /\ runs < MaxRuns
  /\ functions' = Scaffold
  /\ ribbon' = FALSE
  /\ tree' = [p \in {} |-> 0]
  /\ pins' = [d \in Dependencies |-> "none"]
  /\ step' = 1
  /\ runs' = runs + 1
  /\ behind' = FALSE
  /\ outcome' = "running"
  /\ UNCHANGED version

Advance ==
  /\ step' = IF step = Len(Steps) THEN 0 ELSE step + 1
  /\ outcome' = IF step = Len(Steps) THEN "done" ELSE outcome

Generate ==
  /\ step > 0 /\ Steps[step].kind # "go get"
  /\ tree' = After(tree, Steps[step])
  /\ Advance
  /\ UNCHANGED <<version, functions, ribbon, pins, behind, runs>>

\* A go command that fails is a warning, and the run goes on.  Each `go get` is taken
\* to move its own pin only.  `go mod tidy`, which moves none, and the `go get` of
\* xll-gen itself in development mode are left out.
updateDependencies ==
  /\ step > 0 /\ Steps[step].kind = "go get"
  /\ \/ /\ pins' = [pins EXCEPT ![Steps[step].dir] = version]
        /\ UNCHANGED behind
     \/ /\ behind' = TRUE
        /\ UNCHANGED pins
  /\ Advance
  /\ UNCHANGED <<version, functions, ribbon, tree, runs>>

Stop ==
  /\ step > 0
  /\ tree' \in Interrupted(tree, Steps[step])
  /\ step' = 0
  /\ outcome' = "failed"
  /\ UNCHANGED <<version, functions, ribbon, pins, behind, runs>>

Edit ==
  /\ step = 0 /\ runs < MaxRuns
  /\ \/ version' \in Versions /\ UNCHANGED <<functions, ribbon>>
     \/ functions' \in SUBSET Functions /\ UNCHANGED <<version, ribbon>>
     \/ ribbon' = ~ribbon /\ UNCHANGED <<version, functions>>
  /\ outcome' = "edited"
  /\ UNCHANGED <<tree, pins, behind, step, runs>>

CodeGenNext == runGenerate \/ runInit \/ Generate \/ updateDependencies \/ Stop \/ Edit

CodeGenSpec == CodeGenInit /\ [][CodeGenNext]_codeGenVars

(* --- properties --------------------------------------------------------- *)

Documents ==
  {"protocol.fbs", "schema.fbs", "interface.go", "server.go", "xll_main.cpp",
   "CMakeLists.txt", "Taskfile.yml"}

CppFiles == AssetsOf[version] \union RibbonHeaders \union {<<"include", "schema_generated.h">>}
Products == CppFiles \union IpcFiles \union {<<"package", d>> : d \in Documents}

\* After a run that ended well, whatever the earlier ones left: the three C++
\* directories hold exactly the files of this xll-gen and this xll.yaml, so the build,
\* which compiles src/*.cpp, sees no file of a previous version; every file the run is
\* to produce is whole and rendered from the same inputs; no Go file of the ipc
\* package refers to flatc's local protocol package; and go.mod has the dependency
\* versions this xll-gen pins, unless the run printed that it could not get one.
TreeIsCurrent ==
  outcome = "done" =>
    /\ {p \in DOMAIN tree : p[1] \in {"src", "include", "tools"}} = CppFiles
    /\ \A p \in Products : p \in DOMAIN tree /\ tree[p] = Content(FALSE)
    /\ \A p \in DOMAIN tree : p[1] = "ipc" => ~tree[p].local
    /\ behind \/ \A d \in Dependencies : pins[d] = version
=============================================================================
