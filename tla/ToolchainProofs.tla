-------------------------- MODULE ToolchainProofs --------------------------
(***************************************************************************)
(* Proofs about the generator's three stages: ProjectConfig for any        *)
(* configurations, CodeGen for any releases of xll-gen and any number of   *)
(* runs, and FlatcCache for any number of callers and processes.           *)
(***************************************************************************)
EXTENDS ProjectConfig, CodeGen, FlatcCache, TLAPS

(* --- FlatcCache --------------------------------------------------------- *)

\* Nothing but a whole executable ever has a name in the cache.
FlatcTyped ==
  /\ system \in {"none", "required", "other"}
  /\ archive \subseteq {Platform, Foreign}
  /\ cached \in [{Platform, Foreign} -> {"absent", "exe"}]
  /\ part \in [Callers -> {"absent", "torn", "plain", "exe"}]
  /\ entries \in [Callers -> SUBSET {Platform, Foreign}]
  /\ pc \in [Callers -> {"out", "download", "entry", Platform, Foreign}]
  /\ result \in [Callers -> {"none", "system", "cache", "error"}]

FlatcInv == FlatcTyped /\ EnsuredRuns

\* A call that returns keeps the invariant when what it returns is in place.
LEMMA ReturnKeeps ==
  ASSUME FlatcInv, NEW c \in Callers, NEW r \in {"none", "system", "cache", "error"},
         Return(c, r), UNCHANGED <<system, archive, cached>>,
         part' \in [Callers -> {"absent", "torn", "plain", "exe"}],
         entries' \in [Callers -> SUBSET {Platform, Foreign}],
         r = "system" => system = "required",
         r = "cache" => cached[Platform] = "exe"
  PROVE  FlatcInv'
BY DEF FlatcInv, FlatcTyped, EnsuredRuns, Return

\* A caller that goes on to its next archive entry returns nothing yet.
LEMMA NextEntryKeeps ==
  ASSUME FlatcInv, NEW c \in Callers, NextEntry(c), UNCHANGED <<system, archive>>,
         part' \in [Callers -> {"absent", "torn", "plain", "exe"}],
         cached' \in [{Platform, Foreign} -> {"absent", "exe"}],
         cached[Platform] = "exe" => cached'[Platform] = "exe"
  PROVE  FlatcInv'
BY DEF FlatcInv, FlatcTyped, EnsuredRuns, NextEntry

LEMMA FlatcStep == FlatcInv /\ [FlatcNext]_flatcVars => FlatcInv'
<1> SUFFICES ASSUME FlatcInv, [FlatcNext]_flatcVars PROVE FlatcInv'
  OBVIOUS
<1> USE DEF FlatcInv
<1>1. ASSUME NEW c \in Callers, EnsureFlatc(c) PROVE FlatcInv'
  <2>1. CASE system = "required" /\ Return(c, "system")
    BY <1>1, <2>1, ReturnKeeps DEF EnsureFlatc, FlatcTyped
  <2>2. CASE cached[Platform] # "absent" /\ Return(c, "cache")
    BY <1>1, <2>2, ReturnKeeps DEF EnsureFlatc, FlatcTyped
  <2>3. CASE pc' = [pc EXCEPT ![c] = "download"] /\ UNCHANGED result
    BY <1>1, <2>3 DEF EnsureFlatc, FlatcTyped, EnsuredRuns
  <2> QED
    BY <1>1, <2>1, <2>2, <2>3 DEF EnsureFlatc
<1>2. ASSUME NEW c \in Callers, downloadFlatc(c) PROVE FlatcInv'
  <2>1. CASE Return(c, "error") /\ UNCHANGED <<entries, extracted>>
    BY <1>2, <2>1, ReturnKeeps DEF downloadFlatc, FlatcTyped
  <2>2. CASE pc' = [pc EXCEPT ![c] = "entry"] /\ entries' = [entries EXCEPT ![c] = archive]
              /\ UNCHANGED result
    BY <1>2, <2>2 DEF downloadFlatc, FlatcTyped, EnsuredRuns
  <2> QED
    BY <1>2, <2>1, <2>2 DEF downloadFlatc
<1>3. ASSUME NEW c \in Callers, NEW base \in {Platform, Foreign}, CreatePart(c, base)
      PROVE FlatcInv'
  BY <1>3 DEF CreatePart, FlatcTyped, EnsuredRuns
<1>4. ASSUME NEW c \in Callers, Extract(c) PROVE FlatcInv'
  BY <1>4 DEF Extract, FlatcTyped, EnsuredRuns
<1>5. ASSUME NEW c \in Callers, ExtractFails(c) PROVE FlatcInv'
  BY <1>5, ReturnKeeps DEF ExtractFails, FlatcTyped
<1>6. ASSUME NEW c \in Callers, Publish(c) PROVE FlatcInv'
  BY <1>6, NextEntryKeeps DEF Publish, Extracting, FlatcTyped
<1>7. ASSUME NEW c \in Callers, PublishFails(c) PROVE FlatcInv'
  <2>1. CASE NextEntry(c)
    BY <1>7, <2>1, NextEntryKeeps DEF PublishFails, FlatcTyped
  <2>2. CASE Return(c, "error") /\ UNCHANGED <<entries, extracted>>
    BY <1>7, <2>2, ReturnKeeps DEF PublishFails, FlatcTyped
  <2> QED
    BY <1>7, <2>1, <2>2 DEF PublishFails
<1>8. ASSUME NEW c \in Callers, Verify(c) PROVE FlatcInv'
  <2>1. cached[Platform] # "absent" => cached[Platform] = "exe"
    BY DEF FlatcTyped
  <2>2. CASE Return(c, "cache") /\ cached[Platform] # "absent"
    BY <1>8, <2>1, <2>2, ReturnKeeps DEF Verify, FlatcTyped
  <2>3. CASE Return(c, "error")
    BY <1>8, <2>3, ReturnKeeps DEF Verify, FlatcTyped
  <2> QED
    BY <1>8, <2>2, <2>3 DEF Verify
<1>9. ASSUME NEW q \in Processes, Kill(q) PROVE FlatcInv'
  BY <1>9 DEF Kill, FlatcTyped, EnsuredRuns
<1>10. CASE UNCHANGED flatcVars
  BY <1>10 DEF flatcVars, FlatcTyped, EnsuredRuns
<1> QED
  BY <1>1, <1>2, <1>3, <1>4, <1>5, <1>6, <1>7, <1>8, <1>9, <1>10 DEF FlatcNext

\* EnsureFlatc's promise for any callers and processes, killed at any step: a path it
\* returned leads to a whole, executable flatc of the pinned version.
THEOREM EnsuredFlatcRuns == FlatcSpec => []EnsuredRuns
<1>1. FlatcInit => FlatcInv
  BY DEF FlatcInit, FlatcInv, FlatcTyped, EnsuredRuns
<1>2. FlatcInv => EnsuredRuns
  BY DEF FlatcInv
<1> QED
  BY <1>1, <1>2, FlatcStep, PTL DEF FlatcSpec

(* --- CodeGen ------------------------------------------------------------ *)

\* The run under way or the last one, if it ended well, is past step k.
Past(k) == outcome = "done" \/ step > k

\* The files were rendered from the present inputs, but may refer to the local protocol.
Current(files) ==
  \A p \in files : p \in DOMAIN tree /\ tree[p] \in {Content(FALSE), Content(TRUE)}

CppOnly(dir) == \A p \in DOMAIN tree : p[1] = dir => p \in CppFiles
NoneLocal(dir) == \A p \in DOMAIN tree : p[1] = dir => ~tree[p].local

\* What a step leaves behind stays true until the run ends.
Effect(s) ==
  /\ Current(s.files)
  /\ s.kind = "prune" => CppOnly(s.dir)
  /\ s.kind = "fix" => NoneLocal(s.dir)
  /\ s.kind = "go get" => behind \/ pins[s.dir] = version

Contents == [version : Versions, functions : SUBSET Functions, ribbon : BOOLEAN,
             torn : BOOLEAN, local : BOOLEAN]

\* Only flatc's output refers to the local protocol, and it is in two directories.
TypedTree(t) ==
  /\ \A p \in DOMAIN t : t[p] \in Contents
  /\ \A p \in DOMAIN t : t[p].local => p[1] \in {"ipc", "include"}

CodeGenTyped ==
  /\ version \in Versions /\ functions \in SUBSET Functions /\ ribbon \in BOOLEAN
  /\ TypedTree(tree)
  /\ pins \in [Dependencies -> Versions \union {"none"}]
  /\ step \in 0 .. 18
  /\ step > 0 => outcome = "running"

CodeGenInv ==
  /\ CodeGenTyped
  /\ \A k \in 1 .. 18 : Past(k) => Effect(Steps[k])

StepKinds == {"prune", "write", "fix", "go get"}

\* A step in its place: pruning comes before any writing, a C++ file that is written is
\* one of CppFiles, and nothing of flatc's is written to a directory that is fixed.
InOrder(k, s) ==
  /\ s.kind \in StepKinds /\ s.local \in BOOLEAN
  /\ s.kind # "write" => s.files = {}
  /\ s.kind = "prune" => k < 4 /\ s.dir \in {"src", "include", "tools"}
  /\ s.kind = "fix" => k \in {8, 10}
  /\ s.kind = "go get" => s.dir \in Dependencies
  /\ k < 4 => s.files = {} /\ s.kind = "prune"
  /\ k = 8 => s.dir = "ipc"
  /\ s.local => k < 10
  /\ \A p \in s.files :
       /\ p[1] \in {"src", "include", "tools"} => p \in CppFiles
       /\ s.local => p[1] \in {"ipc", "include"}
       /\ s.local /\ k > 8 => p[1] # "ipc"

LEMMA StepsListed ==
  /\ Len(Steps) = 18
  /\ Steps[1] = Prune("src") /\ Steps[2] = Prune("include") /\ Steps[3] = Prune("tools")
  /\ Steps[4] = Write(AssetsOf[version])
  /\ Steps[5] = Document("protocol.fbs") /\ Steps[6] = Document("schema.fbs")
  /\ Steps[7] = Flatc(IpcFiles) /\ Steps[8] = Fix("ipc")
  /\ Steps[9] = Flatc({<<"include", "schema_generated.h">>}) /\ Steps[10] = Fix("include")
  /\ Steps[11] = Document("interface.go") /\ Steps[12] = Document("server.go")
  /\ Steps[13] = Document("xll_main.cpp") /\ Steps[14] = Write(RibbonHeaders)
  /\ Steps[15] = Document("CMakeLists.txt") /\ Steps[16] = Document("Taskfile.yml")
  /\ Steps[17] = GoGet("shm") /\ Steps[18] = GoGet("types")
BY DEF Steps

LEMMA StepsOrdered ==
  ASSUME CodeGenTyped, NEW k \in 1 .. 18
  PROVE  InOrder(k, Steps[k])
<1>1. k \in 1 .. 18
  BY StepsListed
<1>2. ASSUME k \in {1, 2, 3}
      PROVE  \A dir \in {"src", "include", "tools"} : InOrder(k, Prune(dir))
  BY <1>2 DEF InOrder, StepKinds, Prune, Step
<1>3. InOrder(4, Write(AssetsOf[version]))
  <2>1. \A p \in AssetsOf[version] : p \in CppFiles
    BY DEF CppFiles
  <2> QED
    BY <2>1 DEF InOrder, StepKinds, Write, Step
<1>4. ASSUME k \in {5, 6, 11, 12, 13, 15, 16} PROVE \A name : InOrder(k, Document(name))
  BY <1>4 DEF InOrder, StepKinds, Document, Write, Step
<1>5. InOrder(7, Flatc(IpcFiles))
  <2>1. \A p \in IpcFiles : p[1] = "ipc"
    BY DEF IpcFiles
  <2> QED
    BY <2>1 DEF InOrder, StepKinds, Flatc, Step
<1>6. InOrder(8, Fix("ipc")) /\ InOrder(10, Fix("include"))
  BY DEF InOrder, StepKinds, Fix, Step
<1>7. InOrder(9, Flatc({<<"include", "schema_generated.h">>}))
  <2>1. <<"include", "schema_generated.h">> \in CppFiles
    BY DEF CppFiles
  <2> QED
    BY <2>1 DEF InOrder, StepKinds, Flatc, Step
<1>8. InOrder(14, Write(RibbonHeaders))
  <2>1. \A p \in RibbonHeaders : p[1] = "include" /\ p \in CppFiles
    BY DEF RibbonHeaders, CppFiles
  <2> QED
    BY <2>1 DEF InOrder, StepKinds, Write, Step
<1>9. InOrder(17, GoGet("shm")) /\ InOrder(18, GoGet("types"))
  BY DEF InOrder, StepKinds, GoGet, Step, Dependencies
<1> QED
  BY <1>1, <1>2, <1>3, <1>4, <1>5, <1>6, <1>7, <1>8, <1>9, StepsListed

LEMMA StepCount == Len(Steps) = 18
BY DEF Steps

LEMMA Advances ==
  ASSUME CodeGenTyped, step > 0, Advance
  PROVE  /\ step \in 1 .. 18 /\ step' \in 0 .. 18
         /\ step' > 0 => outcome' = "running"
         /\ \A k \in 1 .. 18 : Past(k)' => k < step \/ k = step
<1>1. step \in 1 .. 18 /\ outcome = "running"
  BY StepCount DEF CodeGenTyped
<1>2. CASE step = 18
  BY <1>1, <1>2, StepCount DEF Advance
<1>3. CASE step # 18
  <2>1. step' = step + 1 /\ outcome' = "running"
    BY <1>1, <1>3, StepCount DEF Advance
  <2> QED
    BY <1>1, <1>3, <2>1, StepCount DEF Past
<1> QED
  BY <1>2, <1>3

LEMMA ContentTyped ==
  ASSUME CodeGenTyped, NEW l \in BOOLEAN
  PROVE  Content(l) \in Contents /\ Content(l).local = l
BY DEF CodeGenTyped, Content, Contents

LEMMA ContentFixed ==
  ASSUME CodeGenTyped, NEW l \in BOOLEAN
  PROVE  [Content(l) EXCEPT !.local = FALSE] = Content(FALSE)
<1> DEFINE r == [Content(l) EXCEPT !.local = FALSE]
<1>1. \A c, d \in Contents :
        /\ c.version = d.version /\ c.functions = d.functions /\ c.ribbon = d.ribbon
        /\ c.torn = d.torn /\ c.local = d.local
        => c = d
  BY DEF Contents
<1>2. Content(l) \in Contents /\ Content(FALSE) \in Contents
  BY ContentTyped
<1>3. r \in Contents /\ r.local = FALSE
  BY <1>2 DEF Contents
<1>4. /\ r.version = version /\ r.functions = functions /\ r.ribbon = ribbon
      /\ r.torn = FALSE
  BY DEF Content
<1>5. /\ Content(FALSE).version = version /\ Content(FALSE).functions = functions
      /\ Content(FALSE).ribbon = ribbon /\ Content(FALSE).torn = FALSE
      /\ Content(FALSE).local = FALSE
  BY DEF Content
<1> QED
  BY <1>1, <1>2, <1>3, <1>4, <1>5

LEMMA TornTyped == CodeGenTyped => Torn \in Contents /\ Torn.local = FALSE
BY DEF CodeGenTyped, Torn, Content, Contents

LEMMA GenerateKeepsTypes == CodeGenInv /\ Generate => CodeGenTyped'
<1> SUFFICES ASSUME CodeGenInv, Generate PROVE CodeGenTyped'
  OBVIOUS
<1> DEFINE s == Steps[step]
<1>1. CodeGenTyped /\ step \in 1 .. 18
  BY Advances DEF CodeGenInv, Generate
<1>2. InOrder(step, s)
  BY <1>1, StepsOrdered
<1>3. UNCHANGED <<version, functions, ribbon, pins, behind>>
  BY DEF Generate
<1>4. Steps' = Steps
  BY <1>3 DEF Steps, IpcFiles, RibbonHeaders
<1>5. step' \in 0 .. 18 /\ (step' > 0 => outcome' = "running")
  BY <1>1, Advances DEF Generate
<1>6. \A p \in DOMAIN tree' : tree'[p] \in Contents /\ (tree'[p].local => p[1] \in {"ipc", "include"})
  <2>1. CASE s.kind = "prune"
    BY <1>1, <2>1 DEF Generate, After, Without, CodeGenTyped, TypedTree
  <2>2. CASE s.kind = "write"
    <3>1. tree' = Written(tree, s.files, Content(s.local))
      BY <2>2 DEF Generate, After
    <3>2. Content(s.local) \in Contents /\ Content(s.local).local = s.local
      BY <1>1, <1>2, ContentTyped DEF InOrder
    <3>3. s.local => \A p \in s.files : p[1] \in {"ipc", "include"}
      BY <1>2 DEF InOrder
    <3> QED
      BY <1>1, <3>1, <3>2, <3>3 DEF Written, CodeGenTyped, TypedTree
  <2>3. CASE s.kind = "fix"
    <3>1. tree' = Fixed(tree, LocalIn(tree, s.dir))
      BY <2>3 DEF Generate, After
    <3>2. \A c \in Contents : [c EXCEPT !.local = FALSE] \in Contents
                               /\ [c EXCEPT !.local = FALSE].local = FALSE
      BY DEF Contents
    <3> QED
      BY <1>1, <3>1, <3>2 DEF Fixed, CodeGenTyped, TypedTree
  <2> QED
    BY <1>2, <2>1, <2>2, <2>3 DEF InOrder, StepKinds, Generate
<1> QED
  BY <1>1, <1>3, <1>4, <1>5, <1>6 DEF CodeGenTyped, TypedTree

\* One more step of a run: what the earlier steps left stays, and its own effect holds.
LEMMA GenerateKeeps == CodeGenInv /\ Generate => CodeGenInv'
<1> SUFFICES ASSUME CodeGenInv, Generate PROVE CodeGenInv'
  OBVIOUS
<1> DEFINE s == Steps[step]
<1>1. CodeGenTyped /\ step \in 1 .. 18
  BY Advances DEF CodeGenInv, Generate
<1>2. InOrder(step, s)
  BY <1>1, StepsOrdered
<1>3. UNCHANGED <<version, functions, ribbon, pins, behind>>
  BY DEF Generate
<1>4. /\ Steps' = Steps /\ CppFiles' = CppFiles
      /\ Content(TRUE)' = Content(TRUE) /\ Content(FALSE)' = Content(FALSE)
  BY <1>3 DEF Steps, IpcFiles, RibbonHeaders, CppFiles, Content
<1>5. ASSUME NEW k \in 1 .. 18, Past(k)' PROVE Effect(Steps[k])'
  <2>1. InOrder(k, Steps[k])
    BY <1>1, StepsOrdered
  <2>2. k < step \/ k = step
    BY <1>1, <1>5, Advances DEF Generate
  <2>3. k < step => Effect(Steps[k])
    BY DEF CodeGenInv, Past
  <2>4. Steps[k].kind = "go get" => behind' \/ pins'[Steps[k].dir] = version'
    <3>1. CASE k = step
      BY <3>1 DEF Generate
    <3>2. CASE k < step
      BY <1>3, <2>3, <3>2 DEF Effect
    <3> QED
      BY <2>2, <3>1, <3>2
  <2>5. CASE s.kind = "prune"
    <3>1. Steps[k].kind = "prune" /\ Steps[k].files = {}
      <4>1. step < 4 /\ k < 4
        BY <1>1, <1>2, <2>2, <2>5, StepCount DEF InOrder
      <4> QED
        BY <2>1, <4>1 DEF InOrder
    <3>2. tree' = Without(tree, s.dir)
      BY <2>5 DEF Generate, After
    <3>3. CppOnly(Steps[k].dir)'
      BY <1>4, <2>2, <2>3, <3>1, <3>2 DEF CppOnly, Effect, Without
    <3> QED
      BY <1>4, <3>1, <3>3 DEF Effect, Current
  <2>6. CASE s.kind = "write"
    <3>1. tree' = Written(tree, s.files, Content(s.local))
      BY <2>6 DEF Generate, After
    <3>2. Content(s.local) \in {Content(FALSE), Content(TRUE)} /\ Content(s.local).local = s.local
      BY <1>1, <1>2, ContentTyped DEF InOrder
    <3>3. Current(Steps[k].files)'
      BY <1>4, <2>2, <2>3, <3>1, <3>2 DEF Current, Effect, Written
    <3>4. ASSUME Steps[k].kind = "prune" PROVE CppOnly(Steps[k].dir)'
      <4>1. \A p \in s.files : p[1] = Steps[k].dir => p \in CppFiles
        BY <1>2, <2>1, <3>4 DEF InOrder
      <4>2. CppOnly(Steps[k].dir)
        BY <2>2, <2>3, <2>6, <3>4 DEF Effect
      <4> QED
        BY <1>4, <3>1, <4>1, <4>2 DEF CppOnly, Written
    <3>5. ASSUME Steps[k].kind = "fix" PROVE NoneLocal(Steps[k].dir)'
      <4>1. NoneLocal(Steps[k].dir) /\ k < step
        BY <2>2, <2>3, <2>6, <3>5 DEF Effect
      <4>2. k \in {8, 10} /\ (k = 8 => Steps[k].dir = "ipc")
        BY <2>1, <3>5 DEF InOrder
      <4>3. s.local => step < 10 /\ (step > 8 => \A p \in s.files : p[1] # "ipc")
        BY <1>2 DEF InOrder
      <4>4. s.local => \A p \in s.files : p[1] # Steps[k].dir
        BY <1>1, <4>1, <4>2, <4>3
      <4> QED
        <5>1. \A p \in s.files : p[1] = Steps[k].dir => ~Content(s.local).local
          BY <3>2, <4>4
        <5> QED
          BY <1>4, <3>1, <4>1, <5>1 DEF NoneLocal, Written
    <3> QED
      BY <1>4, <2>4, <3>3, <3>4, <3>5 DEF Effect
  <2>7. CASE s.kind = "fix"
    <3>1. tree' = Fixed(tree, LocalIn(tree, s.dir))
      BY <2>7 DEF Generate, After
    <3>2. \A c \in Contents : [c EXCEPT !.local = FALSE].local = FALSE
      BY DEF Contents
    <3>3. \A c \in {Content(FALSE), Content(TRUE)} : [c EXCEPT !.local = FALSE] = Content(FALSE)
      BY <1>1, ContentFixed
    <3>4. Current(Steps[k].files)'
      <4>1. CASE k = step
        BY <1>2, <2>7, <4>1, <1>4 DEF Current, InOrder
      <4>2. CASE k < step
        BY <1>4, <2>3, <3>1, <3>3, <4>2 DEF Current, Effect, Fixed
      <4> QED
        BY <2>2, <4>1, <4>2
    <3>5. ASSUME Steps[k].kind = "prune" PROVE CppOnly(Steps[k].dir)'
      <4>1. CppOnly(Steps[k].dir)
        BY <2>2, <2>3, <2>7, <3>5 DEF Effect
      <4> QED
        BY <1>4, <3>1, <4>1 DEF CppOnly, Fixed
    <3>6. ASSUME Steps[k].kind = "fix" PROVE NoneLocal(Steps[k].dir)'
      <4>1. CASE k = step
        <5>1. \A p \in DOMAIN tree : p[1] = s.dir /\ p \notin LocalIn(tree, s.dir) => ~tree[p].local
          BY DEF LocalIn
        <5>2. \A p \in LocalIn(tree, s.dir) : ~[tree[p] EXCEPT !.local = FALSE].local
          BY <1>1, <3>2 DEF LocalIn, CodeGenTyped, TypedTree
        <5>3. DOMAIN tree' = DOMAIN tree
          BY <3>1 DEF Fixed
        <5>4. \A p \in DOMAIN tree :
                tree'[p] = IF p \in LocalIn(tree, s.dir) THEN [tree[p] EXCEPT !.local = FALSE]
                           ELSE tree[p]
          BY <3>1 DEF Fixed
        <5> QED
          BY <1>4, <4>1, <5>1, <5>2, <5>3, <5>4 DEF NoneLocal
      <4>2. CASE k < step
        <5>1. NoneLocal(Steps[k].dir)
          BY <2>3, <3>6, <4>2 DEF Effect
        <5>2. \A p \in LocalIn(tree, s.dir) : ~[tree[p] EXCEPT !.local = FALSE].local
          BY <1>1, <3>2 DEF LocalIn, CodeGenTyped, TypedTree
        <5> QED
          BY <1>4, <3>1, <5>1, <5>2 DEF NoneLocal, Fixed
      <4> QED
        BY <2>2, <4>1, <4>2
    <3> QED
      BY <1>4, <2>4, <3>4, <3>5, <3>6 DEF Effect
  <2> QED
    BY <1>2, <2>5, <2>6, <2>7 DEF InOrder, StepKinds, Generate
<1> QED
  BY <1>4, <1>5, GenerateKeepsTypes DEF CodeGenInv

LEMMA DependenciesKeep == CodeGenInv /\ updateDependencies => CodeGenInv'
<1> SUFFICES ASSUME CodeGenInv, updateDependencies PROVE CodeGenInv'
  OBVIOUS
<1>1. CodeGenTyped /\ step \in 1 .. 18
  BY Advances DEF CodeGenInv, updateDependencies
<1>2. InOrder(step, Steps[step])
  BY <1>1, StepsOrdered
<1>3. UNCHANGED <<version, functions, ribbon, tree>>
  BY DEF updateDependencies
<1>4. /\ Steps' = Steps /\ CppFiles' = CppFiles
      /\ Content(TRUE)' = Content(TRUE) /\ Content(FALSE)' = Content(FALSE)
  BY <1>3 DEF Steps, IpcFiles, RibbonHeaders, CppFiles, Content
<1>5. Steps[step].dir \in Dependencies /\ Steps[step].files = {}
  BY <1>2 DEF updateDependencies, InOrder
<1>6. /\ pins' \in [Dependencies -> Versions \union {"none"}]
      /\ behind' \/ pins'[Steps[step].dir] = version
      /\ \A d \in Dependencies : behind \/ pins[d] = version => behind' \/ pins'[d] = version
  <2>1. CASE behind' = TRUE /\ UNCHANGED pins
    BY <1>1, <2>1 DEF CodeGenTyped
  <2>2. CASE pins' = [pins EXCEPT ![Steps[step].dir] = version] /\ UNCHANGED behind
    BY <1>1, <1>5, <2>2 DEF CodeGenTyped
  <2> QED
    BY <2>1, <2>2 DEF updateDependencies
<1>7. step' \in 0 .. 18 /\ (step' > 0 => outcome' = "running")
  BY <1>1, Advances DEF updateDependencies
<1>8. CodeGenTyped'
  BY <1>1, <1>3, <1>4, <1>6, <1>7 DEF CodeGenTyped
<1>9. ASSUME NEW k \in 1 .. 18, Past(k)' PROVE Effect(Steps[k])'
  <2>1. InOrder(k, Steps[k])
    BY <1>1, StepsOrdered
  <2>2. k < step \/ k = step
    BY <1>1, <1>9, Advances DEF updateDependencies
  <2>3. CASE k = step
    <3>1. Current({})' /\ Steps[k].kind = "go get"
      BY <2>3 DEF Current, updateDependencies
    <3> QED
      BY <1>3, <1>4, <1>5, <1>6, <2>3, <3>1 DEF Effect, updateDependencies
  <2>4. CASE k < step
    <3>1. Effect(Steps[k])
      BY <2>4 DEF CodeGenInv, Past
    <3> QED
      BY <1>3, <1>4, <1>6, <2>1, <3>1 DEF Effect, Current, CppOnly, NoneLocal, InOrder
  <2> QED
    BY <2>2, <2>3, <2>4
<1> QED
  BY <1>4, <1>8, <1>9 DEF CodeGenInv

LEMMA WrittenTyped ==
  ASSUME NEW t, TypedTree(t), NEW files, NEW c \in Contents,
         c.local => \A p \in files : p[1] \in {"ipc", "include"}
  PROVE  TypedTree(Written(t, files, c))
BY DEF TypedTree, Written

LEMMA FixedTyped ==
  ASSUME NEW t, TypedTree(t), NEW files
  PROVE  TypedTree(Fixed(t, files))
<1>1. \A c \in Contents : [c EXCEPT !.local = FALSE] \in Contents
                           /\ [c EXCEPT !.local = FALSE].local = FALSE
  BY DEF Contents
<1> QED
  BY <1>1 DEF TypedTree, Fixed

LEMMA StopKeepsTree == CodeGenInv /\ Stop => TypedTree(tree')
<1> SUFFICES ASSUME CodeGenInv, Stop PROVE TypedTree(tree')
  OBVIOUS
<1> DEFINE s == Steps[step]
<1>1. CodeGenTyped /\ step \in 1 .. 18
  BY StepCount DEF CodeGenInv, CodeGenTyped, Stop
<1>2. InOrder(step, s) /\ TypedTree(tree)
  BY <1>1, StepsOrdered DEF CodeGenTyped
<1>3. Torn \in Contents /\ ~Torn.local
  BY <1>1, TornTyped
<1>4. CASE s.kind = "prune"
  <2>1. PICK gone : tree' = [p \in DOMAIN tree \ gone |-> tree[p]]
    <3>1. Interrupted(tree, s) = PartlyPruned(tree, s.dir)
      BY <1>4 DEF Interrupted
    <3> QED
      BY <3>1 DEF Stop, PartlyPruned
  <2> QED
    BY <1>2, <2>1 DEF TypedTree
<1>5. CASE s.kind = "write"
  <2>1. PICK done \in SUBSET s.files, last \in SUBSET s.files :
          tree' = Written(Written(tree, done, Content(s.local)), last, Torn)
    <3>1. Interrupted(tree, s) = PartlyWritten(tree, s.files, Content(s.local))
      BY <1>5 DEF Interrupted
    <3> QED
      BY <3>1 DEF Stop, PartlyWritten
  <2>2. Content(s.local) \in Contents /\ Content(s.local).local = s.local
    BY <1>1, <1>2, ContentTyped DEF InOrder
  <2>3. s.local => \A p \in done : p[1] \in {"ipc", "include"}
    BY <1>2 DEF InOrder
  <2>4. TypedTree(Written(tree, done, Content(s.local)))
    BY <1>2, <2>2, <2>3, WrittenTyped
  <2> QED
    BY <1>3, <2>1, <2>4, WrittenTyped
<1>6. CASE s.kind = "fix"
  <2>1. PICK done, last : tree' = Written(Fixed(tree, done), last, Torn)
    <3>1. Interrupted(tree, s) = PartlyFixed(tree, LocalIn(tree, s.dir))
      BY <1>6 DEF Interrupted
    <3> QED
      BY <3>1 DEF Stop, PartlyFixed
  <2>2. TypedTree(Fixed(tree, done))
    BY <1>2, FixedTyped
  <2> QED
    BY <1>3, <2>1, <2>2, WrittenTyped
<1>7. CASE s.kind = "go get"
  <2>1. Interrupted(tree, s) = {tree}
    BY <1>7 DEF Interrupted
  <2> QED
    BY <1>2, <2>1 DEF Stop
<1> QED
  BY <1>2, <1>4, <1>5, <1>6, <1>7 DEF InOrder, StepKinds

LEMMA CodeGenStep == CodeGenInv /\ [CodeGenNext]_codeGenVars => CodeGenInv'
<1> SUFFICES ASSUME CodeGenInv, [CodeGenNext]_codeGenVars PROVE CodeGenInv'
  OBVIOUS
<1>0. CodeGenTyped
  BY DEF CodeGenInv
<1>2. ASSUME CodeGenTyped', \A k \in 1 .. 18 : ~Past(k)' PROVE CodeGenInv'
  BY <1>2 DEF CodeGenInv
<1>3. CASE runGenerate
  <2>1. CodeGenTyped'
    BY <1>0, <1>3 DEF runGenerate, CodeGenTyped
  <2>2. \A k \in 1 .. 18 : ~Past(k)'
    BY <1>3 DEF runGenerate, Past
  <2> QED
    BY <1>2, <2>1, <2>2
<1>4. CASE runInit
  <2>1. TypedTree(tree')
    BY <1>4 DEF runInit, TypedTree
  <2>2. CodeGenTyped'
    <3>1. ribbon' \in BOOLEAN
      BY <1>4 DEF runInit
    <3> QED
      BY <1>0, <1>4, <2>1, <3>1, CodeGenAssumption DEF runInit, CodeGenTyped
  <2>3. \A k \in 1 .. 18 : ~Past(k)'
    BY <1>4 DEF runInit, Past
  <2> QED
    BY <1>2, <2>2, <2>3
<1>5. CASE Stop
  <2>1. CodeGenTyped'
    BY <1>0, <1>5, StopKeepsTree DEF Stop, CodeGenTyped
  <2>2. \A k \in 1 .. 18 : ~Past(k)'
    BY <1>5 DEF Stop, Past
  <2> QED
    BY <1>2, <2>1, <2>2
<1>6. CASE Edit
  <2>1. CodeGenTyped'
    <3>1. ribbon' \in BOOLEAN
      BY <1>0, <1>6 DEF Edit, CodeGenTyped
    <3>2. version' \in Versions /\ functions' \in SUBSET Functions
      BY <1>0, <1>6 DEF Edit, CodeGenTyped
    <3> QED
      BY <1>0, <1>6, <3>1, <3>2 DEF Edit, CodeGenTyped
  <2>2. \A k \in 1 .. 18 : ~Past(k)'
    BY <1>6 DEF Edit, Past
  <2> QED
    BY <1>2, <2>1, <2>2
<1>7. CASE UNCHANGED codeGenVars
  <2>1. CodeGenTyped'
    BY <1>0, <1>7 DEF codeGenVars, CodeGenTyped
  <2>2. Steps' = Steps /\ CppFiles' = CppFiles
    BY <1>7 DEF codeGenVars, Steps, IpcFiles, RibbonHeaders, CppFiles
  <2>3. Content(TRUE)' = Content(TRUE) /\ Content(FALSE)' = Content(FALSE)
    BY <1>7 DEF codeGenVars, Content
  <2>4. ASSUME NEW k \in 1 .. 18, Past(k)' PROVE Effect(Steps[k])'
    <3>1. Effect(Steps[k])
      BY <1>7, <2>4 DEF codeGenVars, CodeGenInv, Past
    <3> QED
      BY <1>7, <2>2, <2>3, <3>1 DEF codeGenVars, Effect, Current, CppOnly, NoneLocal
  <2> QED
    BY <2>1, <2>4 DEF CodeGenInv
<1> QED
  BY <1>3, <1>4, <1>5, <1>6, <1>7, GenerateKeeps, DependenciesKeep DEF CodeGenNext

LEMMA CodeGenStart == CodeGenInit => CodeGenInv
<1> SUFFICES ASSUME CodeGenInit PROVE CodeGenInv
  OBVIOUS
<1>1. TypedTree(tree)
  BY DEF CodeGenInit, TypedTree
<1>2. CodeGenTyped
  BY <1>1, StepCount DEF CodeGenInit, CodeGenTyped
<1>3. \A k \in 1 .. 18 : ~Past(k)
  BY StepCount DEF CodeGenInit, Past
<1> QED
  BY <1>2, <1>3 DEF CodeGenInv

\* All effects together are what TreeIsCurrent promises.
LEMMA EffectsSuffice == CodeGenInv => TreeIsCurrent
<1> SUFFICES ASSUME CodeGenInv, outcome = "done" PROVE TreeIsCurrent
  BY DEF TreeIsCurrent
<1>1. CodeGenTyped /\ \A k \in 1 .. 18 : Effect(Steps[k])
  BY StepCount DEF CodeGenInv, Past
<1>2. /\ CppOnly("src") /\ CppOnly("include") /\ CppOnly("tools")
      /\ NoneLocal("ipc") /\ NoneLocal("include")
  <2>1. /\ Effect(Prune("src")) /\ Effect(Prune("include")) /\ Effect(Prune("tools"))
        /\ Effect(Fix("ipc")) /\ Effect(Fix("include"))
    BY <1>1, StepsListed
  <2> QED
    BY <2>1 DEF Effect, Prune, Fix, Step
<1>3. behind \/ (pins["shm"] = version /\ pins["types"] = version)
  <2>1. Effect(GoGet("shm")) /\ Effect(GoGet("types"))
    BY <1>1, StepsListed
  <2> QED
    BY <2>1 DEF Effect, GoGet, Step
<1>4. /\ Current(AssetsOf[version]) /\ Current(RibbonHeaders) /\ Current(IpcFiles)
      /\ Current({<<"include", "schema_generated.h">>})
  <2>1. /\ Effect(Write(AssetsOf[version])) /\ Effect(Write(RibbonHeaders))
        /\ Effect(Flatc(IpcFiles)) /\ Effect(Flatc({<<"include", "schema_generated.h">>}))
    BY <1>1, StepsListed
  <2> QED
    BY <2>1 DEF Effect, Write, Flatc, Step
<1>5. \A d \in Documents : Current({<<"package", d>>})
  <2>1. \A d \in Documents : Effect(Document(d))
    BY <1>1, StepsListed DEF Documents
  <2> QED
    BY <2>1 DEF Effect, Document, Write, Step
<1>6. \A p \in Products : p \in DOMAIN tree /\ tree[p] \in {Content(FALSE), Content(TRUE)}
  BY <1>4, <1>5 DEF Products, CppFiles, Current
<1>7. \A p \in DOMAIN tree : ~tree[p].local
  BY <1>1, <1>2 DEF CodeGenTyped, TypedTree, NoneLocal
<1>8. Content(TRUE).local = TRUE
  BY DEF Content
<1>9. \A p \in Products : p \in DOMAIN tree /\ tree[p] = Content(FALSE)
  BY <1>6, <1>7, <1>8
<1>10. \A p \in CppFiles : p[1] \in {"src", "include", "tools"}
  BY <1>1, CodeGenAssumption DEF CppFiles, RibbonHeaders, CodeGenTyped
<1>11. {p \in DOMAIN tree : p[1] \in {"src", "include", "tools"}} = CppFiles
  BY <1>2, <1>9, <1>10 DEF CppOnly, Products
<1> QED
  BY <1>3, <1>7, <1>9, <1>11 DEF TreeIsCurrent, Dependencies

\* Generate's promise for any releases, functions and number of runs, each of which may
\* fail or be killed inside any step: a run that ends well leaves exactly the tree of
\* this xll-gen and this xll.yaml.
THEOREM FinishedTreeIsCurrent == CodeGenSpec => []TreeIsCurrent
BY CodeGenStart, CodeGenStep, EffectsSuffice, PTL DEF CodeGenSpec

(* --- ProjectConfig ------------------------------------------------------ *)

\* What ApplyDefaults leaves: the mode in lower case, and async that agrees with it.
Normal(f) ==
  /\ f.args \in Seq(Arg)
  /\ f.mode \in DOMAIN Lower /\ Lower[f.mode] = f.mode
  /\ f.async <=> f.mode = "async"

Defaulted(c) ==
  /\ DOMAIN c.functions \subseteq Nat \ {0}
  /\ DOMAIN c.commands \subseteq Nat
  /\ \A i \in DOMAIN c.functions : Normal(c.functions[i])

AcceptedStages == {"accepted", "advised", "emitted", "aborted"}

ConfigInv ==
  /\ stage = "parsed" => cfg \in Configs
  /\ stage = "defaulted" => Defaulted(cfg)
  /\ stage \in AcceptedStages => Defaulted(cfg) /\ Validate(cfg)
  /\ stage # "aborted"
  /\ stage \in {"advised", "emitted"} =>
       (warned <=> cfg.rtd.enabled /\ ~RibbonEnabled(cfg.ribbon))

LEMMA NormalModeNormal ==
  ASSUME NEW f \in Function, f.mode \in DOMAIN Lower
  PROVE  Normal(NormalMode(f))
<1>1. NormalMode(f).args \in Seq(Arg)
  BY DEF NormalMode, Function
<1>2. CASE f.mode = ""
  <2>1. /\ NormalMode(f).mode = (IF f.async THEN "async" ELSE "sync")
        /\ NormalMode(f).async = f.async
    BY <1>2 DEF NormalMode, Function
  <2>2. f.async \in BOOLEAN
    BY DEF Function
  <2> QED
    BY <1>1, <2>1, <2>2, LowerAssumption DEF Normal
<1>3. CASE f.mode # ""
  <2>1. /\ NormalMode(f).mode = Lower[f.mode]
        /\ NormalMode(f).async = (Lower[f.mode] = "async")
    BY <1>3 DEF NormalMode, Function
  <2> QED
    BY <1>1, <2>1, LowerAssumption DEF Normal
<1> QED
  BY <1>2, <1>3

LEMMA DefaultsNormal ==
  ASSUME NEW c \in Configs
  PROVE  Defaulted(ApplyDefaults(c))
<1>1. c \in Config
  BY ConfigsAssumption
<1>2. c.functions \in Seq(Function)
  BY <1>1 DEF Config
<1>3. ApplyDefaults(c).functions = [i \in DOMAIN c.functions |-> NormalMode(c.functions[i])]
  BY <1>1 DEF ApplyDefaults, Config
<1>4. \A i \in DOMAIN c.functions : c.functions[i] \in Function
  BY <1>2
<1>5. \A i \in DOMAIN c.functions : Normal(ApplyDefaults(c).functions[i])
  BY <1>3, <1>4, NormalModeNormal, LowerAssumption
<1>6. DOMAIN c.functions \subseteq Nat \ {0}
  BY <1>2
<1>7. DOMAIN ApplyDefaults(c).functions = DOMAIN c.functions
  BY <1>3
<1>8. DOMAIN ApplyDefaults(c).commands \subseteq Nat
  <2>1. c.commands \in Seq(Command)
    BY <1>1 DEF Config
  <2>2. DOMAIN ApplyDefaults(c).commands = DOMAIN c.commands
    BY <1>1 DEF ApplyDefaults, Config
  <2> QED
    BY <2>1, <2>2
<1> QED
  BY <1>5, <1>6, <1>7, <1>8 DEF Defaulted

LEMMA AcceptedHandled == ASSUME NEW c, Validate(c) PROVE ~UnhandledType(c)
BY DEF Validate, ValidFunctions, ValidArgs, UnhandledType, validArgTypes, CacheKeyLadder

LEMMA ConfigStep == ConfigInv /\ [Next]_vars => ConfigInv'
<1> SUFFICES ASSUME ConfigInv, [Next]_vars PROVE ConfigInv'
  OBVIOUS
<1>1. CASE Default
  BY <1>1, DefaultsNormal DEF Default, ConfigInv, AcceptedStages
<1>2. CASE Check
  BY <1>2 DEF Check, ConfigInv, AcceptedStages
<1>3. CASE warnRtdWithoutComAddIn
  <2>1. Defaulted(cfg) /\ Validate(cfg)
    BY <1>3 DEF warnRtdWithoutComAddIn, ConfigInv, AcceptedStages
  <2>2. RibbonEnabled(cfg.ribbon) => cfg.commands # <<>>
    BY <2>1 DEF Validate, ValidRibbon
  <2>3. warned' <=> cfg.rtd.enabled /\ ~RibbonEnabled(cfg.ribbon)
    BY <1>3, <2>2 DEF warnRtdWithoutComAddIn
  <2> QED
    BY <1>3, <2>1, <2>3 DEF warnRtdWithoutComAddIn, ConfigInv, AcceptedStages
<1>4. CASE Emit
  <2>1. Validate(cfg)
    BY <1>4 DEF Emit, ConfigInv, AcceptedStages
  <2>2. stage' = "emitted"
    BY <1>4, <2>1, AcceptedHandled DEF Emit
  <2> QED
    BY <1>4, <2>2 DEF Emit, ConfigInv, AcceptedStages
<1>5. CASE UNCHANGED vars
  BY <1>5 DEF vars, ConfigInv
<1> QED
  BY <1>1, <1>2, <1>3, <1>4, <1>5 DEF Next

LEMMA ConfigInvariance == Spec => []ConfigInv
<1>1. Init => ConfigInv
  BY DEF Init, ConfigInv, AcceptedStages
<1> QED
  BY <1>1, ConfigStep, PTL DEF Spec

\* The advisory and CMake's condition describe the same projects, for any xll.yaml: a
\* project whose RTD server is never torn down is always told so, and no other is.
THEOREM TeardownGapAnnounced == Spec => []TeardownGapNotSilent
<1>1. ConfigInv => TeardownGapNotSilent
  BY DEF ConfigInv, TeardownGapNotSilent
<1> QED
  BY <1>1, ConfigInvariance, PTL

LEMMA MessageParts ==
  ASSUME NEW id, NEW name
  PROVE  Message(id, name).id = id /\ Message(id, name).name = name
BY DEF Message

\* The kinds of case the server's dispatch has, by message id.
LEMMA DispatchCases ==
  ASSUME NEW c, NEW k \in dispatch(c)
  PROVE  \/ /\ k.message.id = MsgCalculationEnded
            /\ k.method = getEventHandler("CalculationEnded", c.events, "OnCalculationEnded")
         \/ /\ k.message.id = MsgCalculationCanceled
            /\ k.method =
                 getEventHandler("CalculationCanceled", c.events, "OnCalculationCanceled")
         \/ \E i \in DOMAIN c.functions :
              /\ k.message.id = MsgRtdConnect /\ k.message.name = c.functions[i].name
              /\ k.method = Method(c.functions[i])
         \/ \E d \in DOMAIN c.commands :
              /\ k.message.id = MsgCommandInvoke /\ k.message.name = c.commands[d].name
              /\ k.method = c.commands[d].handler
         \/ \E i \in DOMAIN c.functions :
              /\ k.message.id = MsgUserStart + i - 1
              /\ k.method = Method(c.functions[i])
<1> DEFINE rtd == {j \in DOMAIN c.functions : c.rtd.enabled /\ IsRtdLike(c.functions[j].mode)}
           other == {j \in DOMAIN c.functions : ~IsRtdLike(c.functions[j].mode)}
<1>1. CASE k = [message |-> Message(MsgCalculationEnded, ""),
                method |-> getEventHandler("CalculationEnded", c.events, "OnCalculationEnded")]
  BY <1>1, MessageParts
<1>2. CASE k = [message |-> Message(MsgCalculationCanceled, ""),
                method |->
                  getEventHandler("CalculationCanceled", c.events, "OnCalculationCanceled")]
  BY <1>2, MessageParts
<1>3. CASE \E i \in rtd : k = [message |-> Message(MsgRtdConnect, c.functions[i].name),
                               method |-> Method(c.functions[i])]
  BY <1>3, MessageParts
<1>4. CASE \E d \in DOMAIN c.commands :
             k = [message |-> Message(MsgCommandInvoke, c.commands[d].name),
                  method |-> c.commands[d].handler]
  BY <1>4, MessageParts
<1>5. CASE \E i \in other : k = [message |-> Message(MsgUserStart + i - 1, ""),
                                 method |-> Method(c.functions[i])]
  <2>1. PICK i \in other : k = [message |-> Message(MsgUserStart + i - 1, ""),
                                method |-> Method(c.functions[i])]
    BY <1>5
  <2>2. k.message.id = MsgUserStart + i - 1 /\ k.method = Method(c.functions[i])
    BY <2>1, MessageParts
  <2> QED
    BY <2>2
<1> QED
  BY <1>1, <1>2, <1>3, <1>4, <1>5 DEF dispatch

\* Each message has one case at most, which calls the method of its own element.
LEMMA EventsServed ==
  ASSUME NEW c, DOMAIN c.functions \subseteq Nat \ {0}
  PROVE  /\ Served(c, HandleCalculationEnded) =
              {getEventHandler("CalculationEnded", c.events, "OnCalculationEnded")}
         /\ Served(c, HandleCalculationCanceled) =
              {getEventHandler("CalculationCanceled", c.events, "OnCalculationCanceled")}
<1> DEFINE ended == [message |-> HandleCalculationEnded,
             method |-> getEventHandler("CalculationEnded", c.events, "OnCalculationEnded")]
           canceled == [message |-> HandleCalculationCanceled,
             method |->
               getEventHandler("CalculationCanceled", c.events, "OnCalculationCanceled")]
<1>1. ended \in dispatch(c) /\ canceled \in dispatch(c)
  BY DEF dispatch, HandleCalculationEnded, HandleCalculationCanceled
<1>2. ASSUME NEW k \in dispatch(c), k.message.id = MsgCalculationEnded
      PROVE  k.method = ended.method
  BY <1>2, DispatchCases
     DEF MsgCalculationEnded, MsgCalculationCanceled, MsgRtdConnect, MsgCommandInvoke,
         MsgUserStart
<1>3. ASSUME NEW k \in dispatch(c), k.message.id = MsgCalculationCanceled
      PROVE  k.method = canceled.method
  BY <1>3, DispatchCases
     DEF MsgCalculationEnded, MsgCalculationCanceled, MsgRtdConnect, MsgCommandInvoke,
         MsgUserStart
<1>4. /\ HandleCalculationEnded.id = MsgCalculationEnded
      /\ HandleCalculationCanceled.id = MsgCalculationCanceled
  BY MessageParts DEF HandleCalculationEnded, HandleCalculationCanceled
<1> QED
  BY <1>1, <1>2, <1>3, <1>4 DEF Served

LEMMA FunctionServed ==
  ASSUME NEW c, DOMAIN c.functions \subseteq Nat \ {0},
         Distinct(c.functions, LAMBDA f : f.name),
         NEW i \in DOMAIN c.functions
  PROVE  Served(c, Wrapper(c, i)) =
           IF IsRtdLike(c.functions[i].mode) /\ ~c.rtd.enabled THEN {}
           ELSE {Method(c.functions[i])}
<1>1. \A j \in DOMAIN c.functions : c.functions[j].name = c.functions[i].name => j = i
  BY DEF Distinct
<1>2. CASE ~IsRtdLike(c.functions[i].mode)
  <2> DEFINE own == [message |-> Message(MsgUserStart + i - 1, ""),
                     method |-> Method(c.functions[i])]
  <2>1. own \in dispatch(c) /\ Wrapper(c, i) = own.message
    BY <1>2 DEF dispatch, Wrapper
  <2>2. own.message.id = MsgUserStart + i - 1
    BY MessageParts
  <2>3. ASSUME NEW k \in dispatch(c), k.message.id = MsgUserStart + i - 1
        PROVE  k.method = own.method
    BY <2>3, DispatchCases
       DEF MsgCalculationEnded, MsgCalculationCanceled, MsgRtdConnect, MsgCommandInvoke,
           MsgUserStart
  <2> QED
    BY <1>2, <2>1, <2>2, <2>3 DEF Served
<1>3. CASE IsRtdLike(c.functions[i].mode) /\ c.rtd.enabled
  <2> DEFINE own == [message |-> Message(MsgRtdConnect, c.functions[i].name),
                     method |-> Method(c.functions[i])]
  <2>1. own \in dispatch(c) /\ Wrapper(c, i) = own.message
    BY <1>3 DEF dispatch, Wrapper
  <2>2. own.message.id = MsgRtdConnect /\ own.message.name = c.functions[i].name
    BY MessageParts
  <2>3. ASSUME NEW k \in dispatch(c), k.message.id = MsgRtdConnect,
               k.message.name = c.functions[i].name
        PROVE  k.method = own.method
    BY <1>1, <2>3, DispatchCases
       DEF MsgCalculationEnded, MsgCalculationCanceled, MsgRtdConnect, MsgCommandInvoke,
           MsgUserStart
  <2> QED
    BY <1>3, <2>1, <2>2, <2>3 DEF Served
<1>4. CASE IsRtdLike(c.functions[i].mode) /\ ~c.rtd.enabled
  <2>1. Wrapper(c, i).id = 0
    BY <1>4, MessageParts DEF Wrapper, Silent
  <2>2. ASSUME NEW k \in dispatch(c) PROVE k.message.id # 0
    BY DispatchCases
       DEF MsgCalculationEnded, MsgCalculationCanceled, MsgRtdConnect, MsgCommandInvoke,
           MsgUserStart
  <2> QED
    BY <1>4, <2>1, <2>2 DEF Served
<1> QED
  BY <1>2, <1>3, <1>4

LEMMA CommandServed ==
  ASSUME NEW c, DOMAIN c.functions \subseteq Nat \ {0},
         Distinct(c.commands, LAMBDA d : d.name),
         NEW d \in DOMAIN c.commands
  PROVE  Served(c, Message(MsgCommandInvoke, c.commands[d].name)) = {c.commands[d].handler}
<1> DEFINE own == [message |-> Message(MsgCommandInvoke, c.commands[d].name),
                   method |-> c.commands[d].handler]
<1>1. \A e \in DOMAIN c.commands : c.commands[e].name = c.commands[d].name => e = d
  BY DEF Distinct
<1>2. own \in dispatch(c)
  BY DEF dispatch
<1>3. own.message.id = MsgCommandInvoke /\ own.message.name = c.commands[d].name
  BY MessageParts
<1>4. ASSUME NEW k \in dispatch(c), k.message.id = MsgCommandInvoke,
             k.message.name = c.commands[d].name
      PROVE  k.method = own.method
  BY <1>1, <1>4, DispatchCases
     DEF MsgCalculationEnded, MsgCalculationCanceled, MsgRtdConnect, MsgCommandInvoke,
         MsgUserStart
<1> QED
  BY <1>2, <1>3, <1>4 DEF Served

\* Where no two procedures share a name, a call of one sends what that one sends.
LEMMA RunsExported ==
  ASSUME NEW c, ExportsDistinct(c), NEW x \in Exports(c)
  PROVE  Runs(c, x.proc) = Served(c, x.sends)
<1>1. {y \in Exports(c) : y.proc = x.proc} = {x}
  BY DEF ExportsDistinct
<1> QED
  BY <1>1 DEF Runs

LEMMA FunctionsArrive ==
  ASSUME NEW c, Defaulted(c), ValidFunctions(c), ExportsDistinct(c)
  PROVE  FunctionsReached(c)
<1> SUFFICES ASSUME NEW i \in DOMAIN c.functions
             PROVE  Runs(c, c.functions[i].name) =
                      IF c.functions[i].mode = "rtd" /\ ~c.rtd.enabled THEN {}
                      ELSE {Method(c.functions[i])}
  BY DEF FunctionsReached
<1>1. Runs(c, c.functions[i].name) = Served(c, Wrapper(c, i))
  <2> DEFINE x == [proc |-> c.functions[i].name, sends |-> Wrapper(c, i)]
  <2>1. x \in Exports(c)
    BY DEF Exports
  <2> QED
    BY <2>1, RunsExported
<1>2. IsRtdLike(c.functions[i].mode) /\ ~c.rtd.enabled <=>
        c.functions[i].mode = "rtd" /\ ~c.rtd.enabled
  <2>1. Once(c.functions[i]) => c.rtd.enabled
    BY DEF ValidFunctions, ValidMode
  <2>2. Lower[c.functions[i].mode] = c.functions[i].mode
    BY DEF Defaulted, Normal
  <2> QED
    BY <2>1, <2>2 DEF IsRtdLike, Once
<1>3. Served(c, Wrapper(c, i)) =
        IF IsRtdLike(c.functions[i].mode) /\ ~c.rtd.enabled THEN {}
        ELSE {Method(c.functions[i])}
  BY FunctionServed DEF Defaulted, ValidFunctions
<1> QED
  BY <1>1, <1>2, <1>3

LEMMA CommandsArrive ==
  ASSUME NEW c, Defaulted(c), ValidCommands(c), ExportsDistinct(c)
  PROVE  CommandsReached(c)
<1> SUFFICES ASSUME NEW d \in DOMAIN c.commands
             PROVE  Runs(c, CommandProcedure(c.commands[d].name)) = {c.commands[d].handler}
  BY DEF CommandsReached
<1> DEFINE x == [proc |-> CommandProcedure(c.commands[d].name),
                 sends |-> Message(MsgCommandInvoke, c.commands[d].name)]
<1>1. x \in Exports(c)
  BY DEF Exports
<1>2. Runs(c, CommandProcedure(c.commands[d].name)) =
        Served(c, Message(MsgCommandInvoke, c.commands[d].name))
  BY <1>1, RunsExported
<1> QED
  BY <1>2, CommandServed DEF Defaulted, ValidCommands

LEMMA ButtonsArrive ==
  ASSUME NEW c, Defaulted(c), ValidCommands(c), ValidRibbon(c)
  PROVE  ButtonsReached(c)
<1> SUFFICES ASSUME NEW b \in DOMAIN c.ribbon.buttons
             PROVE  \E d \in DOMAIN c.commands :
                      LET command == c.ribbon.buttons[b].command IN
                      /\ c.commands[d].name = command
                      /\ Upper[command] \notin ribbonMembers /\ SameName(c, command) = {d} =>
                           Served(c, Click(c, command)) = {c.commands[d].handler}
  BY DEF ButtonsReached
<1> DEFINE command == c.ribbon.buttons[b].command
<1>1. command \in CommandNames(c)
  <2>1. CASE RibbonEnabled(c.ribbon)
    BY <2>1 DEF ValidRibbon
  <2>2. CASE ~RibbonEnabled(c.ribbon)
    <3>1. c.ribbon.buttons = <<>>
      BY <2>2 DEF ValidRibbon
    <3> QED
      BY <3>1
  <2> QED
    BY <2>1, <2>2
<1>2. PICK d \in DOMAIN c.commands : c.commands[d].name = command
  BY <1>1 DEF CommandNames
<1>3. ASSUME Upper[command] \notin ribbonMembers, SameName(c, command) = {d}
      PROVE  Click(c, command) = Message(MsgCommandInvoke, c.commands[d].name)
  <2>1. d \in Nat
    BY DEF Defaulted
  <2>2. (CHOOSE e \in {d} : \A other \in {d} : e <= other) = d
    BY <2>1
  <2> QED
    BY <1>3, <2>2 DEF Click
<1>4. Served(c, Message(MsgCommandInvoke, c.commands[d].name)) = {c.commands[d].handler}
  BY CommandServed DEF Defaulted, ValidCommands
<1> QED
  BY <1>2, <1>3, <1>4

LEMMA EventsArrive ==
  ASSUME NEW c, Defaulted(c), ValidEvents(c), ExportsDistinct(c)
  PROVE  EventsReached(c)
<1>1. \A d, e \in DOMAIN c.events : c.events[d].type = c.events[e].type => d = e
  BY DEF ValidEvents, Distinct
<1>2. \A e \in DOMAIN c.events : c.events[e].type \in {"CalculationEnded", "CalculationCanceled"}
  BY DEF ValidEvents, validEventTypes
<1>3. /\ lookupEventCode("CalculationEnded") = "xleventCalculationEnded"
      /\ lookupEventCode("CalculationCanceled") = "xleventCalculationCanceled"
  BY DEF lookupEventCode
<1>4. ASSUME NEW e \in DOMAIN c.events, NEW default
      PROVE  getEventHandler(c.events[e].type, c.events, default) = c.events[e].handler
  <2>1. (CHOOSE d \in DOMAIN c.events : c.events[d].type = c.events[e].type) = e
    BY <1>1
  <2> QED
    BY <2>1 DEF getEventHandler, hasEvent
<1>5. \A r, s \in EventRegistrations(c) : r.code = s.code => r = s
  BY <1>1, <1>2, <1>3 DEF EventRegistrations, hasEvent
<1>6. ASSUME NEW r \in EventRegistrations(c) PROVE Raises(c, r.code) = Runs(c, r.proc)
  <2>1. {s \in EventRegistrations(c) : s.code = r.code} = {r}
    BY <1>5
  <2> QED
    BY <2>1 DEF Raises
<1>7. DOMAIN c.functions \subseteq Nat \ {0}
  BY DEF Defaulted
<1>8. ASSUME NEW e \in DOMAIN c.events
      PROVE  Raises(c, lookupEventCode(c.events[e].type)) = {c.events[e].handler}
  <2> DEFINE r == [code |-> lookupEventCode(c.events[e].type), proc |-> c.events[e].handler]
             x == [proc |-> c.events[e].handler, sends |-> EventProcedure(c.events[e].type)]
  <2>1. r \in EventRegistrations(c) /\ x \in Exports(c)
    BY DEF EventRegistrations, Exports
  <2>2. Raises(c, r.code) = Served(c, x.sends)
    BY <1>6, <2>1, RunsExported
  <2>3. CASE c.events[e].type = "CalculationEnded"
    <3>1. x.sends = HandleCalculationEnded
      BY <2>3 DEF EventProcedure
    <3> QED
      BY <1>4, <1>7, <2>2, <2>3, <3>1, EventsServed
  <2>4. CASE c.events[e].type = "CalculationCanceled"
    <3>1. x.sends = HandleCalculationCanceled
      BY <2>4 DEF EventProcedure
    <3> QED
      BY <1>4, <1>7, <2>2, <2>4, <3>1, EventsServed
  <2> QED
    BY <1>2, <2>3, <2>4
<1>9. ASSUME ~hasEvent("CalculationEnded", c.events)
      PROVE  Raises(c, "xleventCalculationEnded") = {"OnCalculationEnded"}
  <2> DEFINE r == [code |-> "xleventCalculationEnded", proc |-> "CalculationEnded"]
             x == [proc |-> "CalculationEnded", sends |-> HandleCalculationEnded]
  <2>1. r \in EventRegistrations(c) /\ x \in Exports(c)
    BY <1>9 DEF EventRegistrations, Exports
  <2>2. Raises(c, r.code) = Served(c, x.sends)
    BY <1>6, <2>1, RunsExported
  <2>3. getEventHandler("CalculationEnded", c.events, "OnCalculationEnded") = "OnCalculationEnded"
    BY <1>9 DEF getEventHandler
  <2> QED
    BY <1>7, <2>2, <2>3, EventsServed
<1>10. ASSUME ~hasEvent("CalculationCanceled", c.events)
       PROVE  Raises(c, "xleventCalculationCanceled") = {}
  <2>1. \A r \in EventRegistrations(c) : r.code # "xleventCalculationCanceled"
    BY <1>2, <1>3, <1>10 DEF EventRegistrations, hasEvent
  <2> QED
    BY <2>1 DEF Raises
<1> QED
  BY <1>5, <1>8, <1>9, <1>10 DEF EventsReached

\* Whatever the dispatch calls is declared in the interface it calls it on.
LEMMA MethodsDeclared ==
  ASSUME NEW c
  PROVE  {k.method : k \in dispatch(c)} \subseteq XllService(c)
<1>1. getEventHandler("CalculationEnded", c.events, "OnCalculationEnded") \in XllService(c)
  BY DEF getEventHandler, hasEvent, XllService
<1>2. getEventHandler("CalculationCanceled", c.events, "OnCalculationCanceled") \in XllService(c)
  BY DEF getEventHandler, hasEvent, XllService
<1>3. \A i \in DOMAIN c.functions : Method(c.functions[i]) \in XllService(c)
  BY DEF XllService
<1>4. \A d \in DOMAIN c.commands : c.commands[d].handler \in XllService(c)
  BY DEF XllService
<1>5. ASSUME NEW k \in dispatch(c) PROVE k.method \in XllService(c)
  BY <1>1, <1>2, <1>3, <1>4, DispatchCases
<1> QED
  BY <1>5

\* For any xll.yaml that is accepted, and whose exported procedures have distinct names:
\* a function, an event, a command or a button that Excel calls ends in its own handler.
THEOREM CallsOfAcceptedProjectsArrive == Spec => []CallsReachHandlers
<1>1. ASSUME ConfigInv PROVE CallsReachHandlers
  <2> SUFFICES ASSUME stage = "emitted", ExportsDistinct(cfg) PROVE CallsReachHandlers
    BY DEF CallsReachHandlers
  <2>1. Defaulted(cfg) /\ Validate(cfg)
    BY <1>1 DEF ConfigInv, AcceptedStages
  <2>2. ValidFunctions(cfg) /\ ValidEvents(cfg) /\ ValidCommands(cfg) /\ ValidRibbon(cfg)
    BY <2>1 DEF Validate
  <2>3. FunctionsReached(cfg) /\ EventsReached(cfg)
    BY <2>1, <2>2, FunctionsArrive, EventsArrive
  <2>4. CommandsReached(cfg) /\ ButtonsReached(cfg)
    BY <2>1, <2>2, CommandsArrive, ButtonsArrive
  <2> QED
    BY <2>3, <2>4, MethodsDeclared DEF CallsReachHandlers
<1> QED
  BY <1>1, ConfigInvariance, PTL

\* A row of the registry: the columns that meet only in the generated code agree.
LEMMA RegistryRows ==
  /\ validArgTypes \union validReturnTypes \subseteq DOMAIN typeRegistry
  /\ \A t \in DOMAIN typeRegistry :
       /\ Lookup(t, "go") = "time.Time" <=> t = "date"
       /\ Lookup(t, "ret") = "time.Time" <=> t = "date"
       /\ ExcelPasses(Lookup(t, "xll")) = Lookup(t, "cpp")
       /\ ExcelPasses(Lookup(t, "argXll")) = Lookup(t, "arg")
BY DEF validArgTypes, validReturnTypes, typeRegistry, T, Lookup, ExcelPasses

\* A sequence with one element put before it.
LEMMA Prefixed ==
  ASSUME NEW x, NEW S, NEW s \in Seq(S)
  PROVE  /\ Len(<<x>> \o s) = Len(s) + 1
         /\ (<<x>> \o s)[1] = x
         /\ \A k \in 2 .. Len(s) + 1 : (<<x>> \o s)[k] = s[k - 1]
OBVIOUS

LEMMA AcceptedFunction ==
  ASSUME Defaulted(cfg), Validate(cfg), NEW i \in DOMAIN cfg.functions
  PROVE  LET f == cfg.functions[i] IN
         /\ Normal(f)
         /\ f.return \in validReturnTypes
         /\ \A a \in DOMAIN f.args : f.args[a].type \in validArgTypes
BY DEF Defaulted, Validate, ValidFunctions, ValidReturn, ValidArgs

Dense(s) == s \in Seq(Nat) /\ \A k \in 1 .. Len(s) : s[k] = k - 1

LEMMA DenseGrows ==
  ASSUME NEW s, Dense(s)
  PROVE  /\ Dense(s \o << >>) /\ Len(s \o << >>) = Len(s)
         /\ Dense(s \o <<Len(s)>>) /\ Len(s \o <<Len(s)>>) = Len(s) + 1
<1>1. s \o << >> = s
  BY DEF Dense
<1>2. Len(s) \in Nat /\ <<Len(s)>> \in Seq(Nat)
  BY DEF Dense
<1>3. s \o <<Len(s)>> \in Seq(Nat) /\ Len(s \o <<Len(s)>>) = Len(s) + 1
  BY <1>2 DEF Dense
<1>4. ASSUME NEW k \in 1 .. Len(s) + 1 PROVE (s \o <<Len(s)>>)[k] = k - 1
  <2>1. CASE k \in 1 .. Len(s)
    BY <1>2, <2>1 DEF Dense
  <2>2. CASE k = Len(s) + 1
    BY <1>2, <2>2 DEF Dense
  <2> QED
    BY <1>2, <2>1, <2>2
<1> QED
  BY <1>1, <1>3, <1>4 DEF Dense

LEMMA RequestFieldsDense ==
  ASSUME NEW f, f.args \in Seq(Arg)
  PROVE  \A k \in DOMAIN RequestFieldIds(f) : RequestFieldIds(f)[k] = k - 1
<1> DEFINE n == Len(f.args)
           own == [i \in 1 .. n |-> i - 1]
           asyncId == IF f.async THEN <<n>> ELSE <<>>
           callerId == IF f.caller THEN <<n + (IF f.async THEN 1 ELSE 0)>> ELSE <<>>
<1>1. n \in Nat /\ Dense(own) /\ Len(own) = n
  BY DEF Dense
<1>2. Dense(own \o asyncId) /\ Len(own \o asyncId) = n + (IF f.async THEN 1 ELSE 0)
  <2> HIDE DEF own
  <2>1. CASE f.async
    BY <1>1, <2>1, DenseGrows
  <2>2. CASE ~f.async
    BY <1>1, <2>2, DenseGrows
  <2> QED
    BY <2>1, <2>2
<1>3. Dense(own \o asyncId \o callerId)
  <2> HIDE DEF own, asyncId
  <2>1. CASE f.caller
    BY <1>2, <2>1, DenseGrows
  <2>2. CASE ~f.caller
    BY <1>2, <2>2, DenseGrows
  <2> QED
    BY <2>1, <2>2
<1>4. RequestFieldIds(f) = own \o asyncId \o callerId
  BY DEF RequestFieldIds
<1>5. \A s : Dense(s) => \A k \in DOMAIN s : s[k] = k - 1
  BY DEF Dense
<1> QED
  BY <1>3, <1>4, <1>5

LEMMA ImportsUsed ==
  ASSUME Defaulted(cfg), Validate(cfg)
  PROVE  InterfaceImports(cfg) = InterfaceUses(cfg)
<1> DEFINE F(i) == cfg.functions[i]
<1>1. \A i \in DOMAIN cfg.functions :
        /\ F(i).return \in validReturnTypes
        /\ \A a \in DOMAIN F(i).args : F(i).args[a].type \in validArgTypes
  BY AcceptedFunction
<1>2. \A i \in DOMAIN cfg.functions :
        "time.Time" \in InterfaceTypes(F(i)) <=>
          \E a \in DOMAIN F(i).args : F(i).args[a].type = "date"
  <2>1. "date" \notin validReturnTypes
    BY DEF validReturnTypes
  <2> QED
    BY <1>1, <2>1, RegistryRows DEF InterfaceTypes
<1>3. anyDateType(cfg.functions) <=>
        \E i \in DOMAIN cfg.functions : "time.Time" \in InterfaceTypes(F(i))
  BY <1>1, <1>2 DEF anyDateType, validReturnTypes
<1> QED
  BY <1>3 DEF InterfaceImports, InterfaceUses

LEMMA AbiMatches ==
  ASSUME NEW f, Normal(f), f.return \in validReturnTypes,
         \A a \in DOMAIN f.args : f.args[a].type \in validArgTypes
  PROVE  /\ Len(TypeText(f)) = Len(Signature(f))
         /\ \A k \in DOMAIN TypeText(f) : ExcelPasses(TypeText(f)[k]) = Signature(f)[k]
<1> DEFINE n == Len(f.args)
           code == IF f.mode = "async" THEN ">"
                   ELSE IF IsRtdLike(f.mode) /\ f.return # "numgrid" THEN "Q"
                   ELSE Lookup(f.return, "xll")
           type == IF f.mode = "async" THEN "void"
                   ELSE IF IsRtdLike(f.mode) /\ f.return # "numgrid" THEN "LPXLOPER12"
                   ELSE Lookup(f.return, "cpp")
           codes == [a \in DOMAIN f.args |-> Lookup(f.args[a].type, "argXll")]
           types == [a \in DOMAIN f.args |-> Lookup(f.args[a].type, "arg")]
<1>1. n \in Nat /\ DOMAIN f.args = 1 .. n
  BY DEF Normal
<1>2. ExcelPasses(code) = type
  <2>1. ExcelPasses(">") = "void" /\ ExcelPasses("Q") = "LPXLOPER12"
    BY DEF ExcelPasses
  <2> QED
    BY <2>1, RegistryRows
<1>3. \A a \in 1 .. n : ExcelPasses(codes[a]) = types[a]
  BY <1>1, RegistryRows
<1>4. PICK S : codes \in Seq(S) /\ types \in Seq(S)
  <2>1. codes \in Seq({codes[a] : a \in 1 .. n} \union {types[a] : a \in 1 .. n})
    BY <1>1
  <2>2. types \in Seq({codes[a] : a \in 1 .. n} \union {types[a] : a \in 1 .. n})
    BY <1>1
  <2> QED
    BY <2>1, <2>2
<1>5. Len(codes) = n /\ Len(types) = n
  BY <1>1
<1> HIDE DEF codes, types, code, type
<1>6. /\ Len(<<code>> \o codes) = n + 1 /\ Len(<<type>> \o types) = n + 1
      /\ (<<code>> \o codes)[1] = code /\ (<<type>> \o types)[1] = type
      /\ \A k \in 2 .. n + 1 : /\ (<<code>> \o codes)[k] = codes[k - 1]
                               /\ (<<type>> \o types)[k] = types[k - 1]
  BY <1>4, <1>5, Prefixed
<1>7. DOMAIN (<<code>> \o codes) = 1 .. n + 1
  BY <1>4, <1>5, <1>6
<1>8. \A k \in 1 .. n + 1 : ExcelPasses((<<code>> \o codes)[k]) = (<<type>> \o types)[k]
  <2> TAKE k \in 1 .. n + 1
  <2>1. CASE k = 1
    BY <1>2, <1>6, <2>1
  <2>2. CASE k \in 2 .. n + 1
    <3>1. k - 1 \in 1 .. n
      BY <1>1, <2>2
    <3> QED
      BY <1>3, <1>6, <2>2, <3>1
  <2>3. k = 1 \/ k \in 2 .. n + 1
    BY <1>1
  <2> QED
    BY <2>1, <2>2, <2>3
<1>9. TypeText(f) = <<code>> \o codes /\ Signature(f) = <<type>> \o types
  BY DEF TypeText, Signature, code, type, codes, types
<1> QED
  BY <1>6, <1>7, <1>8, <1>9

\* What Validate accepts, each template renders in agreement with the others, for any
\* xll.yaml: imports, headers, request tables, registration text and signatures.
THEOREM EmittedProgramAgrees == Spec => []EmittedAgrees
<1>1. ASSUME ConfigInv PROVE EmittedAgrees
  <2>1. stage # "aborted"
    BY <1>1 DEF ConfigInv
  <2> SUFFICES ASSUME stage = "emitted" PROVE EmittedAgrees
    BY <2>1 DEF EmittedAgrees, PartsFit, WrapperAbiMatches
  <2>2. Defaulted(cfg) /\ Validate(cfg)
    BY <1>1 DEF ConfigInv, AcceptedStages
  <2>3. InterfaceImports(cfg) = InterfaceUses(cfg)
    BY <2>2, ImportsUsed
  <2>4. CppNeeds(cfg) \subseteq CppIncludes(cfg)
    <3>1. RibbonEnabled(cfg.ribbon) => cfg.commands # <<>>
      BY <2>2 DEF Validate, ValidRibbon
    <3> QED
      BY <3>1 DEF CppNeeds, CppIncludes
  <2>5. ASSUME NEW i \in DOMAIN cfg.functions
        PROVE  LET f == cfg.functions[i] IN
               /\ {f.return} \union {f.args[a].type : a \in DOMAIN f.args}
                    \subseteq DOMAIN typeRegistry
               /\ HasHandlerBody(f) => f.return \in ResultLadder
               /\ f.async <=> f.mode = "async"
               /\ \A k \in DOMAIN RequestFieldIds(f) : RequestFieldIds(f)[k] = k - 1
    <3> DEFINE f == cfg.functions[i]
    <3>1. /\ Normal(f) /\ f.return \in validReturnTypes
          /\ \A a \in DOMAIN f.args : f.args[a].type \in validArgTypes
      BY <2>2, AcceptedFunction
    <3>2. {f.return} \union {f.args[a].type : a \in DOMAIN f.args} \subseteq DOMAIN typeRegistry
      BY <3>1, RegistryRows
    <3>3. f.return \in ResultLadder
      BY <3>1 DEF validReturnTypes, ResultLadder
    <3>4. f.async <=> f.mode = "async"
      BY <3>1 DEF Normal
    <3>5. \A k \in DOMAIN RequestFieldIds(f) : RequestFieldIds(f)[k] = k - 1
      BY <3>1, RequestFieldsDense DEF Normal
    <3> QED
      BY <3>2, <3>3, <3>4, <3>5
  <2>6. PartsFit
    BY <2>1, <2>3, <2>4, <2>5 DEF PartsFit
  <2>7. WrapperAbiMatches
    BY <2>2, AcceptedFunction, AbiMatches DEF WrapperAbiMatches
  <2> QED
    BY <2>6, <2>7 DEF EmittedAgrees
<1> QED
  BY <1>1, ConfigInvariance, PTL
=============================================================================
