---------------------------- MODULE ProjectConfig ----------------------------
(***************************************************************************)
(* From xll.yaml to generated code: ApplyDefaults, Validate, the advisory  *)
(* of `xll-gen generate`, and what the templates emit for a configuration  *)
(* that got through.                                                       *)
(*                                                                         *)
(* Acceptance and emission are written apart and in two languages: Validate*)
(* refuses what the templates cannot render, each template decides for     *)
(* itself what to emit, and nothing but a C++ build on Windows brings them *)
(* together. The properties say that what Validate accepts is emitted      *)
(* consistently.                                                           *)
(*                                                                         *)
(* A text is abstracted to what is asked of it: [legal, len] where only its*)
(* characters and its length matter, [kind, ms] for a duration. Free text  *)
(* that is only escaped (descriptions, help topics, labels) is left out.   *)
(***************************************************************************)
EXTENDS Integers, Sequences, FiniteSets

CONSTANTS
  Configs,          \* the parsed xll.yaml files considered
  Upper, Lower,     \* strings.ToUpper and strings.ToLower, on the names that occur
  WellFormed,       \* names of the form [A-Za-z_][A-Za-z0-9_]*
  Underscored,      \* names with an underscore
  GoReserved, CppReserved, XlmReserved, Builtins

(* --- the parsed file ---------------------------------------------------- *)

Text == [legal : BOOLEAN, len : Nat]
Duration == [kind : {"unset", "malformed", "ms"}, ms : Int]

Arg == [name : STRING, type : STRING]

Function ==
  [name : STRING, args : Seq(Arg), return : STRING, async : BOOLEAN, mode : STRING,
   timeout : Duration, memoize : BOOLEAN, ttl : Duration, placeholder : BOOLEAN,
   caller : BOOLEAN, macro : BOOLEAN, shortcut : STRING]

Event == [type : STRING, handler : STRING]
Command == [name : STRING, handler : STRING, shortcut : STRING]
RibbonButton == [command : STRING, image : STRING, size : STRING]

RibbonConfig ==
  [tab : BOOLEAN, xml : BOOLEAN, buttons : Seq(RibbonButton), progId : Text,
   clsid : STRING, bounce : STRING]

RtdConfig == [enabled : BOOLEAN, progId : Text, clsid : STRING, throttle : Duration]

ChunkConfig ==
  [maxBufferBytes : Int, maxConcurrentTransfers : Int, cleanupInterval : Duration,
   bufferTTL : Duration]

Config ==
  [name : Text, package : STRING, singlefile : STRING, tempDir : Text, level : STRING,
   logDir : Text, functions : Seq(Function), events : Seq(Event),
   commands : Seq(Command), timeout : Duration, ackTimeout : Duration,
   rtd : RtdConfig, chunk : ChunkConfig, ribbon : RibbonConfig]

ASSUME ConfigsAssumption == Configs \subseteq Config

\* strings.ToLower leaves alone what it returned, and the mode names.
ASSUME LowerAssumption ==
  /\ \A m \in DOMAIN Lower : Lower[m] \in DOMAIN Lower /\ Lower[Lower[m]] = Lower[m]
  /\ \A m \in {"", "sync", "async", "rtd", "rtd-once"} : m \in DOMAIN Lower /\ Lower[m] = m
  /\ \A c \in Configs : \A i \in DOMAIN c.functions : c.functions[i].mode \in DOMAIN Lower

VARIABLES
  cfg,              \* *config.Config
  stage,            \* how far `xll-gen generate` got
  warned            \* the RTD close-time advisory was printed

vars == <<cfg, stage, warned>>

MaxProgID == 39
MaxInt32 == 2147483647

NoText == [legal |-> TRUE, len |-> 0]
Unset == [kind |-> "unset", ms |-> 0]
IsSet(d) == d.kind # "unset"
Parses(d) == d.kind # "malformed"

(* --- ApplyDefaults ------------------------------------------------------ *)

NormalMode(f) ==
  IF f.mode = "" THEN [f EXCEPT !.mode = IF f.async THEN "async" ELSE "sync"]
  ELSE [f EXCEPT !.mode = Lower[f.mode], !.async = Lower[f.mode] = "async"]

RibbonEnabled(r) == r.tab \/ r.xml

RibbonProgId(name) == [name EXCEPT !.len = @ + 7]

Sized(button) == IF button.size = "" THEN [button EXCEPT !.size = "normal"] ELSE button

RibbonDefaults(c) ==
  IF ~RibbonEnabled(c.ribbon) THEN c.ribbon
  ELSE [c.ribbon EXCEPT
    !.progId = IF @ = NoText THEN RibbonProgId(c.name) ELSE @,
    !.clsid = IF @ = "" THEN "guid" ELSE @,
    !.buttons = [b \in DOMAIN @ |-> Sized(@[b])]]

RtdDefaults(r) ==
  IF r.enabled /\ r.clsid = "" /\ r.progId # NoText
  THEN [r EXCEPT !.clsid = "guid"] ELSE r

Handled(item, default) ==
  IF item.handler = "" THEN [item EXCEPT !.handler = default] ELSE item

ApplyDefaults(c) ==
  [c EXCEPT
    !.functions = [i \in DOMAIN @ |-> NormalMode(@[i])],
    !.package = IF @ = "" THEN "generated" ELSE @,
    !.level = IF @ = "" THEN "info" ELSE @,
    !.rtd = RtdDefaults(@),
    !.commands = [i \in DOMAIN @ |-> Handled(@[i], @[i].name)],
    !.events = [i \in DOMAIN @ |-> Handled(@[i], "On" \o @[i].type)],
    !.ribbon = RibbonDefaults(c)]

(* --- Validate ----------------------------------------------------------- *)

validArgTypes ==
  {"int", "float", "string", "bool", "range", "grid", "numgrid", "any", "date"}
validReturnTypes == {"int", "float", "string", "bool", "any", "grid", "numgrid"}
rtdCompositeReturnTypes == {"range", "grid", "numgrid"}
validEventTypes == {"CalculationEnded", "CalculationCanceled"}

ValidIdentifier(n) ==
  /\ n \in WellFormed
  /\ n \notin GoReserved \union CppReserved

TakenInExcel(n) == Upper[n] \in XlmReserved \union Builtins

Distinct(s, Key(_)) == \A i, j \in DOMAIN s : Key(s[i]) = Key(s[j]) => i = j

ValidShortcut(s) == s \in {"", "k", "K", "m"}

ValidPackage(p) == p = "" \/ (p \in WellFormed \ GoReserved /\ p # "main")

ValidBuild(c) == c.singlefile \in {"", "xll"} /\ c.tempDir.legal

ValidEvents(c) ==
  /\ Distinct(c.events, LAMBDA e : e.type)
  /\ \A i \in DOMAIN c.events :
       /\ c.events[i].type \in validEventTypes
       /\ c.events[i].handler # "" => ValidIdentifier(c.events[i].handler)

ValidReturn(f) ==
  /\ f.return \in validReturnTypes
  /\ Lower[f.mode] = "rtd" => f.return \notin rtdCompositeReturnTypes

ValidArgs(f) ==
  /\ Distinct(f.args, LAMBDA a : a.name)
  /\ \A i \in DOMAIN f.args :
       /\ ValidIdentifier(f.args[i].name)
       /\ f.args[i].name \notin Underscored
       /\ f.args[i].type \in validArgTypes

ValidLogging(c) ==
  Lower[c.level] \in {"", "debug", "info", "warn", "error"} /\ c.logDir.legal

Once(f) == Lower[f.mode] = "rtd-once"
RtdMode(f) == Lower[f.mode] \in {"rtd", "rtd-once"}

ValidMemoize(f) ==
  /\ f.memoize => Once(f)
  /\ IsSet(f.ttl) => Once(f) /\ ~f.memoize /\ Parses(f.ttl) /\ f.ttl.ms > 0

ValidMode(c, f) ==
  /\ Lower[f.mode] \in {"", "sync", "async", "rtd", "rtd-once"}
  /\ Once(f) => c.rtd.enabled /\ ~f.caller /\ ~f.macro
  /\ f.placeholder => RtdMode(f)
  /\ IsSet(f.timeout) => ~RtdMode(f) /\ Parses(f.timeout)

ValidFunctions(c) ==
  /\ Distinct(c.functions, LAMBDA f : f.name)
  /\ \A i \in DOMAIN c.functions : LET f == c.functions[i] IN
       /\ ValidReturn(f) /\ ValidArgs(f)
       /\ ValidIdentifier(f.name) /\ ~TakenInExcel(f.name)
       /\ ValidMode(c, f) /\ ValidMemoize(f)
       /\ ValidShortcut(f.shortcut)

ValidTimeouts(c) == Parses(c.timeout) /\ Parses(c.ackTimeout)

ValidProgID(p) == p.legal /\ p.len <= MaxProgID
ValidClsid(s) == s \in {"", "guid"}

ValidRtd(r) ==
  /\ r.enabled => r.progId # NoText
  /\ ValidProgID(r.progId) /\ ValidClsid(r.clsid)
  /\ IsSet(r.throttle) =>
       r.enabled /\ Parses(r.throttle) /\ r.throttle.ms \in 0 .. MaxInt32

ValidChunk(k) ==
  /\ k.maxBufferBytes >= 0 /\ k.maxConcurrentTransfers >= 0
  /\ Parses(k.cleanupInterval) /\ Parses(k.bufferTTL)

CommandNames(c) == {c.commands[i].name : i \in DOMAIN c.commands}
FunctionNames(c) == {c.functions[i].name : i \in DOMAIN c.functions}

ValidCommands(c) ==
  /\ Distinct(c.commands, LAMBDA d : d.name)
  /\ \A i \in DOMAIN c.commands : LET d == c.commands[i] IN
       /\ ValidIdentifier(d.name) /\ ~TakenInExcel(d.name)
       /\ d.handler # "" => ValidIdentifier(d.handler)
       /\ d.name \notin FunctionNames(c)
       /\ ValidShortcut(d.shortcut)
  /\ \A i, j \in DOMAIN c.commands :
       c.commands[i].shortcut # "" /\ c.commands[j].shortcut # "" /\ i # j =>
         Upper[c.commands[i].shortcut] # Upper[c.commands[j].shortcut]

\* An image is a built-in name ("mso"), a file the runtime decodes ("file"), or a
\* path to something else ("path").
ValidImage(image) == image \in {"", "mso", "file"}

ValidRibbon(c) == LET r == c.ribbon IN
  IF ~RibbonEnabled(r) THEN r.buttons = <<>>
  ELSE
    /\ c.commands # <<>>
    /\ ValidProgID(r.progId) /\ ValidClsid(r.clsid)
    /\ r.bounce \in {"", "full", "keep-open", "off"}
    /\ r.xml => ~r.tab /\ r.buttons = <<>>
    /\ \A i \in DOMAIN r.buttons :
         /\ r.buttons[i].command \in CommandNames(c)
         /\ ValidImage(r.buttons[i].image)
         /\ r.buttons[i].size \in {"", "normal", "large"}

Validate(c) ==
  /\ c.name.legal /\ c.name # NoText
  /\ ValidPackage(c.package) /\ ValidBuild(c)
  /\ ValidEvents(c) /\ ValidFunctions(c) /\ ValidLogging(c) /\ ValidTimeouts(c)
  /\ ValidRtd(c.rtd) /\ ValidChunk(c.chunk) /\ ValidCommands(c) /\ ValidRibbon(c)

(* --- what the templates emit -------------------------------------------- *)

\* One row per xll.yaml type: FlatBuffers type, Go argument and result types, C++
\* result and argument types, and Excel's registration codes for both.
T(schema, go, ret, cpp, arg, xll, argXll) ==
  [schema |-> schema, go |-> go, ret |-> ret, cpp |-> cpp, arg |-> arg,
   xll |-> xll, argXll |-> argXll]

typeRegistry ==
  [int     |-> T("int", "int32", "int32", "LPXLOPER12", "int32_t", "Q", "J"),
   float   |-> T("double", "float64", "float64", "LPXLOPER12", "double", "Q", "B"),
   string  |-> T("string", "string", "string", "LPXLOPER12", "LPXLOPER12", "Q", "Q"),
   bool    |-> T("bool", "bool", "bool", "LPXLOPER12", "short", "Q", "A"),
   range   |-> T("Range", "*Range", "*Range", "LPXLOPER12", "LPXLOPER12", "Q", "U"),
   grid    |-> T("Grid", "*Grid", "[][]any", "LPXLOPER12", "LPXLOPER12", "Q", "U"),
   numgrid |-> T("NumGrid", "*NumGrid", "[][]float64", "FP12*", "FP12*", "K%", "K%"),
   date    |-> T("double", "time.Time", "time.Time", "LPXLOPER12", "double", "Q", "B"),
   any     |-> T("Any", "*Any", "any", "LPXLOPER12", "LPXLOPER12", "Q", "U")]

\* An unregistered type is rendered under its own name.
Lookup(t, field) ==
  IF t \in DOMAIN typeRegistry THEN typeRegistry[t][field] ELSE t

IsRtdLike(mode) == mode \in {"rtd", "rtd-once"}

anyDateType(fns) ==
  \E i \in DOMAIN fns :
    fns[i].return = "date" \/ \E a \in DOMAIN fns[i].args : fns[i].args[a].type = "date"

anyMode(fns, mode) == \E i \in DOMAIN fns : fns[i].mode = mode

\* Go types in the method XllService declares for f.
InterfaceTypes(f) ==
  {Lookup(f.args[a].type, "go") : a \in DOMAIN f.args} \union
    (IF f.mode = "rtd" THEN {} ELSE {Lookup(f.return, "ret")})

InterfaceImports(c) ==
  (IF anyDateType(c.functions) THEN {"time"} ELSE {}) \union
  (IF c.commands # <<>> THEN {"server"} ELSE {})

InterfaceUses(c) ==
  (IF \E i \in DOMAIN c.functions : "time.Time" \in InterfaceTypes(c.functions[i])
   THEN {"time"} ELSE {}) \union
  (IF c.commands # <<>> THEN {"server"} ELSE {})

\* A function has a handler body unless an RTD topic carries it.
HasHandlerBody(f) == ~IsRtdLike(f.mode)

\* The results the handler body of f can encode, and the arguments the wrapper can
\* put in a cache key; an argument of another type aborts the generation.
ResultLadder == {"string", "int", "float", "bool", "any", "grid", "numgrid"}
CacheKeyLadder ==
  {"int", "float", "bool", "string", "date", "numgrid", "grid", "range", "any"}

UnhandledType(c) ==
  \E i \in DOMAIN c.functions : LET f == c.functions[i] IN
    HasHandlerBody(f) /\ \E a \in DOMAIN f.args : f.args[a].type \notin CacheKeyLadder

\* The field ids of the FlatBuffers request table of f.
RequestFieldIds(f) == LET n == Len(f.args) IN
  [i \in 1 .. n |-> i - 1]
    \o (IF f.async THEN <<n>> ELSE <<>>)
    \o (IF f.caller THEN <<n + (IF f.async THEN 1 ELSE 0)>> ELSE <<>>)

\* Mutant: an RTD wrapper always returns an XLOPER12.
TypeTextNoComposite(f) ==
  << IF f.mode = "async" THEN ">"
     ELSE IF IsRtdLike(f.mode) THEN "Q" ELSE Lookup(f.return, "xll") >> \o
  [a \in DOMAIN f.args |-> Lookup(f.args[a].type, "argXll")]

\* Registration text and C++ signature: the result, then the arguments. The handle that
\* both add for an asynchronous function, and the text's flags, are left out.
TypeText(f) ==
  << IF f.mode = "async" THEN ">"
     ELSE IF IsRtdLike(f.mode) /\ f.return # "numgrid" THEN "Q"
     ELSE Lookup(f.return, "xll") >> \o
  [a \in DOMAIN f.args |-> Lookup(f.args[a].type, "argXll")]

Signature(f) ==
  << IF f.mode = "async" THEN "void"
     ELSE IF IsRtdLike(f.mode) /\ f.return # "numgrid" THEN "LPXLOPER12"
     ELSE Lookup(f.return, "cpp") >> \o
  [a \in DOMAIN f.args |-> Lookup(f.args[a].type, "arg")]

\* What Excel passes for a registration code.
ExcelPasses(code) ==
  CASE code = "J" -> "int32_t" [] code = "B" -> "double" [] code = "A" -> "short"
    [] code \in {"Q", "U"} -> "LPXLOPER12" [] code = "K%" -> "FP12*"
    [] code = ">" -> "void" [] OTHER -> "none"

\* The headers xll_main.cpp includes and the parts of it that need them.
CppIncludes(c) ==
  (IF anyMode(c.functions, "rtd-once") THEN {"xll_rtd_once.h"} ELSE {}) \union
  (IF c.commands # <<>> THEN {"com/ribbon_addin.h"} ELSE {})

CppNeeds(c) ==
  (IF anyMode(c.functions, "rtd-once") THEN {"xll_rtd_once.h"} ELSE {}) \union
  (IF RibbonEnabled(c.ribbon) THEN {"com/ribbon_addin.h"} ELSE {})

(* --- from Excel to a handler -------------------------------------------- *)

MsgCalculationEnded == 131
MsgCalculationCanceled == 132
MsgRtdConnect == 133
MsgCommandInvoke == 137
MsgUserStart == 140

\* What reaches the server: a message id, and the name that a connect's first topic
\* string or a command carries.
Message(id, name) == [id |-> id, name |-> name]
Silent == Message(0, "")

HandleCalculationEnded == Message(MsgCalculationEnded, "")
HandleCalculationCanceled == Message(MsgCalculationCanceled, "")

hasEvent(type, events) == \E e \in DOMAIN events : events[e].type = type

\* The first match is the only one: Validate refuses a second event of one type.
getEventHandler(type, events, default) ==
  IF hasEvent(type, events)
  THEN events[CHOOSE e \in DOMAIN events : events[e].type = type].handler
  ELSE default

lookupEventCode(type) ==
  CASE type = "CalculationEnded" -> "xleventCalculationEnded"
    [] type = "CalculationCanceled" -> "xleventCalculationCanceled"
    [] OTHER -> "0"

\* The events xlAutoOpen asks Excel for, each with the procedure Excel is to call. The
\* end of a calculation is always among them.
EventRegistrations(c) ==
  {[code |-> lookupEventCode(c.events[e].type), proc |-> c.events[e].handler] :
     e \in DOMAIN c.events} \union
  (IF hasEvent("CalculationEnded", c.events) THEN {}
   ELSE {[code |-> "xleventCalculationEnded", proc |-> "CalculationEnded"]})

\* Mutant: the procedure of a declared event only logs.
EventProcedureLogs(type) == Silent

\* What the procedure exported for a declared event sends.
EventProcedure(type) ==
  CASE type = "CalculationEnded" -> HandleCalculationEnded
    [] type = "CalculationCanceled" -> HandleCalculationCanceled
    [] OTHER -> Silent

\* What the wrapper of functions[i] sends, by itself or through xlfRtd and the RTD
\* server it asks Excel for. Without an RTD server xlfRtd fails.
Wrapper(c, i) == LET f == c.functions[i] IN
  IF ~IsRtdLike(f.mode) THEN Message(MsgUserStart + i - 1, "")
  ELSE IF c.rtd.enabled THEN Message(MsgRtdConnect, f.name)
  ELSE Silent

CommandProcedure(name) == "Cmd_" \o name

\* The procedures the XLL exports for Excel to call, and what each sends.
Exports(c) ==
  {[proc |-> c.functions[i].name, sends |-> Wrapper(c, i)] : i \in DOMAIN c.functions}
    \union
  {[proc |-> CommandProcedure(c.commands[d].name),
    sends |-> Message(MsgCommandInvoke, c.commands[d].name)] : d \in DOMAIN c.commands}
    \union
  {[proc |-> c.events[e].handler, sends |-> EventProcedure(c.events[e].type)] :
     e \in DOMAIN c.events} \union
  (IF hasEvent("CalculationEnded", c.events) THEN {}
   ELSE {[proc |-> "CalculationEnded", sends |-> HandleCalculationEnded]})

\* What a click sends on a ribbon button that names `command`: Office resolves the name
\* without regard to case, the add-in's own members first, then the first command.
ribbonMembers ==
  {"ONCONNECTION", "ONDISCONNECTION", "ONADDINSUPDATE", "ONSTARTUPCOMPLETE",
   "ONBEGINSHUTDOWN", "LOADRIBBONIMAGE"}

SameName(c, command) == {d \in DOMAIN c.commands : Upper[c.commands[d].name] = Upper[command]}

Click(c, command) ==
  IF Upper[command] \in ribbonMembers \/ SameName(c, command) = {} THEN Silent
  ELSE LET match == CHOOSE d \in SameName(c, command) :
                      \A other \in SameName(c, command) : d <= other
       IN Message(MsgCommandInvoke, c.commands[match].name)

\* The method of XllService that a function is served by.
Method(f) == IF f.mode = "rtd" THEN f.name \o "_RTD" ELSE f.name

XllService(c) ==
  {Method(c.functions[i]) : i \in DOMAIN c.functions} \union
  {c.events[e].handler : e \in DOMAIN c.events} \union
  {c.commands[d].handler : d \in DOMAIN c.commands} \union
  (IF hasEvent("CalculationEnded", c.events) THEN {} ELSE {"OnCalculationEnded"}) \union
  (IF hasEvent("CalculationCanceled", c.events) THEN {} ELSE {"OnCalculationCanceled"})

\* The cases of the server's dispatch that end in a method of XllService. A connect whose
\* first string names no function, which no wrapper sends, is left out.
dispatch(c) ==
  {[message |-> Message(MsgCalculationEnded, ""),
    method |-> getEventHandler("CalculationEnded", c.events, "OnCalculationEnded")],
   [message |-> Message(MsgCalculationCanceled, ""),
    method |-> getEventHandler("CalculationCanceled", c.events, "OnCalculationCanceled")]}
    \union
  {[message |-> Message(MsgRtdConnect, c.functions[i].name),
    method |-> Method(c.functions[i])] :
     i \in {j \in DOMAIN c.functions : c.rtd.enabled /\ IsRtdLike(c.functions[j].mode)}}
    \union
  {[message |-> Message(MsgCommandInvoke, c.commands[d].name),
    method |-> c.commands[d].handler] : d \in DOMAIN c.commands} \union
  {[message |-> Message(MsgUserStart + i - 1, ""), method |-> Method(c.functions[i])] :
     i \in {j \in DOMAIN c.functions : ~IsRtdLike(c.functions[j].mode)}}

(* --- xll-gen generate --------------------------------------------------- *)

Init ==
  /\ cfg \in Configs
  /\ stage = "parsed"
  /\ warned = FALSE

Default ==
  /\ stage = "parsed"
  /\ cfg' = ApplyDefaults(cfg)
  /\ stage' = "defaulted"
  /\ UNCHANGED warned

Check ==
  /\ stage = "defaulted"
  /\ stage' = IF Validate(cfg) THEN "accepted" ELSE "refused"
  /\ UNCHANGED <<cfg, warned>>

\* Mutant: quiet when either part is there.
warnOnlyWithoutBoth ==
  /\ stage = "accepted"
  /\ stage' = "advised"
  /\ warned' = (cfg.rtd.enabled /\ cfg.commands = <<>> /\ ~RibbonEnabled(cfg.ribbon))
  /\ UNCHANGED cfg

warnRtdWithoutComAddIn ==
  /\ stage = "accepted"
  /\ stage' = "advised"
  /\ warned' = (cfg.rtd.enabled /\ ~(cfg.commands # <<>> /\ RibbonEnabled(cfg.ribbon)))
  /\ UNCHANGED cfg

Emit ==
  /\ stage = "advised"
  /\ stage' = IF UnhandledType(cfg) THEN "aborted" ELSE "emitted"
  /\ UNCHANGED <<cfg, warned>>

Next == Default \/ Check \/ warnRtdWithoutComAddIn \/ Emit

Spec == Init /\ [][Next]_vars

(* --- properties --------------------------------------------------------- *)

\* The parts of the emitted program that name each other fit: the generation never stops
\* half-way at a type without a branch, interface.go imports exactly the gated packages
\* it uses, every type is registered and every result type encodable, the wrapper and
\* the server agree on what is asynchronous, the request table numbers its fields
\* without a gap, and xll_main.cpp includes what its ribbon and one-shot parts need.
PartsFit ==
  /\ stage # "aborted"
  /\ stage = "emitted" =>
       /\ InterfaceImports(cfg) = InterfaceUses(cfg)
       /\ CppNeeds(cfg) \subseteq CppIncludes(cfg)
       /\ \A i \in DOMAIN cfg.functions : LET f == cfg.functions[i] IN
            /\ {f.return} \union {f.args[a].type : a \in DOMAIN f.args}
                 \subseteq DOMAIN typeRegistry
            /\ HasHandlerBody(f) => f.return \in ResultLadder
            /\ f.async <=> f.mode = "async"
            /\ \A k \in DOMAIN RequestFieldIds(f) : RequestFieldIds(f)[k] = k - 1

\* Excel calls every wrapper with the C++ types of its signature: the registration
\* text and the exported function are rendered from different columns of the type
\* registry, by different conditions on the mode.
WrapperAbiMatches ==
  stage = "emitted" =>
    \A i \in DOMAIN cfg.functions : LET f == cfg.functions[i] IN
      /\ Len(TypeText(f)) = Len(Signature(f))
      /\ \A k \in DOMAIN TypeText(f) : ExcelPasses(TypeText(f)[k]) = Signature(f)[k]

\* What was accepted is emitted as one consistent program: the tables, the imports, the
\* wrapper and the server, each rendered by a template of its own, agree on every
\* function.
EmittedAgrees == PartsFit /\ WrapperAbiMatches

\* The methods that a message, a call of an exported procedure, and an event end in.
Served(c, message) == {k.method : k \in {d \in dispatch(c) : d.message = message}}

Runs(c, proc) == UNION {Served(c, x.sends) : x \in {y \in Exports(c) : y.proc = proc}}

Raises(c, code) ==
  UNION {Runs(c, r.proc) : r \in {s \in EventRegistrations(c) : s.code = code}}

FunctionsReached(c) == \A i \in DOMAIN c.functions : LET f == c.functions[i] IN
  Runs(c, f.name) = IF f.mode = "rtd" /\ ~c.rtd.enabled THEN {} ELSE {Method(f)}

EventsReached(c) ==
  /\ \A r, s \in EventRegistrations(c) : r.code = s.code => r = s
  /\ \A e \in DOMAIN c.events :
       Raises(c, lookupEventCode(c.events[e].type)) = {c.events[e].handler}
  /\ ~hasEvent("CalculationEnded", c.events) =>
       Raises(c, "xleventCalculationEnded") = {"OnCalculationEnded"}
  /\ ~hasEvent("CalculationCanceled", c.events) =>
       Raises(c, "xleventCalculationCanceled") = {}

CommandsReached(c) == \A d \in DOMAIN c.commands :
  Runs(c, CommandProcedure(c.commands[d].name)) = {c.commands[d].handler}

\* A button is exempt whose command is named like one of the add-in's own members, or like
\* another command but for case: Validate accepts both, and the click goes elsewhere.
ButtonsReached(c) == \A b \in DOMAIN c.ribbon.buttons :
  LET command == c.ribbon.buttons[b].command IN
  \E d \in DOMAIN c.commands :
    /\ c.commands[d].name = command
    /\ Upper[command] \notin ribbonMembers /\ SameName(c, command) = {d} =>
         Served(c, Click(c, command)) = {c.commands[d].handler}

\* What the XLL exports links only when no two procedures share a name.
ExportsDistinct(c) == \A x, y \in Exports(c) : x.proc = y.proc => x = y

\* Each of Excel's ways into an accepted project ends in the handler that xll.yaml gives
\* for it, and in no other: registration, exported procedure, message and dispatch case
\* are rendered by loops of their own, in two files and two languages. A declared event
\* under any handler name runs that handler. The end of a calculation is forwarded whether
\* or not it is declared, because the caches of both halves are cleared there; the
\* cancelling of one is not, unless it is declared. A streaming function of a project
\* without an RTD server ends nowhere, and Validate lets it be.
CallsReachHandlers ==
  stage = "emitted" /\ ExportsDistinct(cfg) =>
    /\ FunctionsReached(cfg) /\ EventsReached(cfg)
    /\ CommandsReached(cfg) /\ ButtonsReached(cfg)
    /\ {k.method : k \in dispatch(cfg)} \subseteq XllService(cfg)

\* The RTD teardown is compiled under XLL_RIBBON_ENABLED, which CMake defines for a
\* ribbon alone; the advisory asks for a ribbon and commands. They describe the same
\* projects because Validate refuses a ribbon without commands: a project whose RTD
\* server is never torn down is always told so, and no other project is.
TeardownGapNotSilent ==
  stage = "emitted" => (warned <=> cfg.rtd.enabled /\ ~RibbonEnabled(cfg.ribbon))
=============================================================================
