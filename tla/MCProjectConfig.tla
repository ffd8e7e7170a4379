-------------------------- MODULE MCProjectConfig --------------------------
(***************************************************************************)
(* xll.yaml files that differ from a plain project in one section at a     *)
(* time: every mode with every type in result and argument position, every *)
(* combination of the options of a function, pairs of functions, of        *)
(* commands and of events under every kind of name, and each RTD, ribbon,  *)
(* chunk and text setting with its malformed values.                       *)
(***************************************************************************)
EXTENDS ProjectConfig

Names == {"Add", "add", "Sub", "Echo", "for", "class", "1st", "main", "a_b", ""}

MCUpper == [n \in Names \union {"OnConnection", "k", "K", "m"} |->
  CASE n \in {"Add", "add"} -> "ADD" [] n = "Sub" -> "SUB" [] n = "Echo" -> "ECHO"
    [] n = "OnConnection" -> "ONCONNECTION"
    [] n \in {"k", "K"} -> "K" [] OTHER -> n]

MCLower == [m \in {"", "sync", "Async", "RTD", "RTD-Once", "batch", "info", "WARN", "warn", "trace",
                   "async", "rtd", "rtd-once"} |->
  CASE m = "Async" -> "async" [] m = "RTD" -> "rtd" [] m = "RTD-Once" -> "rtd-once"
    [] m = "WARN" -> "warn" [] OTHER -> m]

OnEvents == {"OnCalculationEnded", "OnCalculationCanceled"}
MCWellFormed ==
  (Names \ {"1st", ""}) \union OnEvents \union {"x", "y", "generated", "CalculationEnded",
    "OnSub", "OnConnection"}

Types == validArgTypes \union {"int?"}
Durations == {Unset, [kind |-> "malformed", ms |-> 0], [kind |-> "ms", ms |-> 5]}
MoreDurations == Durations \union {[kind |-> "ms", ms |-> -1]}
Texts == {NoText} \union [legal : BOOLEAN, len : {7, 33, 40}]

Plain == [name |-> "Sub", args |-> <<>>, return |-> "int", async |-> FALSE, mode |-> "",
          timeout |-> Unset, memoize |-> FALSE, ttl |-> Unset, placeholder |-> FALSE,
          caller |-> FALSE, macro |-> FALSE, shortcut |-> ""]

Project ==
  [name |-> [legal |-> TRUE, len |-> 7], package |-> "", singlefile |-> "",
   tempDir |-> NoText, level |-> "", logDir |-> NoText, functions |-> <<>>,
   events |-> <<>>, commands |-> <<>>, timeout |-> Unset, ackTimeout |-> Unset,
   rtd |-> [enabled |-> FALSE, progId |-> NoText, clsid |-> "", throttle |-> Unset],
   chunk |-> [maxBufferBytes |-> 0, maxConcurrentTransfers |-> 0,
              cleanupInterval |-> Unset, bufferTTL |-> Unset],
   ribbon |-> [tab |-> FALSE, xml |-> FALSE, buttons |-> <<>>, progId |-> NoText,
               clsid |-> "", bounce |-> ""]]

WithRtd == [Project EXCEPT !.rtd.enabled = TRUE, !.rtd.progId = [legal |-> TRUE, len |-> 7]]

ArgOf(n, t) == [name |-> n, type |-> t]

Modes == {"", "sync", "Async", "RTD", "RTD-Once", "batch"}

Typed ==
  {[Plain EXCEPT !.mode = m, !.return = r, !.args = a, !.caller = k] :
     m \in Modes, r \in Types, k \in BOOLEAN,
     a \in {<<ArgOf("x", t), ArgOf("y", "float")>> : t \in Types} \union
           {<<ArgOf(n, "int"), ArgOf("x", "int")>> : n \in {"x", "a_b", "class", "y"}}}

Optioned ==
  {[Plain EXCEPT !.mode = m, !.async = s, !.timeout = t, !.memoize = k, !.ttl = l,
                 !.placeholder = p, !.macro = o, !.shortcut = h] :
     m \in Modes, s \in BOOLEAN, t \in Durations, k \in BOOLEAN, l \in MoreDurations,
     p \in BOOLEAN, o \in BOOLEAN, h \in {"", "kk"}}

FunctionConfigs ==
  {[c EXCEPT !.functions = <<f>>] : c \in {Project, WithRtd}, f \in Typed \union Optioned}
    \union
  {[WithRtd EXCEPT !.functions = <<[Plain EXCEPT !.name = n, !.mode = m],
                                   [Plain EXCEPT !.name = o, !.mode = k]>>] :
     n \in Names, o \in {"Add", "Sub"}, m \in {"", "RTD"}, k \in {"RTD", "RTD-Once", "sync"}}

Cmd(n, h, s) == [name |-> n, handler |-> h, shortcut |-> s]

CommandConfigs ==
  {[Project EXCEPT !.functions = <<Plain>>,
                   !.commands = <<Cmd(n, h, s), Cmd("Add", "", "k")>>] :
     n \in Names, h \in {"", "Sub", "for"}, s \in {"", "K", "m", "kk"}}

EventOf(t, h) == [type |-> t, handler |-> h]

EventTypes == validEventTypes \union {"SheetChange"}

EventConfigs ==
  {[Project EXCEPT !.functions = <<Plain>>, !.events = <<EventOf(t, h)>>] :
     t \in EventTypes, h \in {"", "Add", "Sub", "CalculationEnded"}} \union
  {[Project EXCEPT !.events = <<EventOf(t, h), EventOf(u, g)>>] :
     t \in EventTypes, u \in validEventTypes, h \in {"", "Add", "for"},
     g \in {"", "Add", "Sub"}}

RibbonConfigs ==
  {[p EXCEPT !.commands = c,
     !.ribbon = [tab |-> t, xml |-> x, buttons |-> b, progId |-> i, clsid |-> g,
                 bounce |-> o]] :
     p \in {Project, WithRtd, [Project EXCEPT !.name.len = 33]},
     c \in {<<>>, <<Cmd("Add", "", "")>>, <<Cmd("add", "Echo", ""), Cmd("Add", "", "")>>},
     t \in BOOLEAN, x \in BOOLEAN, i \in {NoText, [legal |-> TRUE, len |-> 40]},
     g \in {"", "guid", "malformed"}, o \in {"", "off", "half"},
     b \in {<<>>} \union
       {<<[command |-> n, image |-> m, size |-> z]>> :
          n \in {"Add", "Sub", ""}, m \in {"", "file", "path"}, z \in {"", "huge"}}}

MemberConfigs ==
  {[Project EXCEPT !.commands = <<Cmd("Add", "", ""), Cmd(n, "OnSub", "")>>, !.ribbon.tab = TRUE,
     !.ribbon.buttons = <<[command |-> n, image |-> "", size |-> ""]>>] :
     n \in {"Sub", "OnConnection"}}

SettingConfigs ==
  {[Project EXCEPT !.name = n] : n \in Texts} \union
  {[Project EXCEPT !.package = k] : k \in Names} \union
  {[Project EXCEPT !.singlefile = s, !.tempDir = t, !.level = l, !.logDir = t] :
     s \in {"", "xll", "exe"}, t \in Texts, l \in {"", "WARN", "trace"}} \union
  {[Project EXCEPT !.timeout = t, !.ackTimeout = a, !.chunk.cleanupInterval = i,
                   !.chunk.maxBufferBytes = n] :
     t \in Durations, a \in Durations, i \in Durations, n \in {-1, 0}} \union
  {[Project EXCEPT !.rtd = [enabled |-> e, progId |-> p, clsid |-> g, throttle |-> t]] :
     e \in BOOLEAN, p \in Texts, g \in {"", "malformed"}, t \in MoreDurations}

MCConfigs ==
  FunctionConfigs \union CommandConfigs \union EventConfigs \union RibbonConfigs
    \union MemberConfigs \union SettingConfigs
=============================================================================
