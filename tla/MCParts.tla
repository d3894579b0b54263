------------------------------- MODULE MCParts -------------------------------
EXTENDS Parts

-----------------------------------------------------------------------------
(* Constants: the hint store and the Jev client                            *)

mcHistories == {<<"k1">>, <<"k1", "k2">>, <<"plain", "k2", "system">>}

mcCompacted == {{1, 2}}

-----------------------------------------------------------------------------
(* Constants: planning and selection                                       *)

mcTool ==
  {"Glob", "Edit", "Write", "write", "Grep", "Read", "Agent", "Bash", "grep", "read_file",
   "spawn_subagent", "send_feedback", "get_date", "get_time", "search_tool", "grep_search",
   "task", "run_terminal_cmd", "list_dir", "search_replace", "Grep_Search"}

mcKind == [t \in mcTool |->
  CASE t \in {"Grep", "grep"} -> "grep" [] t \in {"grep_search", "Grep_Search"} -> "search"
    [] t \in {"Read", "read_file"} -> "read" [] t \in {"Bash", "run_terminal_cmd"} -> "exec"
    [] t \in {"Agent", "spawn_subagent", "task"} -> "agent"
    [] t = "send_feedback" -> "meta" [] t = "search_replace" -> "edit" [] OTHER -> "other"]

mcAliases == [t \in mcTool |->
  CASE t = "Agent" -> <<"task", "spawn_subagent">> [] t = "spawn_subagent" -> <<"Agent", "task">>
    [] t = "Grep" -> <<"grep", "grep_search">> [] t = "Read" -> <<"read_file">>
    [] t = "Edit" -> <<"search_replace">> [] t = "Bash" -> <<"run_terminal_cmd">>
    [] t = "run_terminal_cmd" -> <<"Bash">> [] t = "grep_search" -> <<"Grep_Search">>
    [] t = "Write" -> <<"write">> [] t = "write" -> <<"Write">> [] t = "Grep_Search" -> <<"grep_search">>
    [] t = "grep" -> <<"Grep">> [] OTHER -> <<>>]

mcNative == [h \in {"claude", "grok"} |->
  [t \in {"Read", "Edit", "Write", "Bash", "Glob", "Grep", "Agent"} |->
    IF h = "claude" THEN t
    ELSE CASE t = "Read" -> "read_file" [] t = "Edit" -> "search_replace" [] t = "Write" -> "write"
           [] t = "Bash" -> "run_terminal_cmd" [] t = "Glob" -> "list_dir"
           [] t = "Grep" -> "grep_search" [] OTHER -> "task"]]

mcDefaults == [h \in {"claude", "grok"} |->
  IF h = "claude" THEN <<"Read", "Bash", "Grep", "Agent">>
  ELSE <<"read_file", "run_terminal_cmd", "grep_search", "task">>]

mcSetup(h, mode, by) ==
  [host |-> h, mode |-> mode, by |-> by, filter |-> TRUE, shadow |-> FALSE,
   advise |-> FALSE, gate |-> 0, direct |-> {}, live |-> TRUE]

mcSetups ==
  {[mcSetup("grok", "forced", "hybrid") EXCEPT !.direct = {"get_time"}],
   mcSetup("grok", "filter", "local"),
   [mcSetup("grok", "filter", "jev") EXCEPT !.live = FALSE],
   [mcSetup("grok", "forced", "jev") EXCEPT !.shadow = TRUE],
   [mcSetup("claude", "filter", "hybrid") EXCEPT !.advise = TRUE],
   [mcSetup("claude", "filter", "local") EXCEPT !.advise = TRUE],
   mcSetup("claude", "filter", "jev"),
   mcSetup("grok", "baseline", "jev"),
   [mcSetup("grok", "filter", "jev") EXCEPT !.filter = FALSE],
   [mcSetup("grok", "forced", "hybrid") EXCEPT !.gate = 4]}

mcCatalogs == [h \in {"claude", "grok"} |->
  IF h = "claude" THEN {<<"grep", "Read", "Agent", "Bash">>}
  ELSE {<<"grep", "read_file", "spawn_subagent", "send_feedback", "search_tool">>,
        <<"get_date", "Grep_Search", "search_tool", "get_time">>, <<"search_tool">>, <<>>}]

mcTask(signals, shell, locate, symbols) ==
  [signals |-> signals, shell |-> shell, locate |-> locate, nested |-> FALSE, symbols |-> symbols]

mcTasks ==
  {mcTask({}, FALSE, TRUE, FALSE), mcTask({"explore", "typo"}, FALSE, FALSE, FALSE),
   mcTask({"run_tests"}, TRUE, FALSE, FALSE), mcTask({}, FALSE, FALSE, TRUE)}

mcRequest(form, marks, refs, target) ==
  [form |-> form, marks |-> marks, refs |-> refs, target |-> target]

mcRequests ==
  {mcRequest("messages", {}, {"grep"}, FALSE),
   mcRequest("input", {}, {}, FALSE), mcRequest("messages", {"anthropic"}, {}, TRUE),
   mcRequest("messages", {"anthropic", "thinking"}, {}, FALSE),
   mcRequest("input", {"previous"}, {}, FALSE), mcRequest("messages", {"image"}, {}, FALSE),
   mcRequest("none", {}, {}, FALSE)}

(* What the theorems about Selection ask of the catalogues, and what Those *)
(* stands for.                                                             *)
ASSUME CataloguesAssumption == CataloguesServe

ASSUME SublistsAssumption ==
  \A n \in 0 .. 4 : \A s \in [1 .. n -> 1 .. 3], S \in SUBSET (1 .. 3) :
    Those(s, S) = SelectSeq(s, LAMBDA x : x \in S)

-----------------------------------------------------------------------------
(* Constants: steering, automatic application, the fitted state            *)

mcDeclare(type, name, ns) == [type |-> type, name |-> name, ns |-> ns]

mcShell == mcDeclare("function", "shell", "")
mcPatch == mcDeclare("custom", "patch", "functions")
mcSpawn == mcDeclare("function", "spawn", "agents")
mcWeb   == mcDeclare("hosted", "web", "")
mcTwin  == mcDeclare("function", "patch", "")

(* Two lists hold a name twice: of two types, and hosted beside callable.  *)
mcToolLists ==
  {<<>>, <<mcShell, mcPatch, mcSpawn, mcWeb>>, <<mcWeb, mcDeclare("function", "web", "")>>,
   <<mcSpawn, mcDeclare("function", "spawn", "")>>, <<mcPatch, mcTwin>>}

mcDeclared == UNION {{list[i] : i \in DOMAIN list} : list \in mcToolLists}

mcMentions == [t \in Text |-> CASE t = "fix" -> {"s1"} [] t = "ci" -> {"mcp_db"} [] OTHER -> {"s2", "s3", "cli"}]

mcShape == [kind : {"text", "call"}, long : BOOLEAN] \cup {[kind |-> "result", long |-> FALSE]}

mcTokens(full, inputs200, inputs60, abridged, collapsed, compacted) ==
  [full |-> full, inputs200 |-> inputs200, inputs60 |-> inputs60, abridged |-> abridged,
   collapsed |-> collapsed, compacted |-> compacted, left_out |-> 0]

mcSize == [s \in mcShape |->
  CASE s.kind = "text" /\ s.long -> mcTokens(5, 5, 5, 3, 2, 2)
    [] s.kind = "text" /\ ~s.long -> mcTokens(1, 1, 1, 1, 2, 2)
    [] s.kind = "call" /\ s.long -> mcTokens(6, 4, 3, 3, 3, 2)
    [] s.kind = "call" /\ ~s.long -> mcTokens(2, 2, 2, 2, 2, 2)
    [] s.kind = "result" -> mcTokens(2, 2, 2, 2, 2, 1)]

-----------------------------------------------------------------------------
(* Constants: bodies and Connect frames                                    *)

mcUnit == {"start", "delta", "end", "plain", "done", "ev", "doc", "frame", "use", "bye", "bad",
           "book", "line", "cut", "says"}

mcSort == [u \in mcUnit |->
  CASE u \in {"start", "delta", "end", "plain", "line", "cut"} -> "data" [] u = "done" -> "done"
    [] u = "ev" -> "event" [] u \in {"doc", "book", "says"} -> "doc" [] u \in {"frame", "use"} -> "frame"
    [] u = "bye" -> "trailer" [] u = "bad" -> "failure"]

mcUsage == [u \in mcUnit |->
  CASE u = "start" -> 1 [] u = "delta" -> 2 [] u = "doc" -> 3 [] u = "use" -> 4
    [] u = "bye" -> 5 [] u \in {"cut", "says"} -> 6 [] OTHER -> None]

mcEdits == [u \in mcUnit |->
  CASE u = "end" -> 1 [] u = "delta" -> 2 [] u = "doc" -> 3 [] u \in {"cut", "says"} -> 6
    [] OTHER -> None]

mcDocument == [type |-> "json", units |-> <<"doc">>]

(* An event stream, one with a line over the limit, two that are labelled  *)
(* as JSON, a document, one that quotes a marker, one over the limit, and  *)
(* two Connect streams of which the second one fails.                      *)
mcBodies ==
  {[type |-> "sse", units |-> <<"ev", "start", "plain", "delta">>],
   [type |-> "sse", units |-> <<"cut", "line", "delta">>],
   [type |-> "json", units |-> <<"ev", "start", "end", "done">>],
   [type |-> "json", units |-> <<"cut", "ev", "end">>],
   [type |-> "json", units |-> <<"says">>],
   mcDocument,
   [type |-> "json", units |-> <<"book">>],
   [type |-> "connect", units |-> <<"frame", "use", "bye">>],
   [type |-> "connect", units |-> <<"use", "frame", "bad">>]}

mcItem(kind, id, text_) == [kind |-> kind, id |-> id, text |-> text_]
mcNamed(name, def) == [name |-> name, def |-> def]
mcNativeFrame(history_, catalog) == [json |-> <<>>, history |-> history_, catalog |-> catalog]
mcJSONFrame(json) == [json |-> json, history |-> <<>>, catalog |-> <<>>]

mcFrames ==
  {mcNativeFrame(<<mcItem("opaque", "letter", "none"), mcItem("call", "digit", "none"),
                   mcItem("result", "digit", "short"), mcItem("result", "letter", "long")>>,
                 <<mcNamed("r", 1), mcNamed(None, 2), mcNamed("g", 3), mcNamed("r", 4)>>),
   mcNativeFrame(<<mcItem("call", "letter", "none")>>, <<mcNamed("r", 1), mcNamed("g", 3)>>),
   mcNativeFrame(<<mcItem("text", "letter", "long"), mcItem("text", "digit", "long")>>,
                 <<mcNamed("r", 1)>>),
   mcJSONFrame(<<"other", "chat", "part">>), mcJSONFrame(<<"part", "other">>)}

-----------------------------------------------------------------------------
(* Constants: the benchmark                                                *)

(* The third process is given the number of the first one.                 *)
mcPid == [p \in Proc |-> IF p = 2 THEN 102 ELSE 101]

(* The third output has a line that is too long to scan.                   *)
mcOutputs == {<<"more", "end">>, <<"end", "more">>, <<"more", "more", "more", "end">>, <<>>}

mcReply(billed, usage, model) ==
  [billed |-> billed, usage |-> usage, partial |-> FALSE, short |-> FALSE, missing |-> "", canceled |-> FALSE,
   model |-> model, control |-> FALSE, applied |-> FALSE]

mcUnsettled == mcReply(1, None, "main")

(* Complete ones of two models; broken off after a part of the usage; with *)
(* a part of it before a size limit; none reported; canceled; answered by  *)
(* the proxy itself; a control request.                                    *)
mcReplies ==
  {mcReply(2, 2, "main"),
   mcReply(1, 1, "side"),
   [mcReply(2, 1, "main") EXCEPT !.short = TRUE],
   [mcReply(2, 1, "main") EXCEPT !.partial = TRUE],
   [mcReply(1, None, "main") EXCEPT !.missing = "no_usage"],
   [mcReply(1, None, "main") EXCEPT !.canceled = TRUE],
   [mcReply(0, None, "main") EXCEPT !.missing = "not_called", !.applied = TRUE],
   [mcReply(0, None, "") EXCEPT !.missing = "no_usage", !.control = TRUE]}

mcPlan == <<[mode |-> "off", rep |-> 1], [mode |-> "on", rep |-> 1]>>
=============================================================================
