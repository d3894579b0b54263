------------------------------ MODULE Planning ------------------------------
(***************************************************************************)
(* The local decision about the next tool (internal/plan/plan.go): which   *)
(* goals of a task remain, and which tool of the offered ones comes next.  *)
(* Operators only; Selection uses them turn by turn.                       *)
(*                                                                         *)
(* A task is what Extract and its helpers recognise in the request's text: *)
(* the signals, whether it asks for a shell command, for searching and     *)
(* reading in order, whether the reader is itself a subagent, and whether  *)
(* it names symbols to be looked up.  The score of a description against   *)
(* the words of the request is not modelled: any tool that is not a host   *)
(* UX tool may score best, or none.                                        *)
(***************************************************************************)
EXTENDS Absent, Sublists, SequencesExt

CONSTANTS
  Host,        \* hosts
  Tool,        \* tool names
  Kind,        \* tool -> what the code recognises in its name
  Aliases,     \* tool -> what AliasIn tries instead of it, in order: its alternatives, then
               \* the same name in other letter case
  Native,      \* host -> name of a Claude built-in -> the host's name for it
  Defaults     \* host -> the tools assumed when none is offered

ASSUME PlanningAssumption ==
  /\ Kind \in [Tool -> {"grep", "search", "read", "edit", "exec", "agent", "meta", "other"}]
  /\ Aliases \in [Tool -> Seq(Tool)]
  /\ Defaults \in [Host -> Seq(Tool)]
  /\ \A h \in Host : Native[h] \in [DOMAIN Native[h] -> Tool]
  /\ "Bash" \in Tool /\ {None, "respond_to_user"} \cap Tool = {}

Respond == "respond_to_user"

Signal == {"failing_test", "typo", "health", "review", "e2e", "sentry", "run_tests", "explore"}

(* An explicit shell request is never taken for a sequential search.       *)
Task == {t \in [signals : SUBSET Signal, shell : BOOLEAN, locate : BOOLEAN,
                nested : BOOLEAN, symbols : BOOLEAN] : ~(t.shell /\ t.locate)}

Names(tools) == {tools[i] : i \in DOMAIN tools}

OfKind(tools, kind) == Those(tools, {t \in Names(tools) : Kind[t] = kind})

HostMeta(t) == t \in Tool /\ Kind[t] = "meta"

IsAgent(t) == Kind[t] = "agent"

-----------------------------------------------------------------------------
(* Tools offered under another name                                        *)

AliasIn(offered, want) ==
  LET known == Those(Aliases[want], offered)
  IN IF want \in offered THEN want ELSE IF known # <<>> THEN Head(known) ELSE None

(* A search tool first, else one that reads, else a shell.                 *)
PreferLocateTool(tools) ==
  LET ranked == OfKind(tools, "grep") \o OfKind(tools, "read") \o OfKind(tools, "exec")
  IN IF ranked # <<>> THEN Head(ranked) ELSE None

-----------------------------------------------------------------------------
(* The goals of a task, in the order they are pursued                      *)

Wants(task, names) == task.signals \cap names # {}

Explores(task) == "explore" \in task.signals /\ ~task.nested /\ ~task.locate

Goal(when, names) == IF when THEN <<names>> ELSE <<>>

Goals(task) ==
  LET located == task.locate
      fixes == {"typo", "failing_test", "sentry"}
      reads == Wants(task, fixes \cup {"health"}) IN
  Goal(located, <<"Grep">>) \o Goal(located, <<"Read">>) \o Goal(Explores(task), <<"Agent">>)
  \o Goal(Wants(task, {"sentry"}), <<"sentry_get_issue">>)
  \o Goal(Wants(task, {"review"}), <<"github_get_pr">>)
  \o Goal(Wants(task, {"e2e"}) /\ ~located, <<"playwright_navigate", "playwright_snapshot">>)
  \o Goal(reads, <<"Grep", "Glob">>)
  \o Goal(Wants(task, {"review"}), <<"Read", "github_get_file">>)
  \o Goal(~Wants(task, {"review"}) /\ (reads \/ (Wants(task, {"e2e"}) /\ ~located)), <<"Read">>)
  \o Goal(~located /\ Wants(task, {"health"}), <<"Write">>)
  \o Goal(~located /\ Wants(task, fixes \cup {"health", "e2e"}), <<"Edit">>)
  \o Goal(Wants(task, {"review"}), <<"github_pr_review", "github_comment">>)
  \o Goal(~located /\ Wants(task, {"run_tests", "failing_test", "health", "e2e", "sentry"}), <<"Bash">>)

(* A goal is done when a tool of one of its names was called.              *)
Remaining(task, actions, host) ==
  LET called == {actions[i].tool : i \in DOMAIN actions}
      native == [i \in DOMAIN Goals(task) |-> [j \in DOMAIN Goals(task)[i] |-> Native[host][Goals(task)[i][j]]]]
  IN Those(native, {g \in Names(native) : Names(g) \cap called = {}})

-----------------------------------------------------------------------------
(* The decision                                                            *)

Decision(tool, pass, outcome, reason) ==
  [tool |-> tool, pass |-> pass, outcome |-> outcome, reason |-> reason, set |-> {}]

(* Of a local decision, and of what Jev answered (rewrite.go 42).          *)
Reasons == {"pending_agent", "agent_streak", "sequential_locate", "word_match", "catalog_score",
            "unknown"} \cup {"coverage", "coverage_short", "invalid", "no_tool_needed"}

Decisions == [tool : Tool \cup {Respond}, pass : BOOLEAN, outcome : {"selected", "defer"},
              reason : Reasons, set : SUBSET Tool]

Leave(outcome, reason) == Decision(Respond, TRUE, outcome, reason)

PendingAgent(actions) == \E i \in DOMAIN actions : actions[i].pending /\ IsAgent(actions[i].tool)

(* agentStreak >= 2: the last two calls launched agents.                   *)
AgentStreak(actions) ==
  /\ Len(actions) >= 2
  /\ \A i \in {Len(actions) - 1, Len(actions)} : IsAgent(actions[i].tool)

(* The first tool, under its own name or another, that serves a goal.      *)
GoalTool(task, tools, goals) ==
  LET served(i) == {j \in DOMAIN goals[i] : AliasIn(Names(tools), goals[i][j]) # None}
      open == {i \in DOMAIN goals : served(i) # {}}
      tool == AliasIn(Names(tools), goals[Min(open)][Min(served(Min(open)))])
      instead == PreferLocateTool(tools)
  IN IF open = {} THEN None
     ELSE IF task.locate /\ IsAgent(tool) /\ instead # None THEN instead ELSE tool

(* Slip: the only tool left is suggested again.                            *)
NeverUsed(actions, t) == FALSE

ActionUsed(actions, t) == AliasIn({actions[i].tool : i \in DOMAIN actions}, t) # None

(* specs: the offered tools; best: the one whose description scores best.  *)
DecideSpecs(task, actions, specs, host, best) ==
  LET offered == Those(specs, {t \in Names(specs) : ~HostMeta(t)})
      tools == IF offered = <<>> THEN Defaults[host] ELSE offered
      shell == AliasIn(Names(tools), "Bash")
      goal == GoalTool(task, tools, Remaining(task, actions, host))
      instead == PreferLocateTool(tools) IN
  CASE PendingAgent(actions) -> Leave("selected", "pending_agent")
    [] ~PendingAgent(actions) /\ AgentStreak(actions) -> Leave("selected", "agent_streak")
    [] OTHER ->
       IF task.shell /\ shell # None THEN Decision(shell, FALSE, "selected", "catalog_score")
       ELSE IF goal # None
       THEN Decision(goal, FALSE, IF task.locate THEN "selected" ELSE "defer",
                     IF task.locate THEN "sequential_locate" ELSE "word_match")
       ELSE IF task.locate
       THEN IF instead # None /\ ~ActionUsed(actions, instead)
            THEN Decision(instead, FALSE, "selected", "sequential_locate")
            ELSE Leave("defer", "unknown")
       ELSE IF best # None THEN Decision(best, FALSE, "defer", "catalog_score")
       ELSE Leave("defer", "unknown")
=============================================================================
