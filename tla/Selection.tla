------------------------------ MODULE Selection ------------------------------
(***************************************************************************)
(* What the gateway does to the tools of a request: RewriteWith of         *)
(* internal/proxy/rewrite.go, turn by turn of one conversation.  The host  *)
(* sends its history and its catalogue again with every request, runs a    *)
(* tool the model was offered, and sends the next one.                     *)
(*                                                                         *)
(* A catalogue is a sequence of tool names; Sticky are the tools the       *)
(* gateway never touches (deferred, provider executed, of a foreign        *)
(* namespace).  The shape of a request is what inspectRequest tells apart. *)
(* Hints, native compaction and Codex steering are modules of their own.   *)
(***************************************************************************)
EXTENDS Planning, Integers

CONSTANTS
  Sticky,      \* tools with isSticky
  ConstantArgs,\* tools whose arguments are all constants (directArgsFor)
  Setups,      \* the settings of gateways and their hosts
  Catalogs,    \* host -> the catalogues it sends
  Tasks,       \* tasks of conversations
  Requests,    \* what differs between requests of one conversation
  TurnMax      \* bound: tool calls of a conversation

Mark == {"functions", "previous", "anthropic", "thinking", "cached", "chosen",
         "duplicates", "odd_item", "odd_part", "image", "opaque"}

(* What searches and reads is an agent in no host's table and under no name. *)
NoAgents(host, goal) ==
  \A w \in Names(goal) : ~ \E a \in {Native[host][w]} \cup Names(Aliases[Native[host][w]]) : IsAgent(a)

ASSUME SelectionAssumption ==
  /\ Sticky \cup ConstantArgs \subseteq Tool /\ {"host", "none"} \cap Tool = {}
  /\ Setups \subseteq [host : Host, mode : {"baseline", "filter", "forced"},
       by : {"local", "jev", "hybrid"}, filter : BOOLEAN, shadow : BOOLEAN, advise : BOOLEAN,
       gate : Nat, direct : SUBSET Tool, live : BOOLEAN]
  /\ \A h \in Host : Catalogs[h] \subseteq Seq(Tool)
  /\ Tasks \subseteq Task
  /\ \A t \in Tasks, h \in Host :
       /\ Goals(t) \in Seq(Seq(DOMAIN Native[h]))
       /\ t.locate => \A i \in DOMAIN Goals(t) : NoAgents(h, Goals(t)[i])
  /\ Requests \subseteq [form : {"messages", "input", "prompt", "none"}, marks : SUBSET Mark,
                         refs : SUBSET Tool, target : BOOLEAN]
  /\ TurnMax \in Nat

VARIABLES
  setup,       \* the settings, or None before the conversation
  convo,       \* its task, catalogue and tool calls so far
  req,         \* the request being rewritten
  decision,    \* what was decided about it
  at,          \* how far RewriteWith is
  sent         \* what went upstream last

selVars == <<setup, convo, req, decision, at, sent>>

NoTask == [signals |-> {}, shell |-> FALSE, locate |-> FALSE, nested |-> FALSE, symbols |-> FALSE]
NoConvo == [task |-> NoTask, catalog |-> <<>>, actions |-> <<>>]
NoReq == [form |-> "none", marks |-> {}, refs |-> {}, target |-> FALSE]
Undecided == Leave("defer", "unknown")

(* choice: the tool_choice that goes out: the host's own, none, or a tool; *)
(* args: the tool whose constant arguments a direct reply carries.         *)
Unsent == [tools |-> <<>>, apply |-> "none", choice |-> "host", args |-> None, by |-> "pass"]

SelInit ==
  /\ setup = None /\ convo = NoConvo /\ req = NoReq
  /\ decision = Undecided /\ at = "none" /\ sent = Unsent

-----------------------------------------------------------------------------
(* The request (inspectRequest, collectMissingFlags)                       *)

Filterable(tools) == Those(tools, Names(tools) \ Sticky)

Refusals(r, tools) ==
  LET none == Filterable(tools) = <<>> IN
  << <<"functions" \in r.marks, "legacy_functions">>,
     <<"previous" \in r.marks, "previous_response_id">>,
     <<r.form = "none" \/ (r.form = "prompt" /\ none), "not_chat">>,
     <<"chosen" \in r.marks, "explicit_tool_choice">>,
     <<"duplicates" \in r.marks /\ ~none, "duplicate_names">>,
     <<none /\ tools # <<>>, "provider_executed">>,
     <<"odd_item" \in r.marks, "unrecognized_format">>,
     <<"odd_part" \in r.marks, "unknown_history">> >>

Refused(r, tools) ==
  LET refusals == Refusals(r, tools) IN \E i \in DOMAIN refusals : refusals[i][1]

Protocol(r) ==
  CASE r.form = "messages" -> IF r.marks \cap {"anthropic", "thinking"} # {} THEN "anthropic" ELSE "chat"
    [] r.form = "input" -> "responses"
    [] OTHER -> r.form

ForcedOK(r) ==
  \/ Protocol(r) \in {"chat", "responses"}
  \/ Protocol(r) = "anthropic" /\ r.marks \cap {"thinking", "cached"} = {}

MissingFlags(r) == r.marks \cap {"image", "opaque"}

-----------------------------------------------------------------------------
(* The catalogue                                                           *)

(* catalogAliasIn adds two host names to the aliases.                      *)
CatalogAliasIn(offered, want) ==
  IF AliasIn(offered, want) # None THEN AliasIn(offered, want)
  ELSE IF want = "grep_search" THEN AliasIn(offered, "Grep")
  ELSE IF want = "task" THEN AliasIn(offered, "Agent") ELSE None

Resolved(tools, names) == {CatalogAliasIn(Names(tools), n) : n \in names} \ {None}

(* Slip: referenced definitions are filtered like any other.               *)
FilterToolsUnreferenced(tools, want, refs) ==
  Those(tools, want \ Sticky) \o Those(tools, Sticky)

(* filterTools: what is wanted, then what is sticky or referenced by the   *)
(* history; nothing at all when nothing wanted can be filtered.            *)
FilterTools(tools, want, refs) ==
  LET kept == Those(tools, want \ Sticky)
  IN IF kept = <<>> THEN <<>>
     ELSE kept \o Those(tools, Sticky \cup (refs \ want))

(* keepLocatePair: the tools that search and read stay together.           *)
KeepLocatePair(tools, kept) ==
  kept \o Those(tools, {t \in Names(tools) \ Names(kept) : Kind[t] \in {"grep", "read", "search"}})

(* reconstructCatalog: the host's order, the sticky tools in their places. *)
Reconstruct(tools, kept) == Those(tools, Sticky \cup Names(kept))

(* The tools that may be suggested of a catalogue.                         *)
CandidatesOf(catalog) == {t \in Names(Filterable(catalog)) : ~HostMeta(t)}

MustKeep(c, r) == r.refs \cup (Names(c.catalog) \cap Sticky)

KeptFor(c, r, d) ==
  LET wish == IF d.set = {} THEN {d.tool} ELSE d.set
      kept == FilterTools(c.catalog, Resolved(c.catalog, wish), r.refs)
  IN IF c.task.locate THEN KeepLocatePair(c.catalog, kept) ELSE kept

-----------------------------------------------------------------------------
(* Sending                                                                 *)

Send(s) == at' = "sent" /\ sent' = s

(* The body goes out as it came, its tools and its tool_choice included.   *)
AsItCame(tools) == [Unsent EXCEPT !.tools = tools]

PassThrough == Send(AsItCame(convo.catalog)) /\ UNCHANGED <<setup, convo, req>>

Advising == setup.host = "claude" /\ ~setup.shadow /\ setup.filter

-----------------------------------------------------------------------------
(* The conversation                                                        *)

Begin ==
  /\ at = "none"
  /\ \E s \in Setups, t \in Tasks : \E c \in Catalogs[s.host] :
       /\ setup' = s
       /\ convo' = [task |-> t, catalog |-> c, actions |-> <<>>]
  /\ at' = "idle" /\ UNCHANGED <<req, decision, sent>>

Receive ==
  /\ at = "idle"
  /\ req' \in {r \in Requests : Advising \/ ~r.target}
  /\ at' = "arrived" /\ UNCHANGED <<setup, convo, decision, sent>>

(* Baseline, a filter that is off, advice that is off, a refused shape.    *)
PassBefore ==
  /\ at = "arrived"
  /\ \/ setup.mode = "baseline"
     \/ ~setup.filter /\ ~setup.shadow
     \/ setup.host = "claude" /\ ~setup.advise
     \/ Refused(req, convo.catalog)
     \/ Filterable(convo.catalog) = <<>>
  /\ PassThrough /\ UNCHANGED decision

Considered ==
  /\ at = "arrived" /\ setup.mode # "baseline" /\ (setup.filter \/ setup.shadow)
  /\ setup.host = "claude" => setup.advise
  /\ ~Refused(req, convo.catalog)

(* applyLocalLookup: every symbol was found, the catalogue goes.           *)
AnswerLocally ==
  /\ Considered /\ setup.host # "claude" /\ setup.filter /\ ~setup.shadow
  /\ convo.task.symbols /\ ~convo.task.locate /\ convo.actions = <<>>
  /\ Send([Unsent EXCEPT !.apply = "filter", !.choice = "none", !.by = "lookup"])
  /\ UNCHANGED <<setup, convo, req, decision>>

Decide ==
  /\ Considered /\ Filterable(convo.catalog) # <<>>
  /\ \E best \in {None} \cup CandidatesOf(convo.catalog) :
       decision' = DecideSpecs(convo.task, convo.actions, Filterable(convo.catalog), setup.host, best)
  /\ at' = "local" /\ UNCHANGED <<setup, convo, req, sent>>

-----------------------------------------------------------------------------
(* Whether Jev is asked                                                    *)

ShouldAsk == setup.by = "jev" \/ (setup.by = "hybrid" /\ decision.outcome # "selected")

SkipClassifier ==
  \/ MissingFlags(req) # {}
  \/ setup.gate > 0 /\ Len(Filterable(convo.catalog)) <= setup.gate

(* localFallback: only where Jev alone decides.                            *)
Fallback ==
  LET tool == CatalogAliasIn(Names(convo.catalog), decision.tool)
  IN IF setup.by # "jev" \/ decision.pass \/ tool = None THEN None ELSE tool

FallBackOrPass ==
  IF Fallback = None THEN PassThrough /\ UNCHANGED decision
  ELSE /\ decision' = [decision EXCEPT !.tool = Fallback, !.set = {Fallback}]
       /\ at' = "decided" /\ UNCHANGED <<setup, convo, req, sent>>

Unasked ==
  /\ at = "local" /\ ~ShouldAsk
  /\ at' = "decided" /\ UNCHANGED <<setup, convo, req, decision, sent>>

(* Nowhere to put the advice, nothing to gain, or a part Jev cannot see.   *)
NotWorthAsking ==
  /\ at = "local" /\ ShouldAsk
  /\ (Advising /\ ~req.target) \/ SkipClassifier
  /\ PassThrough /\ UNCHANGED decision

NobodyToAsk ==
  /\ at = "local" /\ ShouldAsk /\ ~(Advising /\ ~req.target) /\ ~SkipClassifier /\ ~setup.live
  /\ FallBackOrPass

AskJev ==
  /\ at = "local" /\ ShouldAsk /\ ~(Advising /\ ~req.target) /\ ~SkipClassifier /\ setup.live
  /\ at' = "asking" /\ UNCHANGED <<setup, convo, req, decision, sent>>

JevFails == at = "asking" /\ FallBackOrPass

Candidates == CandidatesOf(convo.catalog)

(* adoptCandidates: the leading tools of a distribution, at most half of   *)
(* them, if together they cover it; otherwise nothing is adopted.          *)
Adopted == {s \in SUBSET Candidates : s # {} /\ Cardinality(s) <= (Cardinality(Candidates) + 1) \div 2}

Shortlist(s) == s \cup MustKeep(convo, req)

(* The tool is the one chosen, or the first of the shortlist if it is not  *)
(* in there; an answer that is invalid, undecided, or says that no tool is *)
(* needed adopts none.                                                     *)
JevAnswers ==
  /\ at = "asking"
  /\ \/ \E reason \in {"invalid", "coverage_short", "no_tool_needed"} :
          decision' = Leave("defer", reason)
     \/ \E s \in Adopted : \E t \in (Shortlist(s) \cap Candidates) :
          /\ t \notin s => s \subseteq Candidates \ {t}
          /\ decision' = [Decision(t, FALSE, "selected", "coverage") EXCEPT !.set = Shortlist(s)]
  /\ at' = "answered" /\ UNCHANGED <<setup, convo, req, sent>>

-----------------------------------------------------------------------------
(* What is done about it                                                   *)

Settled == at \in {"decided", "answered"}

Suggested ==
  /\ ~decision.pass
  /\ CatalogAliasIn(Names(convo.catalog), decision.tool) # None
  /\ KeptFor(convo, req, decision) # <<>>

Suggests == Settled /\ Suggested

(* Nothing is suggested, or nothing under that name is offered; with no    *)
(* tool needed, Claude is advised to reply.                                *)
LeaveCatalogue ==
  /\ Settled /\ ~Suggested
  /\ IF Advising /\ decision.reason = "no_tool_needed" /\ req.target
     THEN Send([AsItCame(convo.catalog) EXCEPT !.apply = "advise"]) /\ UNCHANGED <<setup, convo, req>>
     ELSE PassThrough
  /\ UNCHANGED decision

ProposeOnly ==
  /\ Suggests /\ (setup.shadow \/ ~setup.filter)
  /\ PassThrough /\ UNCHANGED decision

DecidedBy == IF at = "answered" THEN "jev" ELSE "local"

(* The advice goes where req has a place for it; the catalogue stays.      *)
Advise ==
  /\ Suggests /\ Advising
  /\ IF req.target
     THEN /\ Send([AsItCame(convo.catalog) EXCEPT !.apply = "advise", !.by = DecidedBy])
          /\ UNCHANGED <<setup, convo, req>>
     ELSE PassThrough
  /\ UNCHANGED decision

Forces == setup.mode = "forced" /\ at = "answered" /\ ForcedOK(req)

(* The catalogue is narrowed, and in forced mode one tool is required; a   *)
(* chat request for an allowed tool may be answered without the upstream,  *)
(* with the constant arguments of the first tool kept.                     *)
Narrow ==
  LET kept == KeptFor(convo, req, decision)
      direct == /\ Forces /\ Protocol(req) = "chat" /\ decision.tool \in setup.direct
                /\ Head(kept) \in ConstantArgs IN
  /\ Suggests /\ ~setup.shadow /\ setup.filter /\ ~Advising
  /\ Send([tools |-> Reconstruct(convo.catalog, kept),
           apply |-> IF direct THEN "direct" ELSE IF Forces THEN "forced" ELSE "filter",
           choice |-> IF Forces THEN decision.tool ELSE "none",
           args |-> IF direct THEN Head(kept) ELSE None,
           by |-> DecidedBy])
  /\ UNCHANGED <<setup, convo, req, decision>>

-----------------------------------------------------------------------------
(* The host: the model calls a tool it was offered; an agent may still run *)
(* when the next request is sent.                                          *)

HostRuns ==
  /\ at = "sent" /\ Len(convo.actions) < TurnMax
  /\ \E t \in Names(sent.tools), p \in BOOLEAN :
       /\ p => IsAgent(t)
       /\ sent.choice \in Tool => t = sent.choice
       /\ convo' = [convo EXCEPT !.actions = Append(@, [tool |-> t, pending |-> p])]
  /\ at' = "idle" /\ req' = NoReq /\ decision' = Undecided /\ UNCHANGED <<setup, sent>>

AgentReports ==
  /\ at = "idle"
  /\ \E i \in DOMAIN convo.actions :
       /\ convo.actions[i].pending
       /\ convo' = [convo EXCEPT !.actions[i].pending = FALSE]
  /\ UNCHANGED <<setup, req, decision, at, sent>>

SelNext ==
  \/ Begin \/ Receive \/ PassBefore \/ AnswerLocally \/ Decide
  \/ Unasked \/ NotWorthAsking \/ NobodyToAsk \/ AskJev \/ JevFails \/ JevAnswers
  \/ LeaveCatalogue \/ ProposeOnly \/ Advise \/ Narrow
  \/ HostRuns \/ AgentReports

SelSpec == SelInit /\ [][SelNext]_selVars

-----------------------------------------------------------------------------

SelTypeOK ==
  /\ setup \in Setups \cup {None}
  /\ convo.task \in Tasks \cup {NoTask} /\ convo.catalog \in Seq(Tool)
  /\ convo.actions \in Seq([tool : Tool, pending : BOOLEAN])
  /\ req \in Requests \cup {NoReq}
  /\ decision \in Decisions
  /\ at \in {"none", "idle", "arrived", "local", "asking", "decided", "answered", "sent"}
  /\ sent.tools \in Seq(Tool) /\ sent.choice \in Tool \cup {"host", "none"}

(* What the theorems about this module say of the catalogues: of the tools *)
(* that can be filtered one is no host UX tool, or the decision would be   *)
(* about tools that were not offered.                                      *)
CataloguesServe == \A h \in Host : \A c \in Catalogs[h] : Filterable(c) = <<>> \/ CandidatesOf(c) # {}

(* However a catalogue was narrowed, the model can go on with it: the      *)
(* deferred and hosted tools and every definition the history refers to    *)
(* are still there, in the host's order, beside something it can call; a   *)
(* required tool is one of them and was chosen by Jev (README, "forced");  *)
(* and shadow mode and advice change nothing (filterTools at rewrite.go    *)
(* 1458, reconstructCatalog at 1107, the branches from 480).               *)
SentIsUsable ==
  (at = "sent" /\ sent.by # "lookup") =>
    LET offered == Names(convo.catalog) IN
    /\ sent.tools = Those(convo.catalog, Names(sent.tools))
    /\ offered \cap (Sticky \cup req.refs) \subseteq Names(sent.tools)
    /\ sent.apply \in {"none", "advise"} => (sent.tools = convo.catalog /\ sent.choice = "host")
    /\ sent.apply \in {"filter", "forced", "direct"} => Names(sent.tools) \ Sticky # {}
    /\ sent.choice \in Tool => (sent.choice \in Names(sent.tools) /\ sent.by = "jev")
    /\ setup.shadow => sent.apply = "none"

(* The host offers t for a step of the task that its table knows under     *)
(* another name, under which nothing was called.                           *)
StandsIn(t) ==
  \E goal \in Names(Remaining(convo.task, convo.actions, setup.host)) : \E n \in Names(goal) :
    n # t /\ AliasIn(CandidatesOf(convo.catalog), n) = t

(* A task of searching and then reading is walked through: a step that was *)
(* taken in an earlier turn is not what the local decision narrows to or   *)
(* advises again ("A completed locate step must not force its only         *)
(* remaining tool again", plan.go 422), and after two agents in a row, or  *)
(* with one still running, the local decision leaves the catalogue alone   *)
(* (plan.go 303, 381).  There is one way around the first: plan.go 238     *)
(* notes what was called by the name it was called, while a goal (245) and *)
(* its alias (345) start from the name the host's table has, so that a     *)
(* tool that stands in for another name is proposed turn after turn.       *)
NoLocalLoop ==
  (at = "sent" /\ sent.by = "local" /\ setup.by # "jev") =>
    /\ convo.task.locate =>
         \A i \in DOMAIN convo.actions : convo.actions[i].tool = decision.tool => StandsIn(decision.tool)
    /\ ~PendingAgent(convo.actions) /\ ~AgentStreak(convo.actions)
=============================================================================
