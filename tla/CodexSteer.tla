----------------------------- MODULE CodexSteer -----------------------------
(***************************************************************************)
(* Steering of Codex requests (internal/proxy/codex_steer.go and           *)
(* codex_tool_output.go): one question to Jev decides whether the request  *)
(* goes out with a tool_choice, and long tool outputs are cut.  Codex      *)
(* resends its whole history with every request and may declare other      *)
(* tools each time.                                                        *)
(*                                                                         *)
(* A turn is its size in units of the state budget; Cut and larger are the *)
(* tool outputs over codexToolOutputMaxBytes.  A declared tool has a type, *)
(* a name (for a hosted tool its type) and the namespace it is nested in.  *)
(***************************************************************************)
EXTENDS Absent, Integers, Sequences, FiniteSets, SequencesExt

CONSTANTS
  Declared,    \* tools that requests declare
  ToolLists,   \* sequences of them, as tools and additional_tools give them
  DefaultNamespace, \* whose tools go by their bare name ("functions")
  Turn,        \* sizes of turns
  Cut,         \* size of a cut output; greater sizes are cut
  StateMax,    \* budget of the state sent to Jev
  SteerTurns   \* bound: turns of a conversation

ASSUME SteerAssumption ==
  /\ Declared \subseteq [type : {"function", "custom", "hosted"}, name : STRING, ns : STRING]
  /\ ToolLists \subseteq Seq(Declared)
  /\ Turn \subseteq Nat /\ {Cut, StateMax, SteerTurns} \subseteq Nat /\ Cut \in Turn

VARIABLES
  truncates,   \* JEV_CODEX_TOOL_OUTPUT_TRUNCATE
  turns,       \* the history of the host
  steering,    \* the request being steered
  wire,        \* the history that went upstream with the last request
  wireBefore,  \* and with the one before
  outcome      \* what the last request went out with, until the next arrives

steerVars == <<truncates, turns, steering, wire, wireBefore, outcome>>

NoSteering == [at |-> "idle", tools |-> <<>>, choice |-> "auto", odd |-> "none", asked |-> <<>>]
HostChoice == [type |-> "host", name |-> ""]
NoTool == [type |-> "none", name |-> ""]
Untouched == [choice |-> HostChoice, of |-> NoSteering]

SteerInit ==
  /\ truncates \in BOOLEAN
  /\ turns = <<>> /\ wire = <<>> /\ wireBefore = <<>>
  /\ steering = NoSteering /\ outcome = Untouched

-----------------------------------------------------------------------------
(* The candidates (codexToolsFrom)                                         *)

Callable(tool) == tool.type # "hosted"

(* codexQualifiedName.                                                     *)
Namespaced(tool) == Callable(tool) /\ tool.ns \notin {"", DefaultNamespace}
Qualified(tool) == IF Namespaced(tool) THEN <<tool.ns, tool.name>> ELSE <<tool.name>>

(* A function or custom tool whose name was declared before, hosted tools  *)
(* included; a hosted tool is counted once and never collides.             *)
Collision(tools) ==
  \E i, j \in DOMAIN tools : i < j /\ Callable(tools[j]) /\ Qualified(tools[i]) = Qualified(tools[j])

(* What a name stands for: its first declaration.                          *)
Candidate(tools, name) == tools[CHOOSE i \in DOMAIN tools :
  Qualified(tools[i]) = name /\ \A j \in 1 .. i - 1 : Qualified(tools[j]) # name]

CandidateNames(tools) == {Qualified(tools[i]) : i \in DOMAIN tools}

-----------------------------------------------------------------------------
(* What is sent                                                            *)

(* Slip: outputs are cut only while the whole history is long.             *)
TruncateMiddleIfLong(t) == IF Len(turns) > 1 /\ t > Cut THEN Cut ELSE t

TruncateMiddle(t) == IF t > Cut THEN Cut ELSE t

Truncated == IF truncates THEN [i \in DOMAIN turns |-> TruncateMiddle(turns[i])] ELSE turns

(* codexBuildState: the newest turns within the budget, and always one.    *)
StateOf(history) ==
  LET Cost(n) == FoldLeft(LAMBDA a, b : a + b, 0, SubSeq(history, Len(history) - n + 1, Len(history)))
      fits == {n \in 1 .. Len(history) : n = 1 \/ Cost(n) <= StateMax}
  IN SubSeq(history, Len(history) - (CHOOSE n \in fits : \A m \in fits : m <= n) + 1, Len(history))

SendSteered(choice) ==
  /\ wire' = Truncated /\ wireBefore' = wire
  /\ outcome' = [choice |-> choice, of |-> steering]
  /\ steering' = NoSteering
  /\ UNCHANGED <<truncates, turns>>

-----------------------------------------------------------------------------

CodexTurn ==
  /\ steering.at = "idle" /\ Len(turns) < SteerTurns
  /\ \E t \in Turn : turns' = Append(turns, t)
  /\ UNCHANGED <<truncates, steering, wire, wireBefore, outcome>>

(* odd: a previous_response_id, or an agent message in the history.        *)
CodexRequest ==
  /\ steering.at = "idle"
  /\ \E tools \in ToolLists, choice \in {"auto", "required", "decided"},
        odd \in {"none", "previous", "agent_message"} :
       steering' = [at |-> "arrived", tools |-> tools, choice |-> choice, odd |-> odd, asked |-> <<>>]
  /\ outcome' = Untouched
  /\ UNCHANGED <<truncates, turns, wire, wireBefore>>

Steerable ==
  /\ steering.odd = "none" /\ steering.choice # "decided"
  /\ steering.tools # <<>> /\ ~Collision(steering.tools)
  /\ turns # <<>>

SteerPasses == steering.at = "arrived" /\ ~Steerable /\ SendSteered(HostChoice)

SteerWithoutJev == steering.at = "arrived" /\ Steerable /\ SendSteered(HostChoice)

SteerAsks ==
  /\ steering.at = "arrived" /\ Steerable
  /\ steering' = [steering EXCEPT !.at = "asking", !.asked = StateOf(Truncated)]
  /\ UNCHANGED <<truncates, turns, wire, wireBefore, outcome>>

(* The call failed, an answer is missing or not confident enough, or the   *)
(* two answers contradict each other.                                      *)
SteerUnsure == steering.at = "asking" /\ SendSteered(HostChoice)

(* "No tool needed" is only offered where a tool is not required.          *)
SteerNone ==
  /\ steering.at = "asking" /\ steering.choice # "required"
  /\ SendSteered(NoTool)

Forceable(tools, name) ==
  /\ name \in CandidateNames(tools)
  /\ Callable(Candidate(tools, name)) /\ ~Namespaced(Candidate(tools, name))

(* The service names a candidate, or something nobody declared.            *)
SteerTool ==
  /\ steering.at = "asking"
  /\ \E name \in CandidateNames(steering.tools) \cup {<<"undeclared">>} :
       SendSteered(IF Forceable(steering.tools, name)
                   THEN [type |-> Candidate(steering.tools, name).type, name |-> name[1]] ELSE HostChoice)

SteerNext ==
  \/ CodexTurn \/ CodexRequest \/ SteerPasses \/ SteerWithoutJev
  \/ SteerAsks \/ SteerUnsure \/ SteerNone \/ SteerTool

SteerSpec == SteerInit /\ [][SteerNext]_steerVars

-----------------------------------------------------------------------------

SteerTypeOK ==
  /\ turns \in Seq(Turn) /\ wire \in Seq(Turn) /\ wireBefore \in Seq(Turn)
  /\ steering.at \in {"idle", "arrived", "asking"}
  /\ steering.tools \in ToolLists \cup {<<>>}

(* The history of a request repeats the one before it byte for byte,       *)
(* whatever was cut and whatever was steered, so that the upstream's       *)
(* prompt cache holds ("same bytes in, same bytes out",                    *)
(* codex_tool_output.go 20); a tool is forced only if exactly one callable *)
(* tool of that type and bare name was declared, and only if the host left *)
(* the choice open; and Jev judges by the newest turns, at least one.      *)
SteeredRequest ==
  LET out == outcome.choice
      tools == outcome.of.tools
      asked == outcome.of.asked IN
  /\ IsPrefix(wireBefore, wire)
  /\ out # HostChoice =>
       /\ outcome.of.choice # "decided" /\ outcome.of.odd = "none"
       /\ out = NoTool => outcome.of.choice = "auto"
       /\ asked # <<>> /\ IsSuffix(asked, wire)
       /\ out # NoTool =>
            LET so == {i \in DOMAIN tools : /\ Callable(tools[i]) /\ tools[i].name = out.name
                                            /\ tools[i].ns \in {"", DefaultNamespace}}
            IN Cardinality(so) = 1 /\ \A i \in so : tools[i].type = out.type
=============================================================================
