----------------------------- MODULE AutoApply ------------------------------
(***************************************************************************)
(* Automatic application of a skill to the requests of one run of the      *)
(* gateway (autoApplyContext of internal/proxy/proxy.go with               *)
(* internal/plan/routing.go and capability.go), and what the run answers   *)
(* for it when it ends (requiredLeftover of cmd/jev-routing/main.go).      *)
(* autoApplyContext holds applyMu from its first line to its last, the     *)
(* call to Jev included, so it is one action.                              *)
(*                                                                         *)
(* A text is the request of a task, the same in all requests of the task.  *)
(* The catalogue is a set of ids and never shrinks: what was configured    *)
(* and every tool a request declared.  A declared tool whose name begins   *)
(* with "skill" counts as a skill, and one with "mcp" in its name as a     *)
(* command, as the configured CLI and MCP tools do.                        *)
(***************************************************************************)
EXTENDS Absent, FiniteSets

CONSTANTS
  Text,        \* requests of users
  Skill,       \* ids of skills
  Command,     \* ids of CLI and MCP tools, configured or declared by a host
  HostTool,    \* ids of the other tools that hosts declare
  Configured,  \* what the catalogue holds at the start
  Mentions,    \* text -> the skills and commands whose names it contains
  Uninstalled, \* skills that are configured and not available
  Bodiless     \* skills without a body or description to deliver

(* An id names one thing.                                                  *)
ASSUME AutoApplyAssumption ==
  /\ Skill \cap Command = {} /\ Skill \cap HostTool = {} /\ Command \cap HostTool = {}
  /\ {None, "failed"} \cap Skill = {} /\ None \notin Text \cup {"success"}
  /\ Configured \subseteq Skill \cup Command
  /\ Mentions \in [Text -> SUBSET (Skill \cup Command)]
  /\ Uninstalled \cup Bodiless \subseteq Skill
  /\ Uninstalled \subseteq Configured

VARIABLES
  policy,      \* required: JEV_APPLICATION_POLICY; applies: the kinds in the mode "apply"
  known,       \* ids of the catalogue
  applied,     \* decision id -> the skill delivered for it, or "failed"; a partial function
  applyErr,    \* ApplyErr is set
  task,        \* the last request: its text, the skills there were, what it got
  firstSkill,  \* history: the first skill of each task with these skills
  unserved,    \* history: a request went out without a skill it named or got
  exit         \* exit code of the run, or None

applyVars == <<policy, known, applied, applyErr, task, firstSkill, unserved, exit>>

Policy == [required : BOOLEAN, applies : SUBSET {"skills", "commands"}]

NoRequest == [text |-> None, skills |-> {}, got |-> None]

ApplyInit ==
  /\ policy \in Policy
  /\ known = Configured /\ applied = <<>> /\ applyErr = FALSE
  /\ task = NoRequest /\ firstSkill = <<>> /\ unserved = FALSE /\ exit = None

Set(f, k, v) == [x \in DOMAIN f \cup {k} |-> IF x = k THEN v ELSE f[x]]

-----------------------------------------------------------------------------

(* What the text names and the policy applies.                             *)
NamedSkills(text, cat) == IF "skills" \in policy.applies THEN Mentions[text] \cap cat \cap Skill ELSE {}
NamedCommands(text, cat) ==
  IF "commands" \in policy.applies THEN Mentions[text] \cap cat \cap Command ELSE {}

(* Named skills; named commands if there are none.                         *)
Explicit(text, cat) ==
  IF NamedSkills(text, cat) # {} THEN NamedSkills(text, cat) ELSE NamedCommands(text, cat)

(* A command decides what is done about the text.                          *)
TakesOver(text, cat) == ~(Explicit(text, cat) \subseteq Skill)

(* Slip: the skills of a task are told apart by the whole catalogue.       *)
RevisionOfAll(text, cat) == <<text, cat>>

(* DecisionIDFor: only skills count unless a command is what was named.    *)
DecisionID(text, cat) ==
  <<text, IF TakesOver(text, cat) THEN cat ELSE cat \cap Skill>>

(* Route: explicit[0] decides if all that is named is installed; otherwise *)
(* Jev picks an eligible skill, or none, or does not answer.               *)
Routes(text, cat) ==
  LET explicit == Explicit(text, cat) IN
  IF explicit = {} THEN {None} \cup ((cat \cap Skill) \ Uninstalled)
  ELSE IF explicit \cap Uninstalled # {} THEN {None} ELSE explicit

NotSelected(text, cat) == policy.required /\ Explicit(text, cat) # {}

(* autoApplyContext and what Handler does with its result: Apply records   *)
(* the delivery; the request takes what is applied if it has a place for   *)
(* a skill (ApplyHostContext) or neither continues a response nor forces   *)
(* a tool, which a command asks for (inspectBlocksCalls).                  *)
AutoApply ==
  /\ exit = None
  /\ \E text \in Text, tools \in SUBSET (HostTool \cup ((Skill \cup Command) \ Configured)),
        followup, takes \in BOOLEAN :
       LET cat == known \cup tools
           id == DecisionID(text, cat)
           before == IF id \in DOMAIN applied THEN applied[id] ELSE None
           skills == cat \cap Skill IN
       /\ known' = cat
       /\ \E item \in Routes(text, cat) \cup {None} :
            LET again == before \in Skill
                routed == ~again /\ ~followup /\ (Explicit(text, cat) # {} \/ skills # {})
                chosen == routed /\ item \in Skill /\ "skills" \in policy.applies
                got == IF again THEN before ELSE IF chosen /\ item \notin Bodiless THEN item ELSE None
                asked == IF followup THEN {} ELSE NamedSkills(text, cat) IN
            /\ routed => item \in Routes(text, cat)
            /\ applied' = IF chosen THEN Set(applied, id, IF item \in Bodiless THEN "failed" ELSE item)
                          ELSE applied
            /\ applyErr' = (\/ applyErr
                            \/ routed /\ item = None /\ NotSelected(text, cat)
                            \/ routed /\ item \in Command /\ ~takes /\ policy.required
                            \/ chosen /\ item \in Bodiless
                            \/ got # None /\ ~takes /\ policy.required)
            /\ task' = [text |-> text, skills |-> skills, got |-> got]
            /\ firstSkill' = IF got # None /\ <<text, skills>> \notin DOMAIN firstSkill
                             THEN Set(firstSkill, <<text, skills>>, got) ELSE firstSkill
            /\ unserved' = (unserved \/ (got # None /\ ~takes) \/ (asked # {} /\ got \notin asked))
  /\ UNCHANGED <<policy, exit>>

(* The host has ended well; requiredLeftover may object.                   *)
RunEnds ==
  /\ exit = None
  /\ exit' = IF policy.required /\ (applyErr \/ \E id \in DOMAIN applied : applied[id] = "failed")
             THEN "failure" ELSE "success"
  /\ UNCHANGED <<policy, known, applied, applyErr, task, firstSkill, unserved>>

ApplyNext == AutoApply \/ RunEnds

ApplySpec == ApplyInit /\ [][ApplyNext]_applyVars

-----------------------------------------------------------------------------

ApplyTypeOK ==
  /\ policy \in Policy
  /\ known \subseteq Skill \cup Command \cup HostTool
  /\ \A id \in DOMAIN applied : applied[id] \in Skill \cup {"failed"}
  /\ unserved \in BOOLEAN
  /\ exit \in {None, "success", "failure"}

(* A skill stays with its task: once one was picked for a text, every      *)
(* request of the task, with a tool's result or a retry, gets the same     *)
(* one, whatever tools are declared and whatever other tasks got in        *)
(* between, as long as the skills stay the same, and unless a command      *)
(* takes over.  That happens as soon as a request of any task declares a   *)
(* tool with "mcp" in its name that the text contains, if commands are     *)
(* applied and no skill is named: the skill is then gone from the task     *)
(* (proxy.go 1057, 1065, 1070, 1077).  And under the required policy no    *)
(* run ends well in which some request named a skill and did not get it,   *)
(* or got one there was no place for (README 310).                         *)
SkillStaysWithTask ==
  LET first == <<task.text, task.skills>> IN
  /\ first \in DOMAIN firstSkill =>
       (task.got = firstSkill[first] <=> ~TakesOver(task.text, known))
  /\ policy.required /\ exit = "success" => ~unserved
=============================================================================
