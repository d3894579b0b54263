-------------------------------- MODULE Bench --------------------------------
(***************************************************************************)
(* A benchmark series (internal/bench): runs of one task with routing on   *)
(* and off, the metering of each from the events its proxy left, the token *)
(* total a run is given, and the pairs that are published as comparable.   *)
(*                                                                         *)
(* Requests of the agent are concurrent, and a reply settles its event     *)
(* when it settles: before the meter reads the events or never.  Tokens of *)
(* a request are one number, input and output together.                    *)
(***************************************************************************)
EXTENDS Integers, Sequences, FiniteSets, FiniteSetsExt, Absent

CONSTANTS
  Cli,      \* the agent CLIs of a series, "claude" and "grok"
  AgentModel, \* the model it is started with
  Reply,      \* what a request may leave in its event, see ReplyType
  Unsettled,  \* the event of a request without a reply yet
  Plan,       \* the series: a sequence of [mode, rep]
  RequestMax, \* bound: requests of a run
  Checks      \* checks the verifier runs

(* billed is what the upstream counted, which the code never sees.  Nor    *)
(* does it see `short': the body ended before its last usage, as a Claude  *)
(* stream that breaks off after message_start, and is metered as complete. *)
(* partial is something else: a size limit of the collector was reached.   *)
ReplyType ==
  [billed : Nat, usage : Nat \cup {None}, partial : BOOLEAN, short : BOOLEAN, missing : STRING,
   canceled : BOOLEAN, model : STRING, control : BOOLEAN, applied : BOOLEAN]

(* A reply that came whole and was read whole reports what was billed, a   *)
(* request the proxy answered itself was billed nothing, and a request is  *)
(* marked as canceled where the upstream's answer failed to come, before   *)
(* any usage is collected.                                                 *)
ASSUME BenchAssumption ==
  /\ Cli \subseteq {"claude", "grok"}
  /\ {RequestMax, Checks} \subseteq Nat
  /\ Plan \in Seq([mode : {"on", "off", "direct"}, rep : Nat])
  /\ Reply \cup {Unsettled} \subseteq ReplyType
  /\ \A r \in Reply \cup {Unsettled} :
       /\ r.usage # None /\ ~r.partial /\ ~r.short => r.usage = r.billed
       /\ r.missing = "not_called" \/ r.control => r.billed = 0
       /\ r.canceled => r.usage = None
  /\ Unsettled.usage = None /\ Unsettled.missing = "" /\ ~Unsettled.canceled

VARIABLES
  cli,      \* the CLI of this series
  phase,      \* "idle", "agent", "ended", "recorded" or "stopped"
  step,       \* runs of the plan that were begun
  events,     \* the events of the current run's proxy
  clean,      \* the agent exited with 0 in time and stayed in its sandbox
  runs,       \* runs.jsonl
  published   \* the rows of comparison.json

benchVars == <<cli, phase, step, events, clean, runs, published>>

BenchInit ==
  /\ cli \in Cli
  /\ phase = "idle"
  /\ step = 0
  /\ events = <<>>
  /\ clean = TRUE
  /\ runs = <<>>
  /\ published = {}

-----------------------------------------------------------------------------
(* The meter                                                               *)

Inference(es) == {i \in DOMAIN es : ~es[i].control}
Upstream(es)  == {i \in Inference(es) : es[i].missing # "not_called"}
OfModel(es, m) == {i \in Upstream(es) : es[i].model = m}
ModelsOf(es)   == {es[i].model : i \in Upstream(es)} \ {""}

Complete(e)   == e.usage # None /\ ~e.partial
Metered(es)   == {i \in Inference(es) : Complete(es[i])}
Used(es, S)   == MapThenSumSet(LAMBDA i : es[i].usage, S \cap Metered(es))

(* What the upstream counted for a set of requests, and what of it a reply *)
(* said before it ended; no code computes these.                           *)
Billed(es, S) == MapThenSumSet(LAMBDA i : es[i].billed, S)

Told(e) == IF ~e.short THEN e.billed ELSE IF e.usage = None THEN 0 ELSE e.usage

ToldOf(es, S) == MapThenSumSet(LAMBDA i : Told(es[i]), S)

Incomplete(es) == {i \in Upstream(es) : ~Complete(es[i]) \/ es[i].missing # ""}
Unreported(es) == {i \in Incomplete(es) :
  es[i].usage = None /\ ~es[i].partial /\ (es[i].missing = "no_usage" \/ es[i].canceled)}
CanceledUnreported(es) == {i \in Unreported(es) : es[i].canceled}

MeterFails(es) == Inference(es) = {} \/ Incomplete(es) # {}

OnlyUsageMissing(es) ==
  Inference(es) # {} /\ Unreported(es) # {} /\ Unreported(es) = Incomplete(es)

-----------------------------------------------------------------------------
(* The agent's own ledger: [calls, tokens], None when it left none         *)

(* The model whose usage the ledger matches; None without one.             *)
ClaudeMatches(es, ledger) ==
  /\ AgentModel \in ModelsOf(es)
  /\ ledger.tokens \in {Used(es, OfModel(es, AgentModel)), Used(es, Upstream(es))}

GrokModels(es, ledger) ==
  {m \in ModelsOf(es) :
     /\ ledger.calls = Cardinality({i \in OfModel(es, m) : ~es[i].canceled})
     /\ ledger.tokens = Used(es, OfModel(es, m))}

(* A helper's call under the same model: one set of calls must fit.        *)
GrokSubsets(es, ledger) ==
  LET answered == {i \in Upstream(es) : ~es[i].canceled \/ es[i].usage # None}
      fits(S) == /\ Cardinality(S) = ledger.calls
                 /\ Cardinality({es[i].model : i \in S}) = 1
                 /\ Used(es, S) = ledger.tokens
  IN IF \A i \in answered : Complete(es[i]) /\ es[i].model # ""
       THEN {S \in SUBSET answered : fits(S)}
       ELSE {}

HostModel(es, ledger) ==
  IF ledger = None THEN None
  ELSE IF cli = "claude"
    THEN IF ClaudeMatches(es, ledger) THEN AgentModel ELSE None
  ELSE LET models  == GrokModels(es, ledger)
           subsets == GrokSubsets(es, ledger)
       IN IF Cardinality(models) = 1 THEN CHOOSE m \in models : TRUE
          ELSE IF models = {} /\ Cardinality(subsets) = 1
            THEN LET S == CHOOSE s \in subsets : TRUE
                 IN es[CHOOSE i \in S : TRUE].model
          ELSE None

-----------------------------------------------------------------------------
(* The total of a run                                                      *)

(* Slip: any request without usage is taken for a canceled one.            *)
ReconcilesAny(es) ==
  /\ OnlyUsageMissing(es)
  /\ Cardinality(Metered(es)) + Cardinality(Unreported(es)) = Cardinality(Upstream(es))

Reconciles(es) ==
  /\ OnlyUsageMissing(es)
  /\ CanceledUnreported(es) # {}
  /\ CanceledUnreported(es) = Unreported(es)
  /\ Cardinality(Metered(es)) + Cardinality(Unreported(es)) = Cardinality(Upstream(es))

(* assignTaskUsage and taskTokenTotal.  verified: the model the ledger     *)
(* vouches for; where it does not, a meter that was fine fails after all.  *)
TaskTokens(es, verified) ==
  IF /\ ~MeterFails(es) /\ verified # None
     /\ Cardinality(Metered(es)) = Cardinality(Upstream(es))
     /\ Upstream(es) # {}
    THEN Used(es, Upstream(es))
  ELSE IF cli = "grok" /\ verified # None /\ Reconciles(es)
    THEN Used(es, Upstream(es))
  ELSE None

(* The verifier prints the number of its checks and then a line for each;  *)
(* read is how many of the lines runProc delivered.                        *)
Solved(read, failed) ==
  read > 0 /\ Checks > 0 /\ Cardinality(1..(read - 1) \ failed) = Checks

Record(s, es, ledger, read, failed) ==
  LET verified == IF s.mode = "direct" THEN None ELSE HostModel(es, ledger)
      model    == IF cli = "grok" /\ verified # None THEN verified ELSE AgentModel
      answered == {i \in Upstream(es) : ~es[i].canceled}
  IN [mode |-> s.mode, rep |-> s.rep, model |-> model,
      tokens |-> IF s.mode = "direct" THEN None ELSE TaskTokens(es, verified),
      verified |-> verified # None,
      modelSeen |-> model \in ModelsOf(es),
      success |-> clean /\ Solved(read, failed),
      applied |-> \E i \in DOMAIN es : es[i].applied,
      \* what was really billed for answered requests, what they said of it,
      \* whether each was answered to its end, and what was really achieved
      billed |-> Billed(es, answered),
      told |-> ToldOf(es, answered),
      whole |-> \A i \in answered : ~es[i].short,
      achieved |-> failed = {}]

-----------------------------------------------------------------------------
(* Pairs                                                                   *)

RunsOf(rs, mode, rep) == {i \in DOMAIN rs : rs[i].mode = mode /\ rs[i].rep = rep}

Latest(rs, mode, rep) ==
  IF RunsOf(rs, mode, rep) = {} THEN None ELSE rs[Max(RunsOf(rs, mode, rep))]

Comparable(off, on) ==
  /\ off # None /\ on # None
  /\ off.model = on.model
  /\ off.modelSeen /\ on.modelSeen
  /\ off.success /\ on.success
  /\ off.tokens # None /\ on.tokens # None
  /\ cli = "claude" => off.verified /\ on.verified
  /\ on.applied

BuildComparisons(rs) ==
  {LET off  == Latest(rs, "off", rep)
       on   == Latest(rs, "on", rep)
       once == \A mode \in {"on", "off", "direct"} : Cardinality(RunsOf(rs, mode, rep)) <= 1
   IN [rep |-> rep, off |-> off, on |-> on,
       saved |-> IF once /\ Comparable(off, on) THEN off.tokens - on.tokens ELSE None]
   : rep \in {rs[i].rep : i \in DOMAIN rs}}

-----------------------------------------------------------------------------
StartRun ==
  /\ phase = "idle"
  /\ step < Len(Plan)
  /\ step' = step + 1
  /\ events' = <<>>
  /\ clean' = TRUE
  /\ phase' = "agent"
  /\ UNCHANGED <<cli, runs, published>>

(* A direct run has no proxy: none of its requests leaves an event.        *)
Request ==
  /\ phase = "agent"
  /\ Plan[step].mode # "direct"
  /\ Len(events) < RequestMax
  /\ events' = Append(events, Unsettled)
  /\ UNCHANGED <<cli, phase, step, clean, runs, published>>

(* Only routing on applies a selection.                                    *)
Settle(i, reply) ==
  /\ phase \in {"agent", "ended"}
  /\ i \in DOMAIN events
  /\ events[i] = Unsettled
  /\ reply.applied => Plan[step].mode = "on"
  /\ events' = [events EXCEPT ![i] = reply]
  /\ UNCHANGED <<cli, phase, step, clean, runs, published>>

(* The agent exits, or its time is up, or the series is interrupted, which *)
(* counts as a timeout of this run; requests may still be on their way.    *)
AgentEnds(fine) ==
  /\ phase = "agent"
  /\ clean' = fine
  /\ phase' = "ended"
  /\ UNCHANGED <<cli, step, events, runs, published>>

(* Meter, verifier, audit and record, and then runs.jsonl.                 *)
RecordRun(ledger, read, failed) ==
  /\ phase = "ended"
  /\ runs' = Append(runs, Record(Plan[step], events, ledger, read, failed))
  /\ events' = <<>>
  /\ clean' = TRUE
  /\ phase' = "recorded"
  /\ UNCHANGED <<cli, step, published>>

WriteComparison ==
  /\ phase = "recorded"
  /\ published' = BuildComparisons(runs)
  /\ phase' = "idle"
  /\ UNCHANGED <<cli, step, events, clean, runs>>

(* An interrupted series returns before the next run; a crash stops it     *)
(* anywhere, between its two files too.                                    *)
Stop ==
  /\ phase # "stopped"
  /\ phase' = "stopped"
  /\ events' = <<>>
  /\ clean' = TRUE
  /\ UNCHANGED <<cli, step, runs, published>>

(* What the CLI may have written down: the calls it had an answer to, of   *)
(* its own model or of all, or what it saw of them before they broke off.  *)
Ledgers ==
  LET seen(i) == IF events[i].usage = None THEN 0 ELSE events[i].usage
      told(S) == {[calls |-> Cardinality(S), tokens |-> Billed(events, S)],
                  [calls |-> Cardinality(S), tokens |-> MapThenSumSet(seen, S)]}
      answered(S) == {i \in S : ~events[i].canceled}
  IN {None} \cup told(answered(OfModel(events, AgentModel))) \cup told(answered(Upstream(events)))

BenchNext ==
  \/ StartRun
  \/ Request
  \/ \E i \in DOMAIN events, reply \in Reply : Settle(i, reply)
  \/ \E fine \in BOOLEAN : AgentEnds(fine)
  \/ \E ledger \in Ledgers, read \in 0..(Checks + 1), failed \in SUBSET (1..Checks) :
       RecordRun(ledger, read, failed)
  \/ WriteComparison
  \/ Stop

BenchSpec == BenchInit /\ [][BenchNext]_benchVars

-----------------------------------------------------------------------------
BenchTypeOK ==
  /\ cli \in Cli
  /\ phase \in {"idle", "agent", "ended", "recorded", "stopped"}
  /\ step \in 0..Len(Plan)
  /\ \A i \in DOMAIN events : events[i] \in Reply \cup {Unsettled}
  /\ clean \in BOOLEAN
  /\ Len(runs) <= step
  /\ \A row \in published : row.saved \in Int \cup {None}

(* BuildComparisons publishes savings only for two runs that really solved *)
(* the task, and they are the difference of what was billed for their      *)
(* answered requests, whatever replies were canceled, came without usage,  *)
(* outgrew the collector or had not come when the meter read the events,   *)
(* and whatever of the verifier's output was lost.  The meter cannot tell  *)
(* a reply that broke off from a whole one (usage.go 349 settles both as   *)
(* complete): it counts for what it had said by then, no less and no more, *)
(* and only two runs without one are sure to show what was billed.         *)
NoInventedSavings ==
  \A row \in published : row.saved # None =>
    /\ row.off.achieved /\ row.on.achieved
    /\ row.saved = row.off.told - row.on.told
    /\ row.off.whole /\ row.on.whole => row.saved = row.off.billed - row.on.billed
=============================================================================
