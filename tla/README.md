# jev-routing: specifications and proofs

jev-routing is a local gateway between a coding agent (the *host*: Claude Code,
Codex, Cursor, Devin, Grok) and its model API. It rewrites requests (tool
selection, context editing, compaction), asks a small model called Jev for the
decisions, observes calls and results in the traffic, and shows what it did on
a dashboard. A benchmark runner drives hosts through it.

Six modules model the part of the gateway whose correctness depends on
concurrency or on long histories: what requests, responses, callbacks and polls
do to shared state, and what compaction retains. Thirteen smaller ones model the
parts around it: rewriting, planning, steering, the Jev client, the taps on
bodies, and the benchmark.
Paths below are relative to the repository.

## The system

| Component | State | Operations | Talks to |
|---|---|---|---|
| Clear gate, `internal/proxy/clear_gate.go` | map of conversations, FIFO of keys, one mutex | `gate` (two critical sections around a question to Jev), `observe` | called by the request handler and by the usage callback of the response |
| Event log, `internal/proxy/events.go` | event number, the newest 1000 events, one mutex | `Add`, `Update`, `Snapshot` | written by the handler, the response callbacks and the Connect writer; read by the dashboard API and the bench meter |
| Request handler, `internal/proxy/proxy.go` | counters under `s.mu`, per-request context | the four kinds of request, `ModifyResponse`, `ErrorHandler`, usage callback | everything below |
| Connect stream, `connect_devin.go`, `connect_proto.go` | frame buffer | `Read` on the transport's goroutine, `applyConnectStats`, attempt hook | event log, counters, observers |
| Application store, `application.go` and the observers of `proxy.go` | applications by decision, start counts, `applyMu` | `startObservedCall`, `Apply`, `stampApp`, `ObserveHostCall`, `ObserveResult` | called while bodies of requests and responses are observed |
| Dashboard, `dashboard.go`, `assets/dashboard.js` | the page's copies and cursor | `poll`, `render`, `reconnect` | reads the event log over HTTP |
| Jev client, `internal/jev` | answer caches | `Ask*`, `AskCompact` with parallel batches | HTTP, attempt hooks |
| Native compaction, `native_compact.go`, `applyCompactToMessages` of `rewrite.go` | none; a history, its items and decisions | `retainNative`, four passes over the decisions, a call of itself | Jev client, compaction |
| Rewriting, `rewrite.go`, `direct.go` | hint store under its mutex; a request and its catalogue | `RewriteWith`: inspect, plan, ask, resolve, filter, force, advise, answer directly | Jev client, planning |
| Codex steering, `codex_steer.go`, `codex_tool_output.go` | none; the host resends its history | one question per request, cut of long outputs | Jev client |
| Automatic application, `autoApplyContext` of `proxy.go`, `plan/routing.go`, `plan/capability.go` | catalogue, applications, last delivered skill, `applyMu` | route a text to a skill, deliver it again with follow-ups, `requiredLeftover` | planning, Jev client |
| Native replies, `native_compact.go` and `Handler` | none; markers in a history | recognise a host's request to compact, answer it or forward it | native compaction |
| Taps, `usage.go`, `context_edit.go` | line and event buffers of a body | `Write`, `finish`, the once-only report at the end or at `Close` | event log, clear gate |
| Compaction, `internal/compact`; planning, `internal/plan` | none | pure functions | |
| Benchmark series, `bench/run.go`, `report.go`, `gateway.go` | lock file, sandboxes, result files | `claimLock`, sweep, runs, meter, reconciliation with the host's own count, comparison | starts gateways and hosts |
| Benchmark processes, `bench/proc.go` | pipe, scanner, timer | `runProc` | operating system |

What is hard here: requests of one conversation overlap; a question to Jev is
asked between two critical sections, and the state may have changed in the
meantime; responses end in any order, are cancelled, or are retried with
another body; a bounded store drops entries somebody still refers to; the
Connect body is read by a goroutine that may outlive the response; copies of
applications are written back some steps after they were read; polls of the
page overlap and the gateway may be restarted underneath it. In compaction, rules
that each keep a part of a history must not spoil what another one keeps. Rewriting
has some forty ways out, and each must leave a request the model can go on with.
The hosts send their histories again each time, without what the gateway added
and with traces of what it answered. Bodies are cut anywhere by the network and
break off. Two benchmark series share one temporary directory, and a run is
metered while replies are still to come.
`PROJECT.json` lists every such hazard at its line, with the properties aimed at it.

What makes each component correct:

- *Clear gate*: one question per conversation and stay in the store, by one
  request; a final answer stays; a question always gets its answer recorded;
  map and FIFO agree.
- *Event log*: the newest events without a gap; an event is settled once and
  only by its own request.
- *Handler*: the total of Jev calls agrees with the events; whoever opens an
  event settles it on every path; the event speaks of the body that was
  delivered.
- *Applications*: a call is started once; a result goes to its call; races
  do not leave a wrong result behind.
- *Dashboard*: the page never skips an event without being told (with one exception,
  see below), and shows the final form of what the log retains.
- *Native compaction*: the retained history is one the upstream accepts (calls
  with their results, system messages between the same neighbours, no thinking
  alone), nothing is lost without a low score, and it is computed in finitely
  many calls.
- *Jev client*: a cache holds what the service answered to that question; the
  answers of the batches that succeeded are not paid for again.
- *Hint store*: a position of a conversation carries the same hint each time.
- *Rewriting*: what is sent can be used: what is deferred or referred to stays, a
  required tool is offered, shadow mode changes nothing; a finished step is not
  suggested again.
- *Codex steering*: the history repeats byte for byte; only a tool that was
  declared once is forced.
- *Automatic application*: a skill stays with its task until a command takes over.
- *Native replies*: a transcript answers only a request for one, or a turn after a
  quote of Grok's marker.
- *State under a budget*: calls and results stay visible, pinned rows longest.
- *Taps and frames*: what arrived whole is reported however the body was cut; an
  item of a Connect frame stays in its slot.
- *Benchmark*: a sweep removes orphans only; a process ends; no saving is published
  that the replies do not tell of.

## Modules

| Module | Models | State and actions |
|---|---|---|
| `ClearDecision` | what the gate promises about one conversation | `Ask`, `Decide`, `Forget` |
| `ClearGate` | `clear_gate.go` and its two callers | `conv`, `order` are the map and the FIFO; an entry carries the address (`id`) that the code's pointer is. `GateNew` ... `GateAsk` are the returns of `gate`'s first critical section, `GateAnswer` the second one, `Observe*` the usage callback |
| `EventLog` | `events.go`, for the modules that use it, and `LogSpec`, what a reader may rely on | `Add`, `Update`, `NewerThan`, `Truncated` |
| `Dashboard` | page, API handler and log, with restarts | `poll` holds the fetches in flight, `Render` merges a response, `Reconnect` empties the page |
| `Gateway` | counters and events of concurrent requests | one action per critical section of the handler, of `ModifyResponse`, of `ErrorHandler`, of the usage callback and of the Connect writer |
| `Applications` | application store and observers | one action per critical section; `obs` is what an observing goroutine carries from one to the next |
| `CompactHistory` | what `retainNative` keeps of a history | `Say*` are the messages a host's history consists of, in the order `itemsFromMessages` reads them; `Decide*` are `CollectCandidates` and `DecideCall` on local or Jev's scores; `RestoreSuccessors` is a call of `applyCompactToMessages` that ends in another one, `Finish` the last one |
| `JevClient` | `internal/jev/jev.go` as `retainNative` uses it | `askCache` and `decided` are the caches, `calling` holds the calls: `Ask` ... `AskAnswered` for a set of questions, `AskCompact` ... `Finish` for the batches of a compaction, one lock section each |
| `Hints` | `hintStore` and its two uses in a request | `Arrive`, `Reapply` (one message per lock section), `AdviseClaude`; other requests come between |
| `Planning` | the local decision of `internal/plan` | operators only: goals, aliases, actions used, the order of the branches in `DecideSpecs` |
| `Selection` | `RewriteWith`, turn by turn of a conversation | an action per group of early returns: `PassBefore`, `AnswerLocally`, `Unasked`, `JevFails`, `JevAnswers`, `LeaveCatalogue`, `ProposeOnly`, `Advise`, `Narrow`; `HostRuns` is the host's next step |
| `CodexSteer` | `codex_steer.go`, `codex_tool_output.go` | `SteerPasses` ... `SteerTool` are the outcomes of a request; `wire` is what went out |
| `AutoApply` | `autoApplyContext`, `requiredLeftover` | `AutoApply` is one critical section of `applyMu`, the question to Jev included, as in the code |
| `NativeReply` | recognition and answer of compaction requests | what a host says and reads, `AnswerRetained`, `ForwardRequest` |
| `StateFit` | `FitState` | one action per row that is reduced, one per stage |
| `BodyTaps` | the usage collector and the collector of context edits | `Chunk` of any size, `EndOfBody`, `ClosedEarly`, `ClosedAgain` |
| `ConnectFrames` | a Devin body, frame by frame | `PassFrame` with any plan of `RewriteWith`, `PassTail` |
| `BenchLock` | `claimLock`, the sweep and the sandboxes of several processes | one action per file system call, `Crash` |
| `RunProc` | `runProc` and its child | child, scanner, `Wait` and timer take steps of their own |
| `Parts` | the twelve small parts with a state, from `Hints` to `Bench`, side by side | `part` names the one whose steps a behaviour takes |
| `Bench` | a series: runs, meter, reconciliation, comparison | `Settle` is a reply's event, `RecordRun` the meter and the verifier, `WriteComparison` |
| `Sublists` | what a loop over a list appends to another one, as a function | operators only, in `Selection` and `ConnectFrames` |
| `Absent` | the value `None` | |
| `ClearGate_proofs`, `EventLog_proofs`, `Dashboard_proofs`, `Gateway_proofs`, `Applications_proofs`, `CompactHistory_proofs` | theorems about the module they are named after | |
| `Rewriting_proofs` | theorems about `Selection` (with `Planning`), `CodexSteer`, `ConnectFrames` and `StateFit`: what is written into a request | |
| `Parts_proofs` | theorems about `Hints`, `JevClient`, `AutoApply`, `NativeReply`, `BodyTaps`, `BenchLock`, `RunProc` and `Bench`: what is kept between requests, what is read of a reply, and what is made of it; and about `Parts`, for which it extends `Rewriting_proofs` | |
| `MC*` | what TLC checks; the request goroutines of `Gateway` are interchangeable there | |

`Dashboard` and `Gateway` extend `EventLog`; `Gateway` is also shown to
implement `EventLog!LogSpec`, and `Dashboard` takes its events from the same
actions (`LogAdd`, `LogSettle`), so what the page relies on is what the handler
does. `ClearGate` is shown to implement `ClearDecision`. `Selection` extends
`Planning`. The other modules meet through values that a request carries from
one to the next, not through shared variables, and each takes what it is given
from the whole set of such values.

Data is abstracted to what the properties distinguish: a conversation is a key,
a body is "original" or "steered", an event is its number, whether it is
settled, its calls and its body, a result text is the call whose output it is, a
message of a history is its role, whether it has text and thinking, and the ids
of its calls and results.

Operators whose comment begins with "Slip" are plausible mistakes in the
definition that follows them. They are used by no specification; each is the
change of the model under which one property fails, recorded in `PROJECT.json`.

## Runs

| Run | Shows |
|---|---|
| `clear_gate` | type, FIFO against map, one question and one asker, backing of the edit, refinement of `ClearDecision`, an asking request is forwarded in the end |
| `clear_gate_revisited` | **fails**: an entry evicted during its question is answered "clear" and then not known to be |
| `dashboard` | log contiguous; while one process runs the cursor hides nothing that the page was not told of, but what was gone before a poll from the beginning; the page catches up |
| `dashboard_restart` | **fails**: after a restart the old cursor hides the new process's first events |
| `gateway` | the Jev total is never below the calls in the events and equal to them at rest, owner of every open event, delivered body, refinement of `LogSpec` |
| `gateway_stats` | **fails**: `eventsTruncated` of the statistics misses evictions caused by control requests |
| `applications` | one start per call, a known id first, results repaired |
| `applications_spawn` | **fails**: a failed subagent is verified when its result comes before the stamp |
| `applications_legacy` | **fails**: a result without id with two calls pending |
| `parts` | thirteen properties of the twelve small parts and their types, see below |
| `bench_lock_sweep` | **fails**: two series started together both get the lock, and the sweep of one removes the directory the other is running in |
| `compact_history` | pairs whole, neighbours of system messages, thinking accompanied, every loss justified, recursion shrinking |

Runs that fail state something a comment, a test or a requirement of the
repository says and the code does not do; `PROJECT.json` quotes the text under
`findings`.

A claim that fails is not dropped: what the code does keep of it is stated under the
weakest condition found, by a second specification of the same module that has the behaviours
where the condition holds, and this is proved. So a reader knows how far each claim
can be relied on, and what a repair has to bring about. (Where the table
names a specification of its own, TLC finds no counterexample to the claim under the failing run's cfg
with that specification in it.)

| The claim fails in | It holds | Specification | Theorem |
|---|---|---|---|
| `clear_gate_revisited` | while no entry is evicted during its own question; hence with a store that has room for every conversation | `SteadySpec` | `ClearStays`, `ClearStaysWithRoom` |
| `dashboard_restart` | while one process runs, through overlapping polls and reconnects of the page, for all events but those that were gone when a poll from the beginning was answered | `Spec`, as `CursorCoversOneProcess` | `CursorHidesNothing` |
| `gateway_stats` | in a session without control requests | `InferenceSpec` | `EvictionsAreReported` |
| `applications_spawn` | while no result is looked at before its call is stamped | `StampedSpec` | `FailedSpawnsFail` |
| `bench_lock_sweep` | while no two series are in `claimLock` between reading and writing the file | `SerialSpec` | `SeriesAreSerial`, `SweepsRemoveOrphans` |

For `applications_legacy` there is no such condition but the claim itself: with two calls pending
and no id, the code chooses.

`parts` checks the small modules side by side: `Parts` has a variable that names
the one part whose steps a behaviour takes, and the others stay in one initial
state. The parts share no variable, so this loses no behaviour of any of them,
and adds none (`PartsAreTheirParts`).
What each property of it says:

| Property | Part | Says |
|---|---|---|
| `PartsTypeOK` | all | types; that the hint store keeps to its bound and queues each hint once (`StoreMatchesOrder`); that exit code 0 without timeout is that of a child that ended by itself and said all, and a killed one is reported as timed out (`ResultIsTrue`) |
| `HintsStable` | hint store | a request carries the hint each of its positions had when it arrived, once, unless the store's bound dropped it |
| `CachedIsGiven` | Jev client | a cached answer was given to that question |
| `PaidAnswersKept` | Jev client | answers of good batches survive a failed one, and are not asked for again |
| `SentIsUsable` | selection | what is sent keeps deferred and referenced tools and the host's order; a required tool is offered and Jev's choice; shadow and advice change nothing |
| `NoLocalLoop` | planning, over turns | a finished step of a search is not what the local decision narrows to, or advises, again, unless the tool stands in for the native one under another name (`StandsIn`) |
| `SteeredRequest` | Codex | histories extend each other byte for byte; a forced tool was declared exactly once |
| `SkillStaysWithTask` | automatic application | a task's requests get one skill, exactly until a command that the text names takes over; a required one that is missing, or has no place, fails the run |
| `OnlyAskedIsAnswered` | native replies | a transcript answers only a request for one, or, as Grok's, a turn after a user message that quotes Grok's marker |
| `StateShowsCalls` | state under a budget | calls stay, pinned rows (the first and the newest) are only abridged, and last |
| `TapsReportWhatArrived` | taps | the newest usage, or edits, that arrived whole, for every cut of the body; nothing of a body labelled as JSON that is mistaken for the other kind, nor of its chunks before the first whole marker |
| `SlotsKept` | Connect frames | every item in its slot, kept tools with their definitions |
| `NoInventedSavings` | benchmark | a published saving is the difference of what the replies of two solved runs said, which is what was billed if none of them broke off |
| `ProcReturns` | benchmark process | `runProc` returns |

Bounds and why they are enough. The clear gate runs with three conversations
and a store of one, so that every insertion evicts, with two requests and an
address more than the entries that can be reached; token counts are just below
and at each threshold. The log of `dashboard` holds two events and the process makes three or four, so
that events are dropped before and after they are settled; the page keeps as
many copies as the log, as in the code (both 1000). In `dashboard_restart` the log
holds all three events, so that nothing but the restart hides one. Two polls are the least that
overlap, and more only add fetches of older cursors. One upset (restart or
reconnect) occurs in any state. The gateway has two request goroutines that
serve three requests, each up to one Jev call per stage and two Connect frames.
The applications have an `exec` call, which the duplicate rule treats apart, a
subagent whose output reports a failure, a result of a call the gateway never
saw, results without id, and two observing goroutines. The histories have up to
five messages with up to two calls, one of which defines tools in its result;
that is two exchanges around a system message, the least in which restoring one
exchange depends on whether the other is gone. One newest item is kept instead
of the code's two or six, so that the newest items do not fill such a history;
that Jev is asked about more than four items is as in the code. Every choice
of low, high and missing scores is taken. `gateway` and `gateway_stats` do not
look for deadlock: the number of requests is bounded, and the model stops when
all are served. `compact_history` does not either: it stops when the history is
compacted.

In `parts`: two requests restore and attach two hints in a store of one, over
histories in which a key stands alone, first and last, so that a key is dropped
between a request's arrival and its end. Two callers compact the same two
candidates in batches of one, so that one batch fails and the other is
stored while another caller looks up. The catalogues hold tools under the
host's own names, under other ones and in other letters (`grep` for `Grep`, `Grep_Search`
for `grep_search`), deferred ones, tools with constant arguments, and two
catalogues are nearly empty; with the settings they reach every action of
`Selection`. Conversations have up to two tool calls before the request that is
examined, the least with two agents in a row. Codex histories have two turns, of
sizes under, at and over the cut, in a state budget that the largest fills. A
proper skill, one that is a skill by its name only, an uninstalled and an empty
one, and three texts suffice for a follow-up, another task and the return to the
first; of the commands one is configured, and one is a tool that a host declares under way,
which, while commands are not applied, is like any other tool of a host (`HostTool` is
empty). Compaction prompts are followed through histories of five messages:
prompt, answer, summary, a quoting output or user, a new prompt. Histories of
four rows, the first and the last pinned, in a budget of seven, reach every stage of
`FitState` up to "too_large". Bodies of up to four units in chunks of any size,
with a buffer of four half units, a document and a line that exceed it, meet every limit;
of two units the first half ends inside the marker, and one document quotes a marker. Two Connect frames in a body
suffice, because nothing but a note is carried from one to the next. Three bench processes,
two of which get the same number in turn, are the least with a stale lock whose number
is taken again. The pipe holds one piece and a line one piece, so that the child
blocks and a line is too long. A series of an off and an on run with up to two
requests each, settled before the meter or not, broken off, canceled, beyond a size
limit or without usage, meets every reconciliation.
`parts` and `bench_lock_sweep` do not look for deadlock either: requests, bodies,
processes and series come to an end.

Fairness. `ClearGate`: only `GateAnswer` is fair, because the HTTP client of
`internal/jev/jev.go` has a timeout; clients, upstream and arrivals owe
nothing. `Dashboard`: the timer fires, the handler answers (it only takes
mutexes that are released at once) and a fetch on the loopback interface
returns; nothing makes requests arrive or responses end. `Applications`: an
observer that began goes on, as it waits for nothing but `applyMu`; and the calls
and results of a Devin history are observed again with every request, which is
strong fairness of `BeginStart` and `FindCall`. `CompactHistory` assumes none: a
sequential function, whose end is the safety property `PassesShrink`. `RunProc`: the
goroutines of `runProc` run, a line that is there is read, the timer fires;
nothing is assumed of the child, which may hang, block or never exit. Of the
other parts of `parts` only safety is claimed. Hosts that send JSON resend
results but not calls; for them an application that lost its id is not named
again, and `OwnResultWins` is not claimed.

## Proofs

The theorems hold for every value of the constants under the assumptions of the
modules: `None` and the empty key are not members of the sets they stand beside,
limits are positive (that of the taps may be 0), sizes are natural numbers. The bounds on requests, events,
polls and frames stay in the guards, and the theorems hold for every value of
them too. None of the invariants is inductive by itself; each proof
module defines the strengthening `IInv`, shows that `Init` establishes it and
every action preserves it, and reads the theorems off it (in the two modules
about several parts it has the part's name: `SelInv`, `SteerInv`, `FitInv`,
`HintsInv`, ...). Every safety property of the passing runs has a theorem,
action properties and refinements included; the list is in `PROJECT.json` under `theorems`.

*Clear gate.* `AskedOncePerStay` and `AskingHasAsker` need to know that an
address is held by one key only and that a request's captured address is not
given to another key (an action that takes a new address avoids all those still
reachable); that the count of questions is 0 in state unknown and for keys not
stored; and that the FIFO lists the map's keys once each, so that an eviction
removes the key it names. `ImplementsDecision` follows action by action.

`ClearStays` is about the promise to a conversation that was answered "clear". While entries stay
for their questions, the entry an asking request has captured is the one in the map
(`AskersAttached`), so what it answers is written where later requests read; and what
the history says was granted the store knows (`Backed`), since an eviction is visible
in both. `ClearStaysWithRoom` has no condition on steps: with room for every conversation,
the FIFO lists the map's keys once each and a new key besides, hence nothing is dropped (a
count by injection into the set of conversations).

*Dashboard.* That the cursor hides nothing is not carried by the cursor: it may
fall when an overtaken response puts an unsettled copy back, and a poll in
flight remembers an older one. The invariant speaks of every copy of the page and
of every cursor a poll was sent with: each event up to it was shown, or told to
be gone, or is asked for by a poll whose response reaches that far
(`NothingHidden`). A response is complete from its cursor to its newest event
(`ResponsesComplete`), which rests on the log having no gap. What a poll from the
beginning does not bring was gone before it was answered, and is the exception of the
theorem (`DroppedUnsaid`): `Snapshot` tells of a gap only to a poll with a cursor. A cursor is
the number of a copy because a bounded set of numbers has a maximum, which is
derived from the library's well-founded minimum.

*Gateway.* A handler that added its event and did not settle it owns the event:
no other handler has its number (`OneOwner`), and the event is unsettled as long
as it is retained (`OwnedUnsettled`). With `EventSaysBody` this gives
`OpenEventHasOwner` and `EventMatchesDelivery`, and it is what makes every step
of a handler a step of `LogSpec` or invisible to the log's readers.

`JevTotalsAgree` compares a counter with a sum over the log. The theorem of induction
cannot be instantiated here, but a least counterexample does as well: the sum over a finite set
is the number of its *tokens*, pairs of an element and a number below its term
(`Tok`, `SumIsTok`; the counting function also shows that the recursion of the library's fold has a
solution, which `CHOOSE` needs). A step that appends an event, drops one or gives
one a call moves tokens between disjoint finite sets. The invariant `Balanced` says
that the tokens of the retained events and those of the calls that are in the total and not
yet in an event (`Owed`: a handler before it adds its event, a Connect writer
between call and event) are together no more than the total, and exactly
the total while nothing was dropped.

`EvictionsAreReported` compares the counter of requests with the log's numbers. Without control
requests, an event is always added by a handler that counted its request when it arrived. So
event numbers and the handlers still on their way to an event (`Waiting`) are together
no more than the requests counted (`EventsAreCounted`), and a log that has dropped one retains fewer
events than requests. A control request adds an event without the count, which is what
`gateway_stats` shows.

*Applications.* The goroutine between `BeginStart` and its last put is the holder
of `applyMu` (`StarterHoldsLock`), so the count it found at zero is still zero
when it starts the call (`ClearedNotStarted`): `StartedOnce`. No application ever
carries the id of another call, in the store or in a copy yet to be put
(`NamedByOwnId`), hence `OwnIdFirst`.

`FailedSpawnsFail` has as its invariant that what the store says of a subagent whose result is in is true
(`StoreTruthful`), and so is every copy (`CopiesTruthful`). The one application
that is in the store unstamped is that of the goroutine holding `applyMu` (`CopyIsStored`,
`OneInStore`), and its call is not being looked at.

*Native compaction.* Each pass of `applyCompactToMessages` only takes keys out of
what was decided to be lost (`RetainedPasses`). So what an earlier pass kept is
still kept at the end, which gives `BoundariesKept` and `ThinkingAccompanied`, and
what is lost was decided to be, which gives `LossIsJustified`. Pairs are made
whole by the last pass, which undoes nothing. Calls to be restored are calls
that are gone (`RestoredGone`), hence `PassesShrink`. The invariant also says of
messages that assistants carry no results and that thinking comes with text or a
call (`Shaped`), as the forms of the hosts' histories have it.

*Hint store.* `HintsStable` speaks of requests that were sent. What carries it
there is that a stored hint never changes while it is stored: what a request has
restored so far is what the store says now, for every key that was not dropped
since the request arrived (`InStep`); so the hint it attaches at the end, which
`remember` returns from the store, is the one it had. That a dropped key is the
oldest one, and that the map and the queue name the same keys, is
`StoreMatchesOrder` (`RememberedOrder`); it is proved through two ways of saying
that a sequence lists a set, so that no induction over the queue is needed.

*Jev client.* The caches belong to all callers, so the invariant says of a call
only what others leave true (`OtherCallOK`): what is decided stays decided, what was given
stays given. Of its own batches it says that they are disjoint, avoid what was
decided at the start, hold only given answers, and that an answer still to be
stored is still on the list (`BatchOK`). Disjointness is what makes `Store` safe:
the answer it writes for a candidate is the only one there is. That a call reports no more
attempts than requests it sent counts the batches that are out (`Reported`).

*Selection.* What is sent is a sublist of the catalogue in the host's
order (`Those`), and nothing left out of it is deferred or referred to. These are
lemmas about `FilterTools`, `KeepLocatePair` and `Reconstruct` for any catalogue. The
invariant `SelInv` carries from the decision to the sending that the decided tool is one that
may be suggested, and that a shortlist holds it. For `NoLocalLoop` the decision is fresh
from the moment it was made (`Fresh`, `LoopInv`). One hypothesis about the catalogues is
needed, which `MCParts` has TLC evaluate for those of the run. `CataloguesServe`: of the
tools that may be filtered one is no host UX tool (`ask_user` and the like); where there
is no other, a locate task may be narrowed to the sticky tools alone, which the model
cannot search with. Nothing is assumed of the names hosts give their tools. A step taken
under another name than the table's is not recognised as taken, and `NoLocalLoop` says
that this is the only way a step comes back (`StandsIn`).

*Codex steering.* Each turn is cut alone, so the cut history of a longer history is an
extension of the cut history of a shorter one: `SteeredRequest` needs the invariant
that the wire is the cut of the turns so far, and that the tool a question ended in was
the only one of its name when the question was asked.

*Connect frames.* `Lifted` lists the positions of messages in increasing order; that a
message's rank leads to its slot and back (`Nth`, `Rank`) is proved by cardinalities of
initial segments. Every plan of `Plans`, whatever it drops or shortens, then writes into
slots of messages only.

*State under a budget.* `FitInv` says of each stage what the stages before it have
done: all long texts abridged, all old messages collapsed, all old calls compacted. In
the stage of long texts the ones already abridged come before the rest
(`InOrder`), which gives that a pinned one was abridged last. The smallest form of a history, which
"too_large" says does not fit, is the very function of rows that was tried last, so
nothing has to be known of their sum. This proof found an error of the model: the code
pins the first item as well as the newest ones (`compact.go` 278-279), and the model
had pinned the newest only.

*Automatic application.* What a task's requests get is what its decision delivers
(`FirstIsApplied`), and a decision about skills delivers one of those that the text names
(`DeliveredAsNamed`). A decision is about the skills alone, or a command takes over
(`ExplicitIs`); then it is about the whole catalogue, and as commands are no skills
such a decision never delivered one (`SkillsForSkills`). So the theorem has no hypothesis
about what hosts declare, and its exception is exact in both directions.

*Native replies.* No message of a user holds Grok's prompt except Grok's own open
request, unless one quotes it (`quotes`); other messages hold only prompts that are quoted;
and during a turn no other request of a compaction is seen (`NativeInv`). Any prompt may
be quoted by outputs, by the model and so by summaries, which come back as messages of a
user, and Grok's by the user himself. In those messages `nativeCompactionKind` looks for
Grok's prompt wherever they stand, and a turn is then answered with a transcript; the
theorem says that this is the only way.

*Taps.* After each piece, the stream stands between lines, within a line, at a line's
end or behind its break, and this place depends on the body and on how much was read, not on
where chunks ended (`StandsAt`). It says what the buffers for a line and for an event
hold and which value was found last. The invariant (`TapsInv`) says that a tap that
hit no limit stands where the stream does (`TapHolds`), or, for a document and a Connect body,
that it holds all that came; what `Finished` makes of either is the newest value that
arrived whole. Of a body labelled as JSON, `asJSON` remembers how much had come when the
first whole marker was seen in a chunk: what came before is lost to the tap, and
`Mistaken` says when all of it is. That a function of positions has a value at each position, and that what each
step keeps is kept at all of them, are lemmas here (`StepsExist`, `Induct`), since the
library's theorems take an operator. `TapAssumption` says what bodies there are: one
JSON document, an event stream (perhaps labelled as JSON), or Connect frames; lines with
`event:` and `[DONE]` carry no usage and no edits, frames carry no edits, and a
document or line longer than the limit carries neither.

*Benchmark.* A run has a total only if every reply that reached the upstream is in
it, canceled ones excepted. So what is summed is what each reply said of its bill, and the sums
are equal because their arguments are (`SameSum`); it is the bill itself where the reply came
to its end, which the meter cannot see. `BenchInv` says it of each recorded run, and that a
success was achieved: the verifier counts passed checks only, and all of them passed. That a bill is a number
at all (`BillIsNumber`) needs the library's sum followed along the subsets of the replies: its
recursion has a solution, and the solution's values are numbers, by a least counterexample.

*Benchmark lock.* The types hold however claims overlap. If no two processes claim at once, a
process in `claimLock` reads a file that names whoever holds the lock, under a number no other
live process has (`NumbersDiffer`); so one that goes on to write has read of nobody
alive (`WriterAlone`), which gives `OneSeries`. Directories belong to the one series or were left
behind (`SandboxesOwned`), and a sweep lists them before its own process makes one
(`SweepsOver`): `SweepsOnlyOrphans`. Deaths at every point and numbers given out again are in
these theorems; the gap between read and write is all that is excluded.

*Benchmark processes.* `runProc` waits for three things, and each is final: the child is gone, the
scanner has stopped, `Wait` has returned (`Over`). So there is no step after the return
(`ReturnsLast`): no line reaches `onLine`, whose variables the caller reads from then on. `ResultsAreTrue` needs what a child's end tells of its past (`ChildHistory`): one that
exited said all it had to say and did not hang, one that was killed met the timer. The comparison of
runs trusts exit code 0 without timeout, and rests on this. It says nothing of what was *read*: `Wait` may close
the pipe over output that was written and not scanned, as in the code.

*The parts together.* A step of the part that is named is a step of that part and leaves the
variables of the others alone, so a behaviour of `PartsSpec` is one of every part's own specification
(`PartsAreTheirParts`). What was proved of the parts one by one therefore holds of them side
by side, their types (`PartsTypesCorrect`, the invariant of the run) and their promises (`PartsAreCorrect`), for
catalogues that serve. The types of most parts are conjuncts of the parts' invariants; a
series and the taps needed a further one: that no run is begun beyond the plan
(`BenchPlace`), and that a tap's limit and verdict are among those the code knows (`Marked`).

## Only model-checked

Liveness (`AskerIsForwarded`, `PageCatchesUp`, `OwnResultWins`, `ProcReturns`), which
is out of the prover's reach, and the counterexamples of the failing runs.

`SelectSeq` is recursive, so nothing could be proved of a list that a loop filters. The
models say `Those` instead (module `Sublists`), and `MCParts` has TLC check that it is
`SelectSeq` for every short sequence (`SublistsAssumption`).

## Facts met while modelling

No run fails because of these: they are exceptions that the properties state exactly,
or things no text of the repository speaks of. The models have them as the code does.

- `Snapshot` tells of dropped events only a poll with a cursor (`events.go` 207), and the
  page asks without one as long as its oldest copy is unsettled. What is dropped meanwhile
  is neither shown nor announced, although the requirement wants what is no longer retained to be
  stated (`docs/requirements/jevrouter-dashboard.md` 106). `DroppedUnsaid` in
  `CursorCoversOneProcess`.
- What was called is noted by the name it was called (`plan.go` 238), a step of a search
  by the name in the host's table (245), and a tool that stands in for it is found by its
  other name (345). So `grep`, offered for `Grep`, is narrowed to or advised turn after
  turn, which the comment at `plan.go` 422 says must not be. `StandsIn` in `NoLocalLoop`.
- A tool with "mcp" in its name that a host declares under way is a command of the
  catalogue (`capability.go` 317). If a text contains its name and names no skill, the
  decision is about the command from then on (`proxy.go` 1057), and the requests of the
  task, follow-ups included (1077), go without the skill that was picked for it.
  `TakesOver` in `SkillStaysWithTask`.
- Grok's marker is taken from any message of a user (`native_compact.go` 57), so a user
  or a summary that quotes it has the next turn answered with a transcript. `quotes` in
  `OnlyAskedIsAnswered`.
- `looksSSE` (`usage.go` 77) tests each chunk alone. A stream that is labelled as JSON
  and cut inside its first `data:` goes into the JSON buffer, and its usage is lost without any
  limit hit; so is that of a JSON document that quotes `data:`. `Mistaken` and `asJSON`
  in `TapsReportWhatArrived`.
- A stream that breaks off is settled as complete (`usage.go` 349) and marked partial
  only at a size limit, so the meter counts for a Claude stream cut after
  `message_start` what it had said, and a saving may be published that is larger than
  the bill says. `told` and `whole` in `NoInventedSavings`.
- A Connect body whose buffer was full takes a later, smaller chunk
  (`usage.go` 56-64): the buffer then has a hole, and what follows is read as if it were
  contiguous. `TapsReportWhatArrived` claims nothing of a tap that hit a limit.
- `Close` reports before the inner body is closed: an event may be settled while
  the upstream still sends.
- The note of a Devin body on whether it changed is the one of its last frame.
- A catalogue entry of Devin without a name is lost when the catalogue is rewritten,
  and a skill appended to a history message is not written back into a frame of
  Devin's own.
- A locate task of a host whose only tools that may be filtered are its own dialogue
  tools may be narrowed to the deferred ones (see `CataloguesServe` under Proofs).
- A direct answer calls the tool that was decided with the constant arguments of
  the first tool kept.

## Not modelled

Rendering and translations of the page, the statistics page, analysis scripts, JSON
and protobuf surgery, the host tables, the compression of descriptions and the
arithmetic of charts, because no interesting state is behind them. The commands
`run` and `serve`, which start a server and a child and wait; of them only
`requiredLeftover` is in `AutoApply`. Of the handler, the attribution of events to
parent and child conversations. Of planning, scores of words, the merge of
catalogues and rows of subagents; any tool may score best. Of the application of
routes, plugins and hosts without a skill. Of the benchmark, Devin's
transcripts, the correction of Codex totals for compaction, the estimate of effects, the
evidence, audit and clean-up of a sandbox (`clean` says whether they agree), and
the keys of a comparison beyond the model's name. `proc_other.go`, the build without process groups, differs
only in what is killed. Of compaction, the wording of truncated bodies and
retained histories; so are summary items, which no converter builds, and results
of role "function", whose ids are not unique.

## Plan

1. The parts that `PROJECT.json` lists as partly modelled: subagent rows and the merge of
   the catalogue (`plan`), plugins in automatic application, the attribution of
   events to conversations.
2. Handler, taps and Connect body in one composition, with the event they share,
   in place of the gateway's abstract stream.
