--------------------------- MODULE CompactHistory ---------------------------
(***************************************************************************)
(* What native compaction retains of a history: the candidates and their   *)
(* decisions (internal/compact/compact.go), where the scores come from     *)
(* (retainNative) and applyCompactToMessages (rewrite.go), which must      *)
(* leave a history its host still accepts.                                 *)
(*                                                                         *)
(* A message is reduced to what decides over it: its role, whether it has  *)
(* text and thinking blocks, and the ids of its calls and results.  An id  *)
(* has one call and one result at most; the summary items and the results  *)
(* of role "function" of the code have no place here, because no converter *)
(* builds the former and ids are not unique in the latter.                 *)
(***************************************************************************)
EXTENDS Integers, FiniteSets, SequencesExt

CONSTANTS
  Id,             \* ids of tool calls
  References,     \* ids whose result in a Claude history defines tools
  PreserveRecent, \* newest items that are kept as they are
  LiveAbove,      \* Jev is asked about histories with more items
  MaxMsgs,        \* bound: messages of a history
  MaxCalls        \* bound: calls of one assistant message

ASSUME HistoryAssumption ==
  /\ References \subseteq Id
  /\ {PreserveRecent, LiveAbove, MaxMsgs, MaxCalls} \subseteq Nat

VARIABLES
  form,       \* "claude", "chat" or "responses": how calls and results are carried
  msgs,       \* the history
  items,      \* its items, as itemsFromMessages appends them message by message
  phase,      \* "history" while it grows, "retain", "done"
  source,     \* whose scores were used: "none", "local" or "jev"
  low, high,  \* keys scored below the threshold, and the others with a score
  decisions,  \* what was decided
  action      \* what the retained history does

vars == <<form, msgs, items, phase, source, low, high, decisions, action>>

CallOf(id) == <<id, "call">>
ResultOf(id) == <<id, "result">>
Key == Id \X {"call", "result"}

(* Keys to drop and keys to truncate; whatever is in neither is kept.      *)
Action == [drop : SUBSET Key, cut : SUBSET Key]
KeepAll == [drop |-> {}, cut |-> {}]

(* Keep also these keys.                                                   *)
Keeping(a, keys) == [drop |-> a.drop \ keys, cut |-> a.cut \ keys]

Both(ids) == ids \X {"call", "result"}

Message ==
  [role : {"system", "user", "assistant", "tool", "item"},
   text : BOOLEAN, thinking : BOOLEAN, calls : Seq(Id), results : Seq(Id)]

Calls(h) == UNION {ToSet(h[i].calls) : i \in DOMAIN h}
Results(h) == UNION {ToSet(h[i].results) : i \in DOMAIN h}

-----------------------------------------------------------------------------
(* Items and candidates                                                    *)

TextItem == <<"none", "text">>

(* The items of a message in order; system messages and thinking have      *)
(* none, a user message has a text item even without text.                 *)
ItemsOf(m) ==
  (IF m.role = "user" \/ (m.role = "assistant" /\ m.text) THEN <<TextItem>> ELSE <<>>)
  \o [i \in DOMAIN m.calls |-> CallOf(m.calls[i])]
  \o [i \in DOMAIN m.results |-> ResultOf(m.results[i])]

(* The first item and the newest ones.                                     *)
Recent ==
  {items[k] : k \in {j \in DOMAIN items : j = 1 \/ j > Len(items) - PreserveRecent}}

(* Results whose text defines tools; only the blocks of a Claude user      *)
(* message are looked into.                                                *)
Defining(h) ==
  References \cap UNION {ToSet(h[i].results) : i \in {j \in DOMAIN h : h[j].role = "user"}}

(* Keys of candidates no score may touch: a pair is pinned as a whole.     *)
PinnedKeys(h) ==
  LET recent == Recent IN
  {k \in Key : \/ k[1] \in Defining(h)
               \/ k \in recent
               \/ k[1] \in Calls(h) \cap Results(h)
                    /\ (CallOf(k[1]) \in recent \/ ResultOf(k[1]) \in recent)}

(* A call without its result is no candidate.                              *)
CandidateKeys(h) ==
  {k \in Key : k[1] \in Results(h) /\ (k[2] = "call" => k[1] \in Calls(h))}

ScoredKeys(h) == CandidateKeys(h) \ PinnedKeys(h)

(* Slip: a score that is missing counts as a low one.                      *)
DecideCallMissingLow(h, l, g) ==
  [drop |-> {k \in ScoredKeys(h) : k[1] \in Calls(h) /\ Both({k[1]}) \cap g = {}},
   cut |-> {k \in l : k[2] = "result" /\ (k[1] \in Calls(h) => CallOf(k[1]) \in g)}]

(* Slip: a result with a low score is truncated, dropped or not.           *)
DecideCallBoth(h, l, g) ==
  [drop |-> {k \in l : Both({k[1]}) \subseteq l}, cut |-> {k \in l : k[2] = "result"}]

(* A pair is dropped if both scores are low, and its result is truncated   *)
(* if only that is; with a score missing, both are kept.  Both sides of a  *)
(* pair are named, so applyCompactToMessages derives none from the other.  *)
DecideCall(h, l, g) ==
  [drop |-> {k \in l : Both({k[1]}) \subseteq l},
   cut |-> {k \in l : k[2] = "result" /\ (k[1] \in Calls(h) => CallOf(k[1]) \in g)}]

-----------------------------------------------------------------------------
(* applyCompactToMessages                                                  *)

Keys(m) == {CallOf(id) : id \in ToSet(m.calls)} \cup {ResultOf(id) : id \in ToSet(m.results)}

BeforeSystem(h) ==
  UNION {Keys(h[i - 1]) : i \in {j \in DOMAIN h : j > 1 /\ h[j].role = "system"}}

(* Slip: only calls of the message before are kept.                        *)
KeepPredecessorCalls(h, a) ==
  Keeping(a, {k \in BeforeSystem(h) : k[2] = "call"} \cap a.drop)

(* The message before a system message stays where it is.                  *)
KeepPredecessors(h, a) ==
  Keeping(a, BeforeSystem(h) \cap a.drop)

(* Slip: a call counts as a remaining block even if it is dropped.         *)
KeepThinkingWithCalls(h, a) ==
  Keeping(a, UNION {Keys(h[i]) : i \in {j \in DOMAIN h : /\ h[j].role = "assistant"
                                                         /\ h[j].thinking /\ ~h[j].text
                                                         /\ h[j].calls = <<>>}})

(* Thinking blocks do not stay alone.                                      *)
KeepThinking(h, a) ==
  Keeping(a, UNION {Keys(h[i]) : i \in {j \in DOMAIN h : /\ h[j].role = "assistant"
                                                         /\ h[j].thinking /\ ~h[j].text
                                                         /\ Keys(h[j]) \subseteq a.drop}})

KeepDefinitions(h, a) == Keeping(a, Both(Defining(h)))

(* Slip: only calls without a result are looked at.                        *)
KeepPendingOnly(h, a) == Keeping(a, Both(Calls(h) \ Results(h)))

(* A call without a result stays, and a call and its result stay together. *)
KeepPairs(h, a) ==
  Keeping(a, Both({id \in Calls(h) :
                     \/ id \notin Results(h)
                     \/ (CallOf(id) \in a.drop) # (ResultOf(id) \in a.drop)}))

Retained(h, d) == KeepPairs(h, KeepDefinitions(h, KeepThinking(h, KeepPredecessors(h, d))))

(* A message goes when it had blocks to drop and no block is left.         *)
Gone(m, a) ==
  /\ Keys(m) # {} /\ ~m.text /\ ~m.thinking
  /\ Keys(m) \subseteq a.drop

(* Message j follows message i once the others are gone.                   *)
Follows(h, a, i, j) ==
  /\ i < j /\ ~Gone(h[j], a)
  /\ \A m \in i + 1 .. j - 1 : Gone(h[m], a)

(* Slip: restores whatever the assistant after a system message called.    *)
RestoredAlways(h, a) ==
  UNION {ToSet(h[i + 1].calls) :
           i \in {j \in DOMAIN h : j < Len(h) /\ h[j].role = "system" /\ h[j + 1].role = "assistant"}}

(* Calls of an assistant message that was dropped after a system message,  *)
(* where now something else than an assistant message follows.             *)
Restored(h, a) ==
  UNION {ToSet(h[i + 1].calls) :
           i \in {j \in DOMAIN h : /\ j < Len(h) /\ h[j].role = "system" /\ h[j + 1].role = "assistant"
                                   /\ \E n \in DOMAIN h : Follows(h, a, j, n) /\ h[n].role # "assistant"}}

-----------------------------------------------------------------------------
(* A history as a host sends it                                            *)

Init ==
  /\ form \in {"claude", "chat", "responses"}
  /\ msgs = <<>> /\ items = <<>>
  /\ phase = "history"
  /\ source = "none"
  /\ low = {} /\ high = {}
  /\ decisions = KeepAll
  /\ action = KeepAll

Say(m) ==
  /\ phase = "history"
  /\ Len(msgs) < MaxMsgs
  /\ msgs' = Append(msgs, m)
  /\ items' = items \o ItemsOf(m)
  /\ UNCHANGED <<form, phase, source, low, high, decisions, action>>

Plain(role) == [role |-> role, text |-> TRUE, thinking |-> FALSE, calls |-> <<>>, results |-> <<>>]

Used == Calls(msgs) \cup Results(msgs)
Pending == Calls(msgs) \ Results(msgs)

SaySystem == Pending = {} /\ Say(Plain("system"))
SayUser == Pending = {} /\ Say(Plain("user"))

(* Text, thinking and calls of one turn, in the two forms that carry calls *)
(* in the message.                                                         *)
SayAssistant ==
  /\ Pending = {}
  /\ \E calls \in SeqOf(Id \ Used, MaxCalls), text, thinking \in BOOLEAN :
       /\ IsInjective(calls)
       /\ text \/ calls # <<>>
       /\ form = "responses" => calls = <<>>
       /\ thinking => form = "claude"
       /\ Say([role |-> "assistant", text |-> text, thinking |-> thinking,
               calls |-> calls, results |-> <<>>])

(* The results of a Claude turn come in the next user message.             *)
SayResults ==
  /\ form = "claude"
  /\ Pending # {}
  /\ \E text \in BOOLEAN :
       Say([role |-> "user", text |-> text, thinking |-> FALSE,
            calls |-> <<>>, results |-> msgs[Len(msgs)].calls])

(* In the other forms each result is a message of its own.                 *)
SayResult ==
  /\ form # "claude"
  /\ \E id \in Pending :
       Say([role |-> IF form = "chat" THEN "tool" ELSE "item", text |-> FALSE,
            thinking |-> FALSE, calls |-> <<>>, results |-> <<id>>])

(* A call of the responses form; its host may have cut a call off from its *)
(* result at the start of the history.                                     *)
SayItem ==
  /\ form = "responses"
  /\ \E id \in Id \ Used :
       \/ Say([role |-> "item", text |-> FALSE, thinking |-> FALSE,
               calls |-> <<id>>, results |-> <<>>])
       \/ msgs = <<>> /\ Say([role |-> "item", text |-> FALSE, thinking |-> FALSE,
                              calls |-> <<>>, results |-> <<id>>])

-----------------------------------------------------------------------------
(* Compaction                                                              *)

Decide(who, l, g) ==
  /\ phase = "history"
  /\ phase' = "retain"
  /\ source' = who
  /\ low' = l /\ high' = g
  /\ decisions' = DecideCall(msgs, l, g)
  /\ UNCHANGED <<form, msgs, items, action>>

(* LocalAnswers: a call always scores high, a result as later tools decide;*)
(* without a live client, for a short history and when a request failed.   *)
DecideLocally ==
  LET scored == ScoredKeys(msgs) IN
  \E l \in SUBSET {k \in scored : k[2] = "result"} : Decide("local", l, scored \ l)

(* Jev may leave any question unanswered.                                  *)
DecideWithJev ==
  /\ Len(items) > LiveAbove
  /\ LET scored == ScoredKeys(msgs) IN
     \E l \in SUBSET scored : \E g \in SUBSET (scored \ l) : Decide("jev", l, g)

(* One pass of applyCompactToMessages ends in a call of itself ...         *)
RestoreSuccessors ==
  LET ids == Restored(msgs, Retained(msgs, decisions)) IN
  /\ phase = "retain"
  /\ ids # {}
  /\ decisions' = Keeping(decisions, Both(ids))
  /\ UNCHANGED <<form, msgs, items, phase, source, low, high, action>>

(* ... or in the retained history.                                         *)
Finish ==
  /\ phase = "retain"
  /\ Restored(msgs, Retained(msgs, decisions)) = {}
  /\ action' = Retained(msgs, decisions)
  /\ phase' = "done"
  /\ UNCHANGED <<form, msgs, items, source, low, high, decisions>>

Next ==
  \/ SaySystem \/ SayUser \/ SayAssistant \/ SayResults \/ SayResult \/ SayItem
  \/ DecideLocally \/ DecideWithJev
  \/ RestoreSuccessors \/ Finish

Spec == Init /\ [][Next]_vars

-----------------------------------------------------------------------------
(* Properties                                                              *)

(* Messages, scores, decisions and actions are what they should be: a key  *)
(* has one score and is not both dropped and truncated.                    *)
TypeOK ==
  /\ form \in {"claude", "chat", "responses"}
  /\ msgs \in Seq(Message)
  /\ items \in Seq(Key \cup {TextItem})
  /\ phase \in {"history", "retain", "done"}
  /\ source \in {"none", "local", "jev"}
  /\ low \subseteq Key /\ high \subseteq Key /\ low \cap high = {}
  /\ \A a \in {decisions, action} : a \in Action /\ a.drop \cap a.cut = {}

(* Upstream never sees a call without its result or a result without its   *)
(* call that the host sent together, and a pending call stays, whatever the *)
(* other rules of applyCompactToMessages kept of a pair.                    *)
PairsWhole ==
  \A id \in Calls(msgs) :
    /\ CallOf(id) \in action.drop => id \in Results(msgs)
    /\ id \in Results(msgs) => (CallOf(id) \in action.drop <=> ResultOf(id) \in action.drop)

(* A system message keeps its predecessor, and no other message than one of *)
(* the assistant takes the place of the assistant's after it.               *)
BoundariesKept ==
  phase = "done" =>
    \A i \in DOMAIN msgs : msgs[i].role = "system" =>
      /\ i > 1 => ~Gone(msgs[i - 1], action)
      /\ i < Len(msgs) /\ msgs[i + 1].role = "assistant" =>
           \A j \in DOMAIN msgs : Follows(msgs, action, i, j) => msgs[j].role = "assistant"

(* No assistant message is left with its signed thinking alone.            *)
ThinkingAccompanied ==
  \A i \in DOMAIN msgs :
    msgs[i].thinking /\ ~msgs[i].text => ~(Keys(msgs[i]) \subseteq action.drop)

(* What is dropped was scored low by Jev, call and result; what is cut was *)
(* scored low; missing scores, local scores, the newest items and tool     *)
(* definitions drop nothing, at whatever pass the decision arrives.        *)
LossIsJustified ==
  /\ (action.drop \cup action.cut) \cap PinnedKeys(msgs) = {}
  /\ action.drop \cup action.cut \subseteq low
  /\ action.drop # {} => source = "jev"
  /\ \A k \in action.drop : Both({k[1]}) \subseteq low
  /\ action.cut \subseteq {ResultOf(id) : id \in Id}

(* applyCompactToMessages calls itself only to keep calls that were decided *)
(* to be dropped: each call has fewer such decisions, and the last returns.*)
PassesShrink ==
  phase = "retain" => Both(Restored(msgs, Retained(msgs, decisions))) \subseteq decisions.drop

=============================================================================
