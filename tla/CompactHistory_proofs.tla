------------------------ MODULE CompactHistory_proofs ------------------------
(***************************************************************************)
(* Proofs about CompactHistory, for histories of any length and form.  The *)
(* passes of applyCompactToMessages only take keys out of what was decided *)
(* to be dropped or cut, so what one of them kept is kept in the end, and  *)
(* what is lost in the end was decided to be.                              *)
(***************************************************************************)
EXTENDS CompactHistory, TLAPS

(* Nothing is lost before the end, and every loss was decided on a score.  *)
Decided ==
  /\ phase # "done" => action = KeepAll
  /\ phase = "history" => decisions = KeepAll /\ low = {}
  /\ low \subseteq ScoredKeys(msgs)
  /\ source # "jev" => \A id \in Id : CallOf(id) \notin low
  /\ decisions.drop \subseteq {k \in low : Both({k[1]}) \subseteq low}
  /\ decisions.cut \subseteq {k \in low : k[2] = "result"}

(* Assistant messages have no results, and thinking comes with something.  *)
Shaped ==
  \A i \in DOMAIN msgs :
    /\ msgs[i].role = "assistant" => msgs[i].results = <<>>
    /\ msgs[i].thinking => msgs[i].role = "assistant"
    /\ msgs[i].thinking /\ ~msgs[i].text => msgs[i].calls # <<>>

(* What is retained comes from the decisions.                              *)
Ended == phase = "done" => /\ action = Retained(msgs, decisions)
                           /\ Restored(msgs, action) = {}

IInv == TypeOK /\ Decided /\ Shaped /\ Ended

-----------------------------------------------------------------------------
(* Keeping keys takes them out and adds nothing.                           *)
LEMMA KeepingLess ==
  ASSUME NEW a \in Action, NEW keys
  PROVE  LET b == Keeping(a, keys) IN
         /\ b \in Action
         /\ b.drop = a.drop \ keys /\ b.cut = a.cut \ keys
BY DEF Keeping, Action

(* The four passes, one after the other: what each one takes care of.      *)
LEMMA RetainedPasses ==
  ASSUME NEW h, NEW d \in Action
  PROVE  LET a == Retained(h, d)
             p == KeepPredecessors(h, d)
             t == KeepThinking(h, p)
             r == KeepDefinitions(h, t) IN
         /\ a \in Action /\ a = KeepPairs(h, r)
         /\ p \in Action /\ t \in Action /\ r \in Action
         /\ a.drop \subseteq r.drop /\ r.drop \subseteq t.drop
         /\ t.drop \subseteq p.drop /\ p.drop \subseteq d.drop
         /\ a.cut \subseteq d.cut
<1> DEFINE p == KeepPredecessors(h, d)
           t == KeepThinking(h, p)
           r == KeepDefinitions(h, t)
           a == KeepPairs(h, r)
<1>1. p \in Action /\ p.drop \subseteq d.drop /\ p.cut \subseteq d.cut
  BY KeepingLess DEF KeepPredecessors
<1> HIDE DEF p
<1>2. t \in Action /\ t.drop \subseteq p.drop /\ t.cut \subseteq p.cut
  BY <1>1, KeepingLess DEF KeepThinking
<1> HIDE DEF t
<1>3. r \in Action /\ r.drop \subseteq t.drop /\ r.cut \subseteq t.cut
  BY <1>2, KeepingLess DEF KeepDefinitions
<1> HIDE DEF r
<1>4. a \in Action /\ a.drop \subseteq r.drop /\ a.cut \subseteq r.cut
  BY <1>3, KeepingLess DEF KeepPairs
<1>5. a = Retained(h, d)
  BY DEF Retained, a, r, t, p
<1> HIDE DEF a
<1>6. QED
  BY <1>1, <1>2, <1>3, <1>4, <1>5 DEF a, r, t, p

(* After the last pass calls and results that are dropped are pairs.       *)
LEMMA RetainedPairs ==
  ASSUME NEW h, NEW d \in Action, Calls(h) \subseteq Id, NEW id \in Calls(h)
  PROVE  LET a == Retained(h, d) IN
         /\ CallOf(id) \in a.drop => id \in Results(h)
         /\ id \in Results(h) => (CallOf(id) \in a.drop <=> ResultOf(id) \in a.drop)
<1> DEFINE r == KeepDefinitions(h, KeepThinking(h, KeepPredecessors(h, d)))
           broken == {c \in Calls(h) : \/ c \notin Results(h)
                                       \/ (CallOf(c) \in r.drop) # (ResultOf(c) \in r.drop)}
<1>1. r \in Action /\ Retained(h, d) = KeepPairs(h, r)
  BY RetainedPasses
<1> HIDE DEF r
<1>2. KeepPairs(h, r).drop = r.drop \ Both(broken)
  BY <1>1, KeepingLess DEF KeepPairs
<1>3. \A c : (CallOf(c) \in Both(broken) <=> c \in broken) /\ (ResultOf(c) \in Both(broken) <=> c \in broken)
  BY DEF Both, CallOf, ResultOf
<1>4. QED
  BY <1>1, <1>2, <1>3

(* Where something but an assistant message follows a system message, the  *)
(* assistant message that did is gone.                                     *)
LEMMA RestoredGone ==
  ASSUME NEW h \in Seq(Message), NEW a, NEW id \in Restored(h, a)
  PROVE  CallOf(id) \in a.drop /\ id \in Calls(h)
<1>1. PICK i \in DOMAIN h :
        /\ i < Len(h) /\ h[i].role = "system" /\ h[i + 1].role = "assistant"
        /\ \E n \in DOMAIN h : Follows(h, a, i, n) /\ h[n].role # "assistant"
        /\ id \in ToSet(h[i + 1].calls)
  BY DEF Restored
<1>2. PICK n \in DOMAIN h : Follows(h, a, i, n) /\ h[n].role # "assistant"
  BY <1>1
<1>3. n # i + 1 /\ i + 1 \in DOMAIN h /\ i + 1 \in i + 1 .. n - 1
  BY <1>1, <1>2 DEF Follows
<1>4. Gone(h[i + 1], a)
  BY <1>2, <1>3 DEF Follows
<1>5. CallOf(id) \in Keys(h[i + 1])
  BY <1>1 DEF Keys
<1>6. QED
  BY <1>1, <1>3, <1>4, <1>5 DEF Gone, Calls

(* The ids of a history are ids.                                           *)
LEMMA CallsAreIds ==
  ASSUME NEW h \in Seq(Message)
  PROVE  Calls(h) \subseteq Id /\ Results(h) \subseteq Id
<1>1. \A s \in Seq(Id) : ToSet(s) \subseteq Id
  BY DEF ToSet
<1>2. \A m \in Message : m.calls \in Seq(Id) /\ m.results \in Seq(Id)
  BY DEF Message
<1>3. \A i \in DOMAIN h : h[i] \in Message
  OBVIOUS
<1>4. \A i \in DOMAIN h : ToSet(h[i].calls) \subseteq Id /\ ToSet(h[i].results) \subseteq Id
  BY <1>1, <1>2, <1>3
<1>5. QED
  BY <1>4 DEF Calls, Results

(* A message adds its items, and they are keys or text.                    *)
LEMMA ItemsOfType ==
  ASSUME NEW m \in Message
  PROVE  ItemsOf(m) \in Seq(Key \cup {TextItem})
<1> DEFINE texts == IF m.role = "user" \/ (m.role = "assistant" /\ m.text) THEN <<TextItem>> ELSE <<>>
           calls == [i \in DOMAIN m.calls |-> CallOf(m.calls[i])]
           results == [i \in DOMAIN m.results |-> ResultOf(m.results[i])]
<1>1. m.calls \in Seq(Id) /\ m.results \in Seq(Id)
  BY DEF Message
<1>2. \A id \in Id : CallOf(id) \in Key /\ ResultOf(id) \in Key
  BY DEF Key, CallOf, ResultOf
<1>3. calls \in Seq(Key \cup {TextItem})
  BY <1>1, <1>2
<1>4. results \in Seq(Key \cup {TextItem})
  BY <1>1, <1>2
<1>5. texts \in Seq(Key \cup {TextItem})
  <2>1. <<TextItem>> \in Seq(Key \cup {TextItem})
    OBVIOUS
  <2>2. <<>> \in Seq(Key \cup {TextItem})
    OBVIOUS
  <2>3. QED
    BY <2>1, <2>2
<1>6. ItemsOf(m) = texts \o calls \o results
  BY DEF ItemsOf
<1> HIDE DEF texts, calls, results
<1>7. QED
  BY <1>3, <1>4, <1>5, <1>6

(* Init establishes the invariant.                                         *)
LEMMA InitInv == Init => IInv
<1> SUFFICES ASSUME Init PROVE IInv
  OBVIOUS
<1>1. TypeOK
  BY DEF Init, TypeOK, Action, KeepAll
<1>2. Decided
  BY DEF Init, Decided, KeepAll
<1>3. Shaped /\ Ended
  BY DEF Init, Shaped, Ended
<1>4. QED
  BY <1>1, <1>2, <1>3 DEF IInv

(* A message of the right shape may be added.                              *)
LEMMA SayInv ==
  ASSUME IInv, NEW m \in Message, Say(m),
         m.role = "assistant" => m.results = <<>>,
         m.thinking => m.role = "assistant",
         m.thinking /\ ~m.text => m.calls # <<>>
  PROVE  IInv'
<1> USE DEF IInv, Say
<1>1. msgs \in Seq(Message) /\ items \in Seq(Key \cup {TextItem})
  BY DEF TypeOK
<1>2. TypeOK'
  BY <1>1, ItemsOfType DEF TypeOK
<1>3. Shaped'
  <2>1. \A i \in DOMAIN msgs' : (i \in DOMAIN msgs /\ msgs'[i] = msgs[i]) \/ msgs'[i] = m
    BY <1>1
  <2>2. QED
    BY <2>1 DEF Shaped
<1>4. Decided'
  BY DEF Decided, KeepAll
<1>5. QED
  BY <1>2, <1>3, <1>4 DEF Ended

(* Whoever decides, decides on the scores of scored keys.                  *)
LEMMA DecideInv ==
  ASSUME IInv, NEW who \in {"local", "jev"}, NEW l, NEW g, Decide(who, l, g),
         l \subseteq ScoredKeys(msgs), g \subseteq ScoredKeys(msgs), l \cap g = {},
         who # "jev" => \A k \in l : k[2] = "result"
  PROVE  IInv'
<1> USE DEF IInv, Decide
<1>1. ScoredKeys(msgs) \subseteq Key
  BY DEF ScoredKeys, CandidateKeys
<1>2. /\ decisions'.drop = {k \in l : Both({k[1]}) \subseteq l}
      /\ decisions'.cut = {k \in l : k[2] = "result" /\ (k[1] \in Calls(msgs) => CallOf(k[1]) \in g)}
      /\ decisions' \in Action
  BY <1>1 DEF DecideCall, Action
<1>3. TypeOK'
  <2>1. ASSUME NEW k \in decisions'.drop \cap decisions'.cut PROVE FALSE
    <3>1. k \in Key /\ k[1] \in Id /\ CallOf(k[1]) \in Both({k[1]})
      BY <1>1, <1>2, <2>1 DEF Key, Both, CallOf
    <3>2. CallOf(k[1]) \in l
      BY <1>2, <2>1, <3>1
    <3>3. CallOf(k[1]) \in ScoredKeys(msgs) /\ CallOf(k[1])[2] = "call"
      BY <3>2 DEF CallOf
    <3>4. k[1] \in Calls(msgs)
      BY <3>3 DEF ScoredKeys, CandidateKeys, CallOf
    <3>5. CallOf(k[1]) \in g
      BY <1>2, <2>1, <3>4
    <3>6. QED
      BY <3>2, <3>5
  <2>2. QED
    BY <1>1, <1>2, <2>1 DEF TypeOK
<1>4. Decided'
  <2>1. ScoredKeys(msgs)' = ScoredKeys(msgs)
    BY DEF ScoredKeys, CandidateKeys, PinnedKeys, Recent
  <2>2. source' # "jev" => \A id \in Id : CallOf(id) \notin low'
    BY DEF CallOf
  <2>3. QED
    BY <1>2, <2>1, <2>2 DEF Decided
<1>5. (Shaped /\ Ended)'
  BY DEF Shaped, Ended
<1>6. QED
  BY <1>3, <1>4, <1>5

(* Every step preserves the invariant.                                     *)
LEMMA StepInv == IInv /\ [Next]_vars => IInv'
<1> SUFFICES ASSUME IInv, [Next]_vars PROVE IInv'
  OBVIOUS
<1>t. /\ msgs \in Seq(Message) /\ decisions \in Action
  BY DEF IInv, TypeOK
<1>p. \A role \in {"system", "user"} : Plain(role) \in Message /\ Plain(role).role = role
                                      /\ ~Plain(role).thinking
  BY DEF Plain, Message
<1>1. CASE SaySystem
  BY <1>1, <1>p, SayInv DEF SaySystem
<1>2. CASE SayUser
  BY <1>2, <1>p, SayInv DEF SayUser
<1>3. CASE SayAssistant
  <2>1. PICK calls \in SeqOf(Id \ Used, MaxCalls), text \in BOOLEAN, thinking \in BOOLEAN :
          /\ text \/ calls # <<>>
          /\ Say([role |-> "assistant", text |-> text, thinking |-> thinking,
                   calls |-> calls, results |-> <<>>])
    BY <1>3 DEF SayAssistant
  <2>2. calls \in Seq(Id)
    <3>1. PICK n \in 0 .. MaxCalls : calls \in [1 .. n -> Id \ Used]
      BY DEF SeqOf
    <3>2. n \in Nat
      BY <3>1, HistoryAssumption
    <3>3. QED
      BY <3>1, <3>2
  <2> DEFINE m == [role |-> "assistant", text |-> text, thinking |-> thinking,
                   calls |-> calls, results |-> <<>>]
  <2>3. m \in Message /\ m.role = "assistant" /\ m.results = <<>>
        /\ m.thinking = thinking /\ m.text = text /\ m.calls = calls
    BY <2>2 DEF Message
  <2>4. Say(m)
    BY <2>1
  <2> HIDE DEF m
  <2>5. QED
    BY <2>1, <2>3, <2>4, SayInv
<1>4. CASE SayResults
  <2>1. PICK text \in BOOLEAN :
          Say([role |-> "user", text |-> text, thinking |-> FALSE,
               calls |-> <<>>, results |-> msgs[Len(msgs)].calls])
    BY <1>4 DEF SayResults
  <2>2. msgs # <<>>
    BY <1>4 DEF SayResults, Pending, Calls
  <2>3. msgs[Len(msgs)] \in Message
    BY <1>t, <2>2
  <2>4. msgs[Len(msgs)].calls \in Seq(Id)
    BY <2>3 DEF Message
  <2> DEFINE m == [role |-> "user", text |-> text, thinking |-> FALSE,
                   calls |-> <<>>, results |-> msgs[Len(msgs)].calls]
  <2>5. m \in Message /\ m.role = "user" /\ ~m.thinking
    BY <2>4 DEF Message
  <2>6. Say(m)
    BY <2>1
  <2> HIDE DEF m
  <2>7. QED
    BY <2>5, <2>6, SayInv
<1>5. CASE SayResult
  <2>1. Pending \subseteq Id
    BY <1>t, CallsAreIds DEF Pending
  <2>2. PICK id \in Pending :
          Say([role |-> IF form = "chat" THEN "tool" ELSE "item", text |-> FALSE,
               thinking |-> FALSE, calls |-> <<>>, results |-> <<id>>])
    BY <1>5 DEF SayResult
  <2>3. <<id>> \in Seq(Id)
    BY <2>1, <2>2
  <2> DEFINE m == [role |-> IF form = "chat" THEN "tool" ELSE "item", text |-> FALSE,
                   thinking |-> FALSE, calls |-> <<>>, results |-> <<id>>]
  <2>4. m \in Message /\ m.role # "assistant" /\ ~m.thinking
    BY <2>3 DEF Message
  <2>5. Say(m)
    BY <2>2
  <2> HIDE DEF m
  <2>6. QED
    BY <2>4, <2>5, SayInv
<1>6. CASE SayItem
  <2>1. PICK id \in Id :
          \/ Say([role |-> "item", text |-> FALSE, thinking |-> FALSE,
                  calls |-> <<id>>, results |-> <<>>])
          \/ Say([role |-> "item", text |-> FALSE, thinking |-> FALSE,
                  calls |-> <<>>, results |-> <<id>>])
    BY <1>6 DEF SayItem
  <2>2. <<id>> \in Seq(Id)
    OBVIOUS
  <2> DEFINE m(calls, results) == [role |-> "item", text |-> FALSE, thinking |-> FALSE,
                                   calls |-> calls, results |-> results]
  <2>3. \A calls, results \in Seq(Id) : m(calls, results) \in Message
                                      /\ m(calls, results).role # "assistant"
                                      /\ ~m(calls, results).thinking
    BY DEF Message
  <2>4. Say(m(<<id>>, <<>>)) \/ Say(m(<<>>, <<id>>))
    BY <2>1
  <2> HIDE DEF m
  <2>5. <<>> \in Seq(Id)
    OBVIOUS
  <2>6. QED
    BY <2>2, <2>3, <2>4, <2>5, SayInv
<1>7. CASE DecideLocally
  <2>1. PICK l \in SUBSET {k \in ScoredKeys(msgs) : k[2] = "result"} :
          Decide("local", l, ScoredKeys(msgs) \ l)
    BY <1>7 DEF DecideLocally
  <2>2. QED
    BY <2>1, DecideInv
<1>8. CASE DecideWithJev
  <2>1. PICK l \in SUBSET ScoredKeys(msgs), g \in SUBSET ScoredKeys(msgs) :
          l \cap g = {} /\ Decide("jev", l, g)
    BY <1>8 DEF DecideWithJev
  <2>2. QED
    BY <2>1, DecideInv
<1>9. CASE RestoreSuccessors
  <2> DEFINE ids == Restored(msgs, Retained(msgs, decisions))
  <2>1. /\ decisions' \in Action
        /\ decisions'.drop = decisions.drop \ Both(ids)
        /\ decisions'.cut = decisions.cut \ Both(ids)
    BY <1>t, <1>9, KeepingLess DEF RestoreSuccessors
  <2> HIDE DEF ids
  <2>2. UNCHANGED <<form, msgs, items, phase, source, low, high, action>> /\ phase = "retain"
    BY <1>9 DEF RestoreSuccessors
  <2>3. TypeOK'
    BY <2>1, <2>2 DEF IInv, TypeOK
  <2>4. Decided'
    <3>1. ScoredKeys(msgs)' = ScoredKeys(msgs)
      BY <2>2 DEF ScoredKeys, CandidateKeys, PinnedKeys, Recent
    <3>2. QED
      BY <2>1, <2>2, <3>1 DEF IInv, Decided
  <2>5. QED
    BY <2>2, <2>3, <2>4 DEF IInv, Shaped, Ended
<1>10. CASE Finish
  <2> DEFINE a == Retained(msgs, decisions)
  <2>1. /\ action' = a /\ Restored(msgs, a) = {} /\ phase' = "done"
        /\ UNCHANGED <<form, msgs, items, source, low, high, decisions>>
    BY <1>10 DEF Finish
  <2>2. a \in Action /\ a.drop \subseteq decisions.drop /\ a.cut \subseteq decisions.cut
    BY <1>t, RetainedPasses
  <2>3. Ended'
    BY <2>1 DEF Ended
  <2> HIDE DEF a
  <2>4. TypeOK'
    BY <2>1, <2>2 DEF IInv, TypeOK
  <2>5. Decided'
    <3>1. ScoredKeys(msgs)' = ScoredKeys(msgs)
      BY <2>1 DEF ScoredKeys, CandidateKeys, PinnedKeys, Recent
    <3>2. QED
      BY <2>1, <3>1 DEF IInv, Decided
  <2>6. QED
    BY <2>1, <2>3, <2>4, <2>5 DEF IInv, Shaped
<1>11. CASE UNCHANGED vars
  <2>1. ScoredKeys(msgs)' = ScoredKeys(msgs)
    BY <1>11 DEF vars, ScoredKeys, CandidateKeys, PinnedKeys, Recent
  <2>2. QED
    BY <1>11, <2>1 DEF vars, IInv, TypeOK, Decided, Shaped, Ended
<1>12. QED
  BY <1>1, <1>2, <1>3, <1>4, <1>5, <1>6, <1>7, <1>8, <1>9, <1>10, <1>11 DEF Next

(* In every reachable state the invariant holds.                           *)
THEOREM Invariant == Spec => []IInv
BY InitInv, StepInv, PTL DEF Spec

(* Messages, scores, decisions and actions keep their types; no key is     *)
(* dropped and truncated.                                                  *)
THEOREM Types == Spec => []TypeOK
<1>1. IInv => TypeOK
  BY DEF IInv
<1>2. QED
  BY <1>1, Invariant, PTL

(* A call that its host sent with its result is dropped with it or not at  *)
(* all, and a call without one stays (applyCompactToMessages).             *)
THEOREM PairsStayWhole == Spec => []PairsWhole
<1>1. IInv => PairsWhole
  <2> SUFFICES ASSUME IInv PROVE PairsWhole
    OBVIOUS
  <2>1. msgs \in Seq(Message) /\ decisions \in Action
    BY DEF IInv, TypeOK
  <2>2. CASE phase # "done"
    BY <2>2 DEF IInv, Decided, KeepAll, PairsWhole
  <2>3. CASE phase = "done"
    BY <2>1, <2>3, CallsAreIds, RetainedPairs DEF IInv, Ended, PairsWhole
  <2>4. QED
    BY <2>2, <2>3
<1>2. QED
  BY <1>1, Invariant, PTL

(* What was kept before a system message is still there at the end, and so *)
(* is a tool call beside thinking.                                         *)
LEMMA RetainedKeeps ==
  ASSUME NEW h \in Seq(Message), NEW d \in Action, NEW i \in DOMAIN h, Keys(h[i]) # {}
  PROVE  LET a == Retained(h, d) IN
         /\ i + 1 \in DOMAIN h /\ h[i + 1].role = "system" => ~(Keys(h[i]) \subseteq a.drop)
         /\ h[i].role = "assistant" /\ h[i].thinking /\ ~h[i].text
              => ~(Keys(h[i]) \subseteq a.drop)
<1> DEFINE p == KeepPredecessors(h, d)
           t == KeepThinking(h, p)
           a == Retained(h, d)
<1>1. /\ p \in Action /\ t \in Action /\ p.drop \subseteq d.drop
      /\ t.drop \subseteq p.drop /\ a.drop \subseteq t.drop
  BY RetainedPasses
<1>2. ASSUME i + 1 \in DOMAIN h, h[i + 1].role = "system"
      PROVE  Keys(h[i]) \cap p.drop = {}
  <2>1. Keys(h[i]) \subseteq BeforeSystem(h)
    <3>1. i + 1 > 1 /\ (i + 1) - 1 = i
      OBVIOUS
    <3>2. Keys(h[(i + 1) - 1]) \subseteq BeforeSystem(h)
      BY <1>2, <3>1 DEF BeforeSystem
    <3>3. QED
      BY <3>1, <3>2
  <2>2. p.drop = d.drop \ (BeforeSystem(h) \cap d.drop)
    BY KeepingLess DEF KeepPredecessors
  <2>3. QED
    BY <2>1, <2>2
<1>3. ASSUME h[i].role = "assistant", h[i].thinking, ~h[i].text, Keys(h[i]) \subseteq t.drop
      PROVE  FALSE
  <2> DEFINE alone == {j \in DOMAIN h : /\ h[j].role = "assistant" /\ h[j].thinking /\ ~h[j].text
                                        /\ Keys(h[j]) \subseteq p.drop}
             keys == UNION {Keys(h[j]) : j \in alone}
  <2>1. i \in alone
    BY <1>1, <1>3
  <2>2. Keys(h[i]) \subseteq keys
    BY <2>1
  <2>3. t.drop = p.drop \ keys
    BY <1>1, KeepingLess DEF KeepThinking
  <2>4. QED
    BY <1>3, <2>2, <2>3
<1> HIDE DEF p, t, a
<1>4. QED
  BY <1>1, <1>2, <1>3 DEF a

(* No assistant message is left with its signed thinking alone.            *)
THEOREM ThinkingKept == Spec => []ThinkingAccompanied
<1>1. IInv => ThinkingAccompanied
  <2> SUFFICES ASSUME IInv, NEW i \in DOMAIN msgs, msgs[i].thinking, ~msgs[i].text
               PROVE  ~(Keys(msgs[i]) \subseteq action.drop)
    BY DEF ThinkingAccompanied
  <2>1. msgs \in Seq(Message) /\ decisions \in Action /\ msgs[i] \in Message
    BY DEF IInv, TypeOK
  <2>2. msgs[i].role = "assistant" /\ msgs[i].calls # <<>>
    BY DEF IInv, Shaped
  <2>3. Keys(msgs[i]) # {}
    <3>1. msgs[i].calls \in Seq(Id)
      BY <2>1 DEF Message
    <3>2. 1 \in DOMAIN msgs[i].calls
      BY <2>2, <3>1
    <3>3. QED
      BY <3>2 DEF Keys, ToSet
  <2>4. CASE phase # "done"
    BY <2>3, <2>4 DEF IInv, Decided, KeepAll
  <2>5. CASE phase = "done"
    BY <2>1, <2>2, <2>3, <2>5, RetainedKeeps DEF IInv, Ended
  <2>6. QED
    BY <2>4, <2>5
<1>2. QED
  BY <1>1, Invariant, PTL

(* A system message keeps the messages its host wants beside it.           *)
THEOREM SystemNeighbours == Spec => []BoundariesKept
<1>1. IInv => BoundariesKept
  <2> SUFFICES ASSUME IInv, phase = "done", NEW i \in DOMAIN msgs, msgs[i].role = "system"
               PROVE  /\ i > 1 => ~Gone(msgs[i - 1], action)
                      /\ i < Len(msgs) /\ msgs[i + 1].role = "assistant" =>
                           \A j \in DOMAIN msgs :
                             Follows(msgs, action, i, j) => msgs[j].role = "assistant"
    BY DEF BoundariesKept
  <2>1. msgs \in Seq(Message) /\ decisions \in Action
    BY DEF IInv, TypeOK
  <2>2. action = Retained(msgs, decisions) /\ Restored(msgs, action) = {}
    BY DEF IInv, Ended
  <2>3. ASSUME i > 1, Gone(msgs[i - 1], action) PROVE FALSE
    <3>1. i - 1 \in DOMAIN msgs /\ (i - 1) + 1 = i
      BY <2>1, <2>3
    <3>2. Keys(msgs[i - 1]) # {} /\ Keys(msgs[i - 1]) \subseteq action.drop
      BY <2>3 DEF Gone
    <3>3. QED
      BY <2>1, <2>2, <3>1, <3>2, RetainedKeeps
  <2>4. ASSUME i < Len(msgs), msgs[i + 1].role = "assistant", NEW j \in DOMAIN msgs,
               Follows(msgs, action, i, j), msgs[j].role # "assistant"
        PROVE  FALSE
    <3>1. ToSet(msgs[i + 1].calls) \subseteq Restored(msgs, action)
      BY <2>4 DEF Restored
    <3>2. i + 1 \in DOMAIN msgs /\ msgs[i + 1].results = <<>>
      <4>1. i + 1 \in DOMAIN msgs
        BY <2>1, <2>4
      <4>2. QED
        BY <2>4, <4>1 DEF IInv, Shaped
    <3>3. Keys(msgs[i + 1]) = {}
      <4>1. ToSet(msgs[i + 1].calls) = {}
        BY <2>2, <3>1
      <4>2. ToSet(msgs[i + 1].results) = {}
        BY <3>2 DEF ToSet
      <4>3. QED
        BY <4>1, <4>2 DEF Keys
    <3>4. j # i + 1 /\ i + 1 \in i + 1 .. j - 1
      BY <2>1, <2>4 DEF Follows
    <3>5. QED
      BY <2>4, <3>3, <3>4 DEF Follows, Gone
  <2>5. QED
    BY <2>3, <2>4
<1>2. QED
  BY <1>1, Invariant, PTL

(* Nothing is lost without a low score, nothing pinned, and nothing is     *)
(* dropped unless Jev scored call and result low (DecideCall).             *)
THEOREM LossesJustified == Spec => []LossIsJustified
<1>1. IInv => LossIsJustified
  <2> SUFFICES ASSUME IInv PROVE LossIsJustified
    OBVIOUS
  <2>1. msgs \in Seq(Message) /\ decisions \in Action /\ low \subseteq Key
    BY DEF IInv, TypeOK
  <2>2. action.drop \subseteq decisions.drop /\ action.cut \subseteq decisions.cut
    <3>1. CASE phase # "done"
      BY <3>1 DEF IInv, Decided, KeepAll
    <3>2. CASE phase = "done"
      BY <2>1, <3>2, RetainedPasses DEF IInv, Ended
    <3>3. QED
      BY <3>1, <3>2
  <2>3. /\ low \cap PinnedKeys(msgs) = {}
        /\ decisions.drop \subseteq {k \in low : Both({k[1]}) \subseteq low}
        /\ decisions.cut \subseteq {k \in low : k[2] = "result"}
    BY DEF IInv, Decided, ScoredKeys
  <2>4. action.drop # {} => source = "jev"
    <3> SUFFICES ASSUME NEW k \in action.drop PROVE source = "jev"
      OBVIOUS
    <3>1. k \in Key /\ Both({k[1]}) \subseteq low
      BY <2>1, <2>2, <2>3
    <3>2. k[1] \in Id /\ CallOf(k[1]) \in low
      BY <3>1 DEF Key, Both, CallOf
    <3>3. QED
      BY <3>2 DEF IInv, Decided
  <2>5. action.cut \subseteq {ResultOf(id) : id \in Id}
    BY <2>1, <2>2, <2>3 DEF Key, ResultOf
  <2>6. QED
    BY <2>2, <2>3, <2>4, <2>5 DEF LossIsJustified
<1>2. QED
  BY <1>1, Invariant, PTL

(* Each call of applyCompactToMessages by itself keeps calls that were to  *)
(* be dropped, so there are no more of them than calls in the history.     *)
THEOREM PassesEnd == Spec => []PassesShrink
<1>1. IInv => PassesShrink
  <2> DEFINE a == Retained(msgs, decisions)
  <2> SUFFICES ASSUME IInv, NEW id \in Restored(msgs, a)
               PROVE  CallOf(id) \in decisions.drop /\ ResultOf(id) \in decisions.drop
    <3>1. \A ids, keys :
            (\A c \in ids : CallOf(c) \in keys /\ ResultOf(c) \in keys) => Both(ids) \subseteq keys
      <4> SUFFICES ASSUME NEW ids, NEW keys, NEW k \in Both(ids),
                          \A c \in ids : CallOf(c) \in keys /\ ResultOf(c) \in keys
                   PROVE  k \in keys
        OBVIOUS
      <4>1. PICK c \in ids : k = <<c, "call">> \/ k = <<c, "result">>
        BY DEF Both
      <4>2. QED
        BY <4>1 DEF CallOf, ResultOf
    <3>2. QED
      BY <3>1 DEF PassesShrink
  <2>1. msgs \in Seq(Message) /\ decisions \in Action
    BY DEF IInv, TypeOK
  <2>2. CallOf(id) \in a.drop /\ id \in Calls(msgs)
    BY <2>1, RestoredGone
  <2>3. ResultOf(id) \in a.drop
    BY <2>1, <2>2, CallsAreIds, RetainedPairs
  <2>4. a.drop \subseteq decisions.drop
    BY <2>1, RetainedPasses
  <2>5. QED
    BY <2>2, <2>3, <2>4
<1>2. QED
  BY <1>1, Invariant, PTL

=============================================================================
