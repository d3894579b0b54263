------------------------------ MODULE ClearGate ------------------------------
(***************************************************************************)
(* The clear gate of internal/proxy/clear_gate.go together with the two    *)
(* places of internal/proxy/proxy.go that call it: the request handler,    *)
(* which asks the gate whether a Claude request may carry the              *)
(* clear_tool_uses edit, and the response's usage callback, which reports  *)
(* the context size of the conversation back.                              *)
(*                                                                         *)
(* The store is a map bounded by a FIFO of keys.  Its mutex makes every    *)
(* critical section one step; the question to Jev is asked between two     *)
(* critical sections, and its answer is written through the pointer the    *)
(* first one captured, which the FIFO may have dropped from the map in the *)
(* meantime.  A pointer is modelled by the identity of its entry.          *)
(***************************************************************************)
EXTENDS Naturals, Sequences

CONSTANTS
  Conv,       \* keys of the conversations (hash of model and first message)
  NoKey,      \* the key of a body without messages: the empty string
  Req,        \* request goroutines of the handler
  EntryId,    \* addresses of clearGateEntry objects
  NoEntry,    \* a key that is not in the map
  MaxStore,   \* clearGateStoreMax
  Trigger,    \* ClaudeClearTrigger
  AtLeast,    \* ClaudeClearAtLeast
  Ctx,        \* context sizes a response may report
  Clearable   \* clearable tokens a request may carry

Final     == {"clear", "keep", "error"}
Decisions == {"unknown", "asking"} \cup Final

(* clearGateEntry, and the address it lives at.                            *)
Entry == [id : EntryId, lastCtx : Nat, observed : BOOLEAN, decision : Decisions]

ASSUME KeysAssumption   == NoKey \notin Conv
ASSUME EntryAssumption  == NoEntry \notin EntryId /\ NoEntry \notin Entry
ASSUME BoundAssumption  == MaxStore \in Nat \ {0}
ASSUME TokensAssumption == /\ Trigger \in Nat /\ AtLeast \in Nat
                           /\ Ctx \subseteq Nat /\ Clearable \subseteq Nat

VARIABLES
  conv,       \* key -> its entry, or NoEntry
  order,      \* the keys of conv, oldest first
  pc,         \* request -> "idle", "asking" or "sent"
  key,        \* request -> its conversation
  held,       \* request -> the entry its gate call captured
  edit,       \* request -> may it carry the clear_tool_uses edit?
  asks,       \* history: key -> questions asked since it was last evicted
  carried     \* history: key -> an edit was granted since it was last evicted

store == <<conv, order>>
reqs  == <<pc, key, held, edit>>
vars  == <<conv, order, pc, key, held, edit, asks, carried>>

Init ==
  /\ conv = [k \in Conv |-> NoEntry]
  /\ order = << >>
  /\ pc = [r \in Req |-> "idle"]
  /\ key = [r \in Req |-> NoKey]
  /\ held = [r \in Req |-> NoEntry]
  /\ edit = [r \in Req |-> FALSE]
  /\ asks = [k \in Conv |-> 0]
  /\ carried = [k \in Conv |-> FALSE]

-----------------------------------------------------------------------------
(* The store                                                               *)

Stored(k) == conv[k] # NoEntry

(* Addresses some key or some request still refers to.                     *)
Reachable == {conv[k].id : k \in {c \in Conv : Stored(c)}} \cup {held[r] : r \in Req}

NewEntry(id) ==
  [id |-> id, lastCtx |-> 0, observed |-> FALSE, decision |-> "unknown"]

ObservedEntry(id, n) ==
  [id |-> id, lastCtx |-> n, observed |-> TRUE, decision |-> "unknown"]

(* Slip: the key the bound drops from the queue stays in the map.          *)
DroppedFromOrderOnly(k) == {}

(* order after a key is appended, and the keys the FIFO bound then drops.  *)
Overflows(k) == Len(order) + 1 > MaxStore
Oldest(k) == Head(Append(order, k))
Dropped(k) == IF Overflows(k) THEN {Oldest(k)} ELSE {}

(* order once a new key is queued and the bound is enforced.               *)
QueueWith(k) == IF Overflows(k) THEN Tail(Append(order, k)) ELSE Append(order, k)

(* entry(k) when k is not in the map: create, append, evict the oldest.    *)
(* The caller's critical section leaves entry e at k; what it evicts       *)
(* restarts the histories of the evicted key.                              *)
Insert(k, e) ==
  /\ order' = QueueWith(k)
  /\ conv' = [c \in Conv |-> IF c \in Dropped(k) THEN NoEntry
                             ELSE IF c = k THEN e ELSE conv[c]]
  /\ asks' = [c \in Conv |-> IF c \in Dropped(k) THEN 0 ELSE asks[c]]
  /\ carried' = [c \in Conv |-> IF c \in Dropped(k) THEN FALSE ELSE carried[c]]

-----------------------------------------------------------------------------
(* gate: one step up to the first unlock, one for the answer               *)

Enter(r, k, e, c, b) ==
  /\ pc' = [pc EXCEPT ![r] = c]
  /\ key' = [key EXCEPT ![r] = k]
  /\ held' = [held EXCEPT ![r] = e]
  /\ edit' = [edit EXCEPT ![r] = b]

(* A body without messages, or one that is no object, has no key: pending  *)
(* or error, and the store is not touched.                                 *)
GateUnkeyed(r) ==
  /\ pc[r] = "idle"
  /\ Enter(r, NoKey, NoEntry, "sent", FALSE)
  /\ UNCHANGED <<store, asks, carried>>

(* The first request of a conversation: its entry is created, unobserved.  *)
GateNew(r, k) ==
  /\ pc[r] = "idle"
  /\ ~Stored(k)
  /\ \E id \in EntryId \ Reachable :
       /\ Insert(k, NewEntry(id))
       /\ Enter(r, k, id, "sent", FALSE)

(* The decision is known: it is returned, whatever the sizes are now.      *)
GateDecided(r, k) ==
  /\ pc[r] = "idle"
  /\ Stored(k)
  /\ conv[k].decision \in Final
  /\ Enter(r, k, conv[k].id, "sent", conv[k].decision = "clear")
  /\ carried' = [carried EXCEPT ![k] = @ \/ conv[k].decision = "clear"]
  /\ UNCHANGED <<store, asks>>

(* Could the server's own edit fire for this request?                      *)
Ready(e, tokens) == e.observed /\ e.lastCtx >= Trigger /\ tokens >= AtLeast

(* Another request is asking, or it is too early to ask.                   *)
GatePending(r, k, tokens) ==
  /\ pc[r] = "idle"
  /\ Stored(k)
  /\ \/ conv[k].decision = "asking"
     \/ conv[k].decision = "unknown" /\ ~Ready(conv[k], tokens)
  /\ Enter(r, k, conv[k].id, "sent", FALSE)
  /\ UNCHANGED <<store, asks, carried>>

(* Slip: a request that finds the question asked asks it as well.          *)
GateAskWhileAsking(r, k, tokens) ==
  /\ pc[r] = "idle"
  /\ Stored(k)
  /\ conv[k].decision \in {"unknown", "asking"}
  /\ Ready(conv[k], tokens)
  /\ conv' = [conv EXCEPT ![k].decision = "asking"]
  /\ Enter(r, k, conv[k].id, "asking", FALSE)
  /\ asks' = [asks EXCEPT ![k] = @ + 1]
  /\ UNCHANGED <<order, carried>>

(* Slip: a question that failed is asked again.                            *)
GateAskAfterError(r, k, tokens) ==
  /\ pc[r] = "idle"
  /\ Stored(k)
  /\ conv[k].decision \in {"unknown", "error"}
  /\ Ready(conv[k], tokens)
  /\ conv' = [conv EXCEPT ![k].decision = "asking"]
  /\ Enter(r, k, conv[k].id, "asking", FALSE)
  /\ asks' = [asks EXCEPT ![k] = @ + 1]
  /\ UNCHANGED <<order, carried>>

(* This request asks: the entry is marked before the lock is released.     *)
GateAsk(r, k, tokens) ==
  /\ pc[r] = "idle"
  /\ Stored(k)
  /\ conv[k].decision = "unknown"
  /\ Ready(conv[k], tokens)
  /\ conv' = [conv EXCEPT ![k].decision = "asking"]
  /\ Enter(r, k, conv[k].id, "asking", FALSE)
  /\ asks' = [asks EXCEPT ![k] = @ + 1]
  /\ UNCHANGED <<order, carried>>

(* Slip: a question that timed out leaves the conversation pending.        *)
AnswersWithPending == Final \cup {"pending"}

(* What askClearGate returns: a valid choice, or "error" for a missing key,*)
(* a failed or timed out call, a cancelled client and an invalid answer.   *)
Answers == Final

(* Does the map still hold the entry the request captured?                 *)
Attached(r) == key[r] \in Conv /\ Stored(key[r]) /\ conv[key[r]].id = held[r]

(* Slip: a failed question is not recorded.                                *)
GateAnswerForgetsError(r, d) ==
  /\ pc[r] = "asking"
  /\ pc' = [pc EXCEPT ![r] = "sent"]
  /\ edit' = [edit EXCEPT ![r] = d = "clear"]
  /\ conv' = IF Attached(r) /\ d # "error"
               THEN [conv EXCEPT ![key[r]].decision = d] ELSE conv
  /\ carried' = [carried EXCEPT ![key[r]] = @ \/ d = "clear"]
  /\ UNCHANGED <<order, key, held, asks>>

(* Slip: any valid answer grants the edit.                                 *)
GateAnswerEditsOnKeep(r, d) ==
  /\ pc[r] = "asking"
  /\ pc' = [pc EXCEPT ![r] = "sent"]
  /\ edit' = [edit EXCEPT ![r] = d # "error"]
  /\ conv' = IF Attached(r) THEN [conv EXCEPT ![key[r]].decision = d] ELSE conv
  /\ carried' = [carried EXCEPT ![key[r]] = @ \/ d # "error"]
  /\ UNCHANGED <<order, key, held, asks>>

(* Slip: the answer needs the entry to be in the map.                      *)
GateAnswerWaitsForEntry(r, d) ==
  /\ pc[r] = "asking"
  /\ Attached(r)
  /\ pc' = [pc EXCEPT ![r] = "sent"]
  /\ edit' = [edit EXCEPT ![r] = d = "clear"]
  /\ conv' = [conv EXCEPT ![key[r]].decision = d]
  /\ carried' = [carried EXCEPT ![key[r]] = @ \/ d = "clear"]
  /\ UNCHANGED <<order, key, held, asks>>

(* The answer is written through the captured pointer: it reaches the map  *)
(* only if the entry is still there.                                       *)
GateAnswer(r, d) ==
  /\ pc[r] = "asking"
  /\ pc' = [pc EXCEPT ![r] = "sent"]
  /\ edit' = [edit EXCEPT ![r] = d = "clear"]
  /\ conv' = IF Attached(r) THEN [conv EXCEPT ![key[r]].decision = d] ELSE conv
  /\ carried' = [carried EXCEPT ![key[r]] = @ \/ d = "clear"]
  /\ UNCHANGED <<order, key, held, asks>>

-----------------------------------------------------------------------------
(* observe: the usage callback of the response                             *)

Leave(r) ==
  /\ pc' = [pc EXCEPT ![r] = "idle"]
  /\ key' = [key EXCEPT ![r] = NoKey]
  /\ held' = [held EXCEPT ![r] = NoEntry]
  /\ edit' = [edit EXCEPT ![r] = FALSE]

(* The response ends without usage, fails, or has no conversation.         *)
Unobserved(r) ==
  /\ pc[r] = "sent"
  /\ Leave(r)
  /\ UNCHANGED <<store, asks, carried>>

(* The conversation is in the map: its size is overwritten.                *)
Observe(r, n) ==
  /\ pc[r] = "sent"
  /\ key[r] \in Conv
  /\ Stored(key[r])
  /\ conv' = [conv EXCEPT ![key[r]].lastCtx = n, ![key[r]].observed = TRUE]
  /\ Leave(r)
  /\ UNCHANGED <<order, asks, carried>>

(* It was evicted while the response was on its way: it is created again.  *)
ObserveEvicted(r, n) ==
  /\ pc[r] = "sent"
  /\ key[r] \in Conv
  /\ ~Stored(key[r])
  /\ \E id \in EntryId \ Reachable :
       Insert(key[r], ObservedEntry(id, n))
  /\ Leave(r)

-----------------------------------------------------------------------------
Next ==
  \/ \E r \in Req : GateUnkeyed(r)
  \/ \E r \in Req, k \in Conv : GateNew(r, k)
  \/ \E r \in Req, k \in Conv : GateDecided(r, k)
  \/ \E r \in Req, k \in Conv, t \in Clearable : GatePending(r, k, t)
  \/ \E r \in Req, k \in Conv, t \in Clearable : GateAsk(r, k, t)
  \/ \E r \in Req, d \in Answers : GateAnswer(r, d)
  \/ \E r \in Req : Unobserved(r)
  \/ \E r \in Req, n \in Ctx : Observe(r, n)
  \/ \E r \in Req, n \in Ctx : ObserveEvicted(r, n)

Spec == Init /\ [][Next]_vars

(* The HTTP client of internal/jev/jev.go gives every call a timeout, so a *)
(* question always returns.  Clients, upstream and arrivals owe nothing.   *)
Fairness == \A r \in Req : WF_vars(\E d \in Answers : GateAnswer(r, d))

FairSpec == Spec /\ Fairness

(* The gate while no entry is dropped during its own question: in other    *)
(* states conversations are dropped as before.                             *)
QuestionsStay ==
  \A k \in Conv : Stored(k) /\ conv[k].decision = "asking" => Stored(k)'

SteadySpec == Init /\ [][Next /\ QuestionsStay]_vars

-----------------------------------------------------------------------------
(* Properties                                                              *)

(* Every variable has its type.                                            *)
TypeOK ==
  /\ conv \in [Conv -> Entry \cup {NoEntry}]
  /\ order \in Seq(Conv)
  /\ pc \in [Req -> {"idle", "asking", "sent"}]
  /\ key \in [Req -> Conv \cup {NoKey}]
  /\ held \in [Req -> EntryId \cup {NoEntry}]
  /\ edit \in [Req -> BOOLEAN]
  /\ asks \in [Conv -> Nat]
  /\ carried \in [Conv -> BOOLEAN]

(* entry keeps the map and its FIFO in step: the FIFO lists exactly the    *)
(* keys of the map, each once, and never more of them than the bound.      *)
QueueMatchesStore ==
  /\ \A k \in Conv : Stored(k) <=> \E i \in 1 .. Len(order) : order[i] = k
  /\ \A i, j \in 1 .. Len(order) : order[i] = order[j] => i = j
  /\ Len(order) <= MaxStore

(* An entry marked "asking" has a request that is going to write its       *)
(* answer: no conversation is left pending for good because its asker went *)
(* away (gate's second critical section runs on every path of the first).  *)
AskingHasAsker ==
  \A k \in Conv : Stored(k) /\ conv[k].decision = "asking" =>
    \E r \in Req : pc[r] = "asking" /\ key[r] = k /\ held[r] = conv[k].id

(* No two requests ask through the same entry, so that no answer is        *)
(* overwritten by another.                                                 *)
OneAskerPerEntry ==
  \A r, s \in Req : pc[r] = "asking" /\ pc[s] = "asking" /\ held[r] = held[s] => r = s

(* gate's "asks Jev at most once per conversation", with the exception the *)
(* comment of entry makes: once for every stay in the store, however many  *)
(* requests of the conversation are in flight, and never through one entry *)
(* from two of them.                                                       *)
AskedOncePerStay == (\A k \in Conv : asks[k] <= 1) /\ OneAskerPerEntry

(* A request that went upstream with the edit has the store's word for it  *)
(* as long as its entry is in the store: later requests get the same       *)
(* answer, which keeps the prompt cache valid.                             *)
EditHasDecision ==
  \A r \in Req : edit[r] /\ Attached(r) => conv[key[r]].decision = "clear"

(* gate's "a clear decision is never revisited", granted that an eviction  *)
(* after the edit was sent starts over: a later answer of the gate for the *)
(* same conversation is the edit again.  It holds of SteadySpec, and of    *)
(* Spec when the store has room for every conversation.                    *)
ClearNeverRevisited ==
  [][\A r \in Req, k \in Conv :
       carried[k] /\ carried'[k] /\ key'[r] = k /\ pc[r] # "sent" /\ pc'[r] = "sent"
         => edit'[r]]_vars

(* A request that asks Jev is forwarded in the end, its entry evicted or   *)
(* not.                                                                    *)
AskerIsForwarded == \A r \in Req : pc[r] = "asking" ~> pc[r] = "sent"

(* The store implements the one-time decision: what it knows about a       *)
(* conversation changes only by asking, deciding once and forgetting.      *)
Known(k) == IF Stored(k) THEN conv[k].decision ELSE "unknown"

Decision == INSTANCE ClearDecision WITH status <- [k \in Conv |-> Known(k)]

ImplementsDecision == Decision!Spec

=============================================================================
