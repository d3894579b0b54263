--------------------------- MODULE ClearGate_proofs ---------------------------
(***************************************************************************)
(* Proofs about ClearGate, for every set of conversations, of requests and *)
(* of addresses and every store bound.  The invariants of the store need   *)
(* three more facts to be inductive: entries of different keys have        *)
(* different addresses, an address a request holds can only be the entry   *)
(* of the request's own key, and a request that is asking through an entry *)
(* of the map finds it marked "asking".  All three rest on addresses being *)
(* fresh when they are given to a new entry.                               *)
(***************************************************************************)
EXTENDS ClearGate, FiniteSets, Functions, FunctionTheorems, FiniteSetTheorems, TLAPS

(* Entries of different keys are different objects.                        *)
DistinctEntries ==
  \A k, c \in Conv : Stored(k) /\ Stored(c) /\ conv[k].id = conv[c].id => k = c

(* An entry a request holds belongs to the request's key, if to any.       *)
HeldIsOwn ==
  \A r \in Req, k \in Conv : Stored(k) /\ conv[k].id = held[r] => key[r] = k

(* Idle requests hold nothing; an asking one knows its key and its entry.  *)
Phases ==
  \A r \in Req :
    /\ pc[r] = "asking" => key[r] \in Conv /\ held[r] \in EntryId /\ ~edit[r]
    /\ pc[r] = "idle" => held[r] = NoEntry /\ ~edit[r]

(* While its entry is in the map, an asking request finds it "asking".     *)
AskerMarked ==
  \A r \in Req : pc[r] = "asking" /\ Attached(r) => conv[key[r]].decision = "asking"

(* A question is counted only while its entry is in the map and marked.    *)
AskCounted ==
  \A k \in Conv : /\ asks[k] <= 1
                  /\ asks[k] = 1 => Stored(k) /\ conv[k].decision # "unknown"

IInv ==
  /\ TypeOK
  /\ QueueMatchesStore
  /\ DistinctEntries
  /\ HeldIsOwn
  /\ Phases
  /\ AskerMarked
  /\ AskCounted
  /\ AskingHasAsker
  /\ OneAskerPerEntry
  /\ EditHasDecision

-----------------------------------------------------------------------------
(* Types                                                                   *)

(* A new key leaves a queue of keys a queue of keys, and what the bound    *)
(* drops is the head of the old queue, a key other than the new one.       *)
LEMMA QueueLemma ==
  ASSUME TypeOK, QueueMatchesStore, NEW k \in Conv, ~Stored(k)
  PROVE  /\ QueueWith(k) \in Seq(Conv)
         /\ Overflows(k) => /\ Len(order) >= 1
                            /\ Oldest(k) = order[1]
                            /\ Oldest(k) \in Conv
                            /\ Oldest(k) # k
                            /\ Stored(Oldest(k))
         /\ \A c \in Conv : c \in Dropped(k) <=> Overflows(k) /\ c = order[1]
<1>1. order \in Seq(Conv) /\ Len(order) \in Nat
  BY DEF TypeOK
<1>2. Append(order, k) \in Seq(Conv) /\ Len(Append(order, k)) = Len(order) + 1
  BY <1>1
<1>3. QueueWith(k) \in Seq(Conv)
  BY <1>1, <1>2 DEF QueueWith, Overflows
<1>4. ASSUME Overflows(k)
      PROVE  /\ Len(order) >= 1
             /\ Oldest(k) = order[1]
             /\ Oldest(k) \in Conv
             /\ Oldest(k) # k
             /\ Stored(Oldest(k))
  <2>1. Len(order) >= 1
    BY <1>1, <1>4, BoundAssumption DEF Overflows
  <2>2. Oldest(k) = order[1] /\ order[1] \in Conv
    BY <1>1, <2>1 DEF Oldest
  <2>3. Stored(order[1])
    BY <1>1, <2>1, <2>2 DEF QueueMatchesStore
  <2>4. QED
    BY <2>1, <2>2, <2>3
<1>5. QED
  BY <1>3, <1>4 DEF Dropped

(* entry keeps the types when the entry it is given has its own.           *)
LEMMA InsertTypes ==
  ASSUME TypeOK, QueueMatchesStore, NEW k \in Conv, ~Stored(k),
         NEW e \in Entry, Insert(k, e)
  PROVE  /\ conv' \in [Conv -> Entry \cup {NoEntry}]
         /\ order' \in Seq(Conv)
         /\ asks' \in [Conv -> Nat]
         /\ carried' \in [Conv -> BOOLEAN]
<1>1. order' \in Seq(Conv)
  BY QueueLemma DEF Insert
<1>2. conv' \in [Conv -> Entry \cup {NoEntry}]
  BY DEF Insert, TypeOK
<1>3. asks' \in [Conv -> Nat] /\ carried' \in [Conv -> BOOLEAN]
  BY DEF Insert, TypeOK
<1>4. QED
  BY <1>1, <1>2, <1>3

(* The entries the code creates are entries.                               *)
LEMMA NewEntryType ==
  ASSUME NEW id \in EntryId, NEW n \in Nat
  PROVE  NewEntry(id) \in Entry /\ ObservedEntry(id, n) \in Entry
BY DEF NewEntry, ObservedEntry, Entry, Decisions

(* entry keeps the map and its FIFO in step, and under the bound.          *)
LEMMA InsertQueue ==
  ASSUME TypeOK, QueueMatchesStore, NEW k \in Conv, ~Stored(k),
         NEW e \in Entry, Insert(k, e)
  PROVE  QueueMatchesStore'
<1>1. order \in Seq(Conv) /\ Len(order) \in Nat /\ Len(order) <= MaxStore
  BY DEF TypeOK, QueueMatchesStore
<1>2. e # NoEntry
  BY EntryAssumption
<1>3. \A i \in 1 .. Len(order) : order[i] \in Conv /\ order[i] # k
  BY <1>1 DEF QueueMatchesStore
<1>4. CASE Overflows(k)
  <2>1. Len(order) = MaxStore /\ Len(order) >= 1
    BY <1>1, <1>4, BoundAssumption DEF Overflows
  <2>2. order' = Tail(Append(order, k))
    BY <1>4 DEF Insert, QueueWith
  <2>3. /\ Len(order') = Len(order)
        /\ \A i \in 1 .. Len(order) :
             order'[i] = IF i = Len(order) THEN k ELSE order[i + 1]
    BY <1>1, <2>1, <2>2
  <2>4. \A c \in Conv : conv'[c] = IF c = order[1] THEN NoEntry
                                   ELSE IF c = k THEN e ELSE conv[c]
    BY <1>4, QueueLemma DEF Insert
  <2>5. \A c \in Conv : Stored(c)' <=> c = k \/ (Stored(c) /\ c # order[1])
    BY <1>2, <1>3, <2>1, <2>4 DEF Stored
  <2>6. \A c \in Conv : Stored(c)' <=> \E i \in 1 .. Len(order') : order'[i] = c
    <3> SUFFICES ASSUME NEW c \in Conv
                 PROVE  Stored(c)' <=> \E i \in 1 .. Len(order') : order'[i] = c
      OBVIOUS
    <3>1. ASSUME c = k PROVE \E i \in 1 .. Len(order') : order'[i] = c
      BY <2>1, <2>3, <3>1
    <3>2. ASSUME Stored(c), c # order[1]
          PROVE  \E i \in 1 .. Len(order') : order'[i] = c
      <4>1. PICK i \in 1 .. Len(order) : order[i] = c
        BY <3>2 DEF QueueMatchesStore
      <4>2. i - 1 \in 1 .. Len(order) /\ order'[i - 1] = c
        BY <1>1, <2>3, <3>2, <4>1
      <4>3. QED
        BY <2>3, <4>2
    <3>3. ASSUME NEW i \in 1 .. Len(order'), order'[i] = c, c # k
          PROVE  Stored(c) /\ c # order[1]
      <4>1. i # Len(order) /\ i + 1 \in 1 .. Len(order) /\ order[i + 1] = c
        BY <1>1, <2>3, <3>3
      <4>2. Stored(c)
        BY <4>1 DEF QueueMatchesStore
      <4>3. order[i + 1] # order[1]
        BY <1>1, <2>1, <4>1 DEF QueueMatchesStore
      <4>4. QED
        BY <4>1, <4>2, <4>3
    <3>4. QED
      BY <2>5, <3>1, <3>2, <3>3
  <2>7. ASSUME NEW i \in 1 .. Len(order'), NEW j \in 1 .. Len(order'),
               order'[i] = order'[j]
        PROVE  i = j
    <3>1. CASE i = Len(order) \/ j = Len(order)
      BY <1>1, <1>3, <2>3, <2>7, <3>1
    <3>2. CASE i # Len(order) /\ j # Len(order)
      <4>1. order[i + 1] = order[j + 1]
            /\ i + 1 \in 1 .. Len(order) /\ j + 1 \in 1 .. Len(order)
        BY <1>1, <2>3, <2>7, <3>2
      <4>2. i + 1 = j + 1
        BY <4>1 DEF QueueMatchesStore
      <4>3. QED
        BY <1>1, <2>3, <4>2
    <3>3. QED
      BY <3>1, <3>2
  <2>8. QED
    BY <1>1, <2>3, <2>6, <2>7 DEF QueueMatchesStore
<1>5. CASE ~Overflows(k)
  <2>1. order' = Append(order, k)
    BY <1>5 DEF Insert, QueueWith
  <2>2. /\ Len(order') = Len(order) + 1
        /\ \A i \in 1 .. Len(order') :
             order'[i] = IF i = Len(order) + 1 THEN k ELSE order[i]
    BY <1>1, <2>1
  <2>3. \A c \in Conv : Stored(c)' <=> c = k \/ Stored(c)
    BY <1>2, <1>5 DEF Insert, Stored, Dropped
  <2>4. Len(order') <= MaxStore
    BY <1>1, <1>5, <2>2, BoundAssumption DEF Overflows
  <2>5. \A c \in Conv : Stored(c)' <=> \E i \in 1 .. Len(order') : order'[i] = c
    <3> SUFFICES ASSUME NEW c \in Conv
                 PROVE  Stored(c)' <=> \E i \in 1 .. Len(order') : order'[i] = c
      OBVIOUS
    <3>1. ASSUME c = k PROVE \E i \in 1 .. Len(order') : order'[i] = c
      BY <1>1, <2>2, <3>1
    <3>2. ASSUME c # k
          PROVE  Stored(c) <=> \E i \in 1 .. Len(order') : order'[i] = c
      BY <1>1, <2>2, <3>2 DEF QueueMatchesStore
    <3>3. QED
      BY <2>3, <3>1, <3>2
  <2>6. \A i, j \in 1 .. Len(order') : order'[i] = order'[j] => i = j
    BY <1>1, <1>3, <2>2 DEF QueueMatchesStore
  <2>7. QED
    BY <2>4, <2>5, <2>6 DEF QueueMatchesStore
<1>6. QED
  BY <1>4, <1>5

-----------------------------------------------------------------------------
(* The induction                                                           *)

(* A fresh address is held by no request and is no entry of the map.       *)
LEMMA FreshLemma ==
  ASSUME NEW id \in EntryId \ Reachable
  PROVE  /\ \A r \in Req : held[r] # id
         /\ \A k \in Conv : Stored(k) => conv[k].id # id
BY DEF Reachable

(* What entry does to the map, key by key.                                 *)
LEMMA InsertMap ==
  ASSUME TypeOK, QueueMatchesStore, NEW k \in Conv, ~Stored(k),
         NEW e \in Entry, Insert(k, e)
  PROVE  /\ Stored(k)' /\ conv'[k] = e
         /\ \A c \in Conv : c # k /\ Stored(c)' =>
              /\ Stored(c) /\ conv'[c] = conv[c]
              /\ asks'[c] = asks[c] /\ carried'[c] = carried[c]
         /\ \A c \in Conv : c # k /\ ~Stored(c)' =>
              asks'[c] = IF c \in Dropped(k) THEN 0 ELSE asks[c]
         /\ \A c \in Conv : c # k /\ ~Stored(c)' => c \in Dropped(k) \/ ~Stored(c)
         /\ asks'[k] = asks[k]
<1>1. k \notin Dropped(k)
  BY QueueLemma DEF Dropped
<1>2. conv'[k] = e /\ asks'[k] = asks[k]
  BY <1>1 DEF Insert
<1>3. Stored(k)'
  BY <1>2, EntryAssumption DEF Stored
<1>4. ASSUME NEW c \in Conv, c # k
      PROVE  /\ Stored(c)' => /\ Stored(c) /\ conv'[c] = conv[c]
                              /\ asks'[c] = asks[c] /\ carried'[c] = carried[c]
             /\ ~Stored(c)' => /\ asks'[c] = IF c \in Dropped(k) THEN 0 ELSE asks[c]
                               /\ c \in Dropped(k) \/ ~Stored(c)
  BY <1>4 DEF Insert, Stored
<1>5. QED
  BY <1>2, <1>3, <1>4

LEMMA InitIInv == Init => IInv
<1> SUFFICES ASSUME Init PROVE IInv
  OBVIOUS
<1>1. TypeOK
  BY DEF Init, TypeOK
<1>2. QueueMatchesStore
  BY BoundAssumption DEF Init, QueueMatchesStore, Stored
<1>3. DistinctEntries /\ HeldIsOwn /\ AskingHasAsker /\ EditHasDecision
  BY DEF Init, DistinctEntries, HeldIsOwn, AskingHasAsker, EditHasDecision, Stored
<1>4. Phases /\ AskerMarked /\ AskCounted /\ OneAskerPerEntry
  BY DEF Init, Phases, AskerMarked, AskCounted, OneAskerPerEntry
<1>5. QED
  BY <1>1, <1>2, <1>3, <1>4 DEF IInv

(* The store changes only by a new entry, and the one request that acts is *)
(* then attached to it or to nothing: every gate of a new conversation and *)
(* every late observation.                                                 *)
LEMMA InsertStep ==
  ASSUME IInv, NEW r \in Req, NEW k \in Conv, ~Stored(k),
         NEW id \in EntryId \ Reachable, NEW e \in Entry,
         e.id = id, e.decision = "unknown", Insert(k, e),
         pc[r] # "asking",
         \/ Enter(r, k, id, "sent", FALSE)
         \/ Leave(r)
  PROVE  IInv'
<1> USE DEF IInv
<1>1. /\ Stored(k)' /\ conv'[k] = e
      /\ \A c \in Conv : c # k /\ Stored(c)' =>
           Stored(c) /\ conv'[c] = conv[c] /\ asks'[c] = asks[c]
      /\ \A c \in Conv : c # k /\ ~Stored(c)' =>
           /\ asks'[c] = IF c \in Dropped(k) THEN 0 ELSE asks[c]
           /\ c \in Dropped(k) \/ ~Stored(c)
      /\ asks'[k] = asks[k]
  BY InsertMap
<1>2. /\ \A s \in Req : held[s] # id
      /\ \A c \in Conv : Stored(c) => conv[c].id # id
  BY FreshLemma
<1>3. \A s \in Req : s # r => /\ pc'[s] = pc[s] /\ key'[s] = key[s]
                              /\ held'[s] = held[s] /\ edit'[s] = edit[s]
  BY DEF Enter, Leave, TypeOK
<1>4. /\ pc'[r] \in {"sent", "idle"} /\ edit'[r] = FALSE
      /\ held'[r] \in {id, NoEntry}
      /\ held'[r] = id => key'[r] = k
      /\ pc'[r] = "idle" => held'[r] = NoEntry
  BY EntryAssumption DEF Enter, Leave, TypeOK
<1>5. TypeOK'
  <2>1. /\ conv' \in [Conv -> Entry \cup {NoEntry}] /\ order' \in Seq(Conv)
        /\ asks' \in [Conv -> Nat] /\ carried' \in [Conv -> BOOLEAN]
    BY InsertTypes
  <2>2. /\ pc' \in [Req -> {"idle", "asking", "sent"}]
        /\ key' \in [Req -> Conv \cup {NoKey}]
        /\ held' \in [Req -> EntryId \cup {NoEntry}]
        /\ edit' \in [Req -> BOOLEAN]
    <3>1. CASE Enter(r, k, id, "sent", FALSE)
      BY <3>1 DEF Enter, TypeOK
    <3>2. CASE Leave(r)
      BY <3>2 DEF Leave, TypeOK
    <3>3. QED
      BY <3>1, <3>2
  <2>3. QED
    BY <2>1, <2>2 DEF TypeOK
<1>6. QueueMatchesStore'
  BY InsertQueue
<1>7. DistinctEntries'
  BY <1>1, <1>2 DEF DistinctEntries
<1>8. HeldIsOwn'
  <2> SUFFICES ASSUME NEW s \in Req, NEW c \in Conv,
                      Stored(c)', conv'[c].id = held'[s]
               PROVE  key'[s] = c
    BY DEF HeldIsOwn
  <2>1. CASE c = k
    BY <1>1, <1>2, <1>3, <1>4, <2>1, EntryAssumption
  <2>2. CASE c # k
    <3>1. Stored(c) /\ conv'[c] = conv[c] /\ conv[c] \in Entry
      BY <1>1, <2>2 DEF TypeOK, Stored
    <3>2. conv[c].id # id /\ conv[c].id # NoEntry
      BY <1>2, <3>1, EntryAssumption DEF Entry
    <3>3. QED
      BY <1>3, <1>4, <3>1, <3>2 DEF HeldIsOwn
  <2>3. QED
    BY <2>1, <2>2
<1>9. Phases'
  BY <1>3, <1>4 DEF Phases
<1>10. \A s \in Req : s # r /\ Attached(s)' =>
         Attached(s) /\ conv'[key[s]] = conv[key[s]]
  <2> SUFFICES ASSUME NEW s \in Req, s # r, Attached(s)'
               PROVE  Attached(s) /\ conv'[key[s]] = conv[key[s]]
    OBVIOUS
  <2>1. /\ key[s] \in Conv /\ conv'[key[s]] # NoEntry
        /\ conv'[key[s]].id = held[s]
    BY <1>3 DEF Attached, Stored
  <2>2. key[s] # k
    BY <1>1, <1>2, <2>1
  <2>3. QED
    BY <1>1, <2>1, <2>2 DEF Attached, Stored
<1>11. AskerMarked'
  BY <1>3, <1>4, <1>10 DEF AskerMarked
<1>12. AskCounted'
  <2> SUFFICES ASSUME NEW c \in Conv
               PROVE  /\ asks'[c] <= 1
                      /\ asks'[c] = 1 => Stored(c)' /\ conv'[c].decision # "unknown"
    BY DEF AskCounted, Stored
  <2>1. CASE c = k
    BY <1>1, <2>1 DEF AskCounted, TypeOK
  <2>2. CASE c # k /\ Stored(c)'
    BY <1>1, <2>2 DEF AskCounted
  <2>3. CASE c # k /\ ~Stored(c)'
    <3>1. asks'[c] = 0
      BY <1>1, <2>3 DEF AskCounted, TypeOK
    <3>2. QED
      BY <3>1
  <2>4. QED
    BY <2>1, <2>2, <2>3
<1>13. AskingHasAsker'
  <2> SUFFICES ASSUME NEW c \in Conv, Stored(c)', conv'[c].decision = "asking"
               PROVE  \E s \in Req : /\ pc'[s] = "asking" /\ key'[s] = c
                                     /\ held'[s] = conv'[c].id
    BY DEF AskingHasAsker, Stored
  <2>1. c # k
    BY <1>1
  <2>2. Stored(c) /\ conv'[c] = conv[c]
    BY <1>1, <2>1
  <2>3. PICK s \in Req : pc[s] = "asking" /\ key[s] = c /\ held[s] = conv[c].id
    BY <2>2 DEF AskingHasAsker
  <2>4. QED
    BY <1>3, <2>2, <2>3
<1>14. OneAskerPerEntry'
  BY <1>3, <1>4 DEF OneAskerPerEntry
<1>15. EditHasDecision'
  <2> SUFFICES ASSUME NEW s \in Req, edit'[s], Attached(s)'
               PROVE  conv'[key'[s]].decision = "clear"
    BY DEF EditHasDecision
  <2>1. s # r
    BY <1>4
  <2>2. QED
    BY <1>3, <1>10, <2>1 DEF EditHasDecision
<1>16. QED
  BY <1>5, <1>6, <1>7, <1>8, <1>9, <1>11, <1>12, <1>13, <1>14, <1>15

(* The steps that touch at most one entry of the map, in place.            *)
LEMMA InPlaceStep ==
  ASSUME IInv, NEW r \in Req,
         \/ GateUnkeyed(r)
         \/ \E k \in Conv : GateDecided(r, k)
         \/ \E k \in Conv, t \in Clearable : GatePending(r, k, t)
         \/ Unobserved(r)
         \/ \E n \in Ctx : Observe(r, n)
  PROVE  IInv'
<1> USE DEF IInv
<1>1. order' = order /\ asks' = asks
  BY DEF GateUnkeyed, GateDecided, GatePending, Unobserved, Observe, store
<1>2. /\ conv' \in [Conv -> Entry \cup {NoEntry}]
      /\ \A c \in Conv : /\ Stored(c)' <=> Stored(c)
                         /\ Stored(c) => /\ conv'[c].id = conv[c].id
                                         /\ conv'[c].decision = conv[c].decision
  <2>1. CASE conv' = conv
    BY <2>1 DEF TypeOK, Stored
  <2>2. CASE \E n \in Ctx : Observe(r, n)
    <3>1. PICK n \in Ctx : Observe(r, n)
      BY <2>2
    <3>2. n \in Nat /\ key[r] \in Conv /\ conv[key[r]] \in Entry
      BY <3>1, TokensAssumption DEF Observe, Stored, TypeOK
    <3>3. conv' = [conv EXCEPT ![key[r]] =
                     [conv[key[r]] EXCEPT !.lastCtx = n, !.observed = TRUE]]
      BY <3>1, <3>2 DEF Observe, TypeOK
    <3>4. [conv[key[r]] EXCEPT !.lastCtx = n, !.observed = TRUE] \in Entry
      BY <3>2 DEF Entry
    <3>5. /\ conv'[key[r]] \in Entry
          /\ conv'[key[r]].id = conv[key[r]].id
          /\ conv'[key[r]].decision = conv[key[r]].decision
          /\ \A c \in Conv : c # key[r] => conv'[c] = conv[c]
      BY <3>2, <3>3, <3>4 DEF TypeOK, Entry
    <3>6. conv' \in [Conv -> Entry \cup {NoEntry}]
      BY <3>2, <3>3, <3>4 DEF TypeOK
    <3>7. QED
      BY <3>2, <3>5, <3>6, EntryAssumption DEF Stored
  <2>3. QED
    BY <2>1, <2>2 DEF GateUnkeyed, GateDecided, GatePending, Unobserved, store
<1>3. /\ \A s \in Req : s # r => /\ pc'[s] = pc[s] /\ key'[s] = key[s]
                                 /\ held'[s] = held[s] /\ edit'[s] = edit[s]
      /\ pc'[r] \in {"sent", "idle"} /\ pc[r] # "asking"
      /\ edit'[r] => /\ key'[r] \in Conv /\ Stored(key'[r])
                     /\ conv[key'[r]].decision = "clear"
      /\ pc'[r] = "idle" => held'[r] = NoEntry /\ ~edit'[r]
      /\ held'[r] # NoEntry => /\ key'[r] \in Conv /\ Stored(key'[r])
                               /\ held'[r] = conv[key'[r]].id
  <2>1. CASE GateUnkeyed(r)
    BY <2>1 DEF GateUnkeyed, Enter, TypeOK
  <2>2. CASE Unobserved(r) \/ \E n \in Ctx : Observe(r, n)
    <3>1. Leave(r) /\ pc[r] = "sent"
      BY <2>2 DEF Unobserved, Observe
    <3>2. pc'[r] = "idle" /\ held'[r] = NoEntry /\ edit'[r] = FALSE
      BY <3>1 DEF Leave, TypeOK
    <3>3. \A s \in Req : s # r => /\ pc'[s] = pc[s] /\ key'[s] = key[s]
                                  /\ held'[s] = held[s] /\ edit'[s] = edit[s]
      BY <3>1 DEF Leave, TypeOK
    <3>4. QED
      BY <3>1, <3>2, <3>3
  <2>3. CASE \E k \in Conv : GateDecided(r, k)
    <3>1. PICK k \in Conv : GateDecided(r, k)
      BY <2>3
    <3>2. /\ pc[r] = "idle" /\ Stored(k) /\ pc'[r] = "sent" /\ key'[r] = k
          /\ held'[r] = conv[k].id
      BY <3>1 DEF GateDecided, Enter, TypeOK
    <3>3. edit'[r] => conv[k].decision = "clear"
      BY <3>1, Zenon DEF GateDecided, Enter, TypeOK
    <3>4. \A s \in Req : s # r => /\ pc'[s] = pc[s] /\ key'[s] = key[s]
                                  /\ held'[s] = held[s] /\ edit'[s] = edit[s]
      BY <3>1 DEF GateDecided, Enter, TypeOK
    <3>5. QED
      BY <3>2, <3>3, <3>4
  <2>4. CASE \E k \in Conv, t \in Clearable : GatePending(r, k, t)
    BY <2>4 DEF GatePending, Enter, TypeOK
  <2>5. QED
    BY <2>1, <2>3, <2>4, <2>2
<1>4. TypeOK'
  <2>1. carried' \in [Conv -> BOOLEAN]
    BY DEF GateUnkeyed, GateDecided, GatePending, Unobserved, Observe, TypeOK
  <2>2. /\ pc' \in [Req -> {"idle", "asking", "sent"}]
        /\ key' \in [Req -> Conv \cup {NoKey}]
        /\ held' \in [Req -> EntryId \cup {NoEntry}]
        /\ edit' \in [Req -> BOOLEAN]
    <3>1. CASE GateUnkeyed(r) \/ Unobserved(r) \/ \E n \in Ctx : Observe(r, n)
      BY <3>1 DEF GateUnkeyed, Unobserved, Observe, Enter, Leave, TypeOK
    <3>2. ASSUME NEW k \in Conv, GateDecided(r, k) \/ \E t \in Clearable : GatePending(r, k, t)
          PROVE  /\ pc' \in [Req -> {"idle", "asking", "sent"}]
                 /\ key' \in [Req -> Conv \cup {NoKey}]
                 /\ held' \in [Req -> EntryId \cup {NoEntry}]
                 /\ edit' \in [Req -> BOOLEAN]
      <4>1. conv[k].id \in EntryId
        BY <3>2 DEF GateDecided, GatePending, TypeOK, Stored, Entry
      <4>2. QED
        BY <3>2, <4>1 DEF GateDecided, GatePending, Enter, TypeOK
    <3>3. QED
      BY <3>1, <3>2
  <2>3. QED
    BY <1>1, <1>2, <2>1, <2>2 DEF TypeOK
<1>5. QueueMatchesStore'
  BY <1>1, <1>2 DEF QueueMatchesStore
<1>6. DistinctEntries'
  BY <1>2 DEF DistinctEntries, Stored
<1>7. HeldIsOwn'
  <2> SUFFICES ASSUME NEW s \in Req, NEW c \in Conv,
                      Stored(c)', conv'[c].id = held'[s]
               PROVE  key'[s] = c
    BY DEF HeldIsOwn
  <2>1. Stored(c) /\ conv[c].id = held'[s] /\ held'[s] # NoEntry
    BY <1>2, EntryAssumption DEF TypeOK, Stored, Entry
  <2>2. CASE s = r
    BY <1>3, <2>1, <2>2 DEF DistinctEntries
  <2>3. CASE s # r
    BY <1>3, <2>1, <2>3 DEF HeldIsOwn
  <2>4. QED
    BY <2>2, <2>3
<1>8. Phases'
  BY <1>3 DEF Phases
<1>9. \A s \in Req : s # r /\ Attached(s)' =>
        /\ Attached(s) /\ key'[s] = key[s] /\ key[s] \in Conv
        /\ conv'[key[s]].decision = conv[key[s]].decision
  BY <1>2, <1>3 DEF Attached, Stored
<1>10. AskerMarked'
  BY <1>3, <1>9 DEF AskerMarked
<1>11. AskCounted'
  BY <1>1, <1>2 DEF AskCounted, Stored
<1>12. AskingHasAsker'
  <2> SUFFICES ASSUME NEW c \in Conv, Stored(c)', conv'[c].decision = "asking"
               PROVE  \E s \in Req : /\ pc'[s] = "asking" /\ key'[s] = c
                                     /\ held'[s] = conv'[c].id
    BY DEF AskingHasAsker, Stored
  <2>1. PICK s \in Req : pc[s] = "asking" /\ key[s] = c /\ held[s] = conv[c].id
    BY <1>2 DEF AskingHasAsker
  <2>2. QED
    BY <1>2, <1>3, <2>1
<1>13. OneAskerPerEntry'
  BY <1>3 DEF OneAskerPerEntry
<1>14. EditHasDecision'
  <2> SUFFICES ASSUME NEW s \in Req, edit'[s], Attached(s)'
               PROVE  conv'[key'[s]].decision = "clear"
    BY DEF EditHasDecision
  <2>1. CASE s = r
    BY <1>2, <1>3, <2>1
  <2>2. CASE s # r
    BY <1>3, <1>9, <2>2 DEF EditHasDecision
  <2>3. QED
    BY <2>1, <2>2
<1>15. QED
  BY <1>4, <1>5, <1>6, <1>7, <1>8, <1>10, <1>11, <1>12, <1>13, <1>14

(* A question is started: only an entry nobody is asking through is        *)
(* "unknown", so the new asker is the only one.                            *)
LEMMA AskStep ==
  ASSUME IInv, NEW r \in Req, NEW k \in Conv, NEW t \in Clearable, GateAsk(r, k, t)
  PROVE  IInv'
<1> USE DEF IInv
<1>1. /\ Stored(k) /\ conv[k] \in Entry /\ conv[k].id \in EntryId
      /\ conv[k].decision = "unknown" /\ order' = order
  BY DEF GateAsk, TypeOK, Stored, Entry
<1>2. [conv[k] EXCEPT !.decision = "asking"] \in Entry
  BY <1>1 DEF Entry, Decisions
<1>3. /\ conv' \in [Conv -> Entry \cup {NoEntry}]
      /\ conv'[k] \in Entry
      /\ conv'[k].id = conv[k].id /\ conv'[k].decision = "asking"
      /\ \A c \in Conv : c # k => conv'[c] = conv[c]
  BY <1>1, <1>2 DEF GateAsk, TypeOK, Entry
<1>4. \A c \in Conv : /\ (conv'[c] # NoEntry) <=> (conv[c] # NoEntry)
                      /\ conv[c] # NoEntry => conv'[c].id = conv[c].id
  BY <1>1, <1>3, EntryAssumption DEF Stored
<1>5. /\ pc'[r] = "asking" /\ key'[r] = k /\ held'[r] = conv[k].id /\ edit'[r] = FALSE
      /\ \A s \in Req : s # r => /\ pc'[s] = pc[s] /\ key'[s] = key[s]
                                 /\ held'[s] = held[s] /\ edit'[s] = edit[s]
      /\ pc[r] = "idle"
  BY DEF GateAsk, Enter, TypeOK
<1>6. TypeOK'
  <2>1. /\ pc' \in [Req -> {"idle", "asking", "sent"}]
        /\ key' \in [Req -> Conv \cup {NoKey}]
        /\ held' \in [Req -> EntryId \cup {NoEntry}]
        /\ edit' \in [Req -> BOOLEAN]
    BY <1>1 DEF GateAsk, Enter, TypeOK
  <2>2. asks' \in [Conv -> Nat] /\ carried' = carried
    BY DEF GateAsk, TypeOK
  <2>3. QED
    BY <1>1, <1>3, <2>1, <2>2 DEF TypeOK
<1>7. QueueMatchesStore'
  BY <1>1, <1>4 DEF QueueMatchesStore, Stored
<1>8. DistinctEntries'
  BY <1>4 DEF DistinctEntries, Stored
<1>9. HeldIsOwn'
  BY <1>1, <1>4, <1>5 DEF HeldIsOwn, DistinctEntries, Stored
<1>10. Phases'
  BY <1>1, <1>5 DEF Phases
<1>11. \A s \in Req : pc[s] = "asking" => held[s] # conv[k].id
  <2> SUFFICES ASSUME NEW s \in Req, pc[s] = "asking", held[s] = conv[k].id
               PROVE  FALSE
    OBVIOUS
  <2>1. key[s] = k /\ Attached(s)
    BY <1>1 DEF HeldIsOwn, Attached
  <2>2. QED
    BY <1>1, <2>1 DEF AskerMarked
<1>12. AskerMarked'
  <2> SUFFICES ASSUME NEW s \in Req, pc'[s] = "asking", Attached(s)'
               PROVE  conv'[key'[s]].decision = "asking"
    BY DEF AskerMarked
  <2>1. CASE s = r
    BY <1>3, <1>5, <2>1
  <2>2. CASE s # r
    <3>1. Attached(s) /\ key'[s] = key[s] /\ key[s] \in Conv
      BY <1>4, <1>5, <2>2 DEF Attached, Stored
    <3>2. QED
      BY <1>3, <1>5, <2>2, <3>1 DEF AskerMarked
  <2>3. QED
    BY <2>1, <2>2
<1>13. AskCounted'
  <2>1. /\ asks'[k] = asks[k] + 1 /\ asks[k] \in Nat
        /\ \A c \in Conv : c # k => asks'[c] = asks[c]
    BY DEF GateAsk, TypeOK
  <2>2. asks[k] = 0
    BY <1>1, <2>1 DEF AskCounted
  <2>3. QED
    BY <1>1, <1>3, <1>4, <2>1, <2>2 DEF AskCounted, Stored
<1>14. AskingHasAsker'
  <2> SUFFICES ASSUME NEW c \in Conv, Stored(c)', conv'[c].decision = "asking"
               PROVE  \E s \in Req : /\ pc'[s] = "asking" /\ key'[s] = c
                                     /\ held'[s] = conv'[c].id
    BY DEF AskingHasAsker, Stored
  <2>1. CASE c = k
    BY <1>3, <1>5, <2>1
  <2>2. CASE c # k
    <3>1. PICK s \in Req : pc[s] = "asking" /\ key[s] = c /\ held[s] = conv[c].id
      BY <1>3, <2>2 DEF AskingHasAsker, Stored
    <3>2. QED
      BY <1>3, <1>5, <2>2, <3>1
  <2>3. QED
    BY <2>1, <2>2
<1>15. OneAskerPerEntry'
  BY <1>5, <1>11 DEF OneAskerPerEntry
<1>16. EditHasDecision'
  <2> SUFFICES ASSUME NEW s \in Req, edit'[s], Attached(s)'
               PROVE  conv'[key'[s]].decision = "clear"
    BY DEF EditHasDecision
  <2>1. s # r
    BY <1>5
  <2>2. Attached(s) /\ key'[s] = key[s] /\ key[s] \in Conv
    BY <1>4, <1>5, <2>1 DEF Attached, Stored
  <2>3. conv[key[s]].decision = "clear"
    BY <1>5, <2>1, <2>2 DEF EditHasDecision
  <2>4. QED
    BY <1>1, <1>3, <2>2, <2>3
<1>17. QED
  BY <1>6, <1>7, <1>8, <1>9, <1>10, <1>12, <1>13, <1>14, <1>15, <1>16

(* An answer arrives: if its entry is still in the map the asker is the    *)
(* only request attached to it that could be contradicted.                 *)
LEMMA AnswerStep ==
  ASSUME IInv, NEW r \in Req, NEW d \in Answers, GateAnswer(r, d)
  PROVE  IInv'
<1> USE DEF IInv
<1>1. /\ pc[r] = "asking" /\ key[r] \in Conv /\ held[r] \in EntryId
      /\ d \in Final /\ d # "asking" /\ d # "unknown"
  BY DEF GateAnswer, Phases, Answers, Final
<1>2. order' = order /\ key' = key /\ held' = held /\ asks' = asks
  BY DEF GateAnswer
<1>3. /\ conv' \in [Conv -> Entry \cup {NoEntry}]
      /\ \A c \in Conv :
           IF c = key[r] /\ Attached(r)
           THEN /\ conv[c] # NoEntry /\ conv'[c] # NoEntry
                /\ conv'[c].id = conv[c].id /\ conv'[c].decision = d
                /\ conv[c].decision = "asking"
           ELSE conv'[c] = conv[c]
  <2>1. CASE Attached(r)
    <3>1. conv[key[r]] \in Entry /\ conv[key[r]].decision = "asking"
      BY <1>1, <2>1 DEF Attached, Stored, TypeOK, AskerMarked
    <3>2. [conv[key[r]] EXCEPT !.decision = d] \in Entry
      BY <1>1, <3>1 DEF Entry, Decisions
    <3>3. conv' = [conv EXCEPT ![key[r]] = [conv[key[r]] EXCEPT !.decision = d]]
      BY <1>1, <2>1 DEF GateAnswer, TypeOK
    <3>4. /\ conv' \in [Conv -> Entry \cup {NoEntry}]
          /\ conv'[key[r]] \in Entry
          /\ conv'[key[r]].id = conv[key[r]].id /\ conv'[key[r]].decision = d
          /\ \A c \in Conv : c # key[r] => conv'[c] = conv[c]
      BY <1>1, <3>1, <3>2, <3>3 DEF TypeOK, Entry
    <3>5. QED
      BY <2>1, <3>1, <3>4, EntryAssumption
  <2>2. CASE ~Attached(r)
    BY <2>2 DEF GateAnswer, TypeOK
  <2>3. QED
    BY <2>1, <2>2
<1>4. \A c \in Conv : /\ (conv'[c] # NoEntry) <=> (conv[c] # NoEntry)
                      /\ conv[c] # NoEntry => conv'[c].id = conv[c].id
  BY <1>3
<1>5. /\ pc'[r] = "sent" /\ edit'[r] = (d = "clear")
      /\ \A s \in Req : s # r => pc'[s] = pc[s] /\ edit'[s] = edit[s]
  BY DEF GateAnswer, TypeOK
<1>6. TypeOK'
  <2>1. /\ pc' \in [Req -> {"idle", "asking", "sent"}] /\ edit' \in [Req -> BOOLEAN]
        /\ carried' \in [Conv -> BOOLEAN]
    BY DEF GateAnswer, TypeOK
  <2>2. QED
    BY <1>2, <1>3, <2>1 DEF TypeOK
<1>7. QueueMatchesStore'
  BY <1>2, <1>4 DEF QueueMatchesStore, Stored
<1>8. DistinctEntries' /\ HeldIsOwn'
  BY <1>2, <1>4 DEF DistinctEntries, HeldIsOwn, Stored
<1>9. Phases'
  BY <1>1, <1>2, <1>5 DEF Phases
<1>10. \A s \in Req : /\ Attached(s)' <=> Attached(s)
                      /\ Attached(s) => key[s] \in Conv
  BY <1>2, <1>4 DEF Attached, Stored
<1>11. ASSUME NEW s \in Req, s # r, pc[s] = "asking", Attached(s)
       PROVE  key[s] # key[r] \/ ~Attached(r)
  BY <1>1, <1>11 DEF OneAskerPerEntry, Attached
<1>12. AskerMarked'
  <2> SUFFICES ASSUME NEW s \in Req, pc'[s] = "asking", Attached(s)
               PROVE  conv'[key[s]].decision = "asking"
    BY <1>2, <1>10 DEF AskerMarked
  <2>1. s # r /\ pc[s] = "asking" /\ key[s] \in Conv
    BY <1>5, <1>10
  <2>2. conv'[key[s]] = conv[key[s]]
    BY <1>3, <1>11, <2>1
  <2>3. QED
    BY <2>1, <2>2 DEF AskerMarked
<1>13. AskCounted'
  BY <1>1, <1>2, <1>3 DEF AskCounted, Stored
<1>14. AskingHasAsker'
  <2> SUFFICES ASSUME NEW c \in Conv, Stored(c)', conv'[c].decision = "asking"
               PROVE  \E s \in Req : /\ pc'[s] = "asking" /\ key'[s] = c
                                     /\ held'[s] = conv'[c].id
    BY DEF AskingHasAsker, Stored
  <2>1. conv'[c] = conv[c] /\ ~(c = key[r] /\ Attached(r))
    BY <1>1, <1>3
  <2>2. PICK s \in Req : pc[s] = "asking" /\ key[s] = c /\ held[s] = conv[c].id
    BY <2>1 DEF AskingHasAsker, Stored
  <2>3. s # r
    BY <1>4, <2>1, <2>2 DEF Attached, Stored
  <2>4. QED
    BY <1>2, <1>5, <2>1, <2>2, <2>3
<1>15. OneAskerPerEntry'
  BY <1>2, <1>5 DEF OneAskerPerEntry
<1>16. EditHasDecision'
  <2> SUFFICES ASSUME NEW s \in Req, edit'[s], Attached(s)
               PROVE  conv'[key[s]].decision = "clear"
    BY <1>2, <1>10 DEF EditHasDecision
  <2>1. CASE s = r
    BY <1>1, <1>3, <1>5, <2>1
  <2>2. CASE s # r
    <3>1. conv[key[s]].decision = "clear" /\ key[s] \in Conv
      BY <1>5, <1>10, <2>2 DEF EditHasDecision
    <3>2. conv'[key[s]] = conv[key[s]]
      BY <1>3, <3>1
    <3>3. QED
      BY <3>1, <3>2
  <2>3. QED
    BY <2>1, <2>2
<1>17. QED
  BY <1>6, <1>7, <1>8, <1>9, <1>12, <1>13, <1>14, <1>15, <1>16

LEMMA NextIInv == IInv /\ [Next]_vars => IInv'
<1> SUFFICES ASSUME IInv, [Next]_vars PROVE IInv'
  OBVIOUS
<1>1. ASSUME NEW r \in Req, NEW k \in Conv, GateNew(r, k)
      PROVE  IInv'
  <2>1. PICK id \in EntryId \ Reachable :
          Insert(k, NewEntry(id)) /\ Enter(r, k, id, "sent", FALSE)
    BY <1>1 DEF GateNew
  <2>2. /\ NewEntry(id) \in Entry /\ NewEntry(id).id = id
        /\ NewEntry(id).decision = "unknown"
    BY NewEntryType DEF NewEntry
  <2>3. ~Stored(k) /\ pc[r] # "asking"
    BY <1>1 DEF GateNew
  <2>4. QED
    BY <2>1, <2>2, <2>3, InsertStep
<1>2. ASSUME NEW r \in Req, NEW n \in Ctx, ObserveEvicted(r, n)
      PROVE  IInv'
  <2>1. PICK id \in EntryId \ Reachable : Insert(key[r], ObservedEntry(id, n))
    BY <1>2 DEF ObserveEvicted
  <2>2. n \in Nat
    BY TokensAssumption
  <2>3. /\ ObservedEntry(id, n) \in Entry /\ ObservedEntry(id, n).id = id
        /\ ObservedEntry(id, n).decision = "unknown"
    BY <2>2, NewEntryType DEF ObservedEntry
  <2>4. ~Stored(key[r]) /\ pc[r] # "asking" /\ key[r] \in Conv /\ Leave(r)
    BY <1>2 DEF ObserveEvicted
  <2>5. QED
    BY <2>1, <2>3, <2>4, InsertStep
<1>3. CASE UNCHANGED vars
  <2>1. /\ conv' = conv /\ order' = order /\ pc' = pc /\ key' = key
        /\ held' = held /\ edit' = edit /\ asks' = asks /\ carried' = carried
    BY <1>3 DEF vars
  <2>2. TypeOK' /\ QueueMatchesStore' /\ DistinctEntries' /\ HeldIsOwn'
    BY <2>1 DEF IInv, TypeOK, QueueMatchesStore, DistinctEntries, HeldIsOwn, Stored
  <2>3. Phases' /\ AskerMarked' /\ AskCounted' /\ AskingHasAsker'
        /\ OneAskerPerEntry' /\ EditHasDecision'
    BY <2>1 DEF IInv, Phases, AskerMarked, AskCounted, AskingHasAsker,
                OneAskerPerEntry, EditHasDecision, Attached, Stored
  <2>4. QED
    BY <2>2, <2>3 DEF IInv
<1>4. QED
  BY <1>1, <1>2, <1>3, InPlaceStep, AskStep, AnswerStep DEF Next

(* The strengthened invariant holds in every reachable state.              *)
THEOREM Invariance == Spec => []IInv
BY InitIInv, NextIInv, PTL DEF Spec

(* Every variable keeps its type.                                          *)
THEOREM TypeCorrect == Spec => []TypeOK
<1>1. IInv => TypeOK
  BY DEF IInv
<1>2. QED
  BY <1>1, Invariance, PTL

(* The map and its FIFO agree and stay within the bound, for every bound.  *)
THEOREM QueueCorrect == Spec => []QueueMatchesStore
<1>1. IInv => QueueMatchesStore
  BY DEF IInv
<1>2. QED
  BY <1>1, Invariance, PTL

(* However many requests of a conversation are in flight, and whatever is  *)
(* evicted meanwhile, Jev is asked once for every stay in the store, and   *)
(* no two requests ever write an answer to the same entry.                 *)
THEOREM AskedOnce == Spec => []AskedOncePerStay
<1>1. IInv => AskedOncePerStay
  BY DEF IInv, AskCounted, AskedOncePerStay
<1>2. QED
  BY <1>1, Invariance, PTL

(* No conversation is left "asking" without a request that will answer.    *)
THEOREM NoOrphanedQuestion == Spec => []AskingHasAsker
<1>1. IInv => AskingHasAsker
  BY DEF IInv
<1>2. QED
  BY <1>1, Invariance, PTL

(* An edit that went upstream is backed by the decision in the store.      *)
THEOREM EditBacked == Spec => []EditHasDecision
<1>1. IInv => EditHasDecision
  BY DEF IInv
<1>2. QED
  BY <1>1, Invariance, PTL

-----------------------------------------------------------------------------
(* The store implements the one-time decision                              *)

LEMMA InitRefines == Init => Decision!Init
BY DEF Init, Decision!Init, Known, Stored

LEMMA StepRefines == IInv /\ [Next]_vars => [Decision!Next]_([k \in Conv |-> Known(k)])
<1> SUFFICES ASSUME IInv, [Next]_vars
             PROVE  [Decision!Next]_([k \in Conv |-> Known(k)])
  OBVIOUS
<1> DEFINE status == [k \in Conv |-> Known(k)]
<1>1. ASSUME NEW k \in Conv, NEW e \in Entry, ~Stored(k),
             e.decision = "unknown", Insert(k, e)
      PROVE  status' = status \/ \E c \in Conv : Decision!Forget(c)
  <2>1. TypeOK /\ QueueMatchesStore
    BY DEF IInv
  <2>2. e # NoEntry
    BY EntryAssumption
  <2>3. \A c \in Conv : conv'[c] = IF c \in Dropped(k) THEN NoEntry
                                   ELSE IF c = k THEN e ELSE conv[c]
    BY <1>1 DEF Insert
  <2>4. CASE Overflows(k)
    <3>1. /\ order[1] \in Conv
          /\ \A c \in Conv : c \in Dropped(k) <=> c = order[1]
      BY <1>1, <2>1, <2>4, QueueLemma
    <3>2. status' = [status EXCEPT ![order[1]] = "unknown"]
      BY <1>1, <2>2, <2>3, <3>1 DEF Known, Stored
    <3>3. QED
      BY <3>1, <3>2 DEF Decision!Forget
  <2>5. CASE ~Overflows(k)
    <3>1. \A c \in Conv : c \notin Dropped(k)
      BY <2>5 DEF Dropped
    <3>2. status' = status
      BY <1>1, <2>2, <2>3, <3>1 DEF Known, Stored
    <3>3. QED
      BY <3>2
  <2>6. QED
    BY <2>4, <2>5
<1>2. ASSUME NEW r \in Req, NEW k \in Conv, GateNew(r, k)
      PROVE  status' = status \/ \E c \in Conv : Decision!Forget(c)
  <2>1. PICK id \in EntryId \ Reachable : Insert(k, NewEntry(id))
    BY <1>2 DEF GateNew
  <2>2. NewEntry(id) \in Entry /\ NewEntry(id).decision = "unknown" /\ ~Stored(k)
    BY <1>2, NewEntryType DEF NewEntry, GateNew
  <2>3. QED
    BY <1>1, <2>1, <2>2
<1>3. ASSUME NEW r \in Req, NEW n \in Ctx, ObserveEvicted(r, n)
      PROVE  status' = status \/ \E c \in Conv : Decision!Forget(c)
  <2>1. PICK id \in EntryId \ Reachable : Insert(key[r], ObservedEntry(id, n))
    BY <1>3 DEF ObserveEvicted
  <2>2. n \in Nat /\ key[r] \in Conv /\ ~Stored(key[r])
    BY <1>3, TokensAssumption DEF ObserveEvicted
  <2>3. ObservedEntry(id, n) \in Entry /\ ObservedEntry(id, n).decision = "unknown"
    BY <2>2, NewEntryType DEF ObservedEntry
  <2>4. QED
    BY <1>1, <2>1, <2>2, <2>3
<1>4. ASSUME NEW r \in Req, NEW k \in Conv, NEW t \in Clearable, GateAsk(r, k, t)
      PROVE  Decision!Ask(k)
  <2>1. Stored(k) /\ conv[k] \in Entry /\ conv[k].decision = "unknown"
    BY <1>4 DEF GateAsk, IInv, TypeOK, Stored
  <2>2. [conv[k] EXCEPT !.decision = "asking"] \in Entry
    BY <2>1 DEF Entry, Decisions
  <2>3. /\ conv'[k] \in Entry /\ conv'[k].decision = "asking"
        /\ \A c \in Conv : c # k => conv'[c] = conv[c]
    BY <1>4, <2>1, <2>2 DEF GateAsk, IInv, TypeOK, Entry
  <2>4. status[k] = "unknown" /\ status' = [status EXCEPT ![k] = "asking"]
    BY <2>1, <2>3, EntryAssumption DEF Known, Stored
  <2>5. QED
    BY <2>4 DEF Decision!Ask
<1>5. ASSUME NEW r \in Req, NEW d \in Answers, GateAnswer(r, d)
      PROVE  status' = status \/ \E c \in Conv : Decision!Decide(c, d)
  <2>1. CASE Attached(r)
    <3>1. key[r] \in Conv /\ conv[key[r]] \in Entry /\ conv[key[r]].decision = "asking"
      BY <1>5, <2>1 DEF Attached, Stored, IInv, TypeOK, AskerMarked, GateAnswer
    <3>2. [conv[key[r]] EXCEPT !.decision = d] \in Entry
      BY <3>1 DEF Entry, Decisions, Answers
    <3>3. conv' = [conv EXCEPT ![key[r]] = [conv[key[r]] EXCEPT !.decision = d]]
      BY <1>5, <2>1, <3>1 DEF GateAnswer, IInv, TypeOK
    <3>4. /\ conv'[key[r]] \in Entry /\ conv'[key[r]].decision = d
          /\ \A c \in Conv : c # key[r] => conv'[c] = conv[c]
      BY <3>1, <3>2, <3>3 DEF IInv, TypeOK, Entry
    <3>5. /\ status[key[r]] = "asking"
          /\ status' = [status EXCEPT ![key[r]] = d]
      BY <3>1, <3>4, EntryAssumption DEF Known, Stored
    <3>6. Decision!Decide(key[r], d)
      BY <3>5 DEF Decision!Decide
    <3>7. QED
      BY <3>1, <3>6
  <2>2. CASE ~Attached(r)
    BY <1>5, <2>2 DEF GateAnswer, Known, Stored
  <2>3. QED
    BY <2>1, <2>2
<1>6. ASSUME NEW r \in Req, NEW n \in Ctx, Observe(r, n)
      PROVE  status' = status
  <2>1. key[r] \in Conv /\ Stored(key[r]) /\ conv[key[r]] \in Entry /\ n \in Nat
    BY <1>6, TokensAssumption DEF Observe, IInv, TypeOK, Stored
  <2>2. conv' = [conv EXCEPT ![key[r]] =
                   [conv[key[r]] EXCEPT !.lastCtx = n, !.observed = TRUE]]
    BY <1>6, <2>1 DEF Observe, IInv, TypeOK
  <2>3. [conv[key[r]] EXCEPT !.lastCtx = n, !.observed = TRUE] \in Entry
    BY <2>1 DEF Entry
  <2>4. /\ conv'[key[r]] \in Entry
        /\ conv'[key[r]].decision = conv[key[r]].decision
        /\ \A c \in Conv : c # key[r] => conv'[c] = conv[c]
    BY <2>1, <2>2, <2>3 DEF IInv, TypeOK, Entry
  <2>5. QED
    BY <2>1, <2>4, EntryAssumption DEF Known, Stored
<1>7. ASSUME conv' = conv
      PROVE  status' = status
  BY <1>7 DEF Known, Stored
<1>8. \/ status' = status
      \/ \E k \in Conv : Decision!Ask(k)
      \/ \E k \in Conv, d \in Answers : Decision!Decide(k, d)
      \/ \E k \in Conv : Decision!Forget(k)
  <2>1. CASE UNCHANGED vars
    BY <1>7, <2>1 DEF vars
  <2>2. CASE \E r \in Req : GateUnkeyed(r) \/ Unobserved(r)
    BY <1>7, <2>2 DEF GateUnkeyed, Unobserved, store
  <2>3. CASE \E r \in Req, k \in Conv :
               GateDecided(r, k) \/ \E t \in Clearable : GatePending(r, k, t)
    BY <1>7, <2>3 DEF GateDecided, GatePending, store
  <2>4. QED
    BY <1>2, <1>3, <1>4, <1>5, <1>6, <2>1, <2>2, <2>3 DEF Next
<1>9. Answers = Decision!Final
  BY DEF Answers, Final, Decision!Final
<1>10. QED
  BY <1>8, <1>9 DEF Decision!Next

(* What the store knows about a conversation goes from unknown to asking   *)
(* to one final decision, and back only by forgetting the conversation.    *)
THEOREM GateImplementsDecision == Spec => ImplementsDecision
BY InitRefines, StepRefines, Invariance, PTL
   DEF Spec, ImplementsDecision, Decision!Spec

-----------------------------------------------------------------------------
(* A decision to clear while no entry is dropped during its question       *)

(* What the history says was granted, the store knows.                     *)
Backed == \A k \in Conv : carried[k] => Stored(k) /\ conv[k].decision = "clear"

(* The entry an asking request has captured is still in the map.           *)
AskersAttached == \A r \in Req : pc[r] = "asking" => Attached(r)

SInv == IInv /\ Backed /\ AskersAttached

LEMMA SteadyInit == Init => Backed /\ AskersAttached
BY DEF Init, Backed, AskersAttached

(* A new entry: what it drops is forgotten by the history as well, and it  *)
(* is nobody's question.                                                   *)
LEMMA SteadyInsert ==
  ASSUME SInv, QuestionsStay, NEW r \in Req, NEW k \in Conv, ~Stored(k),
         NEW e \in Entry, Insert(k, e), pc[r] # "asking",
         (\E id \in EntryId : Enter(r, k, id, "sent", FALSE)) \/ Leave(r)
  PROVE  Backed' /\ AskersAttached'
<1>1. TypeOK /\ QueueMatchesStore /\ AskerMarked
  BY DEF SInv, IInv
<1>2. /\ Stored(k)' /\ conv'[k] = e
      /\ \A c \in Conv : c # k /\ Stored(c)' =>
           Stored(c) /\ conv'[c] = conv[c] /\ carried'[c] = carried[c]
  BY <1>1, InsertMap
<1>3. \A c \in Conv : carried'[c] => carried[c] /\ c \notin Dropped(k)
  BY <1>1 DEF Insert, TypeOK
<1>4. \A c \in Conv : carried'[c] => Stored(c)' /\ conv'[c] = conv[c] /\ conv[c].decision = "clear"
  <2> SUFFICES ASSUME NEW c \in Conv, carried'[c]
               PROVE  Stored(c)' /\ conv'[c] = conv[c] /\ conv[c].decision = "clear"
    OBVIOUS
  <2>1. Stored(c) /\ conv[c].decision = "clear" /\ c # k /\ c \notin Dropped(k)
    BY <1>3 DEF SInv, Backed
  <2>2. conv'[c] = conv[c]
    BY <2>1 DEF Insert
  <2>3. QED
    BY <2>1, <2>2 DEF Stored
<1>5. \A s \in Req : pc'[s] = "asking" =>
        /\ s # r /\ pc[s] = "asking" /\ key'[s] = key[s] /\ held'[s] = held[s]
  BY <1>1 DEF Enter, Leave, TypeOK
<1>6. ASSUME NEW s \in Req, pc'[s] = "asking" PROVE Attached(s)'
  <2>1. Attached(s) /\ conv[key[s]].decision = "asking"
    BY <1>1, <1>5, <1>6 DEF SInv, AskersAttached, AskerMarked
  <2>2. key[s] \in Conv /\ Stored(key[s]) /\ conv'[key[s]] # NoEntry /\ key[s] # k
    BY <2>1 DEF Attached, QuestionsStay, Stored
  <2>3. conv'[key[s]] = conv[key[s]]
    BY <1>2, <2>2 DEF Stored
  <2>4. QED
    BY <1>5, <1>6, <2>1, <2>2, <2>3 DEF Attached, Stored
<1>7. QED
  BY <1>4, <1>6 DEF Backed, AskersAttached

(* Every other step leaves each entry where it is, under its address.      *)
LEMMA SteadyInPlace ==
  ASSUME SInv, NEW r \in Req,
         \A c \in Conv : /\ Stored(c)' <=> Stored(c)
                         /\ Stored(c) => conv'[c].id = conv[c].id,
         \A s \in Req : s # r => pc'[s] = pc[s] /\ key'[s] = key[s] /\ held'[s] = held[s],
         pc'[r] = "asking" => Attached(r)'
  PROVE  AskersAttached'
<1> SUFFICES ASSUME NEW s \in Req, pc'[s] = "asking" PROVE Attached(s)'
  BY DEF AskersAttached
<1>1. CASE s = r
  BY <1>1
<1>2. CASE s # r
  BY <1>2 DEF SInv, AskersAttached, Attached
<1>3. QED
  BY <1>1, <1>2

LEMMA SteadyNext ==
  ASSUME SInv, [Next /\ QuestionsStay]_vars
  PROVE  SInv'
<1> USE DEF SInv
<1>1. TypeOK /\ AskerMarked /\ Phases
  BY DEF IInv
<1>2. IInv'
  BY NextIInv
<1>3. CASE UNCHANGED vars
  BY <1>2, <1>3 DEF vars, Backed, AskersAttached, Attached, Stored
<1>4. ASSUME NEW r \in Req, NEW k \in Conv, GateNew(r, k), QuestionsStay
      PROVE  SInv'
  <2>1. PICK id \in EntryId \ Reachable :
          Insert(k, NewEntry(id)) /\ Enter(r, k, id, "sent", FALSE)
    BY <1>4 DEF GateNew
  <2>2. NewEntry(id) \in Entry
    BY NewEntryType
  <2>3. ~Stored(k) /\ pc[r] # "asking"
    BY <1>4 DEF GateNew
  <2>4. QED
    BY <1>2, <1>4, <2>1, <2>2, <2>3, SteadyInsert
<1>5. ASSUME NEW r \in Req, NEW n \in Ctx, ObserveEvicted(r, n), QuestionsStay
      PROVE  SInv'
  <2>1. PICK id \in EntryId \ Reachable : Insert(key[r], ObservedEntry(id, n))
    BY <1>5 DEF ObserveEvicted
  <2>2. ObservedEntry(id, n) \in Entry
    BY TokensAssumption, NewEntryType
  <2>3. ~Stored(key[r]) /\ pc[r] # "asking" /\ key[r] \in Conv /\ Leave(r)
    BY <1>5 DEF ObserveEvicted
  <2>4. QED
    BY <1>2, <1>5, <2>1, <2>2, <2>3, SteadyInsert
<1>6. ASSUME NEW r \in Req, GateUnkeyed(r) \/ Unobserved(r)
      PROVE  SInv'
  <2>1. conv' = conv /\ carried' = carried
    BY <1>6 DEF GateUnkeyed, Unobserved, store
  <2>2. /\ pc'[r] # "asking"
        /\ \A s \in Req : s # r => pc'[s] = pc[s] /\ key'[s] = key[s] /\ held'[s] = held[s]
    BY <1>1, <1>6 DEF GateUnkeyed, Unobserved, Enter, Leave, TypeOK
  <2>3. QED
    BY <1>2, <2>1, <2>2, SteadyInPlace DEF Backed, Stored
<1>7. ASSUME NEW r \in Req, NEW k \in Conv, GateDecided(r, k)
      PROVE  SInv'
  <2>1. /\ conv' = conv /\ Stored(k)
        /\ \A c \in Conv : carried'[c] => carried[c] \/ (c = k /\ conv[k].decision = "clear")
    BY <1>1, <1>7 DEF GateDecided, store, TypeOK
  <2>2. /\ pc'[r] # "asking"
        /\ \A s \in Req : s # r => pc'[s] = pc[s] /\ key'[s] = key[s] /\ held'[s] = held[s]
    BY <1>1, <1>7 DEF GateDecided, Enter, TypeOK
  <2>3. QED
    BY <1>2, <2>1, <2>2, SteadyInPlace DEF Backed, Stored
<1>8. ASSUME NEW r \in Req, NEW k \in Conv, NEW t \in Clearable, GatePending(r, k, t)
      PROVE  SInv'
  <2>1. conv' = conv /\ carried' = carried
    BY <1>8 DEF GatePending, store
  <2>2. /\ pc'[r] # "asking"
        /\ \A s \in Req : s # r => pc'[s] = pc[s] /\ key'[s] = key[s] /\ held'[s] = held[s]
    BY <1>1, <1>8 DEF GatePending, Enter, TypeOK
  <2>3. QED
    BY <1>2, <2>1, <2>2, SteadyInPlace DEF Backed, Stored
<1>9. ASSUME NEW r \in Req, NEW k \in Conv, NEW t \in Clearable, GateAsk(r, k, t)
      PROVE  SInv'
  <2>1. /\ Stored(k) /\ conv[k] \in Entry /\ conv[k].decision = "unknown"
        /\ conv' = [conv EXCEPT ![k].decision = "asking"] /\ carried' = carried
    BY <1>1, <1>9 DEF GateAsk, TypeOK, Stored
  <2>2. /\ conv'[k] = [conv[k] EXCEPT !.decision = "asking"]
        /\ conv'[k] \in Entry /\ conv'[k].id = conv[k].id
        /\ \A c \in Conv : c # k => conv'[c] = conv[c]
    BY <1>1, <2>1 DEF TypeOK, Entry, Decisions
  <2>3. \A c \in Conv : /\ Stored(c)' <=> Stored(c)
                        /\ Stored(c) => conv'[c].id = conv[c].id
    BY <2>1, <2>2, EntryAssumption DEF Stored
  <2>4. /\ key'[r] = k /\ held'[r] = conv[k].id
        /\ \A s \in Req : s # r => pc'[s] = pc[s] /\ key'[s] = key[s] /\ held'[s] = held[s]
    BY <1>1, <1>9 DEF GateAsk, Enter, TypeOK
  <2>5. Backed'
    BY <2>1, <2>2, <2>3 DEF Backed
  <2>6. Attached(r)'
    BY <2>1, <2>2, <2>3, <2>4 DEF Attached
  <2>7. QED
    BY <1>2, <2>3, <2>4, <2>5, <2>6, SteadyInPlace
<1>10. ASSUME NEW r \in Req, NEW d \in Answers, GateAnswer(r, d)
       PROVE  SInv'
  <2> DEFINE k == key[r]
  <2>1. /\ Attached(r) /\ k \in Conv /\ Stored(k) /\ conv[k] \in Entry
        /\ conv[k].decision = "asking"
    BY <1>1, <1>10 DEF GateAnswer, AskersAttached, AskerMarked, Attached, TypeOK, Stored
  <2>2. /\ conv' = [conv EXCEPT ![k].decision = d]
        /\ carried' = [carried EXCEPT ![k] = @ \/ d = "clear"]
    BY <1>10, <2>1 DEF GateAnswer
  <2>3. /\ conv'[k] = [conv[k] EXCEPT !.decision = d]
        /\ conv'[k] \in Entry /\ conv'[k].id = conv[k].id /\ conv'[k].decision = d
        /\ \A c \in Conv : c # k => conv'[c] = conv[c]
    BY <1>1, <2>1, <2>2 DEF TypeOK, Entry, Decisions, Answers, Final
  <2>4. \A c \in Conv : /\ Stored(c)' <=> Stored(c)
                        /\ Stored(c) => conv'[c].id = conv[c].id
    BY <2>1, <2>3, EntryAssumption DEF Stored
  <2>5. /\ ~carried[k]
        /\ \A c \in Conv : carried'[c] => carried[c] \/ (c = k /\ d = "clear")
    BY <1>1, <2>1, <2>2 DEF Backed, TypeOK
  <2>6. Backed'
    <3> SUFFICES ASSUME NEW c \in Conv, carried'[c]
                 PROVE  Stored(c)' /\ conv'[c].decision = "clear"
      BY DEF Backed
    <3>1. CASE c = k
      BY <2>1, <2>3, <2>4, <2>5, <3>1
    <3>2. CASE c # k
      <4>1. Stored(c) /\ conv[c].decision = "clear"
        BY <2>5, <3>2 DEF Backed
      <4>2. QED
        BY <2>3, <2>4, <3>2, <4>1
    <3>3. QED
      BY <3>1, <3>2
  <2>7. /\ pc'[r] # "asking"
        /\ \A s \in Req : s # r => pc'[s] = pc[s] /\ key'[s] = key[s] /\ held'[s] = held[s]
    BY <1>1, <1>10 DEF GateAnswer, TypeOK
  <2>8. QED
    BY <1>2, <2>4, <2>6, <2>7, SteadyInPlace
<1>11. ASSUME NEW r \in Req, NEW n \in Ctx, Observe(r, n)
       PROVE  SInv'
  <2> DEFINE k == key[r]
  <2>1. /\ k \in Conv /\ Stored(k) /\ conv[k] \in Entry /\ carried' = carried
        /\ conv' = [conv EXCEPT ![k].lastCtx = n, ![k].observed = TRUE]
    BY <1>1, <1>11 DEF Observe, TypeOK, Stored
  <2>2. /\ conv'[k] = [conv[k] EXCEPT !.lastCtx = n, !.observed = TRUE]
        /\ conv'[k] \in Entry /\ conv'[k].id = conv[k].id
        /\ conv'[k].decision = conv[k].decision
        /\ \A c \in Conv : c # k => conv'[c] = conv[c]
    BY <1>1, <2>1, TokensAssumption DEF TypeOK, Entry
  <2>3. \A c \in Conv : /\ Stored(c)' <=> Stored(c)
                        /\ Stored(c) => conv'[c].id = conv[c].id
    BY <2>1, <2>2, EntryAssumption DEF Stored
  <2>4. Backed'
    BY <2>1, <2>2, <2>3 DEF Backed
  <2>5. /\ pc'[r] # "asking"
        /\ \A s \in Req : s # r => pc'[s] = pc[s] /\ key'[s] = key[s] /\ held'[s] = held[s]
    BY <1>1, <1>11 DEF Observe, Leave, TypeOK
  <2>6. QED
    BY <1>2, <2>3, <2>4, <2>5, SteadyInPlace
<1>12. QED
  BY <1>3, <1>4, <1>5, <1>6, <1>7, <1>8, <1>9, <1>10, <1>11 DEF Next

(* An answer for a conversation that carried the edit is the edit again.   *)
LEMMA SteadyAnswer ==
  ASSUME SInv, Next, NEW r \in Req, NEW k \in Conv, carried[k],
         key'[r] = k, pc[r] # "sent", pc'[r] = "sent"
  PROVE  edit'[r]
<1>1. TypeOK /\ AskerMarked
  BY DEF SInv, IInv
<1>2. Stored(k) /\ conv[k].decision = "clear"
  BY DEF SInv, Backed
<1>4. CASE \E s \in Req : GateUnkeyed(s)
  BY <1>1, <1>4, KeysAssumption DEF GateUnkeyed, Enter, TypeOK
<1>5. CASE \E s \in Req, c \in Conv : GateNew(s, c)
  BY <1>1, <1>2, <1>5 DEF GateNew, Enter, TypeOK
<1>6. CASE \E s \in Req, c \in Conv : GateDecided(s, c)
  BY <1>1, <1>2, <1>6 DEF GateDecided, Enter, TypeOK
<1>7. CASE \E s \in Req, c \in Conv, t \in Clearable : GatePending(s, c, t)
  BY <1>1, <1>2, <1>7 DEF GatePending, Enter, TypeOK
<1>8. CASE \E s \in Req, c \in Conv, t \in Clearable : GateAsk(s, c, t)
  BY <1>1, <1>8 DEF GateAsk, Enter, TypeOK
<1>9. ASSUME NEW s \in Req, NEW d \in Answers, GateAnswer(s, d) PROVE edit'[r]
  <2>1. s = r /\ pc[r] = "asking" /\ key[r] = k
    BY <1>1, <1>9 DEF GateAnswer, TypeOK
  <2>2. conv[k].decision = "asking"
    BY <1>1, <2>1 DEF SInv, AskersAttached, AskerMarked
  <2>3. QED
    BY <1>2, <2>2
<1>10. CASE \E s \in Req : Unobserved(s)
  BY <1>1, <1>10 DEF Unobserved, Leave, TypeOK
<1>11. CASE \E s \in Req, n \in Ctx : Observe(s, n)
  BY <1>1, <1>11 DEF Observe, Leave, TypeOK
<1>12. CASE \E s \in Req, n \in Ctx : ObserveEvicted(s, n)
  BY <1>1, <1>12 DEF ObserveEvicted, Leave, TypeOK
<1>13. QED
  BY <1>4, <1>5, <1>6, <1>7, <1>8, <1>9, <1>10, <1>11, <1>12 DEF Next

LEMMA SteadyInvariance == SteadySpec => []SInv
<1>1. Init => SInv
  BY InitIInv, SteadyInit DEF SInv
<1>2. SInv /\ [Next /\ QuestionsStay]_vars => SInv'
  BY SteadyNext
<1>3. QED
  BY <1>1, <1>2, PTL DEF SteadySpec

(* As long as no entry is dropped while its own question is out, a         *)
(* decision to clear is never revisited: gate gives every later request of *)
(* the conversation the edit again, whatever else the store drops.         *)
THEOREM ClearStays == SteadySpec => ClearNeverRevisited
<1> DEFINE Again == \A r \in Req, k \in Conv :
                      carried[k] /\ carried'[k] /\ key'[r] = k /\ pc[r] # "sent" /\ pc'[r] = "sent"
                        => edit'[r]
<1>1. SInv /\ [Next /\ QuestionsStay]_vars => [Again]_vars
  BY SteadyAnswer
<1>2. SteadySpec => [][Again]_vars
  BY <1>1, SteadyInvariance, PTL DEF SteadySpec
<1>3. QED
  BY <1>2 DEF ClearNeverRevisited

(* A store with room for every conversation drops nothing, so every        *)
(* behaviour of the gate is steady: a bound of clearGateStoreMax is enough *)
(* for as many conversations.                                              *)
LEMMA NothingDropped ==
  ASSUME TypeOK, QueueMatchesStore, IsFiniteSet(Conv), Cardinality(Conv) <= MaxStore,
         NEW k \in Conv, ~Stored(k)
  PROVE  ~Overflows(k)
<1> SUFFICES ASSUME Len(order) = MaxStore PROVE FALSE
  BY BoundAssumption DEF Overflows, TypeOK, QueueMatchesStore
<1>1. order \in [1 .. Len(order) -> Conv \ {k}] /\ Len(order) \in Nat
  BY DEF TypeOK, QueueMatchesStore
<1>2. order \in Injection(1 .. Len(order), Conv \ {k})
  BY <1>1 DEF QueueMatchesStore, Injection, IsInjective
<1>3. IsFiniteSet(Conv \ {k}) /\ Cardinality(Conv \ {k}) = Cardinality(Conv) - 1
      /\ Cardinality(Conv) \in Nat
  BY FS_RemoveElement, FS_CardinalityType
<1>4. Cardinality(1 .. Len(order)) = Len(order)
  BY <1>1, FS_Interval
<1>5. Cardinality(1 .. Len(order)) <= Cardinality(Conv \ {k})
  BY <1>2, <1>3, FS_Injection DEF ExistsInjection
<1>6. QED
  BY <1>3, <1>4, <1>5, BoundAssumption

(* With a store that has room for every conversation the gate keeps its    *)
(* word as its comment gives it.                                           *)
THEOREM ClearStaysWithRoom ==
  ASSUME IsFiniteSet(Conv), Cardinality(Conv) <= MaxStore
  PROVE  Spec => ClearNeverRevisited
<1>1. ASSUME IInv, Next PROVE QuestionsStay
  <2>1. TypeOK /\ QueueMatchesStore
    BY <1>1 DEF IInv
  <2>2. ASSUME NEW k \in Conv, NEW e \in Entry, ~Stored(k), Insert(k, e)
        PROVE  QuestionsStay
    <3>1. Dropped(k) = {}
      BY <2>1, <2>2, NothingDropped DEF Dropped
    <3>2. \A c \in Conv : c # k => conv'[c] = conv[c]
      BY <2>2, <3>1 DEF Insert
    <3>3. QED
      BY <2>2, <3>2 DEF QuestionsStay, Stored
  <2>3. CASE \E r \in Req, k \in Conv : GateNew(r, k)
    BY <2>2, <2>3, NewEntryType DEF GateNew
  <2>4. CASE \E r \in Req, n \in Ctx : ObserveEvicted(r, n)
    BY <2>2, <2>4, NewEntryType, TokensAssumption DEF ObserveEvicted
  <2>5. CASE UNCHANGED conv
    BY <2>5 DEF QuestionsStay, Stored
  <2>6. CASE \E k \in Conv, e \in Entry : conv' = [conv EXCEPT ![k] = e]
    BY <2>1, <2>6, EntryAssumption DEF QuestionsStay, Stored, TypeOK
  <2>7. ASSUME NEW r \in Req, NEW k \in Conv, NEW t \in Clearable, GateAsk(r, k, t)
        PROVE  QuestionsStay
    <3>1. conv[k] \in Entry /\ conv' = [conv EXCEPT ![k].decision = "asking"]
      BY <2>1, <2>7 DEF GateAsk, Stored, TypeOK
    <3>2. [conv[k] EXCEPT !.decision = "asking"] \in Entry
      BY <3>1 DEF Entry, Decisions
    <3>3. QED
      BY <2>6, <3>1, <3>2
  <2>8. ASSUME NEW r \in Req, NEW d \in Answers, GateAnswer(r, d)
        PROVE  QuestionsStay
    <3>1. CASE Attached(r)
      <4>1. /\ key[r] \in Conv /\ conv[key[r]] \in Entry
            /\ conv' = [conv EXCEPT ![key[r]].decision = d]
        BY <2>1, <2>8, <3>1 DEF GateAnswer, Attached, Stored, TypeOK
      <4>2. [conv[key[r]] EXCEPT !.decision = d] \in Entry
        BY <4>1 DEF Entry, Decisions, Answers, Final
      <4>3. QED
        BY <2>6, <4>1, <4>2
    <3>2. CASE ~Attached(r)
      BY <2>5, <2>8, <3>2 DEF GateAnswer
    <3>3. QED
      BY <3>1, <3>2
  <2>9. ASSUME NEW r \in Req, NEW n \in Ctx, Observe(r, n)
        PROVE  QuestionsStay
    <3>1. /\ key[r] \in Conv /\ conv[key[r]] \in Entry
          /\ conv' = [conv EXCEPT ![key[r]].lastCtx = n, ![key[r]].observed = TRUE]
      BY <2>1, <2>9 DEF Observe, Stored, TypeOK
    <3>2. [conv[key[r]] EXCEPT !.lastCtx = n, !.observed = TRUE] \in Entry
      BY <3>1, TokensAssumption DEF Entry
    <3>3. conv' = [conv EXCEPT ![key[r]] = [conv[key[r]] EXCEPT !.lastCtx = n, !.observed = TRUE]]
      BY <2>1, <3>1 DEF TypeOK
    <3>4. QED
      BY <2>6, <3>1, <3>2, <3>3
  <2>10. QED
    BY <1>1, <2>3, <2>4, <2>5, <2>7, <2>8, <2>9
       DEF Next, GateUnkeyed, GateDecided, GatePending, Unobserved, store
<1>2. IInv /\ [Next]_vars => [Next /\ QuestionsStay]_vars
  BY <1>1
<1>3. Spec => SteadySpec
  BY <1>2, Invariance, PTL DEF Spec, SteadySpec
<1>4. QED
  BY <1>3, ClearStays

=============================================================================
