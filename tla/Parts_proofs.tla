---------------------------- MODULE Parts_proofs -----------------------------
(***************************************************************************)
(* Proofs about what is kept between requests, and what is made of it: the *)
(* hint store (Hints), the caches of the Jev client (JevClient), the skill *)
(* of a task (AutoApply), answers to compaction requests (NativeReply),    *)
(* what the taps beside a response body read of it (BodyTaps); about a     *)
(* benchmark: its published savings (Bench), its lock (BenchLock) and its  *)
(* processes (RunProc); and about all these parts and those of             *)
(* Rewriting_proofs side by side (Parts).                                  *)
(***************************************************************************)
EXTENDS Rewriting_proofs, Parts

-----------------------------------------------------------------------------
(* The hint store, for all sets of goroutines, keys and hints, every store *)
(* bound and any histories. HintsStable speaks of requests that are on     *)
(* their way; what carries it there is that a stored hint never changes    *)
(* while it is stored, so that what a request has restored so far is what  *)
(* the store says now, unless the key was dropped in between.              *)

(* What request q may rely on for a key that was not dropped, whose text   *)
(* is now `now`: it is what it was, and q carries this or nothing.         *)
InStep(q, k, now) ==
  /\ q.had[k] # None => now = q.had[k]
  /\ q.hints[k] # <<>> => now # None /\ q.hints[k] = <<now>>
  /\ \A i \in 1 .. Len(q.msgs) :
       i < q.next /\ q.msgs[i] = k /\ q.had[k] # None => q.hints[k] = <<q.had[k]>>

(* What HintsStable says of one request and one key.                       *)
Carried(q, k) ==
  /\ Len(q.hints[k]) <= 1
  /\ q.had[k] # None /\ k \in Range(q.msgs) => q.hints[k] = <<q.had[k]>>

OnItsWay(q, store) ==
  /\ q.at = "deciding" => q.next > Len(q.msgs)
  /\ \A k \in Key \ q.gone :
       /\ q.at \in {"restoring", "deciding"} => InStep(q, k, store[k])
       /\ q.at = "sent" => Carried(q, k)

OnTheirWay == \A r \in HintReq : OnItsWay(rewriting[r], text)

HintsInv == HintsTypeOK /\ StoreMatchesOrder /\ OnTheirWay

-----------------------------------------------------------------------------
(* The operators                                                           *)

(* A hint is only ever attached to a key.                                  *)
LEMMA TargetIsKey ==
  ASSUME NEW msgs, AdviseInsertTarget(msgs) # None
  PROVE  AdviseInsertTarget(msgs) \in Key
BY Zenon DEF AdviseInsertTarget

(* An equal block is not added twice, a first one is.                      *)
LEMMA AppendHint ==
  ASSUME NEW hints \in Seq(Hint), NEW t \in Hint
  PROVE  /\ AppendHintBlock(hints, t) \in Seq(Hint)
         /\ hints = <<>> => AppendHintBlock(hints, t) = <<t>>
         /\ hints = <<t>> => AppendHintBlock(hints, t) = <<t>>
<1>1. hints = <<t>> => hints # <<>> /\ hints[Len(hints)] = t
  OBVIOUS
<1>2. hints = <<>> => Append(hints, t) = <<t>>
  OBVIOUS
<1>3. Append(hints, t) \in Seq(Hint)
  OBVIOUS
<1>4. QED
  BY <1>1, <1>2, <1>3 DEF AppendHintBlock, Last

-----------------------------------------------------------------------------
(* The map and its FIFO                                                    *)

(* Two ways to say that a sequence lists a set, and each member once.      *)
LEMMA Listed ==
  ASSUME NEW s \in Seq(Key), NEW S \in SUBSET Key,
         \A j \in S : \E i \in 1 .. Len(s) : s[i] = j,
         \A i \in 1 .. Len(s) : s[i] \in S,
         \A i, j \in 1 .. Len(s) : s[i] = s[j] => i = j
  PROVE  Range(s) = S /\ IsInjective(s)
<1>1. DOMAIN s = 1 .. Len(s)
  OBVIOUS
<1>2. Range(s) = S
  BY <1>1 DEF Range
<1>3. IsInjective(s)
  BY <1>1 DEF IsInjective
<1>4. QED
  BY <1>2, <1>3

(* remember keeps them in step, and what it drops is the oldest key.       *)
LEMMA RememberedOrder ==
  ASSUME HintsTypeOK, StoreMatchesOrder, NEW k \in Key, NEW t \in Hint,
         NEW stored, stored = IF text[k] = None THEN Append(order, k) ELSE order,
         NEW out, out = Dropped(stored),
         \A j \in Key : text'[j] = IF j \in out THEN None
                                   ELSE IF j = k THEN Remember(k, t) ELSE text[j],
         order' = IF out = {} THEN stored ELSE Tail(stored)
  PROVE  order' \in Seq(Key) /\ StoreMatchesOrder'
<1> USE HintsAssumption
<1> DEFINE Stay == {j \in Key : text'[j] # None}
<1>0. Stay \in SUBSET Key /\ \A j \in Key : j \in Stay <=> text'[j] # None
  OBVIOUS
<1> HIDE DEF Stay
<1>1. /\ order \in Seq(Key) /\ Len(order) \in Nat /\ Len(order) <= HintMax
      /\ Remember(k, t) \in Hint /\ Remember(k, t) # None
  BY DEF HintsTypeOK, StoreMatchesOrder, Remember
<1>2. \A j \in Key : text[j] # None <=> \E i \in 1 .. Len(order) : order[i] = j
  BY <1>1 DEF StoreMatchesOrder, Range
<1>3. \A i, j \in 1 .. Len(order) : order[i] = order[j] => i = j
  BY <1>1 DEF StoreMatchesOrder, IsInjective
<1>4. \A j \in Key : text'[j] = IF j \in out THEN None
                                ELSE IF j = k THEN Remember(k, t) ELSE text[j]
  OBVIOUS
<1>5. CASE text[k] # None
  <2>1. stored = order /\ out = {}
    BY <1>1, <1>5 DEF Dropped
  <2>2. order' = order
    BY <2>1
  <2>3. Remember(k, t) = text[k]
    BY <1>5 DEF Remember
  <2>4. \A j \in Key : text'[j] = text[j]
    BY <1>4, <2>1, <2>3
  <2>5. QED
    BY <1>1, <2>2, <2>4 DEF StoreMatchesOrder
<1>6. CASE text[k] = None
  <2>1. /\ stored = Append(order, k) /\ stored \in Seq(Key)
        /\ Len(stored) = Len(order) + 1
        /\ \A i \in 1 .. Len(stored) :
             stored[i] = IF i = Len(order) + 1 THEN k ELSE order[i]
    BY <1>1, <1>6
  <2>2. \A i \in 1 .. Len(order) : order[i] \in Key /\ order[i] # k
    BY <1>1, <1>2, <1>6
  <2>3. CASE Len(stored) > HintMax
    <3>1. /\ Len(order) = HintMax /\ Len(order) >= 1
          /\ out = {order[1]} /\ order' = Tail(stored)
      BY <1>1, <2>1, <2>3 DEF Dropped
    <3>2. /\ order' \in Seq(Key) /\ Len(order') = Len(order)
          /\ \A i \in 1 .. Len(order) :
               order'[i] = IF i = Len(order) THEN k ELSE order[i + 1]
      BY <1>1, <2>1, <3>1
    <3>3. \A j \in Key : text'[j] # None <=> j = k \/ (text[j] # None /\ j # order[1])
      BY <1>1, <1>4, <2>2, <3>1
    <3>4. \A j \in Key : text'[j] # None => \E i \in 1 .. Len(order') : order'[i] = j
      <4> SUFFICES ASSUME NEW j \in Key, text'[j] # None
                   PROVE  \E i \in 1 .. Len(order') : order'[i] = j
        OBVIOUS
      <4>1. CASE j = k
        BY <3>1, <3>2, <4>1
      <4>2. CASE j # k
        <5>1. PICK i \in 1 .. Len(order) : order[i] = j
          BY <1>2, <3>3, <4>2
        <5>2. i # 1
          BY <3>3, <4>2, <5>1
        <5>3. i - 1 \in 1 .. Len(order') /\ order'[i - 1] = j
          BY <1>1, <3>2, <5>1, <5>2
        <5>4. QED
          BY <5>3
      <4>3. QED
        BY <4>1, <4>2
    <3>5. \A i \in 1 .. Len(order') : text'[order'[i]] # None
      <4> SUFFICES ASSUME NEW i \in 1 .. Len(order') PROVE text'[order'[i]] # None
        OBVIOUS
      <4>1. CASE i = Len(order)
        BY <3>2, <3>3, <4>1
      <4>2. CASE i # Len(order)
        <5>1. i + 1 \in 1 .. Len(order) /\ order'[i] = order[i + 1] /\ i + 1 # 1
          BY <1>1, <3>2, <4>2
        <5>2. order[i + 1] # order[1] /\ text[order[i + 1]] # None /\ order[i + 1] \in Key
          BY <1>1, <1>2, <1>3, <3>1, <5>1
        <5>3. QED
          BY <3>3, <5>1, <5>2
      <4>3. QED
        BY <4>1, <4>2
    <3>6. \A i, j \in 1 .. Len(order') : order'[i] = order'[j] => i = j
      <4> SUFFICES ASSUME NEW i \in 1 .. Len(order'), NEW j \in 1 .. Len(order'),
                          order'[i] = order'[j]
                   PROVE  i = j
        OBVIOUS
      <4>1. CASE i # Len(order) /\ j # Len(order)
        <5>1. i + 1 \in 1 .. Len(order) /\ j + 1 \in 1 .. Len(order)
          BY <1>1, <3>2, <4>1
        <5>2. i + 1 = j + 1
          BY <1>3, <3>2, <4>1, <5>1
        <5>3. QED
          BY <1>1, <3>2, <5>2
      <4>2. CASE i = Len(order)
        <5>1. order'[j] = k
          BY <3>2, <4>2
        <5>2. j = Len(order) \/ (j + 1 \in 1 .. Len(order) /\ order'[j] = order[j + 1])
          BY <1>1, <3>2
        <5>3. QED
          BY <2>2, <4>2, <5>1, <5>2
      <4>4. CASE j = Len(order)
        <5>1. order'[i] = k
          BY <3>2, <4>4
        <5>2. i = Len(order) \/ (i + 1 \in 1 .. Len(order) /\ order'[i] = order[i + 1])
          BY <1>1, <3>2
        <5>3. QED
          BY <2>2, <4>4, <5>1, <5>2
      <4>5. QED
        BY <4>1, <4>2, <4>4
    <3>7. /\ \A i \in 1 .. Len(order') : order'[i] \in Stay
          /\ \A j \in Stay : \E i \in 1 .. Len(order') : order'[i] = j
      <4>1. \A i \in 1 .. Len(order') : order'[i] \in Key
        <5>1. order' \in Seq(Key)
          BY <3>2
        <5>2. QED
          BY <5>1
      <4>2. QED
        BY <1>0, <3>4, <3>5, <4>1
    <3>8. Range(order') = Stay /\ IsInjective(order')
      BY <1>0, <3>2, <3>6, <3>7, Listed
    <3>9. QED
      BY <1>1, <3>1, <3>2, <3>8 DEF StoreMatchesOrder, Stay
  <2>4. CASE ~(Len(stored) > HintMax)
    <3>1. out = {} /\ order' = stored
      BY <2>4 DEF Dropped
    <3>2. \A j \in Key : text'[j] # None <=> j = k \/ text[j] # None
      BY <1>1, <1>4, <3>1
    <3>3. \A j \in Key : text'[j] # None => \E i \in 1 .. Len(order') : order'[i] = j
      <4> SUFFICES ASSUME NEW j \in Key, text'[j] # None
                   PROVE  \E i \in 1 .. Len(order') : order'[i] = j
        OBVIOUS
      <4>1. CASE j = k
        BY <1>1, <2>1, <3>1, <4>1
      <4>2. CASE j # k
        <5>1. PICK i \in 1 .. Len(order) : order[i] = j
          BY <1>2, <3>2, <4>2
        <5>2. i \in 1 .. Len(order') /\ order'[i] = j
          BY <1>1, <2>1, <3>1, <5>1
        <5>3. QED
          BY <5>2
      <4>3. QED
        BY <4>1, <4>2
    <3>4. \A i \in 1 .. Len(order') : text'[order'[i]] # None
      BY <1>1, <1>2, <2>1, <2>2, <3>1, <3>2
    <3>5. \A i, j \in 1 .. Len(order') : order'[i] = order'[j] => i = j
      BY <1>1, <1>3, <2>1, <2>2, <3>1
    <3>6. /\ order' \in Seq(Key)
          /\ \A i \in 1 .. Len(order') : order'[i] \in Stay
          /\ \A j \in Stay : \E i \in 1 .. Len(order') : order'[i] = j
      <4>1. order' \in Seq(Key)
        BY <2>1, <3>1
      <4>2. \A i \in 1 .. Len(order') : order'[i] \in Key
        BY <4>1
      <4>3. QED
        BY <1>0, <3>3, <3>4, <4>1, <4>2
    <3>7. Range(order') = Stay /\ IsInjective(order')
      BY <1>0, <3>5, <3>6, Listed
    <3>8. Len(order') <= HintMax
      BY <1>1, <2>1, <2>4, <3>1
    <3>9. QED
      BY <3>6, <3>7, <3>8 DEF StoreMatchesOrder, Stay
  <2>5. QED
    BY <2>3, <2>4
<1>7. QED
  BY <1>5, <1>6

-----------------------------------------------------------------------------
(* Requests on their way                                                   *)

LEMMA HintsInitInv == HintsInit => HintsInv
<1> SUFFICES ASSUME HintsInit PROVE HintsInv
  OBVIOUS
<1>1. HintsTypeOK
  BY DEF HintsInit, HintsTypeOK, Rewriting, NotRewritten
<1>2. StoreMatchesOrder
  BY HintsAssumption DEF HintsInit, StoreMatchesOrder, Range, IsInjective
<1>3. OnTheirWay
  BY DEF HintsInit, OnTheirWay, OnItsWay, NotRewritten
<1>4. QED
  BY <1>1, <1>2, <1>3 DEF HintsInv

(* A step of one request that leaves the store as it is.                   *)
LEMMA HintsStepOfOne ==
  ASSUME HintsInv, UNCHANGED <<text, order>>, NEW r \in HintReq, NEW q \in Rewriting,
         rewriting' = [rewriting EXCEPT ![r] = q], OnItsWay(q, text)
  PROVE  HintsInv'
<1>1. HintsTypeOK'
  BY DEF HintsInv, HintsTypeOK
<1>2. StoreMatchesOrder'
  BY DEF HintsInv, StoreMatchesOrder
<1>3. ASSUME NEW p \in HintReq PROVE OnItsWay(rewriting'[p], text')
  <2>1. rewriting'[p] = IF p = r THEN q ELSE rewriting[p]
    BY DEF HintsInv, HintsTypeOK
  <2>2. OnItsWay(rewriting[p], text)
    BY DEF HintsInv, OnTheirWay
  <2>3. QED
    BY <2>1, <2>2
<1>4. QED
  BY <1>1, <1>2, <1>3 DEF HintsInv, OnTheirWay

LEMMA ArriveInv ==
  ASSUME HintsInv, NEW r \in HintReq, Arrive(r)
  PROVE  HintsInv'
<1>1. PICK h \in Histories :
        rewriting' = [rewriting EXCEPT ![r] =
          [NotRewritten EXCEPT !.at = "restoring", !.msgs = h, !.had = text]]
  BY DEF Arrive
<1> DEFINE q == [NotRewritten EXCEPT !.at = "restoring", !.msgs = h, !.had = text]
<1>2. q \in Rewriting
  <2>1. text \in [Key -> Hint \cup {None}] /\ 1 \in Nat \ {0} /\ <<>> \in Seq(Hint)
    BY DEF HintsInv, HintsTypeOK
  <2>2. [k \in Key |-> <<>>] \in [Key -> Seq(Hint)]
    BY <2>1
  <2>3. NotRewritten \in Rewriting
    BY <2>1, <2>2 DEF NotRewritten, Rewriting
  <2>4. QED
    BY <2>1, <2>3 DEF Rewriting
<1>3. OnItsWay(q, text)
  <2>1. /\ q.at = "restoring" /\ q.had = text /\ q.next = 1 /\ q.msgs = h
        /\ q.hints = [k \in Key |-> <<>>]
    BY DEF NotRewritten
  <2> HIDE DEF q
  <2>2. \A k \in Key : InStep(q, k, text[k])
    BY <2>1 DEF InStep
  <2>3. QED
    BY <2>1, <2>2 DEF OnItsWay
<1>4. QED
  BY <1>1, <1>2, <1>3, HintsStepOfOne DEF Arrive

LEMMA ReapplyInv ==
  ASSUME HintsInv, NEW r \in HintReq, Reapply(r)
  PROVE  HintsInv'
<1> DEFINE o == rewriting[r]
           m == o.msgs[o.next]
           hs == WithStored(o.hints, m)
           q == [o EXCEPT !.next = @ + 1, !.hints = hs]
<1>1. /\ o \in Rewriting /\ o.at = "restoring" /\ o.next <= Len(o.msgs)
      /\ OnItsWay(o, text) /\ \A k \in Key : text[k] \in Hint \cup {None}
  BY DEF HintsInv, HintsTypeOK, OnTheirWay, Reapply
<1>2. /\ o.next \in Nat \ {0} /\ o.hints \in [Key -> Seq(Hint)]
      /\ o.had \in [Key -> Hint \cup {None}] /\ o.gone \subseteq Key
  BY <1>1 DEF Rewriting
<1>3. o.msgs \in Seq(Key \cup {System, Plain})
  BY <1>1, HintsAssumption DEF Rewriting
<1>4. ASSUME NEW k \in Key, text[k] # None
      PROVE  AppendHintBlock(o.hints[k], text[k]) \in Seq(Hint)
  BY <1>1, <1>2, <1>4, AppendHint
<1>5. /\ hs \in [Key -> Seq(Hint)]
      /\ m \in Key /\ text[m] # None => hs[m] = AppendHintBlock(o.hints[m], text[m])
      /\ \A k \in Key : ~(k = m /\ text[k] # None) => hs[k] = o.hints[k]
  BY <1>2, <1>4 DEF WithStored
<1>10. rewriting' = [rewriting EXCEPT ![r] = q] /\ UNCHANGED <<text, order>>
  BY DEF Reapply
<1> HIDE DEF hs, m
<1>6. /\ q.at = "restoring" /\ q.next = o.next + 1 /\ q.msgs = o.msgs
      /\ q.had = o.had /\ q.gone = o.gone /\ q.hints = hs
  BY <1>1 DEF Rewriting
<1> HIDE DEF o
<1>7. q \in Rewriting
  <2>1. o.next + 1 \in Nat \ {0} /\ hs \in [Key -> Seq(Hint)]
    BY <1>2, <1>5
  <2>2. QED
    BY <1>1, <2>1 DEF Rewriting
<1> HIDE DEF q
<1>8. ASSUME NEW k \in Key \ q.gone PROVE InStep(q, k, text[k])
  <2>1. InStep(o, k, text[k]) /\ k \in Key
    BY <1>1, <1>6, <1>8 DEF OnItsWay
  <2>2. CASE k = m /\ text[k] # None
    <3>1. o.hints[k] = <<>> \/ o.hints[k] = <<text[k]>>
      BY <2>1 DEF InStep
    <3>2. AppendHintBlock(o.hints[k], text[k]) = <<text[k]>>
      <4>1. o.hints[k] \in Seq(Hint) /\ text[k] \in Hint
        BY <1>1, <1>2, <2>1, <2>2
      <4>2. QED
        BY <3>1, <4>1, AppendHint
    <3>3. q.hints[k] = <<text[k]>>
      BY <1>5, <1>6, <2>1, <2>2, <3>2
    <3>4. QED
      BY <1>6, <2>1, <2>2, <3>3 DEF InStep
  <2>3. CASE ~(k = m /\ text[k] # None)
    <3>1. q.hints[k] = o.hints[k]
      BY <1>5, <1>6, <2>1, <2>3
    <3>2. m = k => o.had[k] = None
      BY <2>1, <2>3 DEF InStep
    <3>3. \A i \in 1 .. Len(o.msgs) : i < q.next => i < o.next \/ i = o.next
      BY <1>2, <1>3, <1>6
    <3>4. \A i \in 1 .. Len(o.msgs) :
            i < q.next /\ o.msgs[i] = k /\ o.had[k] # None => i < o.next
      BY <3>2, <3>3 DEF m
    <3>5. QED
      BY <1>6, <2>1, <3>1, <3>4 DEF InStep
  <2>4. QED
    BY <2>2, <2>3
<1>9. OnItsWay(q, text)
  BY <1>6, <1>8 DEF OnItsWay
<1>11. QED
  BY <1>7, <1>9, <1>10, HintsStepOfOne

LEMMA RestoredInv ==
  ASSUME HintsInv, NEW r \in HintReq, Restored(r)
  PROVE  HintsInv'
<1> DEFINE o == rewriting[r]
           q == [o EXCEPT !.at = "deciding"]
<1>1. /\ o \in Rewriting /\ o.at = "restoring" /\ o.next > Len(o.msgs) /\ OnItsWay(o, text)
  BY DEF HintsInv, HintsTypeOK, OnTheirWay, Restored
<1>2. rewriting' = [rewriting EXCEPT ![r] = q] /\ UNCHANGED <<text, order>>
  BY DEF Restored
<1> HIDE DEF o
<1>3. /\ q \in Rewriting /\ q.at = "deciding" /\ q.next = o.next /\ q.msgs = o.msgs
      /\ q.had = o.had /\ q.gone = o.gone /\ q.hints = o.hints
  BY <1>1 DEF Rewriting
<1> HIDE DEF q
<1>4. OnItsWay(q, text)
  BY <1>1, <1>3 DEF OnItsWay, InStep
<1>5. QED
  BY <1>2, <1>3, <1>4, HintsStepOfOne

(* A request that is in step for a key when it has restored all messages   *)
(* carries it.                                                             *)
LEMMA InStepCarried ==
  ASSUME NEW q \in Rewriting, q.next > Len(q.msgs), NEW k \in Key, NEW now, InStep(q, k, now)
  PROVE  Carried(q, k)
<1>1. q.msgs \in Seq(Key \cup {System, Plain}) /\ q.next \in Nat
  <2>1. q.msgs \in Histories \cup {<<>>} /\ q.next \in Nat
    BY DEF Rewriting
  <2>2. <<>> \in Seq(Key \cup {System, Plain})
    OBVIOUS
  <2>3. QED
    BY <2>1, <2>2, HintsAssumption
<1>2. \A i \in 1 .. Len(q.msgs) : i < q.next
  BY <1>1
<1>3. k \in Range(q.msgs) => \E i \in 1 .. Len(q.msgs) : q.msgs[i] = k
  BY <1>1 DEF Range
<1>4. Len(<<>>) <= 1 /\ Len(<<now>>) <= 1
  OBVIOUS
<1>5. QED
  BY <1>2, <1>3, <1>4 DEF InStep, Carried

LEMMA SendInv ==
  ASSUME HintsInv, NEW r \in HintReq, SendWithoutHint(r)
  PROVE  HintsInv'
<1> DEFINE o == rewriting[r]
           q == [o EXCEPT !.at = "sent"]
<1>1. /\ o \in Rewriting /\ o.at = "deciding" /\ OnItsWay(o, text)
  BY DEF HintsInv, HintsTypeOK, OnTheirWay, SendWithoutHint
<1>2. rewriting' = [rewriting EXCEPT ![r] = q] /\ UNCHANGED <<text, order>>
  BY DEF SendWithoutHint
<1> HIDE DEF o
<1>3. /\ q \in Rewriting /\ q.at = "sent" /\ q.next = o.next /\ q.msgs = o.msgs
      /\ q.had = o.had /\ q.gone = o.gone /\ q.hints = o.hints
  BY <1>1 DEF Rewriting
<1> HIDE DEF q
<1>4. \A k \in Key \ o.gone : Carried(o, k)
  BY <1>1, InStepCarried DEF OnItsWay
<1>5. OnItsWay(q, text)
  BY <1>3, <1>4 DEF OnItsWay, Carried
<1>6. QED
  BY <1>2, <1>3, <1>5, HintsStepOfOne

(* A request that waits stays in step with a store that changed no text it *)
(* still relies on.                                                        *)
LEMMA StillInStep ==
  ASSUME NEW q, NEW k, NEW now, NEW later, InStep(q, k, now), now # None => later = now,
         q \in Rewriting, k \in Key
  PROVE  InStep(q, k, later)
<1>1. q.had[k] \in Hint \cup {None}
  BY DEF Rewriting
<1>2. q.had[k] # None => later = q.had[k]
  BY <1>1 DEF InStep
<1>3. q.hints[k] # <<>> => later # None /\ q.hints[k] = <<later>>
  BY DEF InStep
<1>4. QED
  BY <1>2, <1>3 DEF InStep

(* A request that attaches what remember returned carries one hint, the    *)
(* one it may already have had.                                            *)
LEMMA AttachedCarried ==
  ASSUME NEW q \in Rewriting, q.next > Len(q.msgs), NEW k \in Key, NEW t \in Hint,
         NEW now, InStep(q, k, now), now # None => t = now,
         NEW hints, hints = AppendHintBlock(q.hints[k], t)
  PROVE  /\ Len(hints) <= 1
         /\ q.had[k] # None => hints = <<q.had[k]>>
<1>1. q.hints[k] \in Seq(Hint)
  BY DEF Rewriting
<1>2. q.hints[k] = <<>> \/ q.hints[k] = <<t>>
  BY DEF InStep
<1>3. hints = <<t>>
  BY <1>1, <1>2, AppendHint
<1>4. Len(<<t>>) <= 1
  OBVIOUS
<1>5. q.had[k] # None => t = q.had[k]
  BY DEF InStep
<1>6. QED
  BY <1>3, <1>4, <1>5

LEMMA AdviseInv ==
  ASSUME HintsInv, NEW r \in HintReq, AdviseClaude(r)
  PROVE  HintsInv'
<1> USE HintsAssumption
<1> DEFINE o == rewriting[r]
           target == AdviseInsertTarget(o.msgs)
           list == IF target # None /\ text[target] = None THEN Append(order, target) ELSE order
           after(k, stored, out, t) ==
             /\ text' = [j \in Key |-> IF j \in out THEN None
                                       ELSE IF j = k THEN Remember(k, t) ELSE text[j]]
             /\ order' = IF out = {} THEN stored ELSE Tail(stored)
             /\ rewriting' = [p \in HintReq |->
                  IF p = r
                  THEN [rewriting[r] EXCEPT !.at = "sent", !.gone = @ \cup out,
                          !.hints[k] = AppendHintBlock(@, Remember(k, t))]
                  ELSE [rewriting[p] EXCEPT
                          !.gone = IF rewriting[p].at = "sent" THEN @ ELSE @ \cup out]]
<1>0. target # None /\ \E t \in Hint : after(target, list, Dropped(list), t)
  BY Zenon DEF AdviseClaude
<1>1. PICK k \in Key, stored \in Seq(Key), out \in SUBSET Key, t \in Hint :
        /\ stored = IF text[k] = None THEN Append(order, k) ELSE order
        /\ out = Dropped(stored)
        /\ after(k, stored, out, t)
  <2>1. PICK k \in Key : k = target
    BY <1>0, TargetIsKey
  <2>2. order \in Seq(Key) /\ list = IF text[k] = None THEN Append(order, k) ELSE order
    <3>1. order \in Seq(Key)
      BY DEF HintsInv, HintsTypeOK
    <3> HIDE DEF target
    <3>2. list = IF text[k] = None THEN Append(order, k) ELSE order
      BY <1>0, <2>1, Zenon
    <3>3. QED
      BY <3>1, <3>2
  <2> HIDE DEF list
  <2>3. PICK stored \in Seq(Key) : stored = list
    BY <2>2
  <2>4. Len(stored) > HintMax => stored # <<>> /\ Head(stored) \in Key
    OBVIOUS
  <2>5. PICK out \in SUBSET Key : out = Dropped(stored)
    BY <2>4 DEF Dropped
  <2> HIDE DEF target, after
  <2>6. PICK t \in Hint : after(k, stored, out, t)
    BY <1>0, <2>1, <2>3, <2>5
  <2>7. QED
    BY <2>2, <2>3, <2>5, <2>6
<1>4. /\ o \in Rewriting /\ o.at = "deciding" /\ o.next > Len(o.msgs) /\ OnItsWay(o, text)
      /\ o.hints \in [Key -> Seq(Hint)] /\ o.gone \subseteq Key
  BY DEF HintsInv, HintsTypeOK, OnTheirWay, AdviseClaude, OnItsWay, Rewriting
<1>6. rewriting \in [HintReq -> Rewriting]
  BY DEF HintsInv, HintsTypeOK
<1> HIDE DEF o
<1>7. order' \in Seq(Key) /\ StoreMatchesOrder'
  <2>1. HintsTypeOK /\ StoreMatchesOrder
    BY DEF HintsInv
  <2>2. \A j \in Key : text'[j] = IF j \in out THEN None
                                  ELSE IF j = k THEN Remember(k, t) ELSE text[j]
    BY <1>1
  <2>3. QED
    BY <1>1, <2>1, <2>2, RememberedOrder
<1>8. /\ Remember(k, t) \in Hint
      /\ text' \in [Key -> Hint \cup {None}]
      /\ \A j \in Key \ out : text[j] # None => text'[j] = text[j]
  <2>1. text \in [Key -> Hint \cup {None}]
    BY DEF HintsInv, HintsTypeOK
  <2>2. Remember(k, t) \in Hint
    BY <2>1 DEF Remember
  <2>3. text' \in [Key -> Hint \cup {None}]
    BY <1>1, <2>1, <2>2
  <2>4. \A j \in Key \ out : text[j] # None => text'[j] = text[j]
    BY <1>1 DEF Remember
  <2>5. QED
    BY <2>2, <2>3, <2>4
<1>9. text[k] # None => Remember(k, t) = text[k]
  BY DEF Remember
<1> DEFINE hs == [o.hints EXCEPT ![k] = AppendHintBlock(@, Remember(k, t))]
           q == [o EXCEPT !.at = "sent", !.gone = @ \cup out, !.hints = hs]
           w(p) == [rewriting[p] EXCEPT
                      !.gone = IF rewriting[p].at = "sent" THEN @ ELSE @ \cup out]
<1>10. rewriting' = [p \in HintReq |-> IF p = r THEN q ELSE w(p)]
  BY <1>1 DEF o
<1>11. hs \in [Key -> Seq(Hint)]
  <2>1. AppendHintBlock(o.hints[k], Remember(k, t)) \in Seq(Hint)
    BY <1>4, <1>8, AppendHint
  <2>2. QED
    BY <1>4, <2>1
<1>12. /\ hs[k] = AppendHintBlock(o.hints[k], Remember(k, t))
       /\ \A j \in Key : j # k => hs[j] = o.hints[j]
  BY <1>4
<1> HIDE DEF hs
<1>13. /\ q \in Rewriting /\ q.at = "sent" /\ q.msgs = o.msgs /\ q.had = o.had
       /\ q.gone = o.gone \cup out /\ q.hints = hs
  BY <1>4, <1>11 DEF Rewriting
<1> HIDE DEF q
<1>14. ASSUME NEW p \in HintReq
       PROVE  /\ w(p) \in Rewriting /\ w(p).at = rewriting[p].at /\ w(p).msgs = rewriting[p].msgs
              /\ w(p).had = rewriting[p].had /\ w(p).hints = rewriting[p].hints
              /\ w(p).next = rewriting[p].next
              /\ w(p).gone = IF rewriting[p].at = "sent" THEN rewriting[p].gone
                             ELSE rewriting[p].gone \cup out
  <2>1. rewriting[p] \in Rewriting
    BY <1>6
  <2>2. QED
    BY <2>1 DEF Rewriting
<1> HIDE DEF w
<1>15. HintsTypeOK'
  <2>1. \A p \in HintReq : (IF p = r THEN q ELSE w(p)) \in Rewriting
    BY <1>13, <1>14
  <2>2. rewriting' \in [HintReq -> Rewriting]
    BY <1>10, <2>1
  <2>3. QED
    BY <1>7, <1>8, <2>2 DEF HintsTypeOK
<1>16. OnItsWay(q, text')
  <2> SUFFICES ASSUME NEW j \in Key \ q.gone PROVE Carried(q, j)
    BY <1>13 DEF OnItsWay
  <2>1. InStep(o, j, text[j])
    BY <1>4, <1>13 DEF OnItsWay
  <2>2. CASE j = k
    <3>1. Len(hs[k]) <= 1 /\ (o.had[k] # None => hs[k] = <<o.had[k]>>)
      BY <1>4, <1>8, <1>9, <1>12, <2>1, <2>2, AttachedCarried
    <3>2. QED
      BY <1>13, <2>2, <3>1 DEF Carried
  <2>3. CASE j # k
    <3>1. Carried(o, j)
      BY <1>4, <2>1, InStepCarried
    <3>2. QED
      BY <1>12, <1>13, <2>3, <3>1 DEF Carried
  <2>4. QED
    BY <2>2, <2>3
<1>17. ASSUME NEW p \in HintReq, p # r PROVE OnItsWay(w(p), text')
  <2>1. OnItsWay(rewriting[p], text) /\ rewriting[p] \in Rewriting
    BY <1>6 DEF HintsInv, OnTheirWay
  <2>2. ASSUME NEW j \in Key \ w(p).gone, w(p).at \in {"restoring", "deciding"}
        PROVE  InStep(w(p), j, text'[j])
    <3>1. j \notin out /\ InStep(rewriting[p], j, text[j])
      BY <1>14, <2>1, <2>2 DEF OnItsWay
    <3>2. InStep(rewriting[p], j, text'[j])
      BY <1>8, <2>1, <3>1, StillInStep
    <3>3. QED
      BY <1>14, <3>2 DEF InStep
  <2>3. ASSUME NEW j \in Key \ w(p).gone, w(p).at = "sent"
        PROVE  Carried(w(p), j)
    <3>1. Carried(rewriting[p], j)
      BY <1>14, <2>1, <2>3 DEF OnItsWay
    <3>2. QED
      BY <1>14, <3>1 DEF Carried
  <2>4. w(p).at = "deciding" => w(p).next > Len(w(p).msgs)
    BY <1>14, <2>1 DEF OnItsWay
  <2>5. QED
    BY <2>2, <2>3, <2>4 DEF OnItsWay
<1>18. OnTheirWay'
  BY <1>10, <1>16, <1>17 DEF OnTheirWay
<1>19. QED
  BY <1>7, <1>15, <1>18 DEF HintsInv

LEMMA StepInv == HintsInv /\ [HintsNext]_hintVars => HintsInv'
<1> SUFFICES ASSUME HintsInv, [HintsNext]_hintVars PROVE HintsInv'
  OBVIOUS
<1>1. ASSUME NEW r \in HintReq,
             Arrive(r) \/ Reapply(r) \/ Restored(r) \/ SendWithoutHint(r) \/ AdviseClaude(r)
      PROVE  HintsInv'
  BY <1>1, ArriveInv, ReapplyInv, RestoredInv, SendInv, AdviseInv
<1>2. CASE UNCHANGED hintVars
  BY <1>2 DEF hintVars, HintsInv, HintsTypeOK, StoreMatchesOrder, OnTheirWay
<1>3. QED
  BY <1>1, <1>2 DEF HintsNext

-----------------------------------------------------------------------------
(* Theorems                                                                *)

(* The invariant, in all interleavings of restoring, asking and attaching. *)
THEOREM HintsInvariant == HintsSpec => []HintsInv
BY HintsInitInv, StepInv, PTL DEF HintsSpec

(* The hint store and the requests it serves are well typed, and the map   *)
(* and its FIFO name the same keys, each once, within the bound (remember  *)
(* of rewrite.go).                                                         *)
THEOREM StoreCorrect == HintsSpec => [](HintsTypeOK /\ StoreMatchesOrder)
<1>1. HintsInv => HintsTypeOK /\ StoreMatchesOrder
  BY DEF HintsInv
<1>2. QED
  BY <1>1, HintsInvariant, PTL

(* However long Jev takes and whatever retries and overlapping turns store *)
(* meanwhile, a request carries the hints the store had for it, unchanged, *)
(* unless the bound dropped them (hintStore of rewrite.go).                *)
THEOREM HintsAreStable == HintsSpec => []HintsStable
<1>1. HintsInv => HintsStable
  BY DEF HintsInv, OnTheirWay, OnItsWay, Carried, HintsStable
<1>2. QED
  BY <1>1, HintsInvariant, PTL

-----------------------------------------------------------------------------
(* The Jev client, for all sets of callers, questions, candidates and      *)
(* answers and every batch size.  The caches are shared by all calls, so   *)
(* the invariant says of each call only what the steps of the others leave *)
(* true: a decided candidate stays decided and an answer that was given    *)
(* stays given.                                                            *)

Out(q) == {i \in DOMAIN q.batches : q.batches[i].state = "out"}

(* A call reports no more attempts than requests it sent; those of its     *)
(* batches that are out still may be reported.                             *)
Reported(q) ==
  /\ q.hooks + Cardinality(Out(q)) <= q.posts
  /\ q.at \in {"idle", "asking", "looking"} => q.batches = <<>> /\ q.hooks = 0
  /\ q.at = "asking" => q.ask \in Asked

(* What batch b of a call holds was answered, and is cached when the call  *)
(* has stored it.                                                          *)
BatchOK(q, b, memo, told) ==
  /\ b.cands \cap q.knew = {}
  /\ b.state # "answered" => b.got = NoAnswers
  /\ \A c \in Cand : b.got[c] # None => <<c, b.got[c]>> \in told
  /\ \A c \in b.cands : b.got[c] # None =>
       /\ q.at = "storing" => c \in q.todo \/ memo[c] # None
       /\ q.at = "done" => memo[c] # None

CallOK(q, memo, told) ==
  /\ q \in Call
  /\ Reported(q)
  /\ \A c \in q.knew : memo[c] # None
  /\ q.uncached \cap q.knew = {}
  /\ \A i \in DOMAIN q.batches : BatchOK(q, q.batches[i], memo, told)
  /\ \A i, j \in DOMAIN q.batches : i # j => q.batches[i].cands \cap q.batches[j].cands = {}

Caches ==
  /\ askCache \in [Asked -> Score \cup {None}]
  /\ decided \in [Cand -> Score \cup {None}]
  /\ given \subseteq (Asked \cup Cand) \X Score
  /\ CachedIsGiven

JevInv ==
  /\ Caches
  /\ calling \in [Caller -> Call]
  /\ \A a \in Caller : CallOK(calling[a], decided, given)

-----------------------------------------------------------------------------
(* Calls                                                                   *)

LEMMA NoCallOK ==
  /\ NoCall \in Call
  /\ \A memo, told : CallOK(NoCall, memo, told)
<1>1. NoCall \in Call
  BY DEF NoCall, Call, NoAnswers
<1>2. /\ NoCall.at = "idle" /\ NoCall.batches = <<>> /\ NoCall.hooks = 0 /\ NoCall.posts = 0
      /\ NoCall.knew = {} /\ NoCall.uncached = {}
  BY DEF NoCall
<1>3. Out(NoCall) = {} /\ Cardinality({}) = 0
  BY <1>2, FS_EmptySet DEF Out
<1>4. Reported(NoCall)
  BY <1>2, <1>3 DEF Reported
<1>5. \A i \in DOMAIN NoCall.batches : FALSE
  BY <1>2
<1>6. QED
  BY <1>1, <1>2, <1>4, <1>5 DEF CallOK

(* What the caches gain meanwhile does not disturb a call.                 *)
LEMMA OtherCallOK ==
  ASSUME NEW q, NEW memo, NEW told, NEW later, NEW heard, CallOK(q, memo, told),
         told \subseteq heard, \A c \in Cand : memo[c] # None => later[c] # None
  PROVE  CallOK(q, later, heard)
<1>1. q.knew \subseteq Cand /\ \A i \in DOMAIN q.batches : q.batches[i].cands \subseteq Cand
  <2>1. q.knew \subseteq Cand /\ q.batches \in Seq(Batch)
    BY DEF CallOK, Call
  <2>2. \A i \in DOMAIN q.batches : q.batches[i] \in Batch
    BY <2>1
  <2>3. QED
    BY <2>1, <2>2 DEF Batch
<1>2. ASSUME NEW i \in DOMAIN q.batches
      PROVE  BatchOK(q, q.batches[i], later, heard)
  <2>1. BatchOK(q, q.batches[i], memo, told)
    BY DEF CallOK
  <2>2. QED
    BY <1>1, <2>1 DEF BatchOK
<1>3. \A c \in q.knew : later[c] # None
  BY <1>1 DEF CallOK
<1>4. QED
  BY <1>2, <1>3 DEF CallOK

(* A step of one call, with what it adds to the caches.                    *)
LEMMA JevStepOfOne ==
  ASSUME JevInv, NEW a \in Caller, NEW q, calling' = [calling EXCEPT ![a] = q],
         Caches', given \subseteq given',
         \A c \in Cand : decided[c] # None => decided'[c] # None,
         CallOK(q, decided', given')
  PROVE  JevInv'
<1>1. ASSUME NEW b \in Caller PROVE CallOK(calling'[b], decided', given')
  <2>1. calling'[b] = IF b = a THEN q ELSE calling[b]
    BY DEF JevInv
  <2>2. CallOK(calling[b], decided, given)
    BY DEF JevInv
  <2>3. CallOK(calling[b], decided', given')
    BY <2>2, OtherCallOK
  <2>4. QED
    BY <2>1, <2>3
<1>2. calling' \in [Caller -> Call]
  BY DEF JevInv, CallOK
<1>3. QED
  BY <1>1, <1>2 DEF JevInv

(* A step of one call that leaves the caches as they are.                  *)
LEMMA StepOfCall ==
  ASSUME JevInv, NEW a \in Caller, NEW q, calling' = [calling EXCEPT ![a] = q],
         UNCHANGED <<askCache, decided, given>>, CallOK(q, decided, given)
  PROVE  JevInv'
<1>1. Caches'
  BY DEF JevInv, Caches, CachedIsGiven
<1>2. QED
  BY <1>1, JevStepOfOne

LEMMA JevInitInv == JevInit => JevInv
<1> SUFFICES ASSUME JevInit PROVE JevInv
  OBVIOUS
<1>1. Caches
  BY DEF JevInit, Caches, CachedIsGiven, NoAnswers
<1>2. QED
  BY <1>1, NoCallOK DEF JevInit, JevInv

-----------------------------------------------------------------------------
(* One question set                                                        *)

LEMMA AskInv ==
  ASSUME JevInv, NEW a \in Caller, NEW q \in Asked, Ask(a, q)
  PROVE  JevInv'
<1> DEFINE c == IF askCache[q] # None
                THEN [NoCall EXCEPT !.at = "done", !.ask = q, !.result = "cached"]
                ELSE [NoCall EXCEPT !.at = "asking", !.ask = q]
<1>1. calling' = [calling EXCEPT ![a] = c] /\ UNCHANGED <<askCache, decided, given>>
  BY DEF Ask
<1>2. /\ c \in Call /\ c.at \in {"asking", "done"} /\ c.ask = q /\ c.batches = <<>>
      /\ c.hooks = 0 /\ c.posts = 0 /\ c.knew = {} /\ c.uncached = {}
  <2>1. NoCall \in Call
    BY NoCallOK
  <2>2. c \in Call
    BY <2>1 DEF Call
  <2>3. QED
    BY <2>2 DEF NoCall
<1> HIDE DEF c
<1>3. CallOK(c, decided, given)
  <2>1. Out(c) = {} /\ Cardinality({}) = 0
    BY <1>2, FS_EmptySet DEF Out
  <2>2. Reported(c)
    BY <1>2, <2>1 DEF Reported
  <2>3. QED
    BY <1>2, <2>2 DEF CallOK
<1>4. QED
  BY <1>1, <1>3, StepOfCall

(* A call that is asking has no batches; it may go on with one request and *)
(* one report of it.                                                       *)
LEMMA AskingOK ==
  ASSUME NEW o, NEW memo, NEW told, CallOK(o, memo, told), o.at = "asking",
         NEW q \in Call, q.at \in {"asking", "done"}, q.ask = o.ask, q.batches = o.batches,
         q.knew = o.knew, q.uncached = o.uncached, q.hooks <= q.posts,
         q.at = "asking" => q.hooks = 0
  PROVE  CallOK(q, memo, told)
<1>1. o.batches = <<>> /\ o.ask \in Asked
  BY DEF CallOK, Reported
<1>2. Out(q) = {} /\ Cardinality({}) = 0
  BY <1>1, FS_EmptySet DEF Out
<1>3. q.hooks + 0 <= q.posts
  BY DEF Call
<1>4. Reported(q)
  BY <1>1, <1>2, <1>3 DEF Reported
<1>5. QED
  BY <1>1, <1>4 DEF CallOK

LEMMA AskStepInv ==
  ASSUME JevInv, NEW a \in Caller, OverBudget(a) \/ Post(a) \/ AskFails(a)
  PROVE  JevInv'
<1> DEFINE o == calling[a]
<1>1. CallOK(o, decided, given) /\ o \in Call
  BY DEF JevInv, CallOK
<1>2. o.at = "asking" /\ UNCHANGED <<askCache, decided, given>>
  BY DEF OverBudget, Post, AskFails
<1>3. o.hooks = 0 /\ o.posts \in Nat
  BY <1>1, <1>2 DEF CallOK, Reported, Call
<1>4. CASE OverBudget(a)
  <2> DEFINE q == [o EXCEPT !.at = "done", !.result = "error"]
  <2>1. calling' = [calling EXCEPT ![a] = q]
    BY <1>4 DEF OverBudget
  <2> HIDE DEF o
  <2>2. /\ q \in Call /\ q.at = "done" /\ q.ask = o.ask /\ q.batches = o.batches
        /\ q.knew = o.knew /\ q.uncached = o.uncached /\ q.hooks = 0 /\ q.posts = o.posts
    <3>1. q \in Call
      BY <1>1 DEF Call
    <3>2. QED
      BY <1>1, <1>3, <3>1 DEF Call
  <2> HIDE DEF q
  <2>3. CallOK(q, decided, given)
    BY <1>1, <1>2, <1>3, <2>2, AskingOK DEF o
  <2>4. QED
    BY <1>2, <2>1, <2>3, StepOfCall
<1>5. CASE Post(a)
  <2> DEFINE q == [o EXCEPT !.posts = 1]
  <2>1. calling' = [calling EXCEPT ![a] = q]
    BY <1>5 DEF Post
  <2> HIDE DEF o
  <2>2. /\ q \in Call /\ q.at = o.at /\ q.ask = o.ask /\ q.batches = o.batches
        /\ q.knew = o.knew /\ q.uncached = o.uncached /\ q.hooks = 0 /\ q.posts = 1
    BY <1>1, <1>3 DEF Call
  <2> HIDE DEF q
  <2>3. CallOK(q, decided, given)
    BY <1>1, <1>2, <2>2, AskingOK DEF o
  <2>4. QED
    BY <1>2, <2>1, <2>3, StepOfCall
<1>6. CASE AskFails(a)
  <2> DEFINE q == [o EXCEPT !.at = "done", !.result = "error", !.hooks = @ + 1]
  <2>1. calling' = [calling EXCEPT ![a] = q] /\ o.posts = 1
    BY <1>6 DEF AskFails
  <2> HIDE DEF o
  <2>2. /\ q \in Call /\ q.at = "done" /\ q.ask = o.ask /\ q.batches = o.batches
        /\ q.knew = o.knew /\ q.uncached = o.uncached /\ q.hooks = 1 /\ q.posts = 1
    <3>1. o.hooks + 1 \in Nat
      BY <1>3
    <3>2. q \in Call
      BY <1>1, <3>1 DEF Call
    <3>3. QED
      BY <1>1, <1>3, <2>1, <3>2 DEF Call
  <2> HIDE DEF q
  <2>3. CallOK(q, decided, given)
    BY <1>1, <1>2, <2>2, AskingOK DEF o
  <2>4. QED
    BY <1>2, <2>1, <2>3, StepOfCall
<1>7. QED
  BY <1>4, <1>5, <1>6

LEMMA AskAnsweredInv ==
  ASSUME JevInv, NEW a \in Caller, AskAnswered(a)
  PROVE  JevInv'
<1> DEFINE o == calling[a]
           q == [o EXCEPT !.at = "done", !.result = "answer", !.hooks = @ + 1]
<1>1. /\ CallOK(o, decided, given) /\ o \in Call /\ o.at = "asking" /\ o.posts = 1
  BY DEF JevInv, CallOK, AskAnswered
<1>2. o.hooks = 0 /\ o.ask \in Asked
  BY <1>1 DEF CallOK, Reported
<1>3. PICK s \in Score \cup {None} :
        /\ given' = IF s # None THEN given \cup {<<o.ask, s>>} ELSE given
        /\ askCache' = [askCache EXCEPT ![o.ask] = Kept(o.ask, s)]
  BY DEF AskAnswered
<1>4. calling' = [calling EXCEPT ![a] = q] /\ decided' = decided
  BY DEF AskAnswered
<1> HIDE DEF o
<1>5. /\ q \in Call /\ q.at = "done" /\ q.ask = o.ask /\ q.batches = o.batches
      /\ q.knew = o.knew /\ q.uncached = o.uncached /\ q.hooks = 1 /\ q.posts = 1
  <2>1. o.hooks + 1 \in Nat
    BY <1>2
  <2>2. q \in Call
    BY <1>1, <2>1 DEF Call
  <2>3. QED
    BY <1>1, <1>2, <2>2 DEF Call
<1> HIDE DEF q
<1>6. Caches' /\ given \subseteq given'
  <2>1. Caches
    BY DEF JevInv
  <2>2. given \subseteq given' /\ given' \subseteq (Asked \cup Cand) \X Score
    BY <1>2, <1>3, <2>1 DEF Caches
  <2>3. /\ askCache' \in [Asked -> Score \cup {None}]
        /\ \A p \in Asked : askCache'[p] = IF p = o.ask THEN Kept(o.ask, s) ELSE askCache[p]
    BY <1>2, <1>3, <2>1 DEF Caches, Kept
  <2>4. \A p \in Asked : askCache'[p] # None => <<p, askCache'[p]>> \in given'
    BY <1>2, <1>3, <2>1, <2>2, <2>3 DEF Caches, CachedIsGiven, Kept
  <2>5. QED
    BY <1>4, <2>1, <2>2, <2>3, <2>4 DEF Caches, CachedIsGiven
<1>7. CallOK(q, decided, given)
  BY <1>1, <1>5, AskingOK
<1>8. CallOK(q, decided', given')
  BY <1>4, <1>6, <1>7, OtherCallOK
<1>9. QED
  BY <1>4, <1>6, <1>8, JevStepOfOne

-----------------------------------------------------------------------------
(* The candidates of a compaction                                          *)

LEMMA AskCompactInv ==
  ASSUME JevInv, NEW a \in Caller, NEW h \in Compacted, AskCompact(a, h)
  PROVE  JevInv'
<1> DEFINE q == [NoCall EXCEPT !.at = "looking", !.todo = h, !.knew = Decided]
<1>1. calling' = [calling EXCEPT ![a] = q] /\ UNCHANGED <<askCache, decided, given>>
  BY DEF AskCompact
<1>2. /\ q \in Call /\ q.at = "looking" /\ q.batches = <<>> /\ q.hooks = 0 /\ q.posts = 0
      /\ q.knew = Decided /\ q.uncached = {}
  <2>1. NoCall \in Call /\ h \subseteq Cand /\ Decided \subseteq Cand
    BY NoCallOK, JevClientAssumption DEF Decided
  <2>2. q \in Call
    BY <2>1 DEF Call
  <2>3. QED
    BY <2>2 DEF NoCall
<1> HIDE DEF q
<1>3. CallOK(q, decided, given)
  <2>1. Out(q) = {} /\ Cardinality({}) = 0
    BY <1>2, FS_EmptySet DEF Out
  <2>2. Reported(q)
    BY <1>2, <2>1 DEF Reported
  <2>3. \A c \in q.knew : decided[c] # None
    BY <1>2 DEF Decided
  <2>4. QED
    BY <1>2, <2>2, <2>3 DEF CallOK
<1>4. QED
  BY <1>1, <1>3, StepOfCall

(* A call that keeps its batches as they are.                              *)
LEMMA SameBatches ==
  ASSUME NEW o, NEW memo, NEW told, CallOK(o, memo, told), o.at # "asking", NEW q \in Call,
         q.batches = o.batches, q.hooks = o.hooks, q.posts = o.posts, q.knew = o.knew,
         q.uncached \cap q.knew = {},
         q.at = o.at \/ q.at \in {"storing", "done"},
         \A i \in DOMAIN o.batches : \A c \in o.batches[i].cands : o.batches[i].got[c] # None =>
           /\ q.at = "storing" => c \in q.todo \/ memo[c] # None
           /\ q.at = "done" => memo[c] # None
  PROVE  CallOK(q, memo, told)
<1>1. Out(q) = Out(o)
  BY DEF Out
<1>2. Reported(q)
  BY <1>1 DEF CallOK, Reported
<1>3. ASSUME NEW i \in DOMAIN o.batches
      PROVE  BatchOK(q, o.batches[i], memo, told)
  <2>1. BatchOK(o, o.batches[i], memo, told)
    BY DEF CallOK
  <2>2. QED
    BY <2>1 DEF BatchOK
<1>4. QED
  BY <1>2, <1>3 DEF CallOK

LEMMA LookUpInv ==
  ASSUME JevInv, NEW a \in Caller, LookUp(a)
  PROVE  JevInv'
<1> DEFINE o == calling[a]
<1>1. PICK c \in Cand : calling' = [calling EXCEPT ![a].todo = @ \ {c},
            ![a].uncached = IF decided[c] = None THEN @ \cup {c} ELSE @,
            ![a].answers[c] = decided[c]]
  BY Zenon DEF LookUp
<1>2. /\ CallOK(o, decided, given) /\ o \in Call /\ o.at = "looking"
      /\ UNCHANGED <<askCache, decided, given>>
  BY DEF JevInv, CallOK, LookUp
<1>3. decided \in [Cand -> Score \cup {None}]
  BY DEF JevInv, Caches
<1> DEFINE scores == [o.answers EXCEPT ![c] = decided[c]]
           left == IF decided[c] = None THEN o.uncached \cup {c} ELSE o.uncached
           q == [o EXCEPT !.todo = @ \ {c}, !.uncached = left, !.answers = scores]
<1>4. calling' = [calling EXCEPT ![a] = q]
  BY <1>1
<1> HIDE DEF o
<1>5. /\ scores \in [Cand -> Score \cup {None}] /\ left \subseteq Cand
      /\ left \cap o.knew = {}
  BY <1>2, <1>3 DEF Call, CallOK
<1> HIDE DEF scores, left
<1>6. q \in Call
  BY <1>2, <1>5 DEF Call
<1>7. /\ q.at = o.at /\ q.batches = o.batches /\ q.hooks = o.hooks /\ q.posts = o.posts
      /\ q.knew = o.knew /\ q.uncached = left
  BY <1>2 DEF Call
<1> HIDE DEF q
<1>8. CallOK(q, decided, given)
  BY <1>2, <1>5, <1>6, <1>7, SameBatches
<1>9. QED
  BY <1>2, <1>4, <1>8, StepOfCall

LEMMA AllCachedInv ==
  ASSUME JevInv, NEW a \in Caller, AllCached(a)
  PROVE  JevInv'
<1> DEFINE o == calling[a]
           q == [o EXCEPT !.at = "done", !.result = "live"]
<1>1. /\ CallOK(o, decided, given) /\ o \in Call /\ o.at = "looking"
      /\ calling' = [calling EXCEPT ![a] = q] /\ UNCHANGED <<askCache, decided, given>>
  BY DEF JevInv, CallOK, AllCached
<1> HIDE DEF o
<1>2. q \in Call
  BY <1>1 DEF Call
<1>3. /\ q.at = "done" /\ q.batches = o.batches /\ q.hooks = o.hooks /\ q.posts = o.posts
      /\ q.knew = o.knew /\ q.uncached = o.uncached
  BY <1>1 DEF Call
<1> HIDE DEF q
<1>4. o.batches = <<>> /\ o.uncached \cap o.knew = {}
  BY <1>1 DEF CallOK, Reported
<1>5. \A i \in DOMAIN o.batches : FALSE
  BY <1>4
<1>6. CallOK(q, decided, given)
  BY <1>1, <1>2, <1>3, <1>4, <1>5, SameBatches
<1>7. QED
  BY <1>1, <1>6, StepOfCall

LEMMA JoinInv ==
  ASSUME JevInv, NEW a \in Caller, Join(a)
  PROVE  JevInv'
<1> DEFINE o == calling[a]
           q == [o EXCEPT !.at = "storing", !.todo = ToStore(o)]
<1>1. /\ CallOK(o, decided, given) /\ o \in Call /\ o.at = "joining"
      /\ calling' = [calling EXCEPT ![a] = q] /\ UNCHANGED <<askCache, decided, given>>
  BY DEF JevInv, CallOK, Join
<1> HIDE DEF o
<1>2. ToStore(o) \subseteq Cand
  <2>1. o.batches \in Seq(Batch)
    BY <1>1 DEF Call
  <2>2. \A i \in DOMAIN o.batches : o.batches[i] \in Batch
    BY <2>1
  <2>3. \A i \in DOMAIN o.batches : o.batches[i].cands \subseteq Cand
    BY <2>2 DEF Batch
  <2>4. QED
    BY <2>3 DEF ToStore, Answered
<1>3. q \in Call
  BY <1>1, <1>2 DEF Call
<1>4. /\ q.at = "storing" /\ q.batches = o.batches /\ q.hooks = o.hooks /\ q.posts = o.posts
      /\ q.knew = o.knew /\ q.uncached = o.uncached /\ q.todo = ToStore(o)
  BY <1>1 DEF Call
<1> HIDE DEF q
<1>5. ASSUME NEW i \in DOMAIN o.batches, NEW c \in o.batches[i].cands,
             o.batches[i].got[c] # None
      PROVE  c \in q.todo
  <2>1. c \in Cand /\ BatchOK(o, o.batches[i], decided, given)
    <3>1. o.batches \in Seq(Batch)
      BY <1>1 DEF Call
    <3>2. o.batches[i] \in Batch
      BY <3>1
    <3>3. QED
      BY <1>1, <3>2 DEF CallOK, Batch
  <2>2. o.batches[i].state = "answered"
    BY <1>5, <2>1 DEF BatchOK, NoAnswers
  <2>3. QED
    BY <1>4, <2>2 DEF ToStore, Answered
<1>6. o.uncached \cap o.knew = {}
  BY <1>1 DEF CallOK
<1>7. CallOK(q, decided, given)
  BY <1>1, <1>3, <1>4, <1>5, <1>6, SameBatches
<1>8. QED
  BY <1>1, <1>7, StepOfCall

LEMMA FinishInv ==
  ASSUME JevInv, NEW a \in Caller, Finish(a)
  PROVE  JevInv'
<1> DEFINE o == calling[a]
           r == IF Answered(o) = DOMAIN o.batches THEN "live" ELSE "local"
           q == [o EXCEPT !.at = "done", !.result = r]
<1>1. /\ CallOK(o, decided, given) /\ o \in Call /\ o.at = "storing" /\ o.todo = {}
      /\ calling' = [calling EXCEPT ![a] = q] /\ UNCHANGED <<askCache, decided, given>>
  BY DEF JevInv, CallOK, Finish
<1> HIDE DEF o
<1>2. r \in {None, "answer", "cached", "error", "live", "local"}
  OBVIOUS
<1> HIDE DEF r
<1>3. q \in Call
  BY <1>1, <1>2 DEF Call
<1>4. /\ q.at = "done" /\ q.batches = o.batches /\ q.hooks = o.hooks /\ q.posts = o.posts
      /\ q.knew = o.knew /\ q.uncached = o.uncached
  BY <1>1 DEF Call
<1> HIDE DEF q
<1>5. ASSUME NEW i \in DOMAIN o.batches, NEW c \in o.batches[i].cands,
             o.batches[i].got[c] # None
      PROVE  decided[c] # None
  <2>1. BatchOK(o, o.batches[i], decided, given)
    BY <1>1 DEF CallOK
  <2>2. QED
    BY <1>1, <1>5, <2>1 DEF BatchOK
<1>6. o.uncached \cap o.knew = {}
  BY <1>1 DEF CallOK
<1>7. CallOK(q, decided, given)
  BY <1>1, <1>3, <1>4, <1>5, <1>6, SameBatches
<1>8. QED
  BY <1>1, <1>7, StepOfCall

LEMMA StoreInv ==
  ASSUME JevInv, NEW a \in Caller, Store(a)
  PROVE  JevInv'
<1> DEFINE o == calling[a]
<1>1. PICK c \in Cand, i \in Answered(o) :
        /\ c \in o.batches[i].cands
        /\ decided' = [decided EXCEPT ![c] = Stored(c, o.batches[i].got[c])]
        /\ calling' = [calling EXCEPT ![a].todo = @ \ {c},
                                      ![a].answers[c] = o.batches[i].got[c]]
  BY Zenon DEF Store
<1>2. /\ CallOK(o, decided, given) /\ o \in Call /\ o.at = "storing"
      /\ UNCHANGED <<askCache, given>>
  BY DEF JevInv, CallOK, Store
<1> DEFINE s == o.batches[i].got[c]
           scores == [o.answers EXCEPT ![c] = s]
           q == [o EXCEPT !.todo = @ \ {c}, !.answers = scores]
<1>3. calling' = [calling EXCEPT ![a] = q]
  BY <1>1
<1> HIDE DEF o
<1>4. /\ i \in DOMAIN o.batches /\ s \in Score \cup {None}
      /\ BatchOK(o, o.batches[i], decided, given)
  <2>1. o.batches \in Seq(Batch) /\ i \in DOMAIN o.batches
    BY <1>2 DEF Call, Answered
  <2>2. o.batches[i] \in Batch
    BY <2>1
  <2>3. QED
    BY <1>2, <2>1, <2>2 DEF CallOK, Batch
<1>5. s # None => <<c, s>> \in given
  BY <1>4 DEF BatchOK
<1>6. decided' = [decided EXCEPT ![c] = Stored(c, s)]
  BY <1>1
<1> HIDE DEF s
<1>7. /\ \A d \in Cand : decided[d] # None => decided'[d] # None
      /\ s # None => decided'[c] # None
      /\ Caches'
  <2>1. Caches
    BY DEF JevInv
  <2>2. /\ decided' \in [Cand -> Score \cup {None}]
        /\ \A d \in Cand : decided'[d] = IF d # c \/ s = None THEN decided[d] ELSE s
    BY <1>4, <1>6, <2>1 DEF Caches, Stored
  <2>3. s # None => decided'[c] # None
    BY <1>4, <2>2
  <2>4. \A d \in Cand : decided[d] # None => decided'[d] # None
    BY <1>4, <2>2
  <2>5. \A d \in Cand : decided'[d] # None => <<d, decided'[d]>> \in given'
    BY <1>2, <1>5, <2>1, <2>2 DEF Caches, CachedIsGiven
  <2>6. QED
    BY <1>2, <2>1, <2>2, <2>3, <2>4, <2>5 DEF Caches, CachedIsGiven
<1>8. CallOK(o, decided', given)
  BY <1>2, <1>7, OtherCallOK
<1>9. scores \in [Cand -> Score \cup {None}]
  BY <1>2, <1>4 DEF Call
<1> HIDE DEF scores
<1>10. q \in Call
  BY <1>2, <1>9 DEF Call
<1>11. /\ q.at = "storing" /\ q.batches = o.batches /\ q.hooks = o.hooks /\ q.posts = o.posts
       /\ q.knew = o.knew /\ q.uncached = o.uncached /\ q.todo = o.todo \ {c}
  BY <1>2 DEF Call
<1> HIDE DEF q
<1>12. ASSUME NEW j \in DOMAIN o.batches, NEW d \in o.batches[j].cands,
              o.batches[j].got[d] # None
       PROVE  d \in q.todo \/ decided'[d] # None
  <2>1. d \in o.todo \/ decided'[d] # None
    <3>1. BatchOK(o, o.batches[j], decided', given)
      BY <1>8 DEF CallOK
    <3>2. QED
      BY <1>2, <1>12, <3>1 DEF BatchOK
  <2>2. CASE d = c
    <3>1. j = i
      BY <1>1, <1>2, <1>4, <2>2 DEF CallOK
    <3>2. QED
      BY <1>7, <1>12, <2>2, <3>1 DEF s
  <2>3. CASE d # c
    BY <1>11, <2>1, <2>3
  <2>4. QED
    BY <2>2, <2>3
<1>13. o.uncached \cap o.knew = {}
  BY <1>2 DEF CallOK
<1>14. CallOK(q, decided', given)
  BY <1>2, <1>8, <1>10, <1>11, <1>12, <1>13, SameBatches
<1>15. QED
  BY <1>2, <1>3, <1>7, <1>14, JevStepOfOne

-----------------------------------------------------------------------------
(* The batches                                                             *)

LEMMA OutFinite ==
  ASSUME NEW q \in Call
  PROVE  IsFiniteSet(Out(q)) /\ Cardinality(Out(q)) \in Nat
<1>1. q.batches \in Seq(Batch)
  BY DEF Call
<1>2. Len(q.batches) \in Nat /\ DOMAIN q.batches = 1 .. Len(q.batches)
  BY <1>1
<1>3. Out(q) \in SUBSET (1 .. Len(q.batches))
  BY <1>2 DEF Out
<1>4. IsFiniteSet(1 .. Len(q.batches))
  BY <1>2, FS_Interval
<1>5. IsFiniteSet(Out(q))
  BY <1>3, <1>4, FS_Subset
<1>6. QED
  BY <1>5, FS_CardinalityType

(* The candidates are dealt out to the batches, each to one.               *)
LEMMA Dealt ==
  ASSUME NEW cands \in SUBSET Cand
  PROVE  /\ \E n \in Nat : DOMAIN BatchesOf(cands) = 1 .. n
         /\ \A i \in DOMAIN BatchesOf(cands) : BatchesOf(cands)[i] \subseteq cands
         /\ \A i, j \in DOMAIN BatchesOf(cands) :
              i # j => BatchesOf(cands)[i] \cap BatchesOf(cands)[j] = {}
<1> DEFINE before(c) == Cardinality({d \in cands : d < c})
           n == (Cardinality(cands) + BatchSize - 1) \div BatchSize
<1>1. IsFiniteSet(cands)
  BY JevClientAssumption, FS_Subset
<1>2. n \in Nat
  <2>1. Cardinality(cands) \in Nat /\ BatchSize \in Nat \ {0}
    BY <1>1, FS_CardinalityType, JevClientAssumption
  <2>2. Cardinality(cands) + BatchSize - 1 \in Nat
    BY <2>1
  <2>3. \A x \in Nat, y \in Nat \ {0} : x \div y \in Nat
    OBVIOUS
  <2>4. QED
    BY <2>1, <2>2, <2>3
<1> HIDE DEF n
<1>3. BatchesOf(cands) = [i \in 1 .. n |-> {c \in cands : before(c) \div BatchSize = i - 1}]
  BY DEF BatchesOf, n
<1> HIDE DEF before
<1>4. DOMAIN BatchesOf(cands) = 1 .. n
  BY <1>3
<1>5. \A i \in 1 .. n : BatchesOf(cands)[i] = {c \in cands : before(c) \div BatchSize = i - 1}
  BY <1>3
<1>6. \A i, j \in 1 .. n : i - 1 = j - 1 => i = j
  BY <1>2
<1>7. \A i, j \in 1 .. n : i # j => BatchesOf(cands)[i] \cap BatchesOf(cands)[j] = {}
  BY <1>5, <1>6
<1>8. QED
  BY <1>2, <1>4, <1>5, <1>7

LEMMA SendBatchesInv ==
  ASSUME JevInv, NEW a \in Caller, SendBatches(a)
  PROVE  JevInv'
<1> DEFINE o == calling[a]
           parts == BatchesOf(o.uncached)
           batch(i, left) ==
             [cands |-> parts[i], state |-> IF i \in left THEN "failed" ELSE "out", got |-> NoAnswers]
<1>1. /\ CallOK(o, decided, given) /\ o \in Call /\ o.at = "looking"
      /\ UNCHANGED <<askCache, decided, given>>
  BY DEF JevInv, CallOK, SendBatches
<1>2. PICK left \in SUBSET DOMAIN parts :
        calling' = [calling EXCEPT ![a].at = "joining",
                      ![a].posts = Cardinality(DOMAIN parts \ left),
                      ![a].batches = [i \in DOMAIN parts |-> batch(i, left)]]
  BY Zenon DEF SendBatches
<1> DEFINE list == [i \in DOMAIN parts |-> batch(i, left)]
           went == Cardinality(DOMAIN parts \ left)
           q == [o EXCEPT !.at = "joining", !.posts = went, !.batches = list]
<1>3. calling' = [calling EXCEPT ![a] = q]
  BY <1>2
<1> HIDE DEF o
<1>4. o.uncached \subseteq Cand /\ o.uncached \cap o.knew = {} /\ o.knew \subseteq Cand
  BY <1>1 DEF CallOK, Call
<1> HIDE DEF parts
<1>5. PICK n \in Nat : DOMAIN parts = 1 .. n
  BY <1>4, Dealt DEF parts
<1>6. /\ \A i \in 1 .. n : parts[i] \subseteq o.uncached
      /\ \A i, j \in 1 .. n : i # j => parts[i] \cap parts[j] = {}
  BY <1>4, <1>5, Dealt DEF parts
<1>7. \A i \in 1 .. n : batch(i, left) \in Batch
  <2>1. NoAnswers \in [Cand -> Score \cup {None}]
    BY DEF NoAnswers
  <2>2. QED
    BY <1>4, <1>6, <2>1 DEF Batch
<1>8. /\ list \in Seq(Batch) /\ DOMAIN list = 1 .. n
      /\ \A i \in 1 .. n : /\ list[i].cands = parts[i] /\ list[i].got = NoAnswers
                           /\ list[i].state = IF i \in left THEN "failed" ELSE "out"
  <2>1. list = [i \in 1 .. n |-> batch(i, left)]
    BY <1>5
  <2>2. DOMAIN list = 1 .. n /\ \A i \in 1 .. n : list[i] = batch(i, left)
    BY <2>1
  <2> HIDE DEF batch, list
  <2>3. list \in Seq(Batch)
    BY <1>7, <2>1
  <2>4. QED
    BY <2>2, <2>3 DEF batch
<1> HIDE DEF list, batch
<1>9. went \in Nat
  <2>1. IsFiniteSet(1 .. n) /\ DOMAIN parts \ left \in SUBSET (1 .. n)
    BY <1>5, FS_Interval
  <2>2. IsFiniteSet(DOMAIN parts \ left)
    BY <2>1, FS_Subset
  <2>3. QED
    BY <2>2, FS_CardinalityType
<1>10. q \in Call
  <2> HIDE DEF went
  <2>1. QED
    BY <1>1, <1>8, <1>9 DEF Call
<1>11. /\ q.at = "joining" /\ q.batches = list /\ q.hooks = o.hooks /\ q.posts = went
       /\ q.knew = o.knew /\ q.uncached = o.uncached
  BY <1>1 DEF Call
<1> HIDE DEF q
<1>12. CallOK(q, decided, given)
  <2>1. Out(q) = DOMAIN parts \ left
    BY <1>5, <1>8, <1>11 DEF Out
  <2>2. o.hooks = 0
    BY <1>1 DEF CallOK, Reported
  <2>3. Reported(q)
    <3>1. q.hooks = 0 /\ q.posts = went /\ Cardinality(Out(q)) = went
      BY <1>11, <2>1, <2>2
    <3> HIDE DEF went
    <3>2. 0 + went <= went
      BY <1>9
    <3>3. QED
      BY <1>11, <3>1, <3>2 DEF Reported
  <2>4. ASSUME NEW i \in DOMAIN list PROVE BatchOK(q, list[i], decided, given)
    <3>1. list[i].cands \cap q.knew = {}
      BY <1>4, <1>6, <1>8, <1>11
    <3>2. \A c \in Cand : list[i].got[c] = None
      BY <1>8 DEF NoAnswers
    <3>3. list[i].cands \subseteq Cand
      BY <1>4, <1>6, <1>8
    <3>4. QED
      BY <1>8, <3>1, <3>2, <3>3 DEF BatchOK
  <2>5. \A i, j \in DOMAIN list : i # j => list[i].cands \cap list[j].cands = {}
    BY <1>6, <1>8
  <2>6. QED
    BY <1>1, <1>10, <1>11, <2>3, <2>4, <2>5 DEF CallOK
<1>13. QED
  BY <1>1, <1>3, <1>12, StepOfCall

(* One batch comes back.                                                   *)
LEMMA BatchBack ==
  ASSUME NEW o, NEW memo, NEW told, CallOK(o, memo, told), o.at = "joining",
         NEW i \in DOMAIN o.batches, o.batches[i].state = "out",
         NEW b \in Batch, b.cands = o.batches[i].cands, b.state # "out",
         b.state # "answered" => b.got = NoAnswers,
         \A c \in Cand : b.got[c] # None => <<c, b.got[c]>> \in told,
         NEW q, q = [o EXCEPT !.batches = [o.batches EXCEPT ![i] = b], !.hooks = o.hooks + 1]
  PROVE  CallOK(q, memo, told)
<1>1. o \in Call
  BY DEF CallOK
<1>2. o.batches \in Seq(Batch) /\ o.hooks \in Nat /\ o.posts \in Nat
  BY <1>1 DEF Call
<1> DEFINE list == [o.batches EXCEPT ![i] = b]
<1>3. /\ list \in Seq(Batch) /\ DOMAIN list = DOMAIN o.batches
      /\ \A j \in DOMAIN list : list[j] = IF j = i THEN b ELSE o.batches[j]
  BY <1>2
<1> HIDE DEF list
<1>4. q \in Call
  <2>1. o.hooks + 1 \in Nat /\ list \in Seq(Batch)
    BY <1>2, <1>3
  <2>2. q = [o EXCEPT !.batches = list, !.hooks = o.hooks + 1]
    BY DEF list
  <2>3. QED
    BY <1>1, <2>1, <2>2 DEF Call
<1>5. /\ q.at = "joining" /\ q.batches = list /\ q.hooks = o.hooks + 1 /\ q.posts = o.posts
      /\ q.knew = o.knew /\ q.uncached = o.uncached
  BY <1>1 DEF Call, list
<1>6. Reported(q)
  <2>1. Out(q) = Out(o) \ {i} /\ i \in Out(o)
    BY <1>3, <1>5 DEF Out
  <2>2. IsFiniteSet(Out(o)) /\ Cardinality(Out(o)) \in Nat
    BY <1>1, OutFinite
  <2>3. Cardinality(Out(q)) = Cardinality(Out(o)) - 1
    BY <2>1, <2>2, FS_RemoveElement
  <2>4. o.hooks + Cardinality(Out(o)) <= o.posts
    BY DEF CallOK, Reported
  <2>5. q.hooks + Cardinality(Out(q)) <= q.posts
    BY <1>2, <1>5, <2>2, <2>3, <2>4
  <2>6. QED
    BY <1>5, <2>5 DEF Reported
<1>7. ASSUME NEW j \in DOMAIN list PROVE BatchOK(q, list[j], memo, told)
  <2>1. BatchOK(o, o.batches[j], memo, told)
    BY <1>3 DEF CallOK
  <2>2. QED
    BY <1>3, <1>5, <2>1 DEF BatchOK
<1>8. \A j, k \in DOMAIN list : j # k => list[j].cands \cap list[k].cands = {}
  <2>1. \A j \in DOMAIN list : list[j].cands = o.batches[j].cands
    BY <1>3
  <2>2. QED
    BY <1>3, <2>1 DEF CallOK
<1>9. QED
  BY <1>4, <1>5, <1>6, <1>7, <1>8 DEF CallOK

LEMMA BatchFailsInv ==
  ASSUME JevInv, NEW a \in Caller, BatchFails(a)
  PROVE  JevInv'
<1> DEFINE o == calling[a]
<1>1. /\ CallOK(o, decided, given) /\ o \in Call /\ o.at = "joining"
      /\ UNCHANGED <<askCache, decided, given>>
  BY DEF JevInv, CallOK, BatchFails
<1>2. PICK i \in DOMAIN o.batches :
        /\ o.batches[i].state = "out"
        /\ calling' = [calling EXCEPT ![a].batches[i].state = "failed", ![a].hooks = @ + 1]
  BY Zenon DEF BatchFails
<1> DEFINE b == [o.batches[i] EXCEPT !.state = "failed"]
           q == [o EXCEPT !.batches = [o.batches EXCEPT ![i] = b], !.hooks = o.hooks + 1]
<1>3. calling' = [calling EXCEPT ![a] = q]
  BY <1>2
<1> HIDE DEF o
<1>4. o.batches[i] \in Batch
  <2>1. o.batches \in Seq(Batch)
    BY <1>1 DEF Call
  <2>2. QED
    BY <2>1
<1>5. /\ b \in Batch /\ b.cands = o.batches[i].cands /\ b.state = "failed"
      /\ b.got = o.batches[i].got
  BY <1>4 DEF Batch
<1> HIDE DEF b
<1>6. b.got = NoAnswers
  BY <1>1, <1>2, <1>5 DEF CallOK, BatchOK
<1>7. \A c \in Cand : b.got[c] = None
  BY <1>6 DEF NoAnswers
<1>8. CallOK(q, decided, given)
  BY <1>1, <1>2, <1>5, <1>6, <1>7, BatchBack
<1>9. QED
  BY <1>1, <1>3, <1>8, StepOfCall

LEMMA BatchAnsweredInv ==
  ASSUME JevInv, NEW a \in Caller, BatchAnswered(a)
  PROVE  JevInv'
<1> DEFINE o == calling[a]
<1>1. /\ CallOK(o, decided, given) /\ o \in Call /\ o.at = "joining"
      /\ UNCHANGED <<askCache, decided>>
  BY DEF JevInv, CallOK, BatchAnswered
<1> DEFINE scores(i, got) ==
             [c \in Cand |-> IF c \in o.batches[i].cands THEN got[c] ELSE None]
<1>2. PICK i \in DOMAIN o.batches :
        /\ o.batches[i].state = "out"
        /\ \E got \in [o.batches[i].cands -> Score \cup {None}] :
             /\ given' = given \cup
                  {<<c, got[c]>> : c \in {d \in o.batches[i].cands : got[d] # None}}
             /\ calling' = [calling EXCEPT ![a].hooks = @ + 1,
                  ![a].batches[i] = [o.batches[i] EXCEPT !.state = "answered", !.got = scores(i, got)]]
  BY Zenon DEF BatchAnswered
<1>3. PICK got \in [o.batches[i].cands -> Score \cup {None}] :
        /\ given' = given \cup
             {<<c, got[c]>> : c \in {d \in o.batches[i].cands : got[d] # None}}
        /\ calling' = [calling EXCEPT ![a].hooks = @ + 1,
             ![a].batches[i] = [o.batches[i] EXCEPT !.state = "answered", !.got = scores(i, got)]]
  BY <1>2
<1> DEFINE all == scores(i, got)
           b == [o.batches[i] EXCEPT !.state = "answered", !.got = all]
           q == [o EXCEPT !.batches = [o.batches EXCEPT ![i] = b], !.hooks = o.hooks + 1]
<1>4. o.batches \in Seq(Batch) /\ o.batches[i] \in Batch
  <2>1. o.batches \in Seq(Batch)
    BY <1>1 DEF Call
  <2>2. QED
    BY <2>1
<1>5. calling' = [calling EXCEPT ![a] = q]
  BY <1>3
<1> HIDE DEF o
<1>6. all \in [Cand -> Score \cup {None}] /\ o.batches[i].cands \subseteq Cand
  BY <1>4 DEF Batch
<1>7. \A c \in Cand : all[c] # None => c \in o.batches[i].cands /\ all[c] = got[c]
  OBVIOUS
<1> HIDE DEF scores, all
<1>8. /\ b \in Batch /\ b.cands = o.batches[i].cands /\ b.state = "answered"
      /\ b.got = all
  BY <1>4, <1>6 DEF Batch
<1> HIDE DEF b
<1>9. /\ given \subseteq given'
      /\ \A c \in Cand : all[c] # None => <<c, all[c]>> \in given'
  BY <1>3, <1>7
<1>10. Caches'
  <2>1. Caches
    BY DEF JevInv
  <2>2. given' \subseteq (Asked \cup Cand) \X Score
    BY <1>3, <1>6, <2>1 DEF Caches
  <2>3. QED
    BY <1>1, <1>9, <2>1, <2>2 DEF Caches, CachedIsGiven
<1>11. CallOK(o, decided, given')
  BY <1>1, <1>9, OtherCallOK
<1>12. CallOK(q, decided, given')
  BY <1>1, <1>2, <1>8, <1>9, <1>11, BatchBack
<1>13. CallOK(q, decided', given')
  BY <1>1, <1>12
<1>14. QED
  BY <1>1, <1>5, <1>9, <1>10, <1>13, JevStepOfOne

-----------------------------------------------------------------------------
(* The theorems                                                            *)

(* The invariant, whatever the overlapping calls of all callers do.        *)
THEOREM JevInvariant == JevSpec => []JevInv
<1>1. JevInit => JevInv
  BY JevInitInv
<1>2. JevInv /\ [JevNext]_jevVars => JevInv'
  <2> SUFFICES ASSUME JevInv, [JevNext]_jevVars PROVE JevInv'
    OBVIOUS
  <2>1. CASE UNCHANGED jevVars
    BY <2>1 DEF jevVars, JevInv, Caches, CachedIsGiven
  <2>2. ASSUME NEW a \in Caller, NEW q \in Asked, Ask(a, q) PROVE JevInv'
    BY <2>2, AskInv
  <2>3. ASSUME NEW a \in Caller, NEW h \in Compacted, AskCompact(a, h) PROVE JevInv'
    BY <2>3, AskCompactInv
  <2>4. ASSUME NEW a \in Caller, JevStep(a) PROVE JevInv'
    <3>1. CASE OverBudget(a) \/ Post(a) \/ AskFails(a)
      BY <3>1, AskStepInv
    <3>2. CASE AskAnswered(a)
      BY <3>2, AskAnsweredInv
    <3>3. CASE LookUp(a)
      BY <3>3, LookUpInv
    <3>4. CASE AllCached(a)
      BY <3>4, AllCachedInv
    <3>5. CASE SendBatches(a)
      BY <3>5, SendBatchesInv
    <3>6. CASE BatchFails(a)
      BY <3>6, BatchFailsInv
    <3>7. CASE BatchAnswered(a)
      BY <3>7, BatchAnsweredInv
    <3>8. CASE Join(a)
      BY <3>8, JoinInv
    <3>9. CASE Store(a)
      BY <3>9, StoreInv
    <3>10. CASE Finish(a)
      BY <3>10, FinishInv
    <3>11. QED
      BY <2>4, <3>1, <3>2, <3>3, <3>4, <3>5, <3>6, <3>7, <3>8, <3>9, <3>10 DEF JevStep
  <2>5. QED
    BY <2>1, <2>2, <2>3, <2>4 DEF JevNext
<1>3. QED
  BY <1>1, <1>2, PTL DEF JevSpec

(* No call reports more attempts to the event than requests it sent to the *)
(* service (doAsk, AskCompactContext).                                     *)
THEOREM JevTypeCorrect == JevSpec => []JevTypeOK
<1>1. JevInv => JevTypeOK
  <2> SUFFICES ASSUME JevInv PROVE JevTypeOK
    OBVIOUS
  <2>1. ASSUME NEW a \in Caller PROVE calling[a] \in Call /\ calling[a].hooks <= calling[a].posts
    <3>1. calling[a] \in Call /\ Reported(calling[a])
      BY DEF JevInv, CallOK
    <3>2. calling[a].hooks \in Nat /\ calling[a].posts \in Nat
      BY <3>1 DEF Call
    <3>3. Cardinality(Out(calling[a])) \in Nat
      BY <3>1, OutFinite
    <3>4. QED
      BY <3>1, <3>2, <3>3 DEF Reported
  <2>2. QED
    BY <2>1 DEF JevInv, Caches, JevTypeOK
<1>2. QED
  BY <1>1, JevInvariant, PTL

(* What a cache holds is what the service answered to that very question   *)
(* (storeValid, AskCompactContext).                                        *)
THEOREM CachesHoldGivenAnswers == JevSpec => []CachedIsGiven
<1>1. JevInv => CachedIsGiven
  BY DEF JevInv, Caches
<1>2. QED
  BY <1>1, JevInvariant, PTL

(* A compaction's paid answers are decided when it ends, and none that was *)
(* decided when it began is asked again (AskCompactContext).               *)
THEOREM PaidAnswersAreKept == JevSpec => []PaidAnswersKept
<1>1. JevInv => PaidAnswersKept
  <2> SUFFICES ASSUME JevInv, NEW a \in Caller
               PROVE  /\ calling[a].at = "done" =>
                           \A i \in DOMAIN calling[a].batches :
                             \A c \in calling[a].batches[i].cands :
                               calling[a].batches[i].got[c] # None => decided[c] # None
                      /\ \A i \in DOMAIN calling[a].batches :
                           calling[a].batches[i].cands \cap calling[a].knew = {}
    BY DEF PaidAnswersKept
  <2>1. \A i \in DOMAIN calling[a].batches :
          BatchOK(calling[a], calling[a].batches[i], decided, given)
    BY DEF JevInv, CallOK
  <2>2. QED
    BY <2>1 DEF BatchOK
<1>2. QED
  BY <1>1, JevInvariant, PTL

-----------------------------------------------------------------------------
(* The skill of a task, for any texts, skills and configuration. What is   *)
(* delivered for a decision is one of the skills that the text names, and  *)
(* the first skill of a task stays the one that its decision delivers.     *)

Ids(cat) == cat \subseteq Skill \cup Command \cup HostTool

(* A skill that was delivered for a decision was one that the text names,  *)
(* if it names any.                                                        *)
DeliveredAsNamed ==
  \A words \in Text, skills \in SUBSET Skill :
    <<words, skills>> \in DOMAIN applied /\ applied[<<words, skills>>] \in Skill
      /\ NamedSkills(words, skills) # {}
      => applied[<<words, skills>>] \in NamedSkills(words, skills)

(* A decision about more than skills never delivers one.                   *)
SkillsForSkills ==
  \A words \in Text, cat \in SUBSET (Skill \cup Command \cup HostTool) :
    <<words, cat>> \in DOMAIN applied /\ applied[<<words, cat>>] \in Skill => cat \subseteq Skill

(* The first skill of a task is the one its decision still delivers.       *)
FirstIsApplied ==
  \A words \in Text, skills \in SUBSET Skill :
    <<words, skills>> \in DOMAIN firstSkill =>
      /\ <<words, skills>> \in DOMAIN applied
      /\ applied[<<words, skills>>] \in Skill
      /\ firstSkill[<<words, skills>>] = applied[<<words, skills>>]

ApplyInv ==
  /\ Ids(known)
  /\ DeliveredAsNamed /\ SkillsForSkills /\ FirstIsApplied
  /\ policy.required /\ unserved => applyErr
  /\ exit \in {None, "success", "failure"}
  /\ exit = "success" /\ policy.required => ~applyErr
  /\ SkillStaysWithTask

(* Either no command takes over, and the decision is about the skills, or  *)
(* one does, and the decision is about the whole catalogue, and no skill   *)
(* is named.                                                               *)
LEMMA ExplicitIs ==
  ASSUME NEW cat, Ids(cat), NEW words \in Text
  PROVE  /\ NamedSkills(words, cat) = NamedSkills(words, cat \cap Skill)
         /\ NamedSkills(words, cat) \subseteq Skill
         /\ ~TakesOver(words, cat) => /\ DecisionID(words, cat) = <<words, cat \cap Skill>>
                                      /\ Explicit(words, cat) = NamedSkills(words, cat)
         /\ TakesOver(words, cat) => /\ DecisionID(words, cat) = <<words, cat>> /\ ~(cat \subseteq Skill)
                                     /\ NamedSkills(words, cat) = {} /\ Explicit(words, cat) # {}
                                     /\ Explicit(words, cat) \cap Skill = {}
<1>1. /\ Mentions[words] \subseteq Skill \cup Command /\ Skill \cap Command = {}
  BY AutoApplyAssumption
<1>2. /\ NamedSkills(words, cat) = NamedSkills(words, cat \cap Skill)
      /\ NamedSkills(words, cat) \subseteq Skill
  BY DEF NamedSkills
<1>3. NamedCommands(words, cat) \subseteq Command \cap cat
  BY DEF NamedCommands
<1>4. CASE NamedSkills(words, cat) # {}
  BY <1>2, <1>4 DEF Explicit, TakesOver, DecisionID
<1>5. CASE NamedSkills(words, cat) = {}
  <2>1. Explicit(words, cat) = NamedCommands(words, cat)
    BY <1>5 DEF Explicit
  <2>2. TakesOver(words, cat) <=> NamedCommands(words, cat) # {}
    BY <1>1, <1>3, <2>1 DEF TakesOver
  <2>3. QED
    BY <1>1, <1>2, <1>3, <1>5, <2>1, <2>2 DEF DecisionID
<1>6. QED
  BY <1>4, <1>5

(* The facts about one request: what it decides, under which id, and what  *)
(* is remembered of it.                                                    *)
Served(words, skills, id, item, command, again, picked, got, takes, asked) ==
  /\ words \in Text /\ skills \in SUBSET Skill
  /\ command = TakesOver(words, known')
  /\ command => got = None
  /\ ~command => id = <<words, skills>>
  /\ again => /\ id = <<words, skills>> /\ id \in DOMAIN applied /\ applied[id] \in Skill
              /\ got = applied[id]
  /\ id \in DOMAIN applied /\ applied[id] \in Skill => again
  /\ picked => /\ ~again /\ item \in Skill /\ id = <<words, skills>>
               /\ NamedSkills(words, skills) # {} => item \in NamedSkills(words, skills)
  /\ ~again => got = IF picked /\ item \notin Bodiless THEN item ELSE None
  /\ applied' = IF picked THEN Set(applied, id, IF item \in Bodiless THEN "failed" ELSE item) ELSE applied
  /\ task' = [text |-> words, skills |-> skills, got |-> got]
  /\ firstSkill' = IF got # None /\ <<words, skills>> \notin DOMAIN firstSkill
                     THEN Set(firstSkill, <<words, skills>>, got) ELSE firstSkill
  /\ policy' = policy /\ exit' = exit /\ exit = None
  /\ applyErr \/ (got # None /\ ~takes /\ policy.required) => applyErr'
  /\ unserved' = (unserved \/ (got # None /\ ~takes) \/ (asked # {} /\ got \notin asked))
  /\ asked = {} \/ asked = NamedSkills(words, skills)
  /\ policy.required /\ asked # {} /\ ~again => applyErr' \/ (got = item /\ picked)

LEMMA RequestIsServed ==
  ASSUME ApplyInv, AutoApply
  PROVE  /\ Ids(known')
         /\ \E words, skills, id, item, command, again, picked, got, takes, asked :
              Served(words, skills, id, item, command, again, picked, got, takes, asked)
<1>1. PICK words \in Text, tools \in SUBSET (HostTool \cup ((Skill \cup Command) \ Configured)),
           followup \in BOOLEAN, takes \in BOOLEAN :
       LET cat == known \cup tools
           id == DecisionID(words, cat)
           before == IF id \in DOMAIN applied THEN applied[id] ELSE None
           skills == cat \cap Skill IN
       /\ known' = cat
       /\ \E item \in Routes(words, cat) \cup {None} :
            LET again == before \in Skill
                routed == ~again /\ ~followup /\ (Explicit(words, cat) # {} \/ skills # {})
                picked == routed /\ item \in Skill /\ "skills" \in policy.applies
                got == IF again THEN before ELSE IF picked /\ item \notin Bodiless THEN item ELSE None
                asked == IF followup THEN {} ELSE NamedSkills(words, cat) IN
            /\ routed => item \in Routes(words, cat)
            /\ applied' = IF picked THEN Set(applied, id, IF item \in Bodiless THEN "failed" ELSE item)
                          ELSE applied
            /\ applyErr' = (\/ applyErr
                            \/ routed /\ item = None /\ NotSelected(words, cat)
                            \/ routed /\ item \in Command /\ ~takes /\ policy.required
                            \/ picked /\ item \in Bodiless
                            \/ got # None /\ ~takes /\ policy.required)
            /\ task' = [text |-> words, skills |-> skills, got |-> got]
            /\ firstSkill' = IF got # None /\ <<words, skills>> \notin DOMAIN firstSkill
                             THEN Set(firstSkill, <<words, skills>>, got) ELSE firstSkill
            /\ unserved' = (unserved \/ (got # None /\ ~takes) \/ (asked # {} /\ got \notin asked))
  BY Zenon DEF AutoApply
<1> DEFINE cat == known \cup tools
           id == DecisionID(words, cat)
           before == IF id \in DOMAIN applied THEN applied[id] ELSE None
           skills == cat \cap Skill
           explicit == Explicit(words, cat)
           again == before \in Skill
           asked == IF followup THEN {} ELSE NamedSkills(words, cat)
<1>2. PICK item \in Routes(words, cat) \cup {None} :
        LET routed == ~again /\ ~followup /\ (explicit # {} \/ skills # {})
            picked == routed /\ item \in Skill /\ "skills" \in policy.applies
            got == IF again THEN before ELSE IF picked /\ item \notin Bodiless THEN item ELSE None IN
        /\ routed => item \in Routes(words, cat)
        /\ applied' = IF picked THEN Set(applied, id, IF item \in Bodiless THEN "failed" ELSE item)
                      ELSE applied
        /\ applyErr' = (\/ applyErr
                        \/ routed /\ item = None /\ NotSelected(words, cat)
                        \/ routed /\ item \in Command /\ ~takes /\ policy.required
                        \/ picked /\ item \in Bodiless
                        \/ got # None /\ ~takes /\ policy.required)
        /\ task' = [text |-> words, skills |-> skills, got |-> got]
        /\ firstSkill' = IF got # None /\ <<words, skills>> \notin DOMAIN firstSkill
                         THEN Set(firstSkill, <<words, skills>>, got) ELSE firstSkill
        /\ unserved' = (unserved \/ (got # None /\ ~takes) \/ (asked # {} /\ got \notin asked))
  BY <1>1, Zenon
<1> DEFINE routed == ~again /\ ~followup /\ (explicit # {} \/ skills # {})
           picked == routed /\ item \in Skill /\ "skills" \in policy.applies
           got == IF again THEN before ELSE IF picked /\ item \notin Bodiless THEN item ELSE None
           command == TakesOver(words, cat)
<1>3. known' = cat /\ Ids(cat) /\ cat \in SUBSET (Skill \cup Command \cup HostTool)
  BY <1>1, AutoApplyAssumption DEF ApplyInv, Ids
<1>4. /\ NamedSkills(words, cat) = NamedSkills(words, skills) /\ NamedSkills(words, cat) \subseteq Skill
      /\ ~command => id = <<words, skills>> /\ explicit = NamedSkills(words, cat)
      /\ command => /\ id = <<words, cat>> /\ ~(cat \subseteq Skill)
                 /\ NamedSkills(words, cat) = {} /\ explicit # {} /\ explicit \cap Skill = {}
  BY <1>3, ExplicitIs
<1>5. /\ routed => item \in Routes(words, cat)
      /\ applied' = IF picked THEN Set(applied, id, IF item \in Bodiless THEN "failed" ELSE item)
                    ELSE applied
      /\ applyErr' = (\/ applyErr
                      \/ routed /\ item = None /\ NotSelected(words, cat)
                      \/ routed /\ item \in Command /\ ~takes /\ policy.required
                      \/ picked /\ item \in Bodiless
                      \/ got # None /\ ~takes /\ policy.required)
      /\ task' = [text |-> words, skills |-> skills, got |-> got]
      /\ firstSkill' = IF got # None /\ <<words, skills>> \notin DOMAIN firstSkill
                       THEN Set(firstSkill, <<words, skills>>, got) ELSE firstSkill
      /\ unserved' = (unserved \/ (got # None /\ ~takes) \/ (asked # {} /\ got \notin asked))
  BY <1>2
<1>6. None \notin Skill /\ Skill \cap Command = {}
  BY AutoApplyAssumption
<1>7. again <=> id \in DOMAIN applied /\ applied[id] \in Skill
  BY <1>6
<1>8. again => before = applied[id]
  BY <1>6
<1>9. skills \in SUBSET Skill /\ words \in Text
  OBVIOUS
<1>10. routed => /\ explicit = {} => item \in {None} \cup skills
                 /\ explicit # {} => item = None \/ item \in explicit
  BY <1>5 DEF Routes
<1>11. NotSelected(words, cat) <=> policy.required /\ explicit # {}
  BY DEF NotSelected
<1>12. asked = {} \/ asked = NamedSkills(words, skills)
  BY <1>4
<1>13. command = TakesOver(words, known')
  BY <1>3
<1>14. asked # {} => ~followup /\ explicit = asked /\ ~command
  BY <1>4
<1> HIDE DEF cat, id, before, skills, explicit, command, asked
<1>15. again => ~command
  BY <1>3, <1>4, <1>7 DEF ApplyInv, SkillsForSkills
<1>16. picked => /\ ~command
                 /\ NamedSkills(words, skills) # {} => item \in NamedSkills(words, skills)
  BY <1>4, <1>6, <1>10
<1>17. policy.required /\ asked # {} /\ ~again => applyErr' \/ (got = item /\ picked)
  <2>1. SUFFICES ASSUME policy.required, asked # {}, ~again, ~applyErr'
                 PROVE  got = item /\ picked
    OBVIOUS
  <2>2. routed /\ explicit # {} /\ explicit \subseteq Skill
    BY <1>4, <1>14, <2>1
  <2>3. item # None
    BY <1>5, <1>11, <2>1, <2>2
  <2>4. "skills" \in policy.applies
    BY <1>4, <1>14, <2>1 DEF NamedSkills
  <2>5. picked
    BY <1>10, <2>2, <2>3, <2>4
  <2>6. item \notin Bodiless
    BY <1>5, <2>1, <2>5
  <2>7. QED
    BY <2>1, <2>5, <2>6
<1>18. policy' = policy /\ exit' = exit /\ exit = None
  BY DEF AutoApply
<1>19. applyErr \/ (got # None /\ ~takes /\ policy.required) => applyErr'
  BY <1>5
<1>20. command => got = None
  BY <1>15, <1>16
<1>21. Served(words, skills, id, item, command, again, picked, got, takes, asked)
  BY <1>4, <1>5, <1>7, <1>8, <1>9, <1>12, <1>13, <1>15, <1>16, <1>17, <1>18, <1>19, <1>20 DEF Served
<1>22. QED
  BY <1>3, <1>21

(* Once served, a request leaves everything in order.                      *)
LEMMA ServedKeeps ==
  ASSUME ApplyInv, Ids(known'), NEW words, NEW skills, NEW id, NEW item, NEW command, NEW again, NEW picked,
         NEW got, NEW takes, NEW asked,
         Served(words, skills, id, item, command, again, picked, got, takes, asked)
  PROVE  ApplyInv'
<1>n. None \notin Skill /\ "failed" \notin Skill
  BY AutoApplyAssumption
<1>1. /\ picked => DOMAIN applied' = DOMAIN applied \cup {id}
                   /\ applied'[id] = IF item \in Bodiless THEN "failed" ELSE item
      /\ ~picked => applied' = applied
      /\ \A k \in DOMAIN applied : k \in DOMAIN applied' /\ (k # id => applied'[k] = applied[k])
      /\ \A k \in DOMAIN applied' : k \in DOMAIN applied \/ (picked /\ k = id)
  <2> DEFINE v == IF item \in Bodiless THEN "failed" ELSE item
  <2>1. applied' = IF picked THEN Set(applied, id, v) ELSE applied
    BY DEF Served
  <2> HIDE DEF v
  <2>s. /\ DOMAIN Set(applied, id, v) = DOMAIN applied \cup {id} /\ Set(applied, id, v)[id] = v
        /\ \A k \in DOMAIN applied : k # id => Set(applied, id, v)[k] = applied[k]
    BY DEF Set
  <2>2. picked => /\ DOMAIN applied' = DOMAIN applied \cup {id} /\ applied'[id] = v
                  /\ \A k \in DOMAIN applied : k # id => applied'[k] = applied[k]
    BY ONLY <2>1, <2>s
  <2>3. QED
    BY <2>1, <2>2 DEF v
<1>2. \A k \in DOMAIN applied : applied[k] \in Skill => k \in DOMAIN applied' /\ applied'[k] = applied[k]
  BY <1>1 DEF Served
<1>3. \A k \in DOMAIN applied' : applied'[k] \in Skill =>
        \/ k \in DOMAIN applied /\ applied[k] = applied'[k]
        \/ picked /\ k = <<words, skills>> /\ applied'[k] = item
  BY <1>1, <1>n DEF Served
<1>4. got # None => /\ <<words, skills>> \in DOMAIN applied' /\ applied'[<<words, skills>>] = got
                    /\ got \in Skill
  BY <1>1, <1>2 DEF Served
<1>5. \A t \in Text, s \in SUBSET Skill : NamedSkills(t, s)' = NamedSkills(t, s)
  BY DEF Served, NamedSkills
<1>6. DeliveredAsNamed'
  <2> SUFFICES ASSUME NEW t \in Text, NEW s \in SUBSET Skill, <<t, s>> \in DOMAIN applied',
                      applied'[<<t, s>>] \in Skill, NamedSkills(t, s) # {}
               PROVE  applied'[<<t, s>>] \in NamedSkills(t, s)
    BY <1>5 DEF DeliveredAsNamed
  <2>1. CASE <<t, s>> \in DOMAIN applied /\ applied[<<t, s>>] = applied'[<<t, s>>]
    BY <2>1 DEF ApplyInv, DeliveredAsNamed
  <2>2. CASE picked /\ <<t, s>> = <<words, skills>> /\ applied'[<<t, s>>] = item
    BY <2>2 DEF Served
  <2>3. QED
    BY <1>3, <2>1, <2>2
<1>7. SkillsForSkills'
  <2> SUFFICES ASSUME NEW t \in Text, NEW s \in SUBSET (Skill \cup Command \cup HostTool),
                      <<t, s>> \in DOMAIN applied', applied'[<<t, s>>] \in Skill
               PROVE  s \subseteq Skill
    BY DEF SkillsForSkills
  <2>1. CASE <<t, s>> \in DOMAIN applied /\ applied[<<t, s>>] = applied'[<<t, s>>]
    BY <2>1 DEF ApplyInv, SkillsForSkills
  <2>2. CASE picked /\ <<t, s>> = <<words, skills>> /\ applied'[<<t, s>>] = item
    BY <2>2 DEF Served
  <2>3. QED
    BY <1>3, <2>1, <2>2
<1>f. /\ \A k \in DOMAIN firstSkill' : k \in DOMAIN firstSkill \/ (got # None /\ k = <<words, skills>>)
      /\ \A k \in DOMAIN firstSkill : k \in DOMAIN firstSkill' /\ firstSkill'[k] = firstSkill[k]
      /\ got # None => /\ <<words, skills>> \in DOMAIN firstSkill'
                       /\ <<words, skills>> \notin DOMAIN firstSkill => firstSkill'[<<words, skills>>] = got
  <2> DEFINE k == <<words, skills>>
  <2>1. firstSkill' = IF got # None /\ k \notin DOMAIN firstSkill THEN Set(firstSkill, k, got)
                      ELSE firstSkill
    BY DEF Served
  <2> HIDE DEF k
  <2>2. got # None /\ k \notin DOMAIN firstSkill =>
          /\ DOMAIN firstSkill' = DOMAIN firstSkill \cup {k} /\ firstSkill'[k] = got
          /\ \A x \in DOMAIN firstSkill : x # k => firstSkill'[x] = firstSkill[x]
    <3>1. /\ DOMAIN Set(firstSkill, k, got) = DOMAIN firstSkill \cup {k}
          /\ Set(firstSkill, k, got)[k] = got
          /\ \A x \in DOMAIN firstSkill : x # k => Set(firstSkill, k, got)[x] = firstSkill[x]
      BY DEF Set
    <3>2. QED
      BY ONLY <2>1, <3>1
  <2>3. QED
    BY <2>1, <2>2 DEF k
<1>8. FirstIsApplied'
  <2> SUFFICES ASSUME NEW t \in Text, NEW s \in SUBSET Skill, <<t, s>> \in DOMAIN firstSkill'
               PROVE  /\ <<t, s>> \in DOMAIN applied' /\ applied'[<<t, s>>] \in Skill
                      /\ firstSkill'[<<t, s>>] = applied'[<<t, s>>]
    BY DEF FirstIsApplied
  <2>1. CASE <<t, s>> \in DOMAIN firstSkill
    BY <1>2, <1>f, <2>1 DEF ApplyInv, FirstIsApplied
  <2>2. CASE <<t, s>> \notin DOMAIN firstSkill
    <3>1. got # None /\ t = words /\ s = skills
      BY <1>f, <2>2
    <3>2. QED
      BY <1>4, <1>f, <2>2, <3>1
  <2>3. QED
    BY <2>1, <2>2
<1>t. /\ task'.text = words /\ task'.skills = skills /\ task'.got = got
      /\ words \in Text /\ skills \in SUBSET Skill /\ policy' = policy /\ exit' = exit /\ exit = None
      /\ command = TakesOver(words, known')
  BY DEF Served
<1>9. policy'.required /\ unserved' => applyErr'
  <2> SUFFICES ASSUME policy.required, unserved', ~applyErr'
               PROVE  FALSE
    BY <1>t
  <2>1. ~unserved /\ ~(got # None /\ ~takes) /\ asked # {} /\ got \notin asked
    BY DEF Served, ApplyInv
  <2>2. asked = NamedSkills(words, skills) /\ (~again => got = item /\ picked)
    BY <2>1 DEF Served
  <2>3. CASE again
    BY <1>t, <2>1, <2>2, <2>3 DEF Served, ApplyInv, DeliveredAsNamed
  <2>4. CASE ~again
    BY <2>1, <2>2, <2>4 DEF Served
  <2>5. QED
    BY <2>3, <2>4
<1>10. <<words, skills>> \in DOMAIN firstSkill' => (got = firstSkill'[<<words, skills>>] <=> ~command)
  <2> SUFFICES ASSUME <<words, skills>> \in DOMAIN firstSkill'
               PROVE  got = firstSkill'[<<words, skills>>] <=> ~command
    OBVIOUS
  <2>1. /\ <<words, skills>> \in DOMAIN applied' /\ applied'[<<words, skills>>] \in Skill
        /\ firstSkill'[<<words, skills>>] = applied'[<<words, skills>>]
    BY <1>8, <1>t DEF FirstIsApplied
  <2>2. CASE command
    BY <1>n, <2>1, <2>2 DEF Served
  <2>3. CASE ~command /\ got # None
    BY <1>4, <2>1, <2>3
  <2>4. CASE ~command /\ got = None
    <3>1. <<words, skills>> \in DOMAIN firstSkill
      BY <1>f, <2>4
    <3>2. id = <<words, skills>> /\ <<words, skills>> \in DOMAIN applied /\ applied[<<words, skills>>] \in Skill
      BY <1>t, <2>4, <3>1 DEF ApplyInv, FirstIsApplied, Served
    <3>3. QED
      BY <1>n, <2>4, <3>2 DEF Served
  <2>5. QED
    BY <2>2, <2>3, <2>4
<1>11. exit' # "success" /\ exit' \in {None, "success", "failure"}
  BY <1>t, AutoApplyAssumption
<1>12. SkillStaysWithTask'
  <2>1. TakesOver(task.text, known)' = command
    BY <1>t DEF TakesOver, Explicit, NamedSkills, NamedCommands
  <2>2. QED
    BY <1>t, <1>10, <1>11, <2>1 DEF SkillStaysWithTask
<1>13. QED
  BY <1>6, <1>7, <1>8, <1>9, <1>11, <1>12 DEF ApplyInv

LEMMA ApplyStep == ApplyInv /\ [ApplyNext]_applyVars => ApplyInv'
<1> SUFFICES ASSUME ApplyInv, [ApplyNext]_applyVars PROVE ApplyInv'
  OBVIOUS
<1>1. CASE AutoApply
  BY <1>1, RequestIsServed, ServedKeeps
<1>2. CASE RunEnds \/ UNCHANGED applyVars
  <2>1. /\ policy' = policy /\ known' = known /\ applied' = applied /\ applyErr' = applyErr
        /\ task' = task /\ firstSkill' = firstSkill /\ unserved' = unserved
    BY <1>2 DEF RunEnds, applyVars
  <2>2. /\ exit' \in {None, "success", "failure"}
        /\ exit' = "success" /\ policy.required => ~applyErr
    BY <1>2 DEF RunEnds, applyVars, ApplyInv
  <2>3. \A t \in Text, s \in SUBSET Skill : NamedSkills(t, s)' = NamedSkills(t, s)
    BY <2>1 DEF NamedSkills
  <2>4. Ids(known') /\ DeliveredAsNamed' /\ SkillsForSkills' /\ FirstIsApplied'
    BY <2>1, <2>3 DEF ApplyInv, DeliveredAsNamed, SkillsForSkills, FirstIsApplied
  <2>5. TakesOver(task.text, known)' = TakesOver(task.text, known)
    BY <2>1 DEF TakesOver, Explicit, NamedSkills, NamedCommands
  <2>6. SkillStaysWithTask'
    BY <2>1, <2>2, <2>5 DEF ApplyInv, SkillStaysWithTask
  <2>7. QED
    BY <2>1, <2>2, <2>4, <2>6 DEF ApplyInv
<1>3. QED
  BY <1>1, <1>2 DEF ApplyNext

LEMMA ApplyInitInv == ApplyInit => ApplyInv
<1> SUFFICES ASSUME ApplyInit PROVE ApplyInv
  OBVIOUS
<1>1. /\ known = Configured /\ applied = <<>> /\ firstSkill = <<>> /\ task = NoRequest /\ exit = None
      /\ unserved = FALSE
  BY DEF ApplyInit
<1>2. DOMAIN applied = {} /\ DOMAIN firstSkill = {}
  BY <1>1
<1>3. Ids(known) /\ exit # "success"
  BY <1>1, AutoApplyAssumption DEF Ids
<1>4. DeliveredAsNamed /\ SkillsForSkills /\ FirstIsApplied
  BY <1>2 DEF DeliveredAsNamed, SkillsForSkills, FirstIsApplied
<1>5. SkillStaysWithTask
  BY <1>1, <1>2 DEF SkillStaysWithTask
<1>6. QED
  BY <1>1, <1>3, <1>4, <1>5 DEF ApplyInv

(* For any texts, skills and declared tools: once a skill was picked for a *)
(* text, the requests of the task get it until the skills change, exactly  *)
(* until a command that the text names takes over; and under the required  *)
(* policy no run ends well in which a request named a skill and went out   *)
(* without it, or with no place for the one it got (autoApplyContext,      *)
(* requiredLeftover).                                                      *)
THEOREM SkillsStay == ApplySpec => []SkillStaysWithTask
<1>1. ApplyInv => SkillStaysWithTask
  BY DEF ApplyInv
<1>2. QED
  BY <1>1, ApplyInitInv, ApplyStep, PTL DEF ApplySpec

-----------------------------------------------------------------------------
(* Answers to compaction requests, for any history and agents.  A message  *)
(* of a user holds Grok's prompt in Grok's own compaction request, or else *)
(* a quote of it stands in the history; and during a turn nothing but such *)
(* a quote is taken for a request.  So a transcript is answered only to    *)
(* the host that asked for it, unless Grok's marker is quoted.             *)

Message == [role : {"user", "assistant", "tool"}, mark : Agent \cup {None}]

(* No message of a user holds Grok's prompt.                               *)
NoGrok(msgs) == \A i \in DOMAIN msgs : msgs[i] # Said("user", "grok")

(* Markers in other messages are quoted.                                   *)
OnlyQuoted(msgs) ==
  \A i \in DOMAIN msgs : msgs[i].role # "user" => msgs[i].mark \in Quoted \cup {None}

(* What the history holds, if a transcript may be answered at all.         *)
NativeInv ==
  /\ NativeTypeOK
  /\ OnlyQuoted(history)
  /\ enabled =>
       /\ (asking = "compaction" /\ agent = "grok") \/ quotes \/ NoGrok(history)
       /\ asking = "turn" =>
            NativeCompactionKind(history) = None \/ (NativeCompactionKind(history) = "grok" /\ quotes)
       /\ asking = "compaction" /\ agent = "grok" => NativeCompactionKind(history) = "grok"
  /\ OnlyAskedIsAnswered

(* What a history is like that grew by one message.                        *)
LEMMA Grew ==
  ASSUME NEW msgs \in Seq(Message), NEW m \in Message
  PROVE  /\ Append(msgs, m) \in Seq(Message)
         /\ Last(Append(msgs, m)) = m /\ Append(msgs, m) # <<>>
         /\ Append(msgs, m)[Len(Append(msgs, m))] = m
         /\ Len(Append(msgs, m)) \in DOMAIN Append(msgs, m)
         /\ \A i \in DOMAIN Append(msgs, m) : i <= Len(Append(msgs, m))
         /\ m # Said("user", "grok") /\ NoGrok(msgs) => NoGrok(Append(msgs, m))
         /\ (m.role # "user" => m.mark \in Quoted \cup {None}) /\ OnlyQuoted(msgs)
              => OnlyQuoted(Append(msgs, m))
<1> DEFINE t == Append(msgs, m)
<1>1. /\ t \in Seq(Message) /\ Len(t) = Len(msgs) + 1 /\ Len(msgs) \in Nat
      /\ DOMAIN t = 1 .. Len(t) /\ t[Len(t)] = m /\ t # <<>>
      /\ \A i \in DOMAIN t : (i \in DOMAIN msgs /\ t[i] = msgs[i]) \/ i = Len(t)
  OBVIOUS
<1> HIDE DEF t
<1>2. Last(t) = m /\ Len(t) \in DOMAIN t /\ \A i \in DOMAIN t : i <= Len(t)
  BY <1>1 DEF Last
<1>3. m # Said("user", "grok") /\ NoGrok(msgs) => NoGrok(t)
  BY <1>1 DEF NoGrok
<1>4. (m.role # "user" => m.mark \in Quoted \cup {None}) /\ OnlyQuoted(msgs) => OnlyQuoted(t)
  BY <1>1 DEF OnlyQuoted
<1>5. QED
  BY <1>1, <1>2, <1>3, <1>4 DEF t

(* A history that ends with an ordinary message asks for nothing, unless   *)
(* Grok's prompt stands in it.                                             *)
LEMMA NothingAsked ==
  ASSUME NEW msgs \in Seq(Message), NEW m \in Message,
         m.role # "assistant", m # Said("user", "codex"), m # Said("user", "claude")
  PROVE  /\ NativeCompactionKind(Append(msgs, m)) \in {"grok", None}
         /\ NoGrok(Append(msgs, m)) => NativeCompactionKind(Append(msgs, m)) = None
<1> DEFINE t == Append(msgs, m)
<1>1. /\ Last(t) = m /\ t[Len(t)] = m /\ Len(t) \in DOMAIN t
      /\ \A i \in DOMAIN t : i <= Len(t) /\ i \in Int /\ Len(t) \in Int
  BY Grew
<1> HIDE DEF t
<1>2. ~CodexCompactPromptAtEnd(t)
  BY <1>1 DEF CodexCompactPromptAtEnd
<1>3. ASSUME NEW i \in DOMAIN t, t[i] = Said("user", "claude"),
             \A j \in DOMAIN t : j > i => t[j].role = "assistant"
      PROVE  FALSE
  <2>1. i # Len(t)
    BY <1>1, <1>3
  <2>2. Len(t) > i
    BY <1>1, <2>1
  <2>3. QED
    BY <1>1, <1>3, <2>2
<1>4. ~ClaudeCompactionRequest(t)
  BY <1>3 DEF ClaudeCompactionRequest
<1>5. QED
  BY <1>2, <1>4 DEF NativeCompactionKind, NoGrok, t

LEMMA NativeStep == NativeInv /\ [NativeNext]_nativeVars => NativeInv'
<1> SUFFICES ASSUME NativeInv, [NativeNext]_nativeVars PROVE NativeInv'
  OBVIOUS
<1>t. /\ agent \in Agent /\ enabled \in BOOLEAN /\ history \in Seq(Message)
      /\ asking \in {None, "turn", "compaction"} /\ quotes \in BOOLEAN
      /\ OnlyQuoted(history)
  BY DEF NativeInv, NativeTypeOK, Message
<1>n. None \notin {"turn", "compaction", "gateway", "codex", "claude", "grok"}
  BY NativeReplyAssumption DEF Agent
<1>a. Agent = {"codex", "grok", "claude"} /\ Quoted \subseteq Agent
  BY NativeReplyAssumption DEF Agent
<1>m. \A role \in {"user", "assistant", "tool"}, mark \in Agent \cup {None} :
        /\ Said(role, mark) \in Message
        /\ Said(role, mark).role = role /\ Said(role, mark).mark = mark
  BY DEF Said, Message
<1>k. NativeCompactionKind(history)' = NativeCompactionKind(history') \/ agent' # agent
  BY DEF NativeCompactionKind, ClaudeCompactionRequest, CodexCompactPromptAtEnd
<1>1. CASE UserAsks
  <2>1. PICK mark \in (Quoted \cap {"grok"}) \cup {None} :
          history' = Append(history, Said("user", mark)) /\ quotes' = (quotes \/ mark = "grok")
    BY <1>1 DEF UserAsks
  <2> DEFINE m == Said("user", mark)
  <2>2. /\ history' = Append(history, m) /\ m \in Message /\ m.role = "user" /\ m.mark = mark
        /\ asking' = "turn" /\ agent' = agent /\ enabled' = enabled /\ answered' = answered
        /\ asking = None /\ quotes' \in BOOLEAN
    BY <1>1, <1>a, <1>m, <1>t, <2>1 DEF UserAsks
  <2>3. /\ m # Said("user", "codex") /\ m # Said("user", "claude")
        /\ m = Said("user", "grok") => mark = "grok"
    BY <1>n, <2>1 DEF Said
  <2>4. enabled => quotes \/ NoGrok(history)
    BY <1>n, <2>2 DEF NativeInv
  <2> HIDE DEF m
  <2>5. OnlyQuoted(history') /\ history' \in Seq(Message) /\ (enabled => quotes' \/ NoGrok(history'))
    BY <1>n, <1>t, <2>1, <2>2, <2>3, <2>4, Grew
  <2>6. enabled => NativeCompactionKind(history') = None \/ (NativeCompactionKind(history') = "grok" /\ quotes')
    <3>1. /\ NativeCompactionKind(Append(history, m)) \in {"grok", None}
          /\ NoGrok(Append(history, m)) => NativeCompactionKind(Append(history, m)) = None
      BY <1>n, <1>t, <2>2, <2>3, NothingAsked
    <3>2. QED
      BY <2>2, <2>5, <3>1
  <2>7. NativeCompactionKind(history)' = NativeCompactionKind(history')
    BY <1>k, <2>2
  <2>8. OnlyAskedIsAnswered'
    BY <2>1, <2>2 DEF NativeInv, OnlyAskedIsAnswered
  <2>9. NativeTypeOK'
    BY <1>t, <2>2, <2>5 DEF NativeInv, NativeTypeOK, Message
  <2>10. QED
    BY <2>2, <2>5, <2>6, <2>7, <2>8, <2>9 DEF NativeInv
<1>2. CASE HostCompacts
  <2> DEFINE m == Said("user", agent)
  <2>1. /\ history' = Append(history, m) /\ m \in Message /\ m.role = "user" /\ m.mark = agent
        /\ asking' = "compaction" /\ agent' = agent /\ enabled' = enabled /\ answered' = answered
        /\ asking = None /\ quotes' = quotes
    BY <1>2, <1>n, <1>t, <1>m DEF HostCompacts
  <2>2. agent # "grok" => m # Said("user", "grok")
    BY DEF Said
  <2>3. enabled => quotes \/ NoGrok(history)
    BY <1>n, <2>1 DEF NativeInv
  <2> HIDE DEF m
  <2>4. /\ OnlyQuoted(history') /\ history' \in Seq(Message)
        /\ enabled /\ agent # "grok" => quotes \/ NoGrok(history')
    BY <1>n, <1>t, <2>1, <2>2, <2>3, Grew
  <2>5. OnlyAskedIsAnswered'
    BY <2>1 DEF NativeInv, OnlyAskedIsAnswered
  <2>6. NativeTypeOK'
    BY <1>t, <2>1, <2>4 DEF NativeInv, NativeTypeOK, Message
  <2>7. agent = "grok" => NativeCompactionKind(history') = "grok"
    <3>1. /\ history'[Len(history')] = m /\ Len(history') \in DOMAIN history' /\ Last(history') = m
      BY <1>n, <1>t, <2>1, Grew
    <3>2. agent = "grok" => m = Said("user", "grok") /\ m # Said("user", "codex")
      BY DEF m, Said
    <3>3. QED
      BY <3>1, <3>2 DEF NativeCompactionKind, CodexCompactPromptAtEnd
  <2>8. NativeCompactionKind(history)' = NativeCompactionKind(history')
    BY <1>k, <2>1
  <2>9. QED
    BY <2>1, <2>4, <2>5, <2>6, <2>7, <2>8 DEF NativeInv
<1>r. ASSUME NEW mark \in Quoted \cup {None}, HostReads(mark), asking' = None,
             asking # None, agent' = agent, enabled' = enabled,
             enabled /\ asking = "turn" => quotes \/ NoGrok(history),
             answered' \in [by : {"gateway", "upstream"}, for : {asking}, kind : Agent \cup {None}],
             answered'.by = "gateway" /\ asking = "turn" => answered'.kind = "grok" /\ quotes
      PROVE  NativeInv'
  <2>1. mark \in Agent \cup {None}
    BY <1>a, <1>r
  <2>2. CASE asking = "compaction"
    <3>1. PICK said \in {mark} \cup (IF quotes THEN {"grok"} ELSE {}) :
            history' = <<Said("user", said)>> /\ quotes' = (said = "grok")
      BY <1>r, <2>2 DEF HostReads
    <3> DEFINE u == Said("user", said)
    <3>2. /\ u \in Message /\ u.role = "user" /\ history' = <<u>> /\ quotes' \in BOOLEAN
          /\ u = Said("user", "grok") => quotes'
      BY <1>a, <1>m, <2>1, <3>1 DEF Said
    <3> HIDE DEF u
    <3>3. history' \in Seq(Message) /\ OnlyQuoted(history') /\ (quotes' \/ NoGrok(history'))
      BY <3>2 DEF OnlyQuoted, NoGrok
    <3>4. OnlyAskedIsAnswered'
      BY <1>r, <2>2 DEF OnlyAskedIsAnswered
    <3>5. NativeTypeOK'
      BY <1>r, <1>t, <2>2, <3>2, <3>3 DEF NativeTypeOK, Message
    <3>6. QED
      BY <1>r, <1>n, <3>3, <3>4, <3>5 DEF NativeInv
  <2>3. CASE asking = "turn"
    <3> DEFINE m == Said("assistant", mark)
    <3>1. /\ m \in Message /\ m.role = "assistant" /\ m.mark = mark /\ m # Said("user", "grok")
      BY <1>m, <2>1 DEF Said
    <3>2. history' = Append(history, m) /\ quotes' = quotes
      BY <1>r, <2>3 DEF HostReads
    <3> HIDE DEF m
    <3>3. /\ history' \in Seq(Message) /\ OnlyQuoted(history')
          /\ enabled => quotes' \/ NoGrok(history')
      BY <1>r, <1>t, <2>3, <3>1, <3>2, Grew
    <3>4. OnlyAskedIsAnswered'
      BY <1>r, <2>3, <3>2 DEF OnlyAskedIsAnswered
    <3>5. NativeTypeOK'
      BY <1>r, <1>t, <2>3, <3>2, <3>3 DEF NativeTypeOK, Message
    <3>6. QED
      BY <1>r, <1>n, <3>3, <3>4, <3>5 DEF NativeInv
  <2>4. QED
    BY <1>r, <1>t, <2>2, <2>3
<1>f. enabled /\ asking = "turn" => quotes \/ NoGrok(history)
  BY DEF NativeInv
<1>3. CASE AnswerRetained
  <2>1. asking = "turn" => NativeCompactionKind(history) = "grok" /\ quotes
    BY <1>3 DEF AnswerRetained, NativeInv
  <2>2. PICK mark \in Transcripts(history) : HostReads(mark)
    BY <1>3 DEF AnswerRetained
  <2>3. mark \in Quoted \cup {None}
    BY <1>t, <2>2 DEF Transcripts, OnlyQuoted
  <2>4. NativeCompactionKind(history) \in Agent \cup {None}
    BY <1>a DEF NativeCompactionKind
  <2> DEFINE answer == [by |-> "gateway", for |-> asking, kind |-> NativeCompactionKind(history)]
  <2>5. /\ answer \in [by : {"gateway", "upstream"}, for : {asking}, kind : Agent \cup {None}]
        /\ answer.kind = NativeCompactionKind(history)
    BY <2>4
  <2>6. /\ answered' = answer /\ asking' = None /\ asking # None
        /\ agent' = agent /\ enabled' = enabled
    BY <1>3 DEF AnswerRetained
  <2> HIDE DEF answer
  <2>7. QED
    BY <1>r, <1>f, <2>1, <2>2, <2>3, <2>5, <2>6
<1>4. CASE UpstreamAnswers
  <2>1. PICK mark \in Quoted \cup {None} : HostReads(mark)
    BY <1>4 DEF UpstreamAnswers
  <2>2. /\ answered' = [by |-> "upstream", for |-> asking, kind |-> None] /\ asking' = None
        /\ asking # None /\ agent' = agent /\ enabled' = enabled
    BY <1>4 DEF UpstreamAnswers, ForwardRequest
  <2>3. /\ answered' \in [by : {"gateway", "upstream"}, for : {asking}, kind : Agent \cup {None}]
        /\ answered'.by # "gateway"
    BY <2>2
  <2>4. QED
    BY <1>r, <1>f, <2>1, <2>2, <2>3
<1>5. CASE UpstreamCalls
  <2>1. enabled => quotes \/ NoGrok(history)
    <3>1. enabled => ~(asking = "compaction" /\ agent = "grok")
      BY <1>5 DEF UpstreamCalls, ForwardRequest, NativeInv
    <3>2. QED
      BY <3>1 DEF NativeInv
  <2>2. PICK mark \in Quoted \cup {None} :
          history' = history \o <<Said("assistant", None), Said("tool", mark)>>
    BY <1>5 DEF UpstreamCalls
  <2> DEFINE m == Said("assistant", None)
             o == Said("tool", mark)
  <2>3. /\ m \in Message /\ m.role = "assistant" /\ m.mark = None
        /\ o \in Message /\ o.role = "tool" /\ o.mark = mark
        /\ \A a \in Agent : m # Said("user", a) /\ o # Said("user", a)
    BY <1>a, <1>m DEF Said
  <2>4. history' = history \o <<m, o>>
    BY <2>2
  <2> HIDE DEF m, o
  <2>5. history' = Append(Append(history, m), o)
    BY <1>n, <1>t, <2>3, <2>4
  <2> DEFINE h == Append(history, m)
  <2>6. h \in Seq(Message) /\ OnlyQuoted(h) /\ (enabled => quotes \/ NoGrok(h))
    BY <1>a, <1>n, <1>t, <2>1, <2>3, Grew
  <2> HIDE DEF h
  <2>7. history' = Append(h, o)
    BY <2>5 DEF h
  <2>8. history' \in Seq(Message) /\ OnlyQuoted(history') /\ (enabled => quotes \/ NoGrok(history'))
    BY <1>a, <2>3, <2>6, <2>7, Grew
  <2>9. enabled => NativeCompactionKind(history') = None \/ (NativeCompactionKind(history') = "grok" /\ quotes)
    <3>1. /\ NativeCompactionKind(Append(h, o)) \in {"grok", None}
          /\ NoGrok(Append(h, o)) => NativeCompactionKind(Append(h, o)) = None
      BY <1>a, <2>3, <2>6, NothingAsked
    <3>2. QED
      BY <2>7, <2>8, <3>1
  <2>10. /\ asking' = "turn" /\ agent' = agent /\ enabled' = enabled /\ quotes' = quotes
         /\ answered' = [by |-> "upstream", for |-> asking, kind |-> None]
    BY <1>5 DEF UpstreamCalls
  <2>11. NativeCompactionKind(history)' = NativeCompactionKind(history')
    BY <1>k, <2>10
  <2>12. OnlyAskedIsAnswered'
    BY <2>10 DEF OnlyAskedIsAnswered
  <2>13. NativeTypeOK'
    BY <1>t, <2>8, <2>10 DEF NativeTypeOK, Message
  <2>14. QED
    BY <2>8, <2>9, <2>10, <2>11, <2>12, <2>13 DEF NativeInv
<1>6. CASE UNCHANGED nativeVars
  BY <1>6 DEF NativeInv, nativeVars, NativeTypeOK, OnlyQuoted, NoGrok, NativeCompactionKind,
              ClaudeCompactionRequest, CodexCompactPromptAtEnd, OnlyAskedIsAnswered
<1>7. QED
  BY <1>1, <1>2, <1>3, <1>4, <1>5, <1>6 DEF NativeNext

LEMMA NativeStart == NativeInit => NativeInv
<1> SUFFICES ASSUME NativeInit PROVE NativeInv
  OBVIOUS
<1>1. None # "gateway" /\ None # "turn" /\ None # "compaction"
  BY NativeReplyAssumption
<1>2. history = <<>> /\ asking = None /\ answered = [by |-> None, for |-> None, kind |-> None]
      /\ agent \in Agent /\ enabled \in BOOLEAN /\ quotes = FALSE
  BY DEF NativeInit, Nobody
<1>3. [by |-> None, for |-> None, kind |-> None]
        \in [by : {None, "gateway", "upstream"}, for : {None, "turn", "compaction"},
            kind : Agent \cup {None}]
  OBVIOUS
<1>4. <<>> \in Seq([role : {"user", "assistant", "tool"}, mark : Agent \cup {None}])
  OBVIOUS
<1>5. NativeTypeOK
  BY <1>2, <1>3, <1>4, Zenon DEF NativeTypeOK
<1>6. OnlyQuoted(history) /\ NoGrok(history)
  BY <1>2 DEF OnlyQuoted, NoGrok
<1>7. QED
  BY <1>1, <1>2, <1>5, <1>6 DEF NativeInv, OnlyAskedIsAnswered

(* A transcript is the answer to a request for one, whatever is quoted and *)
(* stays in the history (nativeCompactionKind of native_compact.go), with  *)
(* one exception: a turn is answered as Grok's compaction while a message  *)
(* of the user, his own or a summary, quotes Grok's marker.                *)
THEOREM TranscriptsAreAskedFor == NativeSpec => []OnlyAskedIsAnswered
<1>1. NativeInv => OnlyAskedIsAnswered
  BY DEF NativeInv
<1>2. QED
  BY <1>1, NativeStart, NativeStep, PTL DEF NativeSpec

-----------------------------------------------------------------------------
(* The published savings, for any series, any replies and any ledger.  A   *)
(* recorded run has a total only if no request that reached the upstream   *)
(* is left out of it, except those that were canceled before an answer; so *)
(* the total is what the answered ones told, which is what was billed for  *)
(* those that came to their end, and a published difference is one of two  *)
(* such totals.                                                            *)

UsageOver(es, S) == MapThenSumSet(LAMBDA i : es[i].usage, S)

(* Two sums over a set agree if their terms do.                            *)
LEMMA SameSum ==
  ASSUME NEW es, NEW S, \A i \in S : es[i].usage = Told(es[i])
  PROVE  UsageOver(es, S) = ToldOf(es, S)
<1> DEFINE U(g) == g = [s \in SUBSET S |-> IF s = {} THEN 0
                          ELSE es[CHOOSE x \in s : TRUE].usage + g[s \ {CHOOSE x \in s : TRUE}]]
           B(g) == g = [s \in SUBSET S |-> IF s = {} THEN 0
                          ELSE Told(es[CHOOSE x \in s : TRUE]) + g[s \ {CHOOSE x \in s : TRUE}]]
<1>1. \A s \in SUBSET S : s # {} =>
        es[CHOOSE x \in s : TRUE].usage = Told(es[CHOOSE x \in s : TRUE])
  OBVIOUS
<1>2. ASSUME NEW g PROVE U(g) <=> B(g)
  BY <1>1
<1>3. (CHOOSE g : U(g)) = (CHOOSE g : B(g))
  <2> HIDE DEF U, B
  <2>1. QED
    BY <1>2
<1>4. QED
  BY <1>3 DEF UsageOver, ToldOf, MapThenSumSet, MapThenFoldSet

(* What replies told that came to their end is what was billed for them.   *)
LEMMA WholeIsBilled ==
  ASSUME NEW es, NEW S, \A i \in S : ~es[i].short
  PROVE  ToldOf(es, S) = Billed(es, S)
<1> DEFINE U(g) == g = [s \in SUBSET S |-> IF s = {} THEN 0
                          ELSE Told(es[CHOOSE x \in s : TRUE]) + g[s \ {CHOOSE x \in s : TRUE}]]
           B(g) == g = [s \in SUBSET S |-> IF s = {} THEN 0
                          ELSE es[CHOOSE x \in s : TRUE].billed + g[s \ {CHOOSE x \in s : TRUE}]]
<1>1. \A s \in SUBSET S : s # {} =>
        Told(es[CHOOSE x \in s : TRUE]) = es[CHOOSE x \in s : TRUE].billed
  BY DEF Told
<1>2. ASSUME NEW g PROVE U(g) <=> B(g)
  BY <1>1
<1>3. (CHOOSE g : U(g)) = (CHOOSE g : B(g))
  <2> HIDE DEF U, B
  <2>1. QED
    BY <1>2
<1>4. QED
  BY <1>3 DEF ToldOf, Billed, MapThenSumSet, MapThenFoldSet

Events == Seq(Reply \cup {Unsettled})

(* The total of a run is what its answered requests told.                  *)
LEMMA TotalIsTold ==
  ASSUME NEW es \in Events, NEW verified, TaskTokens(es, verified) # None
  PROVE  TaskTokens(es, verified) = ToldOf(es, {i \in Upstream(es) : ~es[i].canceled})
<1> DEFINE replied == {i \in Upstream(es) : ~es[i].canceled}
<1>1. \A i \in DOMAIN es :
        /\ Complete(es[i]) => es[i].usage = Told(es[i])
        /\ es[i].canceled => es[i].usage = None
  <2>1. \A i \in DOMAIN es : es[i] \in Reply \cup {Unsettled}
    BY DEF Events
  <2>2. \A r \in Reply \cup {Unsettled} :
          /\ r.usage # None /\ ~r.partial /\ ~r.short => r.usage = r.billed
          /\ r.canceled => r.usage = None
    BY BenchAssumption, Zenon
  <2>3. QED
    BY <2>1, <2>2 DEF Complete, Told
<1>2. /\ TaskTokens(es, verified) = Used(es, Upstream(es))
      /\ ~MeterFails(es) \/ Reconciles(es)
  BY DEF TaskTokens
<1>0. \A i \in DOMAIN es : es[i].canceled => es[i].usage = None
  BY <1>1
<1>3. Upstream(es) \cap Metered(es) = replied
  <2>1. CASE ~MeterFails(es)
    <3>1. \A i \in Upstream(es) : Complete(es[i])
      BY <2>1, Zenon DEF MeterFails, Incomplete
    <3>2. QED
      BY <1>0, <3>1 DEF Metered, Upstream, Inference, Complete
  <2>2. CASE Reconciles(es)
    <3>1. \A i \in Incomplete(es) : es[i].usage = None /\ es[i].canceled
      BY <2>2 DEF Reconciles, OnlyUsageMissing, Unreported, CanceledUnreported
    <3>2. \A i \in Upstream(es) : Complete(es[i]) \/ (es[i].usage = None /\ es[i].canceled)
      BY <3>1, Zenon DEF Incomplete
    <3>3. QED
      BY <1>0, <3>2 DEF Metered, Upstream, Inference, Complete
  <2>3. QED
    BY <1>2, <2>1, <2>2
<1>4. \A i \in replied : es[i].usage = Told(es[i])
  BY <1>1, <1>3 DEF Metered, Inference
<1>5. Used(es, Upstream(es)) = UsageOver(es, replied)
  BY <1>3 DEF Used, UsageOver
<1> HIDE DEF replied
<1>6. UsageOver(es, replied) = ToldOf(es, replied)
  BY <1>4, SameSum
<1>7. QED
  BY <1>2, <1>5, <1>6 DEF replied

(* The verifier's lines are worth a success only if no check failed.       *)
LEMMA SolvedIsAchieved ==
  ASSUME NEW read \in 0 .. Checks + 1, NEW failed \in SUBSET (1 .. Checks), Solved(read, failed)
  PROVE  failed = {}
<1>1. Checks \in Nat /\ 0 < Checks /\ Cardinality(1 .. (read - 1) \ failed) = Checks
  <2>1. {RequestMax, Checks} \subseteq Nat
    BY BenchAssumption, Zenon
  <2>2. QED
    BY <2>1 DEF Solved
<1>2. IsFiniteSet(1 .. Checks) /\ Cardinality(1 .. Checks) = Checks
  BY <1>1, FS_Interval
<1>3. 1 .. (read - 1) \ failed \in SUBSET (1 .. Checks)
  BY <1>1
<1>4. 1 .. (read - 1) \ failed = 1 .. Checks
  BY <1>1, <1>2, <1>3, FS_Subset
<1>5. QED
  BY <1>4

-----------------------------------------------------------------------------
(* Savings                                                                 *)

(* A recorded run has no total but the one its replies told, which is its  *)
(* bill if they were whole, and no success that it did not achieve.        *)
Sound(run) ==
  /\ run.tokens # None => run.tokens = run.told
  /\ run.whole => run.told = run.billed
  /\ run.success => run.achieved

IsSeq(s) == s \in Seq({s[i] : i \in DOMAIN s})

RunsSound == IsSeq(runs) /\ \A i \in DOMAIN runs : Sound(runs[i])

BenchInv ==
  /\ events \in Events
  /\ RunsSound
  /\ NoInventedSavings

(* A sequence of whatever stays one when something is appended.            *)
LEMMA AppendIsSeq ==
  ASSUME NEW s, IsSeq(s), NEW x
  PROVE  /\ IsSeq(Append(s, x))
         /\ \A i \in DOMAIN Append(s, x) : Append(s, x)[i] = x \/ \E j \in DOMAIN s : Append(s, x)[i] = s[j]
<1> DEFINE T == {s[i] : i \in DOMAIN s} \cup {x}
           t == Append(s, x)
<1>1. s \in Seq(T) /\ t \in Seq(T) /\ Len(s) \in Nat /\ DOMAIN s = 1 .. Len(s)
  BY DEF IsSeq
<1>2. /\ Len(t) = Len(s) + 1 /\ DOMAIN t = 1 .. Len(t)
      /\ \A i \in DOMAIN s : t[i] = s[i]
      /\ t[Len(t)] = x
  BY <1>1
<1> HIDE DEF t
<1>3. \A i \in DOMAIN t : i \in DOMAIN s \/ i = Len(t)
  BY <1>1, <1>2
<1>4. {t[i] : i \in DOMAIN t} = T
  BY <1>1, <1>2, <1>3
<1>5. QED
  BY <1>1, <1>2, <1>3, <1>4 DEF IsSeq, t

(* The latest of at most one run is that run.                              *)
LEMMA LatestIsARun ==
  ASSUME IsSeq(runs), NEW mode, NEW rep, Cardinality(RunsOf(runs, mode, rep)) <= 1,
         Latest(runs, mode, rep) # None
  PROVE  \E i \in DOMAIN runs : Latest(runs, mode, rep) = runs[i]
<1> DEFINE S == RunsOf(runs, mode, rep)
<1>1. DOMAIN runs = 1 .. Len(runs) /\ Len(runs) \in Nat
  BY DEF IsSeq
<1>2. S \in SUBSET (1 .. Len(runs)) /\ S # {} /\ Latest(runs, mode, rep) = runs[Max(S)]
  BY <1>1 DEF RunsOf, Latest
<1>3. IsFiniteSet(S)
  <2>1. IsFiniteSet(1 .. Len(runs))
    BY <1>1, FS_Interval
  <2>2. QED
    BY <1>2, <2>1, FS_Subset
<1>4. Cardinality(S) = 1
  BY <1>2, <1>3, FS_CardinalityType, FS_EmptySet
<1>5. PICK i : S = {i}
  BY <1>3, <1>4, FS_Singleton
<1>6. i \in 1 .. Len(runs)
  BY <1>2, <1>5
<1> HIDE DEF S
<1>7. Max(S) = i
  BY <1>5, <1>6 DEF Max
<1>8. QED
  BY <1>1, <1>2, <1>6, <1>7 DEF S

(* A pair of sound runs is published with the difference of what they told.*)
LEMMA PublishedIsSound ==
  ASSUME RunsSound, NEW row \in BuildComparisons(runs), row.saved # None
  PROVE  /\ row.off.achieved /\ row.on.achieved
         /\ row.saved = row.off.told - row.on.told
         /\ row.off.whole /\ row.on.whole => row.saved = row.off.billed - row.on.billed
         /\ \E i, j \in DOMAIN runs : row.off = runs[i] /\ row.on = runs[j]
<1>1. PICK rep : row = LET off  == Latest(runs, "off", rep)
                           on   == Latest(runs, "on", rep)
                           once == \A mode \in {"on", "off", "direct"} :
                                     Cardinality(RunsOf(runs, mode, rep)) <= 1
                       IN [rep |-> rep, off |-> off, on |-> on,
                           saved |-> IF once /\ Comparable(off, on)
                                       THEN off.tokens - on.tokens ELSE None]
  BY Zenon DEF BuildComparisons
<1> DEFINE off == Latest(runs, "off", rep)
           on == Latest(runs, "on", rep)
<1>2. /\ row.off = off /\ row.on = on
      /\ \A mode \in {"on", "off", "direct"} : Cardinality(RunsOf(runs, mode, rep)) <= 1
      /\ Comparable(off, on) /\ row.saved = off.tokens - on.tokens
  BY <1>1
<1>3. off # None /\ on # None
  BY <1>2 DEF Comparable
<1>4. PICK i \in DOMAIN runs : off = runs[i]
  BY <1>2, <1>3, LatestIsARun DEF RunsSound
<1>5. PICK j \in DOMAIN runs : on = runs[j]
  BY <1>2, <1>3, LatestIsARun DEF RunsSound
<1>6. Sound(off) /\ Sound(on)
  BY <1>4, <1>5 DEF RunsSound
<1> HIDE DEF off, on
<1>7. QED
  BY <1>2, <1>4, <1>5, <1>6 DEF Comparable, Sound

(* What is recorded of a run is sound.                                     *)
LEMMA RecordIsSound ==
  ASSUME events \in Events, NEW s, NEW ledger, NEW read \in 0 .. Checks + 1,
         NEW failed \in SUBSET (1 .. Checks)
  PROVE  Sound(Record(s, events, ledger, read, failed))
<1> DEFINE verified == IF s.mode = "direct" THEN None ELSE HostModel(events, ledger)
           run == Record(s, events, ledger, read, failed)
           counted == {i \in Upstream(events) : ~events[i].canceled}
<1>1. /\ run.tokens = IF s.mode = "direct" THEN None ELSE TaskTokens(events, verified)
      /\ run.billed = Billed(events, counted)
      /\ run.told = ToldOf(events, counted)
      /\ run.whole = \A i \in counted : ~events[i].short
      /\ run.success = (clean /\ Solved(read, failed))
      /\ run.achieved = (failed = {})
  BY DEF Record
<1>2. run.tokens # None => run.tokens = run.told
  BY <1>1, TotalIsTold
<1>3. run.success => run.achieved
  BY <1>1, SolvedIsAchieved
<1>4. run.whole => run.told = run.billed
  <2> HIDE DEF counted, run
  <2>1. QED
    BY <1>1, WholeIsBilled
<1>5. QED
  BY <1>2, <1>3, <1>4 DEF Sound

LEMMA BenchStep == BenchInv /\ [BenchNext]_benchVars => BenchInv'
<1> SUFFICES ASSUME BenchInv, [BenchNext]_benchVars PROVE BenchInv'
  OBVIOUS
<1> USE DEF BenchInv
<1>e. <<>> \in Events
  BY DEF Events
<1>1. CASE StartRun
  BY <1>1, <1>e DEF StartRun, RunsSound, NoInventedSavings
<1>2. CASE Request
  <2>1. events' \in Events
    BY <1>2 DEF Request, Events
  <2>2. QED
    BY <1>2, <2>1 DEF Request, RunsSound, NoInventedSavings
<1>3. ASSUME NEW i \in DOMAIN events, NEW reply \in Reply, Settle(i, reply) PROVE BenchInv'
  <2>1. events' \in Events
    BY <1>3 DEF Settle, Events
  <2>2. QED
    BY <1>3, <2>1 DEF Settle, RunsSound, NoInventedSavings
<1>4. ASSUME NEW fine \in BOOLEAN, AgentEnds(fine) PROVE BenchInv'
  BY <1>4 DEF AgentEnds, RunsSound, NoInventedSavings
<1>5. ASSUME NEW ledger \in Ledgers, NEW read \in 0 .. (Checks + 1),
             NEW failed \in SUBSET (1 .. Checks), RecordRun(ledger, read, failed)
      PROVE  BenchInv'
  <2> DEFINE run == Record(Plan[step], events, ledger, read, failed)
  <2>1. Sound(run)
    BY RecordIsSound
  <2>2. runs' = Append(runs, run) /\ events' = <<>> /\ published' = published
    BY <1>5 DEF RecordRun
  <2> HIDE DEF run
  <2>3. RunsSound'
    BY <2>1, <2>2, AppendIsSeq DEF RunsSound
  <2>4. QED
    BY <1>e, <2>2, <2>3 DEF NoInventedSavings
<1>6. CASE WriteComparison
  <2>1. published' = BuildComparisons(runs) /\ runs' = runs /\ events' = events
    BY <1>6 DEF WriteComparison
  <2>2. QED
    BY <2>1, PublishedIsSound DEF RunsSound, NoInventedSavings
<1>7. CASE Stop
  BY <1>7, <1>e DEF Stop, RunsSound, NoInventedSavings
<1>8. CASE UNCHANGED benchVars
  BY <1>8 DEF benchVars, RunsSound, NoInventedSavings
<1>9. QED
  BY <1>1, <1>2, <1>3, <1>4, <1>5, <1>6, <1>7, <1>8 DEF BenchNext

(* Savings are published only for two runs that solved the task, and they  *)
(* are the difference of what their answered requests told the proxy,      *)
(* which is what was billed if none of those replies broke off, for any    *)
(* replies, ledgers and losses of the verifier's output (report.go,        *)
(* comparison.json).                                                       *)
THEOREM SavingsAreBilled == BenchSpec => []NoInventedSavings
<1>1. BenchInit => BenchInv
  BY DEF BenchInit, BenchInv, Events, RunsSound, IsSeq, NoInventedSavings
<1>2. BenchInv => NoInventedSavings
  BY DEF BenchInv
<1>3. QED
  BY <1>1, <1>2, BenchStep, PTL DEF BenchSpec

-----------------------------------------------------------------------------
(* The taps, for every body of the shapes TapAssumption names, of any      *)
(* length, cut into any chunks and broken off anywhere, and every limit.   *)
(* An event stream on the wire is at a place after each piece: between     *)
(* lines, within one, at its end or behind its line break. A tap that hit  *)
(* no limit is at the same place, wherever the chunks ended, and the place *)
(* says what its buffers hold and what they are still worth. Of any other  *)
(* body it holds all that came so far. What came before a stream was found *)
(* to be one is no part of that: a tap that begins within a line reads it  *)
(* over to its break. The library's induction cannot be used here;         *)
(* recursion over positions is a lemma of its own.                         *)

Piece == {Break} \cup {Half(x, n) : x \in Unit, n \in {1, 2}}

Values == {None} \cup {UsageOf[x] : x \in Unit} \cup {EditsOf[x] : x \in Unit}

Tap == [sse : BOOLEAN, connect : BOOLEAN, of : {UsageOf, EditsOf}, bounded : BOOLEAN,
        raw : Seq(Piece), line : Seq(Piece), event : Seq(Piece), value : Values,
        limit : {"", "json_limit", "sse_limit", "sse_event_limit", "connect_limit"},
        finish : {"", "error", "incomplete"}]

(* What the constants say of the units.                                    *)
LEMMA UnitsAre ==
  /\ TapMax \in Nat /\ None \notin Unit
  /\ \A of \in {UsageOf, EditsOf} :
       /\ \A x \in Unit : of[x] # None => x \notin Big
       /\ \A x \in Unit : SortOf[x] \in {"event", "done"} => of[x] = None
       /\ \A x \in Unit : of[x] \in Values
  /\ \A x \in Big : SortOf[x] \in {"doc", "data"}
  /\ \A x \in SaysData : SortOf[x] \in {"doc", "data"}
  /\ \A x \in Unit : SortOf[x] \in {"frame", "trailer", "failure"} => EditsOf[x] = None
BY TapAssumption DEF Values

LEMMA PiecesAre ==
  /\ \A x, y \in Unit, m, n \in {1, 2} : Half(x, m) = Half(y, n) <=> x = y /\ m = n
  /\ \A x \in Unit, n \in {1, 2} : /\ Half(x, n) # Break /\ Half(x, n) \in Piece
                                   /\ Half(x, n).unit = x /\ Half(x, n).half = n
  /\ Break \in Piece /\ Break.half = 0 /\ Break.unit = None
  /\ \A b \in Piece : b = Break \/ \E x \in Unit, n \in {1, 2} : b = Half(x, n)
<1>1. \A x, y \in Unit, m, n \in {1, 2} : Half(x, m) = Half(y, n) <=> x = y /\ m = n
  BY DEF Half
<1>2. Break.half = 0 /\ Break.unit = None
  BY DEF Half, Break
<1>3. \A x \in Unit, n \in {1, 2} : Half(x, n).unit = x /\ Half(x, n).half = n
  BY DEF Half
<1>4. QED
  BY <1>1, <1>2, <1>3 DEF Piece

LEMMA WholesAre ==
  /\ \A x \in Unit : /\ Whole(x) \in Seq(Piece) /\ Len(Whole(x)) = 2
                     /\ Whole(x)[1] = Half(x, 1) /\ Whole(x)[2] = Half(x, 2)
                     /\ Head(Whole(x)) = Half(x, 1)
  /\ \A x, y \in Unit : Whole(x) = Whole(y) => x = y
<1>1. \A x \in Unit : Half(x, 1) \in Piece /\ Half(x, 2) \in Piece
  BY PiecesAre
<1>2. \A x \in Unit : /\ Whole(x) \in Seq(Piece) /\ Len(Whole(x)) = 2
                      /\ Whole(x)[1] = Half(x, 1) /\ Whole(x)[2] = Half(x, 2)
                      /\ Head(Whole(x)) = Half(x, 1)
  BY <1>1 DEF Whole
<1>3. ASSUME NEW x \in Unit, NEW y \in Unit, Whole(x) = Whole(y) PROVE x = y
  BY <1>2, <1>3, PiecesAre
<1>4. QED
  BY <1>2, <1>3

LEMMA WholeIs ==
  ASSUME NEW s \in Seq(Piece), Len(s) = 2, NEW x \in Unit
  PROVE  s = Whole(x) <=> s[1] = Half(x, 1) /\ s[2] = Half(x, 2)
<1> DEFINE t == Whole(x)
<1>1. t \in Seq(Piece) /\ Len(t) = 2 /\ t[1] = Half(x, 1) /\ t[2] = Half(x, 2)
  BY WholesAre
<1> HIDE DEF t
<1>2. ASSUME s[1] = Half(x, 1), s[2] = Half(x, 2) PROVE s = t
  <2>1. \A i \in 1 .. 2 : s[i] = t[i]
    BY <1>1, <1>2
  <2>2. QED
    BY <1>1, <2>1
<1>3. s = t <=> s[1] = Half(x, 1) /\ s[2] = Half(x, 2)
  BY <1>1, <1>2
<1>4. QED
  BY <1>3 DEF t

-----------------------------------------------------------------------------
(* Induction and recursion over the positions of a sequence                *)

(* Induction over 0 .. K, for a set of positions.                          *)
LEMMA Induct ==
  ASSUME NEW K \in Nat, NEW S, 0 \in S, \A n \in 0 .. K : n < K /\ n \in S => n + 1 \in S
  PROVE  \A n \in 0 .. K : n \in S
<1> DEFINE bad == {n \in 0 .. K : n \notin S}
<1>1. bad \in SUBSET Nat
  OBVIOUS
<1>2. SUFFICES ASSUME bad # {} PROVE FALSE
  OBVIOUS
<1>3. PICK k \in bad : \A m \in bad : k <= m
  BY <1>1, <1>2, LeastExists
<1>4. k \in 0 .. K /\ k \notin S /\ k # 0
  BY <1>3
<1>5. k - 1 \in 0 .. K /\ k - 1 < K /\ k - 1 \in Nat /\ ~ (k <= k - 1) /\ (k - 1) + 1 = k
  BY <1>4
<1>6. k - 1 \notin bad
  BY <1>3, <1>5
<1>7. k - 1 \in S
  BY <1>5, <1>6
<1>8. QED
  BY <1>4, <1>5, <1>7

(* The states a step passes through on the way from position 0 to K.       *)
Steps(f, K, S, s, advance) ==
  f \in [0 .. K -> S] /\ f[0] = s /\ \A n \in 1 .. K : f[n] = advance[n][f[n - 1]]

Stepper(K, S, advance) == K \in Nat /\ advance \in [1 .. K -> [S -> S]]

(* A step that stays in S can be taken any number of times.                *)
LEMMA StepsExist ==
  ASSUME NEW K, NEW S, NEW s \in S, NEW advance, Stepper(K, S, advance)
  PROVE  \E f : Steps(f, K, S, s, advance)
<1>0. K \in Nat /\ advance \in [1 .. K -> [S -> S]]
  BY DEF Stepper
<1> DEFINE Upto(f, k) == /\ f \in [0 .. k -> S] /\ f[0] = s
                       /\ \A n \in 1 .. k : f[n] = advance[n][f[n - 1]]
           good == {k \in 0 .. K : \E f : Upto(f, k)}
<1>1. 0 \in good
  <2>1. Upto([n \in 0 .. 0 |-> s], 0)
    OBVIOUS
  <2> HIDE DEF Upto
  <2>2. 0 \in 0 .. K /\ \E f : Upto(f, 0)
    BY <1>0, <2>1
  <2>3. QED
    BY <1>0, <2>2
<1>2. ASSUME NEW k \in 0 .. K, k < K, k \in good PROVE k + 1 \in good
  <2>1. PICK f : Upto(f, k)
    BY <1>0, <1>2
  <2> DEFINE g == [n \in 0 .. k + 1 |-> IF n <= k THEN f[n] ELSE advance[k + 1][f[k]]]
  <2>2. k \in 0 .. k /\ k + 1 \in 1 .. K /\ k + 1 \in 0 .. K /\ k \in Nat /\ f[k] \in S
    BY <1>0, <2>1, <1>2
  <2>3. advance[k + 1][f[k]] \in S
    BY <1>0, <2>2
  <2>4. g \in [0 .. k + 1 -> S]
    BY <2>1, <2>2, <2>3
  <2>5. g[0] = s
    BY <2>1, <2>2
  <2>6. ASSUME NEW n \in 1 .. k + 1 PROVE g[n] = advance[n][g[n - 1]]
    <3>1. n - 1 \in 0 .. k + 1 /\ n \in 0 .. k + 1 /\ g[n - 1] = f[n - 1]
      BY <2>2, <2>6
    <3>2. CASE n <= k
      <4>1. n \in 1 .. k /\ g[n] = f[n]
        BY <3>1, <3>2, <2>2
      <4>2. QED
        BY <4>1, <3>1, <2>1
    <3>3. CASE n = k + 1
      <4>1. g[n] = advance[k + 1][f[k]] /\ n - 1 = k
        BY <3>1, <3>3, <2>2
      <4>2. QED
        BY <4>1, <3>1, <3>3
    <3>4. QED
      BY <3>2, <3>3, <2>2, <2>6
  <2> HIDE DEF g
  <2>7. Upto(g, k + 1)
    BY <2>4, <2>5, <2>6
  <2>8. QED
    BY <2>7, <2>2
<1> HIDE DEF good
<1>3. \A k \in 0 .. K : k \in good
  BY <1>0, <1>1, <1>2, Induct
<1>4. K \in good
  BY <1>0, <1>3
<1>5. QED
  BY <1>4 DEF good, Steps

-----------------------------------------------------------------------------
(* What a body looks like on the wire                                      *)

LEMMA AtLengthIs ==
  ASSUME NEW x \in Unit
  PROVE  LET xs == AtLength(x)
         IN /\ xs \in Seq(Piece) /\ Len(xs) >= 2 /\ (Len(xs) > 2 => x \in Big)
            /\ xs[1] = Half(x, 1) /\ \A i \in 2 .. Len(xs) : xs[i] = Half(x, 2)
<1> DEFINE more == [i \in 1 .. TapMax |-> Half(x, 2)]
           whole == Whole(x)
<1>1. /\ whole \in Seq(Piece) /\ Len(whole) = 2 /\ whole[1] = Half(x, 1) /\ whole[2] = Half(x, 2)
  BY WholesAre
<1>2. TapMax \in Nat /\ Half(x, 2) \in Piece
  BY UnitsAre, PiecesAre
<1>3. more \in Seq(Piece) /\ Len(more) = TapMax /\ \A i \in 1 .. TapMax : more[i] = Half(x, 2)
  BY <1>2
<1> HIDE DEF more, whole
<1>4. CASE x \in Big
  <2>1. AtLength(x) = whole \o more
    BY <1>4 DEF AtLength, whole, more
  <2>2. /\ whole \o more \in Seq(Piece) /\ Len(whole \o more) = 2 + TapMax
        /\ \A i \in 1 .. 2 + TapMax : (whole \o more)[i] = IF i <= 2 THEN whole[i] ELSE more[i - 2]
    <3>1. /\ whole \o more \in Seq(Piece) /\ Len(whole \o more) = Len(whole) + Len(more)
          /\ \A i \in 1 .. Len(whole) + Len(more) :
               (whole \o more)[i] = IF i <= Len(whole) THEN whole[i] ELSE more[i - Len(whole)]
      BY <1>1, <1>3, ConcatProperties, Zenon
    <3>2. QED
      BY <1>1, <1>3, <3>1
  <2>3. (whole \o more)[1] = Half(x, 1)
    BY <1>1, <1>2, <2>2
  <2>4. ASSUME NEW i \in 2 .. 2 + TapMax PROVE (whole \o more)[i] = Half(x, 2)
    <3>1. CASE i = 2
      BY <1>1, <1>2, <2>2, <3>1
    <3>2. CASE i # 2
      <4>1. i \in 1 .. 2 + TapMax /\ ~ (i <= 2) /\ i - 2 \in 1 .. TapMax
        BY <1>2, <3>2
      <4>2. QED
        BY <1>3, <2>2, <4>1
    <3>3. QED
      BY <3>1, <3>2
  <2>5. QED
    BY <1>2, <1>4, <2>1, <2>2, <2>3, <2>4
<1>5. CASE x \notin Big
  <2>1. AtLength(x) = whole
    BY <1>5 DEF AtLength, whole
  <2>2. ASSUME NEW i \in 2 .. Len(whole) PROVE whole[i] = Half(x, 2)
    <3>1. i = 2
      BY <1>1
    <3>2. QED
      BY <1>1, <3>1
  <2>3. Len(whole) >= 2 /\ ~ (Len(whole) > 2)
    BY <1>1
  <2>4. QED
    BY <1>1, <2>1, <2>2, <2>3, Zenon
<1>6. QED
  BY <1>4, <1>5

LEMMA OfUnitIs ==
  ASSUME NEW x \in Unit
  PROVE  LET xs == AtLength(x) n == Len(xs) + IF SortOf[x] \in {"data", "done"} THEN 2
                                              ELSE IF SortOf[x] = "event" THEN 1 ELSE 0
         IN /\ OfUnit(x) \in Seq(Piece) /\ Len(OfUnit(x)) = n
            /\ OfUnit(x)[1] = Half(x, 1)
            /\ \A i \in 2 .. Len(xs) : OfUnit(x)[i] = Half(x, 2)
            /\ \A i \in Len(xs) + 1 .. n : OfUnit(x)[i] = Break
<1> DEFINE xs == AtLength(x)
<1>1. /\ xs \in Seq(Piece) /\ Len(xs) >= 2 /\ xs[1] = Half(x, 1) /\ Len(xs) \in Nat
      /\ \A i \in 2 .. Len(xs) : xs[i] = Half(x, 2)
  BY AtLengthIs
<1>2. Break \in Piece
  BY PiecesAre
<1>3. CASE SortOf[x] \in {"data", "done"}
  <2>1. OfUnit(x) = xs \o <<Break, Break>>
    BY <1>3 DEF OfUnit
  <2> HIDE DEF xs
  <2>2. QED
    BY <1>1, <1>2, <1>3, <2>1 DEF xs
<1>4. CASE SortOf[x] = "event"
  <2>1. OfUnit(x) = xs \o <<Break>>
    BY <1>4 DEF OfUnit
  <2> HIDE DEF xs
  <2>2. QED
    BY <1>1, <1>2, <1>4, <2>1 DEF xs
<1>5. CASE SortOf[x] \notin {"data", "done", "event"}
  <2>1. OfUnit(x) = xs
    BY <1>5 DEF OfUnit
  <2> HIDE DEF xs
  <2>2. QED
    BY <1>1, <1>5, <2>1 DEF xs
<1>6. QED
  BY <1>3, <1>4, <1>5

LEMMA BodiesAre ==
  ASSUME NEW b \in Bodies
  PROVE  /\ b.units \in Seq(Unit) /\ Len(b.units) \in Nat
         /\ \A i \in 1 .. Len(b.units) : b.units[i] \in Unit
         /\ Document(b) \/ EventStream(b) \/ ConnectBody(b)
BY TapAssumption

(* The wire, unit by unit.                                                 *)
LEMMA WireIs ==
  ASSUME NEW b \in Bodies
  PROVE  \E flow \in [0 .. Len(b.units) -> Seq(Piece)] :
           /\ flow[0] = <<>>
           /\ \A n \in 1 .. Len(b.units) : flow[n] = flow[n - 1] \o OfUnit(b.units[n])
           /\ OnWire(b) = flow[Len(b.units)]
<1> DEFINE K == Len(b.units)
           F(f) == [n \in 0 .. K |-> IF n = 0 THEN <<>> ELSE f[n - 1] \o OfUnit(b.units[n])]
           advance == [n \in 1 .. K |-> [w \in Seq(Piece) |-> w \o OfUnit(b.units[n])]]
<1>1. K \in Nat /\ \A n \in 1 .. K : OfUnit(b.units[n]) \in Seq(Piece)
  BY BodiesAre, OfUnitIs
<1>2. advance \in [1 .. K -> [Seq(Piece) -> Seq(Piece)]]
  BY <1>1
<1>3. <<>> \in Seq(Piece)
  OBVIOUS
<1> HIDE DEF K, advance
<1>4. PICK f : Steps(f, K, Seq(Piece), <<>>, advance)
  <2>1. Stepper(K, Seq(Piece), advance)
    BY <1>1, <1>2 DEF Stepper
  <2>2. QED
    BY <1>3, <2>1, StepsExist
<1>5. \A n \in 1 .. K : f[n] = f[n - 1] \o OfUnit(b.units[n])
  <2>1. ASSUME NEW n \in 1 .. K PROVE f[n] = f[n - 1] \o OfUnit(b.units[n])
    <3>1. f[n - 1] \in Seq(Piece)
      BY <1>1, <1>4 DEF Steps
    <3>2. advance[n][f[n - 1]] = f[n - 1] \o OfUnit(b.units[n])
      BY <3>1 DEF advance
    <3>3. QED
      BY <1>4, <3>2 DEF Steps
  <2>2. QED
    BY <2>1
<1>6. f = F(f)
  <2>1. \A n \in 0 .. K : n # 0 => n \in 1 .. K
    BY <1>1
  <2>2. QED
    BY <1>4, <1>5, <2>1 DEF Steps
<1> DEFINE flow == CHOOSE w : w = F(w)
<1>7. flow = F(flow) /\ OnWire(b) = flow[K]
  <2>1. flow = F(flow)
    BY <1>6
  <2>2. OnWire(b) = flow[K]
    BY DEF OnWire, K
  <2>3. QED
    BY <2>1, <2>2
<1> HIDE DEF flow
<1>8. flow[0] = <<>> /\ \A n \in 1 .. K : flow[n] = flow[n - 1] \o OfUnit(b.units[n])
  <2>1. 0 \in 0 .. K /\ \A n \in 1 .. K : n \in 0 .. K /\ n # 0
    BY <1>1
  <2>2. QED
    BY <1>7, <2>1
<1> DEFINE typed == {n \in 0 .. K : flow[n] \in Seq(Piece)}
<1>9. \A n \in 0 .. K : n \in typed
  <2>1. 0 \in typed
    <3>1. 0 \in 0 .. K /\ flow[0] \in Seq(Piece)
      BY <1>1, <1>3, <1>8
    <3>2. QED
      BY <3>1
  <2>2. ASSUME NEW n \in 0 .. K, n < K, n \in typed PROVE n + 1 \in typed
    <3>1. n + 1 \in 1 .. K /\ n + 1 \in 0 .. K /\ (n + 1) - 1 = n
      BY <1>1, <2>2
    <3>2. flow[n + 1] = flow[n] \o OfUnit(b.units[n + 1])
      BY <1>8, <3>1
    <3>3. flow[n + 1] \in Seq(Piece)
      <4>1. flow[n] \in Seq(Piece) /\ OfUnit(b.units[n + 1]) \in Seq(Piece)
        BY <1>1, <2>2, <3>1
      <4>2. QED
        BY <3>2, <4>1
    <3>4. QED
      BY <3>1, <3>3
  <2> HIDE DEF typed
  <2>3. QED
    BY <1>1, <2>1, <2>2, Induct
<1>10. flow \in [0 .. K -> Seq(Piece)]
  BY <1>7, <1>9
<1>11. QED
  BY <1>7, <1>8, <1>10 DEF K

-----------------------------------------------------------------------------
(* The steps of a tap                                                      *)

(* What is held of the line of unit x once the unit is whole.              *)
Line(x, l) ==
  /\ l \in Seq(Piece) /\ Len(l) >= 2 /\ l[1] = Half(x, 1)
  /\ l = Whole(x) \/ (x \in Big /\ Len(l) > 2)

Or(new, old) == IF new # None THEN new ELSE old

(* Reading a piece of JSON finds what the unit it holds carries.           *)
LEMMA FoundIs ==
  ASSUME NEW tap \in Tap, NEW bytes \in Seq(Piece), NEW sort
  PROVE  /\ Found(tap, bytes, sort) \in Values
         /\ Len(bytes) # 2 => Found(tap, bytes, sort) = tap.value
         /\ \A x \in Unit : Line(x, bytes) /\ (SortOf[x] # sort => tap.of[x] = None)
                             => Found(tap, bytes, sort) = Or(tap.of[x], tap.value)
<1> DEFINE of == tap.of
<1>1. /\ tap.value \in Values
      /\ \A x \in Unit : of[x] \in Values /\ (of[x] # None => x \notin Big)
  <2>1. of \in {UsageOf, EditsOf} /\ tap.value \in Values
    BY DEF Tap
  <2> HIDE DEF of
  <2>2. QED
    BY <2>1, UnitsAre
<1> HIDE DEF of
<1>2. \A x \in Parsed(bytes, sort) : x \in Unit /\ bytes = Whole(x)
  BY DEF Parsed
<1>3. \A x, y \in Parsed(bytes, sort) : x = y
  BY <1>2, WholesAre
<1>4. Found(tap, bytes, sort) = IF \E x \in Parsed(bytes, sort) : of[x] # None
                          THEN of[CHOOSE x \in Parsed(bytes, sort) : TRUE] ELSE tap.value
  BY DEF Found, of
<1>5. \A x \in Parsed(bytes, sort) : Found(tap, bytes, sort) = Or(of[x], tap.value)
  <2>1. ASSUME NEW x \in Parsed(bytes, sort) PROVE Found(tap, bytes, sort) = Or(of[x], tap.value)
    <3>1. (CHOOSE y \in Parsed(bytes, sort) : TRUE) = x
      BY <1>3
    <3>2. (\E y \in Parsed(bytes, sort) : of[y] # None) <=> of[x] # None
      BY <1>3
    <3>3. QED
      BY <1>4, <3>1, <3>2 DEF Or
  <2>2. QED
    BY <2>1
<1>6. Parsed(bytes, sort) = {} => Found(tap, bytes, sort) = tap.value
  BY <1>4
<1>7. Found(tap, bytes, sort) \in Values
  BY <1>1, <1>2, <1>5, <1>6 DEF Or
<1>8. ASSUME Len(bytes) # 2 PROVE Found(tap, bytes, sort) = tap.value
  <2>1. Parsed(bytes, sort) = {}
    BY <1>2, <1>8, WholesAre
  <2>2. QED
    BY <2>1, <1>6
<1>9. ASSUME NEW x \in Unit, Line(x, bytes), SortOf[x] # sort => of[x] = None
      PROVE  Found(tap, bytes, sort) = Or(of[x], tap.value)
  <2>1. CASE bytes = Whole(x)
    <3>1. CASE SortOf[x] # sort
      <4>1. \A y \in Parsed(bytes, sort) : y = x /\ SortOf[y] = sort
        BY <2>1, WholesAre DEF Parsed
      <4>2. Parsed(bytes, sort) = {}
        BY <3>1, <4>1
      <4>3. QED
        BY <4>2, <3>1, <1>6, <1>9 DEF Or
    <3>2. CASE SortOf[x] = sort
      <4>1. x \in Parsed(bytes, sort)
        BY <2>1, <3>2 DEF Parsed
      <4>2. QED
        BY <4>1, <1>5
    <3>3. QED
      BY <3>1, <3>2
  <2>2. CASE x \in Big /\ Len(bytes) > 2
    <3>1. of[x] = None
      BY <1>1, <2>2
    <3>2. Len(bytes) # 2
      <4>1. Len(bytes) \in Nat
        OBVIOUS
      <4>2. QED
        BY <4>1, <2>2
    <3>3. QED
      BY <3>1, <3>2, <1>8 DEF Or
  <2>3. QED
    BY <1>9, <2>1, <2>2 DEF Line
<1>10. QED
  BY <1>7, <1>8, <1>9 DEF of

(* What no byte changes: what the tap looks for, and that it hit a limit.  *)
Carries(old, new) ==
  /\ new.of = old.of /\ new.bounded = old.bounded /\ new.sse = old.sse
  /\ new.connect = old.connect /\ new.raw = old.raw /\ new.finish = old.finish
  /\ new.limit = "" => old.limit = ""

LEMMA FlushIs ==
  ASSUME NEW tap \in Tap
  PROVE  /\ Flush(tap) \in Tap /\ Carries(tap, Flush(tap))
         /\ Flush(tap).value = Found(tap, tap.event, "data") /\ Flush(tap).event = <<>>
         /\ Flush(tap).line = tap.line
<1>1. Found(tap, tap.event, "data") \in Values /\ <<>> \in Seq(Piece)
  <2>1. tap.event \in Seq(Piece)
    BY DEF Tap
  <2>2. QED
    BY <2>1, FoundIs
<1>2. QED
  BY <1>1 DEF Flush, Tap, Carries

LEMMA DataLineIs ==
  ASSUME NEW tap \in Tap
  PROVE  /\ DataLine(tap) \in Tap /\ Carries(tap, DataLine(tap))
         /\ DataLine(tap).value = tap.value /\ DataLine(tap).line = <<>>
         /\ DataLine(tap).limit = "" => DataLine(tap).event = tap.event \o tap.line
<1>1. tap.event \o tap.line \in Seq(Piece) /\ <<>> \in Seq(Piece)
  <2>1. tap.event \in Seq(Piece) /\ tap.line \in Seq(Piece)
    BY DEF Tap
  <2>2. QED
    BY <2>1
<1>2. QED
  BY <1>1 DEF DataLine, Tap, Carries

LEMMA ByteIs ==
  ASSUME NEW tap \in Tap, NEW b \in Piece
  PROVE  Byte(tap, b) \in Tap /\ Carries(tap, Byte(tap, b))
<1>1. CASE b # Break
  <2>1. Append(tap.line, b) \in Seq(Piece)
    <3>1. tap.line \in Seq(Piece)
      BY DEF Tap
    <3>2. QED
      BY <3>1
  <2>2. QED
    BY <1>1, <2>1 DEF Byte, Tap, Carries
<1>2. CASE b = Break /\ tap.line = <<>>
  <2>1. Byte(tap, b) = Flush(tap)
    BY <1>2 DEF Byte
  <2>2. QED
    BY <2>1, FlushIs
<1>3. CASE b = Break /\ tap.line # <<>> /\ MarkerAt(tap.line, 1, {"data", "done"})
  <2>1. Byte(tap, b) = DataLine(tap)
    BY <1>3 DEF Byte
  <2>2. QED
    BY <2>1, DataLineIs
<1>4. CASE b = Break /\ tap.line # <<>> /\ ~ MarkerAt(tap.line, 1, {"data", "done"})
  <2>1. Byte(tap, b) = [tap EXCEPT !.line = <<>>]
    BY <1>4 DEF Byte
  <2>2. <<>> \in Seq(Piece)
    OBVIOUS
  <2>3. QED
    BY <2>1, <2>2 DEF Tap, Carries
<1>5. QED
  BY <1>1, <1>2, <1>3, <1>4

(* Feeding a tap: one byte after the other, then the bound on a line.      *)
Fed(f, tap, p) ==
  /\ f \in [0 .. Len(p) -> Tap] /\ f[0] = tap
  /\ \A n \in 1 .. Len(p) : f[n] = Byte(f[n - 1], p[n])
  /\ FeedSSE(tap, p) = IF tap.limit # "" THEN tap
                       ELSE IF Len(f[Len(p)].line) > TapMax
                       THEN [f[Len(p)] EXCEPT !.limit = "sse_limit", !.line = <<>>]
                       ELSE f[Len(p)]

LEMMA FeedIs ==
  ASSUME NEW tap \in Tap, NEW p \in Seq(Piece)
  PROVE  \E f : Fed(f, tap, p)
<1> DEFINE K == Len(p)
           F(f) == [n \in 0 .. K |-> IF n = 0 THEN tap ELSE Byte(f[n - 1], p[n])]
           advance == [n \in 1 .. K |-> [t \in Tap |-> Byte(t, p[n])]]
<1>1. K \in Nat /\ \A n \in 1 .. K : p[n] \in Piece
  OBVIOUS
<1>2. advance \in [1 .. K -> [Tap -> Tap]]
  BY <1>1, ByteIs
<1> HIDE DEF K, advance
<1>3. PICK f : Steps(f, K, Tap, tap, advance)
  <2>1. Stepper(K, Tap, advance)
    BY <1>1, <1>2 DEF Stepper
  <2>2. QED
    BY <2>1, StepsExist
<1>4. \A n \in 1 .. K : f[n] = Byte(f[n - 1], p[n])
  <2>1. ASSUME NEW n \in 1 .. K PROVE f[n] = Byte(f[n - 1], p[n])
    <3>1. f[n - 1] \in Tap
      BY <1>1, <1>3 DEF Steps
    <3>2. advance[n][f[n - 1]] = Byte(f[n - 1], p[n])
      BY <3>1 DEF advance
    <3>3. QED
      BY <1>3, <3>2 DEF Steps
  <2>2. QED
    BY <2>1
<1>5. f = F(f)
  <2>1. \A n \in 0 .. K : n # 0 => n \in 1 .. K
    BY <1>1
  <2>2. QED
    BY <1>3, <1>4, <2>1 DEF Steps
<1> DEFINE upTo == CHOOSE w : w = F(w)
<1>6. upTo = F(upTo)
  BY <1>5
<1>7. FeedSSE(tap, p) = IF tap.limit # "" THEN tap
                        ELSE IF Len(upTo[K].line) > TapMax
                        THEN [upTo[K] EXCEPT !.limit = "sse_limit", !.line = <<>>]
                        ELSE upTo[K]
  BY DEF FeedSSE, K
<1> HIDE DEF upTo
<1>8. upTo[0] = tap /\ \A n \in 1 .. K : upTo[n] = Byte(upTo[n - 1], p[n])
  <2>1. 0 \in 0 .. K /\ \A n \in 1 .. K : n \in 0 .. K /\ n # 0
    BY <1>1
  <2>2. QED
    BY <1>6, <2>1
<1> DEFINE typed == {n \in 0 .. K : upTo[n] \in Tap}
<1>9. \A n \in 0 .. K : n \in typed
  <2>1. 0 \in typed
    BY <1>1, <1>8
  <2>2. ASSUME NEW n \in 0 .. K, n < K, n \in typed PROVE n + 1 \in typed
    <3>1. n + 1 \in 1 .. K /\ n + 1 \in 0 .. K /\ (n + 1) - 1 = n
      BY <1>1, <2>2
    <3>2. upTo[n + 1] = Byte(upTo[n], p[n + 1]) /\ upTo[n] \in Tap
      BY <1>8, <2>2, <3>1
    <3>3. upTo[n + 1] \in Tap
      BY <1>1, <3>1, <3>2, ByteIs
    <3>4. QED
      BY <3>1, <3>3
  <2> HIDE DEF typed
  <2>3. QED
    BY <1>1, <2>1, <2>2, Induct
<1>10. upTo \in [0 .. K -> Tap]
  BY <1>6, <1>9
<1>11. Fed(upTo, tap, p)
  BY <1>7, <1>8, <1>10 DEF Fed, K
<1>12. QED
  BY <1>11

-----------------------------------------------------------------------------
(* The newest value of a wire                                              *)

(* Where a unit that carries a value and begins after the first s pieces   *)
(* ends, within the first m.                                               *)
Ends(of, w, s, m) ==
  {n \in s + 2 .. m : \E x \in Unit : of[x] # None /\ w[n - 1] = Half(x, 1) /\ w[n] = Half(x, 2)}

V(of, w, s, m) ==
  LET ends == Ends(of, w, s, m)
  IN IF ends = {} THEN None ELSE of[w[CHOOSE n \in ends : \A k \in ends : k <= n].unit]

(* One more piece changes the newest value only if it ends such a unit.    *)
LEMMA VStep ==
  ASSUME NEW of, NEW w \in Seq(Piece), NEW m \in 0 .. Len(w), m < Len(w),
         NEW s \in 0 .. m
  PROVE  V(of, w, s, m + 1) =
           IF \E x \in Unit : m > s /\ w[m] = Half(x, 1) /\ w[m + 1] = Half(x, 2)
           THEN Or(of[w[m + 1].unit], V(of, w, s, m)) ELSE V(of, w, s, m)
<1> DEFINE old == Ends(of, w, s, m)
           new == Ends(of, w, s, m + 1)
           Here(x) == m > s /\ w[m] = Half(x, 1) /\ w[m + 1] = Half(x, 2)
<1>1. m \in Nat /\ s \in Nat /\ m + 1 \in Nat /\ (m + 1) - 1 = m
  OBVIOUS
<1>2. \A n : n \in new <=> n \in old \/ (n = m + 1 /\ \E x \in Unit : of[x] # None /\ Here(x))
  <2>1. \A n : n \in s + 2 .. m + 1 <=> n \in s + 2 .. m \/ (n = m + 1 /\ m > s)
    BY <1>1
  <2> DEFINE Full(n) == \E x \in Unit : of[x] # None /\ w[n - 1] = Half(x, 1) /\ w[n] = Half(x, 2)
  <2>2. \A n : (n \in new <=> n \in s + 2 .. m + 1 /\ Full(n)) /\ (n \in old <=> n \in s + 2 .. m /\ Full(n))
    BY DEF Ends
  <2>3. m > s => (Full(m + 1) <=> \E x \in Unit : of[x] # None /\ Here(x))
    BY <1>1
  <2>4. (\E x \in Unit : of[x] # None /\ Here(x)) => m > s
    OBVIOUS
  <2> HIDE DEF Full, Here, old, new
  <2>5. QED
    BY <2>1, <2>2, <2>3, <2>4
<1>3. \A n \in old : n < m + 1 /\ n \in Nat
  BY <1>1 DEF Ends
<1>4. \A x \in Unit : Here(x) => w[m + 1].unit = x
  BY PiecesAre
<1>5. V(of, w, s, m + 1) = IF new = {} THEN None ELSE of[w[CHOOSE n \in new : \A k \in new : k <= n].unit]
  BY DEF V
<1>6. V(of, w, s, m) = IF old = {} THEN None ELSE of[w[CHOOSE n \in old : \A k \in old : k <= n].unit]
  BY DEF V
<1> HIDE DEF old, new
<1>7. ASSUME ~ \E x \in Unit : of[x] # None /\ Here(x)
      PROVE  V(of, w, s, m + 1) = V(of, w, s, m)
  <2>1. new = old
    BY <1>2, <1>7
  <2>2. QED
    BY <2>1, <1>5, <1>6
<1>8. ASSUME NEW x \in Unit, of[x] # None, Here(x)
      PROVE  V(of, w, s, m + 1) = of[x]
  <2>1. m + 1 \in new
    BY <1>2, <1>8
  <2>2. \A k \in new : k \in Nat /\ k <= m + 1
    BY <1>1, <1>2, <1>3
  <2>3. \A n \in new : (\A k \in new : k <= n) <=> n = m + 1
    BY <1>1, <2>1, <2>2
  <2>4. (CHOOSE n \in new : \A k \in new : k <= n) = m + 1
    BY <2>1, <2>3
  <2>5. QED
    BY <1>4, <1>5, <1>8, <2>1, <2>4
<1> HIDE DEF Here
<1>9. CASE \E x \in Unit : Here(x)
  <2>1. PICK x \in Unit : Here(x)
    BY <1>9
  <2>2. w[m + 1].unit = x /\ \A y \in Unit : Here(y) => y = x
    BY <1>4, <2>1
  <2>3. V(of, w, s, m + 1) = Or(of[x], V(of, w, s, m))
    <3>1. CASE of[x] # None
      BY <1>8, <2>1, <3>1 DEF Or
    <3>2. CASE of[x] = None
      BY <1>7, <2>2, <3>2 DEF Or
    <3>3. QED
      BY <3>1, <3>2
  <2>4. QED
    BY <2>1, <2>2, <2>3 DEF Here
<1>10. CASE ~ \E x \in Unit : Here(x)
  BY <1>7, <1>10 DEF Here
<1>11. QED
  BY <1>9, <1>10

LEMMA VOfNothing ==
  ASSUME NEW of, NEW w, NEW s \in Nat
  PROVE  V(of, w, s, s) = None
<1>1. Ends(of, w, s, s) = {}
  <2>1. \A n \in s + 2 .. s : FALSE
    OBVIOUS
  <2>2. QED
    BY <2>1 DEF Ends
<1>2. QED
  BY <1>1 DEF V

LEMMA ReachedIs ==
  ASSUME NEW w \in Seq(Piece), w = OnWire(body), taken \in 0 .. Len(w), NEW n \in 1 .. taken, NEW x \in Unit
  PROVE  /\ Received[n] = w[n]
         /\ Reached(x, n) <=> n < taken /\ w[n] = Half(x, 1) /\ w[n + 1] = Half(x, 2)
<1>1. Len(w) \in Nat /\ taken \in Nat /\ taken <= Len(w) /\ n \in Nat
  OBVIOUS
<1>2. Received = SubSeq(w, 1, taken)
  BY DEF Received
<1>3. Received \in Seq(Piece) /\ Len(Received) = taken /\ \A i \in 1 .. taken : Received[i] = w[i]
  BY <1>1, <1>2
<1>4. CASE n < taken
  <2> DEFINE pair == SubSeq(Received, n, n + 1)
  <2>1. n + 1 \in 1 .. taken /\ n + 1 \in Nat
    BY <1>1, <1>4
  <2>2. /\ pair \in Seq(Piece) /\ Len(pair) = 2 /\ pair[1] = w[n] /\ pair[2] = w[n + 1]
    BY <1>1, <1>3, <1>4, <2>1
  <2> HIDE DEF pair
  <2>4. pair = Whole(x) <=> w[n] = Half(x, 1) /\ w[n + 1] = Half(x, 2)
    BY <2>2, WholeIs
  <2>5. QED
    BY <1>3, <1>4, <2>4 DEF Reached, pair
<1>5. QED
  BY <1>3, <1>4 DEF Reached

LEMMA NewestIs ==
  ASSUME NEW of, NEW w \in Seq(Piece), w = OnWire(body), taken \in 0 .. Len(w), NEW from \in 0 .. taken
  PROVE  Newest(of, from) = V(of, w, from, taken)
<1> DEFINE with == {n \in from + 1 .. taken : \E x \in Unit : of[x] # None /\ Reached(x, n)}
           ends == Ends(of, w, from, taken)
<1>1. Len(w) \in Nat /\ taken \in Nat /\ taken <= Len(w) /\ from \in Nat
  OBVIOUS
<1>2. \A n \in with : n \in Nat /\ n + 1 \in ends /\ Received[n].unit = w[n + 1].unit
  <2>1. ASSUME NEW n \in with
        PROVE  n \in Nat /\ n + 1 \in ends /\ Received[n].unit = w[n + 1].unit
    <3>1. n \in 1 .. taken /\ n \in Nat /\ n >= from + 1
      BY <1>1
    <3>2. PICK x \in Unit : of[x] # None /\ Reached(x, n)
      BY <2>1
    <3>3. n < taken /\ w[n] = Half(x, 1) /\ w[n + 1] = Half(x, 2) /\ Received[n] = w[n]
      BY <3>1, <3>2, ReachedIs
    <3>4. n + 1 \in from + 2 .. taken /\ (n + 1) - 1 = n
      BY <1>1, <3>1, <3>3
    <3>5. n + 1 \in ends
      BY <3>2, <3>3, <3>4 DEF Ends
    <3>6. QED
      BY <3>1, <3>3, <3>5, PiecesAre
  <2>2. QED
    BY <2>1
<1>3. \A n \in ends : n \in Nat /\ n - 1 \in with
  <2>1. ASSUME NEW n \in ends PROVE n \in Nat /\ n - 1 \in with
    <3>1. PICK x \in Unit : of[x] # None /\ w[n - 1] = Half(x, 1) /\ w[n] = Half(x, 2)
      BY <2>1 DEF Ends
    <3>2. n \in from + 2 .. taken
      BY <2>1 DEF Ends
    <3>3. n - 1 \in 1 .. taken /\ n - 1 \in from + 1 .. taken /\ n - 1 < taken /\ (n - 1) + 1 = n /\ n \in Nat
      BY <1>1, <3>2
    <3>4. Reached(x, n - 1)
      BY <3>1, <3>3, ReachedIs
    <3>5. QED
      BY <3>1, <3>3, <3>4
  <2>2. QED
    BY <2>1
<1>4. Newest(of, from) = IF with = {} THEN None
                   ELSE of[Received[CHOOSE n \in with : \A k \in with : k <= n].unit]
  BY DEF Newest
<1>5. V(of, w, from, taken) = IF ends = {} THEN None
                        ELSE of[w[CHOOSE n \in ends : \A k \in ends : k <= n].unit]
  BY DEF V
<1>6. ends \in SUBSET (from + 2 .. taken)
  BY DEF Ends
<1> HIDE DEF with, ends
<1>7. with = {} <=> ends = {}
  BY <1>2, <1>3
<1>8. CASE ends # {}
  <2>1. PICK top \in ends : \A k \in ends : k <= top
    <3>1. ends \in SUBSET (0 .. taken)
      BY <1>1, <1>6
    <3>2. QED
      BY <1>1, <1>8, <3>1, GreatestExists
  <2>2. (CHOOSE n \in ends : \A k \in ends : k <= n) = top
    <3>1. \A n \in ends : (\A k \in ends : k <= n) => n = top
      BY <1>3, <2>1
    <3>2. QED
      BY <2>1, <3>1
  <2>3. top - 1 \in with /\ \A k \in with : k <= top - 1
    BY <1>2, <1>3, <2>1
  <2>4. (CHOOSE n \in with : \A k \in with : k <= n) = top - 1
    <3>1. \A n \in with : (\A k \in with : k <= n) => n = top - 1
      BY <1>2, <1>3, <2>1, <2>3
    <3>2. QED
      BY <2>3, <3>1
  <2>5. Received[top - 1].unit = w[top].unit
    <3>1. (top - 1) + 1 = top
      BY <1>3, <2>1
    <3>2. QED
      BY <1>2, <2>3, <3>1
  <2>6. QED
    BY <1>4, <1>5, <1>7, <1>8, <2>2, <2>4, <2>5
<1>9. QED
  BY <1>4, <1>5, <1>7, <1>8

-----------------------------------------------------------------------------
(* An event stream on the wire: the place it has reached after each piece  *)

InStream(x) == x \in Unit /\ SortOf[x] \in {"event", "data", "done"}

(* Between lines, after the first half of unit x, after all of x and       *)
(* perhaps more of its length, or after its line break.                    *)
Place(here, x) == [at |-> here, unit |-> x]

First == Place("start", None)

(* The piece b takes a stream from one place to the next.                  *)
Moves(from, b, to) ==
  \/ from = First /\ \E x : InStream(x) /\ b = Half(x, 1) /\ to = Place("half", x)
  \/ \E x : /\ InStream(x) /\ b = Half(x, 2) /\ to = Place("whole", x)
            /\ from = Place("half", x) \/ (from = Place("whole", x) /\ x \in Big)
  \/ /\ b = Break
     /\ \E x : /\ InStream(x) /\ from = Place("whole", x)
               /\ to = IF SortOf[x] = "event" THEN First ELSE Place("ended", x)
  \/ b = Break /\ to = First /\ \E x : InStream(x) /\ SortOf[x] # "event" /\ from = Place("ended", x)

Places(w, pl) ==
  /\ pl[0] = First /\ pl[Len(w)] = First
  /\ \A n \in 1 .. Len(w) : Moves(pl[n - 1], w[n], pl[n])

LEMMA PlacesOfUnit ==
  ASSUME NEW x, InStream(x)
  PROVE  \E pl : Places(OfUnit(x), pl)
<1> DEFINE w == OfUnit(x)
           L == Len(AtLength(x))
           K == L + IF SortOf[x] = "event" THEN 1 ELSE 2
           pl == [n \in 0 .. K |-> IF n = 0 \/ n = K THEN First
                                   ELSE IF n = 1 THEN Place("half", x)
                                   ELSE IF n <= L THEN Place("whole", x)
                                   ELSE Place("ended", x)]
<1>1. /\ w \in Seq(Piece) /\ Len(w) = K /\ w[1] = Half(x, 1)
      /\ \A i \in 2 .. L : w[i] = Half(x, 2)
      /\ \A i \in L + 1 .. K : w[i] = Break
  <2>1. x \in Unit /\ SortOf[x] \in {"event", "data", "done"}
    BY DEF InStream
  <2>2. K = L + IF SortOf[x] \in {"data", "done"} THEN 2 ELSE IF SortOf[x] = "event" THEN 1 ELSE 0
    BY <2>1
  <2> HIDE DEF K, L, w
  <2>3. QED
    BY <2>1, <2>2, OfUnitIs DEF L, w
<1>2. L \in Nat /\ L >= 2 /\ (L > 2 => x \in Big)
  <2>1. x \in Unit
    BY DEF InStream
  <2>2. QED
    BY <2>1, AtLengthIs
<1> HIDE DEF w, L
<1>3. K \in Nat /\ K > L /\ (SortOf[x] = "event" => K = L + 1) /\ (SortOf[x] # "event" => K = L + 2)
  BY <1>2
<1> HIDE DEF K
<1>4. pl[0] = First /\ pl[K] = First
  BY <1>3
<1>5. ASSUME NEW n \in 1 .. K PROVE Moves(pl[n - 1], w[n], pl[n])
  <2>0. n \in Nat /\ n - 1 \in 0 .. K /\ n \in 0 .. K
    BY <1>3
  <2>1. CASE n = 1
    <3>1. pl[n - 1] = First /\ pl[n] = Place("half", x) /\ w[n] = Half(x, 1)
      BY <1>1, <1>2, <1>3, <2>0, <2>1
    <3> HIDE DEF pl
    <3>2. QED
      BY <3>1 DEF Moves
  <2>2. CASE n = 2
    <3>1. pl[n - 1] = Place("half", x) /\ pl[n] = Place("whole", x)
      BY <1>2, <1>3, <2>0, <2>2
    <3>2. w[n] = Half(x, 2)
      BY <1>1, <1>2, <2>2
    <3> HIDE DEF pl
    <3>3. QED
      BY <3>1, <3>2 DEF Moves
  <2>3. CASE n > 2 /\ n <= L
    <3>1. pl[n - 1] = Place("whole", x) /\ pl[n] = Place("whole", x) /\ x \in Big
      BY <1>2, <1>3, <2>0, <2>3
    <3>2. w[n] = Half(x, 2)
      BY <1>1, <1>2, <2>0, <2>3
    <3> HIDE DEF pl
    <3>3. QED
      BY <3>1, <3>2 DEF Moves
  <2>4. CASE n = L + 1
    <3>1. w[n] = Break
      BY <1>1, <1>2, <1>3, <2>4
    <3>2. pl[n - 1] = Place("whole", x)
      BY <1>2, <1>3, <2>0, <2>4
    <3>3. pl[n] = IF SortOf[x] = "event" THEN First ELSE Place("ended", x)
      BY <1>2, <1>3, <2>0, <2>4
    <3> HIDE DEF pl
    <3>4. QED
      BY <3>1, <3>2, <3>3 DEF Moves
  <2>5. CASE n = L + 2
    <3>1. K = L + 2 /\ SortOf[x] # "event"
      BY <1>2, <1>3, <2>5
    <3>2. w[n] = Break
      BY <1>1, <1>2, <2>5, <3>1
    <3>3. pl[n - 1] = Place("ended", x) /\ pl[n] = First
      BY <1>2, <2>0, <2>5, <3>1
    <3> HIDE DEF pl
    <3>4. QED
      BY <3>1, <3>2, <3>3 DEF Moves
  <2>6. QED
    BY <1>2, <1>3, <2>0, <2>1, <2>2, <2>3, <2>4, <2>5
<1> HIDE DEF pl
<1>6. Places(w, pl)
  BY <1>1, <1>4, <1>5 DEF Places
<1>7. QED
  BY <1>6 DEF w

LEMMA PlacesGoOn ==
  ASSUME NEW v \in Seq(Piece), NEW w \in Seq(Piece), NEW pv, NEW pw, Places(v, pv), Places(w, pw)
  PROVE  \E pl : Places(v \o w, pl)
<1> DEFINE L == Len(v)
           M == Len(w)
           u == v \o w
           pl == [n \in 0 .. L + M |-> IF n <= L THEN pv[n] ELSE pw[n - L]]
<1>1. /\ L \in Nat /\ M \in Nat /\ Len(u) = L + M
      /\ \A n \in 1 .. L + M : u[n] = IF n <= L THEN v[n] ELSE w[n - L]
  BY ConcatProperties
<1>2. /\ pv[0] = First /\ pv[L] = First /\ pw[0] = First /\ pw[M] = First
      /\ \A n \in 1 .. L : Moves(pv[n - 1], v[n], pv[n])
      /\ \A n \in 1 .. M : Moves(pw[n - 1], w[n], pw[n])
  BY DEF Places
<1> HIDE DEF L, M, u
<1>3. pl[0] = First
  BY <1>1, <1>2
<1>4. pl[L + M] = First
  <2>1. CASE M = 0
    BY <1>1, <1>2, <2>1
  <2>2. CASE M # 0
    <3>1. L + M \in 0 .. L + M /\ ~ (L + M <= L) /\ (L + M) - L = M
      BY <1>1, <2>2
    <3>2. QED
      BY <1>2, <3>1
  <2>3. QED
    BY <2>1, <2>2
<1>5. ASSUME NEW n \in 1 .. L + M PROVE Moves(pl[n - 1], u[n], pl[n])
  <2>1. CASE n <= L
    <3>1. n \in 1 .. L /\ n - 1 \in 0 .. L + M /\ n \in 0 .. L + M /\ n - 1 <= L
      BY <1>1, <2>1
    <3>2. pl[n - 1] = pv[n - 1] /\ pl[n] = pv[n] /\ u[n] = v[n]
      BY <1>1, <2>1, <3>1
    <3> HIDE DEF pl
    <3>3. QED
      BY <1>2, <3>1, <3>2
  <2>2. CASE ~ (n <= L)
    <3>1. /\ n - L \in 1 .. M /\ n - 1 \in 0 .. L + M /\ n \in 0 .. L + M
          /\ (n - 1) - L = (n - L) - 1 /\ L \in 0 .. L + M
      BY <1>1, <2>2
    <3>2. pl[n] = pw[n - L] /\ u[n] = w[n - L]
      BY <1>1, <2>2, <3>1
    <3>3. pl[n - 1] = pw[(n - L) - 1]
      <4>1. CASE n - 1 = L
        <5>1. (n - L) - 1 = 0 /\ pl[n - 1] = pv[L]
          BY <1>1, <3>1, <4>1
        <5>2. QED
          BY <1>2, <5>1
      <4>2. CASE n - 1 # L
        <5>1. ~ (n - 1 <= L)
          BY <1>1, <2>2, <4>2
        <5>2. QED
          BY <3>1, <5>1
      <4>3. QED
        BY <4>1, <4>2
    <3> HIDE DEF pl
    <3>4. QED
      BY <1>2, <3>1, <3>2, <3>3
  <2>3. QED
    BY <2>1, <2>2
<1> HIDE DEF pl
<1>6. Places(u, pl)
  BY <1>1, <1>3, <1>4, <1>5 DEF Places
<1>7. QED
  BY <1>6 DEF u

LEMMA StreamHasPlaces ==
  ASSUME NEW b \in Bodies, EventStream(b)
  PROVE  OnWire(b) \in Seq(Piece) /\ \E pl : Places(OnWire(b), pl)
<1>1. PICK flow \in [0 .. Len(b.units) -> Seq(Piece)] :
        /\ flow[0] = <<>>
        /\ \A n \in 1 .. Len(b.units) : flow[n] = flow[n - 1] \o OfUnit(b.units[n])
        /\ OnWire(b) = flow[Len(b.units)]
  BY WireIs
<1> DEFINE K == Len(b.units)
           good == {n \in 0 .. K : \E pl : Places(flow[n], pl)}
<1>2. K \in Nat /\ \A n \in 1 .. K : InStream(b.units[n])
  <2>1. b.units \in Seq(Unit)
    BY BodiesAre
  <2>2. DOMAIN b.units = 1 .. K
    BY <2>1
  <2>3. QED
    BY <2>1, <2>2, BodiesAre DEF EventStream, Of, InStream
<1>3. 0 \in good
  <2>1. Places(<<>>, [n \in 0 .. 0 |-> First])
    <3>1. Len(<<>>) = 0 /\ \A n \in 1 .. 0 : FALSE
      OBVIOUS
    <3>2. [n \in 0 .. 0 |-> First][0] = First
      OBVIOUS
    <3>3. QED
      BY <3>1, <3>2 DEF Places
  <2>2. \E pl : Places(flow[0], pl)
    BY <1>1, <2>1
  <2>3. 0 \in 0 .. K
    BY <1>2
  <2>4. QED
    BY <2>2, <2>3
<1>4. ASSUME NEW n \in 0 .. K, n < K, n \in good PROVE n + 1 \in good
  <2>1. n + 1 \in 1 .. K /\ n + 1 \in 0 .. K /\ (n + 1) - 1 = n
    BY <1>2, <1>4
  <2>2. flow[n + 1] = flow[n] \o OfUnit(b.units[n + 1]) /\ flow[n] \in Seq(Piece)
    BY <1>1, <2>1
  <2>3. InStream(b.units[n + 1])
    BY <1>2, <2>1
  <2>4. OfUnit(b.units[n + 1]) \in Seq(Piece) /\ \E pl : Places(OfUnit(b.units[n + 1]), pl)
    BY <2>3, PlacesOfUnit, OfUnitIs DEF InStream
  <2>5. \E pl : Places(flow[n], pl)
    BY <1>4
  <2>6. \E pl : Places(flow[n + 1], pl)
    BY <2>2, <2>4, <2>5, PlacesGoOn
  <2>7. QED
    BY <2>1, <2>6
<1> HIDE DEF good
<1>5. K \in good
  <2>1. \A n \in 0 .. K : n \in good
    BY <1>2, <1>3, <1>4, Induct
  <2>2. QED
    BY <1>2, <2>1
<1>6. QED
  BY <1>1, <1>2, <1>5 DEF good

-----------------------------------------------------------------------------
(* A tap on an event stream                                                *)

(* A line that starts with no marker, or nothing of one.                   *)
NoData(l) == l = <<>> \/ ~ Starts(l[1], {"data", "done"})

(* Where a tap that began after the first s pieces of w stands after m, at *)
(* a place of the stream.                                                  *)
Follows(tap, w, s, m, point) ==
  LET newest == V(tap.of, w, s, m)
  IN \/ point = First /\ tap.line = <<>> /\ tap.event = <<>> /\ tap.value = newest
     \/ \E x : /\ InStream(x) /\ point = Place("half", x) /\ m > s /\ w[m] = Half(x, 1)
               /\ tap.line = <<Half(x, 1)>> /\ tap.event = <<>> /\ tap.value = newest
     \/ \E x : /\ InStream(x) /\ point = Place("whole", x) /\ m > s /\ w[m] = Half(x, 2)
               /\ Line(x, tap.line) /\ tap.event = <<>> /\ newest = Or(tap.of[x], tap.value)
     \/ \E x : /\ InStream(x) /\ SortOf[x] # "event" /\ point = Place("ended", x)
               /\ tap.line = <<>> /\ Line(x, tap.event) /\ newest = Or(tap.of[x], tap.value)

(* As long as it reads over the line it began in, it holds nothing.        *)
ReadsOver(tap, w, s, m, point) ==
  /\ NoData(tap.line) /\ tap.event = <<>> /\ tap.value = V(tap.of, w, s, m)
  /\ \E x : /\ InStream(x)
            /\ \/ point = Place("half", x) /\ m = s
               \/ point = Place("whole", x) /\ (m = s \/ w[m] = Half(x, 2))
               \/ SortOf[x] # "event" /\ point = Place("ended", x) /\ tap.line = <<>>

StandsAt(tap, w, s, m, point) == Follows(tap, w, s, m, point) \/ ReadsOver(tap, w, s, m, point)

Within(tap) == tap.limit = ""

LEMMA PlacesDiffer ==
  /\ \A x : /\ Place("half", x) # First /\ Place("whole", x) # First /\ Place("ended", x) # First
  /\ \A x, y : /\ Place("half", x) # Place("whole", y) /\ Place("half", x) # Place("ended", y)
               /\ Place("whole", x) # Place("ended", y)
               /\ (Place("half", x) = Place("half", y) => x = y)
               /\ (Place("whole", x) = Place("whole", y) => x = y)
               /\ (Place("ended", x) = Place("ended", y) => x = y)
BY DEF Place, First

LEMMA AppendToOne ==
  ASSUME NEW a \in Piece, NEW c \in Piece
  PROVE  Append(<<a>>, c) = <<a, c>>
<1> DEFINE one == <<a>>
           two == <<a, c>>
<1>1. one \in Seq(Piece) /\ Len(one) = 1 /\ one[1] = a
  OBVIOUS
<1>2. two \in Seq(Piece) /\ Len(two) = 2 /\ two[1] = a /\ two[2] = c
  OBVIOUS
<1> HIDE DEF one, two
<1>3. /\ Append(one, c) \in Seq(Piece) /\ Len(Append(one, c)) = Len(one) + 1
      /\ \A i \in 1 .. Len(one) : Append(one, c)[i] = one[i]
      /\ Append(one, c)[Len(one) + 1] = c
  <2>1. one \in Seq(Piece)
    BY <1>1
  <2>2. QED
    BY <2>1, AppendProperties
<1>4. \A i \in 1 .. 2 : Append(one, c)[i] = two[i]
  BY <1>1, <1>2, <1>3
<1>5. Append(one, c) = two
  BY <1>1, <1>2, <1>3, <1>4
<1>6. QED
  BY <1>5 DEF one, two

(* The line of unit x, its line break to come.                             *)
LEMMA LineBegins ==
  ASSUME NEW x \in Unit, NEW l, Line(x, l)
  PROVE  /\ l \in Seq(Piece) /\ l # <<>>
         /\ MarkerAt(l, 1, {"data", "done"}) <=> SortOf[x] \in {"data", "done"}
<1>1. l \in Seq(Piece) /\ l # <<>> /\ l[1] = Half(x, 1) /\ 1 < Len(l)
  <2>1. l \in Seq(Piece) /\ Len(l) >= 2 /\ l[1] = Half(x, 1) /\ Len(l) \in Nat
    BY DEF Line
  <2>2. QED
    BY <2>1
<1>2. Half(x, 1).half = 1 /\ Half(x, 1).unit = x
  BY PiecesAre
<1>3. QED
  BY <1>1, <1>2 DEF MarkerAt, Starts

(* A line that is read over has no marker, and more of it neither.         *)
LEMMA ReadOver ==
  ASSUME NEW l \in Seq(Piece), NoData(l)
  PROVE  /\ l # <<>> => ~ MarkerAt(l, 1, {"data", "done"})
         /\ \A b \in Piece : ~ Starts(b, {"data", "done"}) => NoData(Append(l, b))
<1>1. l # <<>> => ~ MarkerAt(l, 1, {"data", "done"})
  BY DEF NoData, MarkerAt
<1>2. ASSUME NEW b \in Piece, ~ Starts(b, {"data", "done"}) PROVE NoData(Append(l, b))
  <2>1. CASE l = <<>>
    <3>1. Append(l, b)[1] = b
      BY <2>1
    <3>2. QED
      BY <1>2, <3>1 DEF NoData
  <2>2. CASE l # <<>>
    <3>1. 1 \in 1 .. Len(l)
      BY <2>2
    <3>2. Append(l, b)[1] = l[1]
      BY <3>1, AppendProperties
    <3>3. QED
      BY <2>2, <3>2 DEF NoData
  <2>3. QED
    BY <2>1, <2>2
<1>3. QED
  BY <1>1, <1>2

LEMMA ByteFollows ==
  ASSUME NEW tap \in Tap, NEW w \in Seq(Piece), NEW m \in 0 .. Len(w), m < Len(w),
         NEW s \in 0 .. m, NEW from, NEW to,
         Moves(from, w[m + 1], to), Follows(tap, w, s, m, from), Within(Byte(tap, w[m + 1]))
  PROVE  Follows(Byte(tap, w[m + 1]), w, s, m + 1, to)
<1> DEFINE b == w[m + 1]
           new == Byte(tap, b)
           before == V(tap.of, w, s, m)
           after == V(tap.of, w, s, m + 1)
<1>1. m \in Nat /\ m + 1 \in Nat /\ b \in Piece /\ m + 1 > s /\ s \in Nat
  <2>1. m \in Nat /\ m + 1 \in 1 .. Len(w) /\ m + 1 > s /\ s \in Nat
    OBVIOUS
  <2>2. w[m + 1] \in Piece
    BY <2>1
  <2>3. QED
    BY <2>1, <2>2
<1>2. tap.line \in Seq(Piece) /\ tap.event \in Seq(Piece) /\ tap.of \in {UsageOf, EditsOf}
  BY DEF Tap
<1>3. after = IF \E x \in Unit : m > s /\ w[m] = Half(x, 1) /\ b = Half(x, 2)
              THEN Or(tap.of[b.unit], before) ELSE before
  BY VStep
<1>4. new.of = tap.of
  BY <1>1, ByteIs DEF Carries
<1>5. b # Break => new = [tap EXCEPT !.line = Append(@, b)]
  BY DEF Byte
<1> HIDE DEF b, new, before, after
<1>6. ASSUME from = First, NEW x, InStream(x), b = Half(x, 1), to = Place("half", x)
      PROVE  Follows(new, w, s, m + 1, to)
  <2>1. x \in Unit /\ b # Break /\ \A y \in Unit : b # Half(y, 2)
    <3>1. x \in Unit
      BY <1>6 DEF InStream
    <3>2. Half(x, 1) # Break /\ \A y \in Unit : Half(x, 1) # Half(y, 2)
      BY <3>1, PiecesAre
    <3>3. QED
      BY <1>6, <3>1, <3>2
  <2>2. tap.line = <<>> /\ tap.event = <<>> /\ tap.value = before
    BY <1>6, PlacesDiffer DEF Follows, before
  <2>3. new.line = <<Half(x, 1)>> /\ new.event = <<>> /\ new.value = before
    <3>1. new.line = Append(tap.line, b) /\ new.event = tap.event /\ new.value = tap.value
      BY <1>5, <2>1 DEF Tap
    <3>2. Append(<<>>, Half(x, 1)) = <<Half(x, 1)>>
      OBVIOUS
    <3>3. QED
      BY <1>6, <2>2, <3>1, <3>2
  <2>4. after = before
    BY <1>3, <2>1
  <2>5. QED
    BY <1>1, <1>4, <1>6, <2>3, <2>4 DEF Follows, after, b
<1>7. ASSUME NEW x, InStream(x), b = Half(x, 2), to = Place("whole", x), from = Place("half", x)
      PROVE  Follows(new, w, s, m + 1, to)
  <2>1. x \in Unit /\ b # Break
    BY <1>7, PiecesAre DEF InStream
  <2>2. /\ tap.line = <<Half(x, 1)>> /\ tap.event = <<>> /\ tap.value = before
        /\ m > s /\ w[m] = Half(x, 1)
    BY <1>7, PlacesDiffer DEF Follows, before
  <2>3. new.line = Append(tap.line, b) /\ new.event = <<>> /\ new.value = before
    BY <1>5, <2>1, <2>2 DEF Tap
  <2>4. new.line = Whole(x)
    <3>1. new.line = Append(<<Half(x, 1)>>, Half(x, 2))
      BY <1>7, <2>2, <2>3
    <3>2. Append(<<Half(x, 1)>>, Half(x, 2)) = <<Half(x, 1), Half(x, 2)>>
      BY <2>1, PiecesAre, AppendToOne
    <3>3. QED
      BY <3>1, <3>2 DEF Whole
  <2>5. Line(x, new.line)
    <3>1. /\ Whole(x) \in Seq(Piece) /\ Len(Whole(x)) = 2 /\ Whole(x)[1] = Half(x, 1)
      BY <2>1, WholesAre
    <3>2. Len(Whole(x)) >= 2
      BY <3>1
    <3>3. QED
      BY <2>4, <3>1, <3>2 DEF Line
  <2>6. after = Or(tap.of[x], before)
    BY <1>3, <1>7, <2>1, <2>2, PiecesAre
  <2>7. QED
    BY <1>1, <1>4, <1>7, <2>3, <2>5, <2>6 DEF Follows, after, b
<1>8. ASSUME NEW x, InStream(x), b = Half(x, 2), to = Place("whole", x), from = Place("whole", x), x \in Big
      PROVE  Follows(new, w, s, m + 1, to)
  <2>1. x \in Unit /\ b # Break
    BY <1>8, PiecesAre DEF InStream
  <2>2. /\ Line(x, tap.line) /\ tap.event = <<>> /\ before = Or(tap.of[x], tap.value)
        /\ m > s /\ w[m] = Half(x, 2)
    BY <1>8, PlacesDiffer DEF Follows, before
  <2>3. new.line = Append(tap.line, b) /\ new.event = <<>> /\ new.value = tap.value
    BY <1>5, <2>1, <2>2 DEF Tap
  <2>4. Line(x, new.line)
    <3>1. tap.line \in Seq(Piece) /\ Len(tap.line) >= 2 /\ tap.line[1] = Half(x, 1)
      BY <2>2 DEF Line
    <3> DEFINE l == tap.line
    <3>2. l \in Seq(Piece) /\ Len(l) >= 2 /\ l[1] = Half(x, 1) /\ Len(l) \in Nat
      BY <3>1
    <3> HIDE DEF l
    <3>3. /\ Append(l, b) \in Seq(Piece) /\ Len(Append(l, b)) = Len(l) + 1
          /\ \A i \in 1 .. Len(l) : Append(l, b)[i] = l[i]
      BY <1>1, <3>2, AppendProperties
    <3>4. 1 \in 1 .. Len(l) /\ Len(l) + 1 > 2 /\ Len(l) + 1 >= 2
      BY <3>2
    <3>5. Line(x, Append(l, b))
      BY <1>8, <3>2, <3>3, <3>4 DEF Line
    <3>6. QED
      BY <2>3, <3>5 DEF l
  <2>5. after = before
    <3>1. \A y \in Unit : w[m] # Half(y, 1)
      <4>1. w[m] = Half(x, 2) /\ \A y \in Unit : Half(x, 2) # Half(y, 1)
        BY <2>1, <2>2, PiecesAre
      <4>2. QED
        BY <4>1
    <3>2. QED
      BY <1>3, <3>1
  <2>6. QED
    BY <1>1, <1>4, <1>8, <2>2, <2>3, <2>4, <2>5 DEF Follows, after, b
<1>9. ASSUME b = Break PROVE after = before
  <2>1. \A y \in Unit : b # Half(y, 2)
    BY <1>9, PiecesAre
  <2>2. QED
    BY <1>3, <2>1
<1>10. ASSUME b = Break, NEW x, InStream(x), from = Place("whole", x),
              to = IF SortOf[x] = "event" THEN First ELSE Place("ended", x)
       PROVE  Follows(new, w, s, m + 1, to)
  <2>1. x \in Unit /\ SortOf[x] \in {"event", "data", "done"}
    BY <1>10 DEF InStream
  <2>2. Line(x, tap.line) /\ tap.event = <<>> /\ before = Or(tap.of[x], tap.value)
    BY <1>10, PlacesDiffer DEF Follows, before
  <2>3. tap.line # <<>> /\ (MarkerAt(tap.line, 1, {"data", "done"}) <=> SortOf[x] \in {"data", "done"})
    BY <2>1, <2>2, LineBegins
  <2>4. CASE SortOf[x] = "event"
    <3>1. new = [tap EXCEPT !.line = <<>>]
      BY <1>10, <2>3, <2>4 DEF new, Byte
    <3>2. new.line = <<>> /\ new.event = <<>> /\ new.value = tap.value
      BY <2>2, <3>1 DEF Tap
    <3>3. tap.of[x] = None
      BY <1>2, <2>1, <2>4, UnitsAre
    <3>4. tap.value = before
      BY <2>2, <3>3 DEF Or
    <3>5. QED
      BY <1>4, <1>9, <1>10, <2>4, <3>2, <3>4 DEF Follows, after
  <2>5. CASE SortOf[x] # "event"
    <3>1. new = DataLine(tap)
      BY <1>10, <2>1, <2>3, <2>5 DEF new, Byte
    <3>2. new.value = tap.value /\ new.line = <<>> /\ new.event = tap.event \o tap.line
      BY <3>1, DataLineIs DEF Within, new, b
    <3>3. tap.event \o tap.line = tap.line
      <4>1. <<>> \o tap.line = tap.line
        BY <1>2, ConcatEmptySeq
      <4>2. QED
        BY <2>2, <4>1
    <3>4. Line(x, new.event)
      BY <2>2, <3>2, <3>3
    <3>5. QED
      BY <1>4, <1>9, <1>10, <2>2, <2>5, <3>2, <3>4 DEF Follows, after
  <2>6. QED
    BY <2>4, <2>5
<1>11. ASSUME b = Break, to = First, NEW x, InStream(x), SortOf[x] # "event", from = Place("ended", x)
       PROVE  Follows(new, w, s, m + 1, to)
  <2>1. tap.line = <<>> /\ Line(x, tap.event) /\ before = Or(tap.of[x], tap.value)
    BY <1>11, PlacesDiffer DEF Follows, before
  <2>2. new = Flush(tap)
    BY <1>11, <2>1 DEF new, Byte
  <2>3. new.value = Found(tap, tap.event, "data") /\ new.event = <<>> /\ new.line = <<>>
    BY <2>1, <2>2, FlushIs
  <2>4. Found(tap, tap.event, "data") = before
    <3>1. x \in Unit /\ (SortOf[x] # "data" => tap.of[x] = None)
      BY <1>2, <1>11, UnitsAre DEF InStream
    <3>2. QED
      BY <1>2, <2>1, <3>1, FoundIs
  <2>5. QED
    BY <1>4, <1>9, <1>11, <2>3, <2>4 DEF Follows, after
<1>12. Moves(from, b, to)
  BY DEF b
<1>13. Follows(new, w, s, m + 1, to)
  BY <1>6, <1>7, <1>8, <1>10, <1>11, <1>12 DEF Moves
<1>14. QED
  BY <1>13 DEF new, b

LEMMA ByteReadOver ==
  ASSUME NEW tap \in Tap, NEW w \in Seq(Piece), NEW m \in 0 .. Len(w), m < Len(w),
         NEW s \in 0 .. m, NEW from, NEW to,
         Moves(from, w[m + 1], to), ReadsOver(tap, w, s, m, from)
  PROVE  StandsAt(Byte(tap, w[m + 1]), w, s, m + 1, to)
<1> DEFINE b == w[m + 1]
           new == Byte(tap, b)
           before == V(tap.of, w, s, m)
           after == V(tap.of, w, s, m + 1)
<1>1. m \in Nat /\ s \in Nat /\ b \in Piece
  <2>1. m \in Nat /\ s \in Nat /\ m + 1 \in 1 .. Len(w)
    OBVIOUS
  <2>2. QED
    BY <2>1
<1>2. tap.line \in Seq(Piece) /\ NoData(tap.line) /\ tap.event = <<>> /\ tap.value = before
  BY DEF Tap, ReadsOver
<1>3. after = IF \E x \in Unit : m > s /\ w[m] = Half(x, 1) /\ b = Half(x, 2)
              THEN Or(tap.of[b.unit], before) ELSE before
  BY VStep
<1>4. new.of = tap.of
  BY <1>1, ByteIs DEF Carries
<1>5. PICK x : /\ InStream(x)
               /\ \/ from = Place("half", x) /\ m = s
                  \/ from = Place("whole", x) /\ (m = s \/ w[m] = Half(x, 2))
                  \/ SortOf[x] # "event" /\ from = Place("ended", x) /\ tap.line = <<>>
  BY DEF ReadsOver
<1>6. x \in Unit
  BY <1>5 DEF InStream
<1>7. after = before
  <2>1. m > s => \A y \in Unit : w[m] = Half(y, 1) => b # Half(y, 2)
    <3>1. CASE m = s
      BY <1>1, <3>1
    <3>2. CASE from = Place("whole", x) /\ w[m] = Half(x, 2)
      BY <1>6, <3>2, PiecesAre
    <3>3. CASE from = Place("ended", x)
      <4>1. b = Break
        BY <3>3, PlacesDiffer DEF Moves
      <4>2. QED
        BY <4>1, PiecesAre
    <3>4. QED
      BY <1>5, <3>1, <3>2, <3>3
  <2>2. QED
    BY <1>3, <2>1
<1>8. Flush(tap).line = tap.line /\ Flush(tap).event = <<>> /\ Flush(tap).value = before
  <2>1. Len(tap.event) # 2 /\ tap.event \in Seq(Piece)
    BY <1>2
  <2>2. Found(tap, tap.event, "data") = tap.value
    BY <2>1, FoundIs
  <2>3. QED
    BY <1>2, <2>2, FlushIs
<1> HIDE DEF b, before, after
<1>9. CASE b = Break
  <2>1. new.line = <<>> /\ new.event = <<>> /\ new.value = before
    <3>1. CASE tap.line = <<>>
      <4>1. new = Flush(tap)
        BY <1>9, <3>1 DEF Byte
      <4>2. QED
        BY <1>8, <3>1, <4>1
    <3>2. CASE tap.line # <<>>
      <4>1. ~ MarkerAt(tap.line, 1, {"data", "done"})
        BY <1>2, <3>2, ReadOver
      <4>2. new = [tap EXCEPT !.line = <<>>]
        BY <1>9, <3>2, <4>1 DEF Byte
      <4> HIDE DEF new
      <4>3. QED
        BY <1>2, <4>2 DEF Tap
    <3>3. QED
      BY <3>1, <3>2
  <2>2. to = First \/ \E y : InStream(y) /\ SortOf[y] # "event" /\ to = Place("ended", y)
    <3>1. \A y \in Unit, n \in {1, 2} : b # Half(y, n)
      BY <1>9, PiecesAre
    <3>2. \A y : InStream(y) => b # Half(y, 1) /\ b # Half(y, 2)
      BY <3>1 DEF InStream
    <3>3. QED
      BY <3>2 DEF Moves, b
  <2> HIDE DEF new
  <2>3. NoData(<<>>)
    BY DEF NoData
  <2>4. CASE to = First
    <3>1. Follows(new, w, s, m + 1, to)
      BY <1>4, <1>7, <2>1, <2>4 DEF Follows, after
    <3>2. QED
      BY <3>1 DEF StandsAt, new, b
  <2>5. ASSUME NEW y, InStream(y), SortOf[y] # "event", to = Place("ended", y)
        PROVE  ReadsOver(new, w, s, m + 1, to)
    BY <1>4, <1>7, <2>1, <2>3, <2>5 DEF ReadsOver, after
  <2>6. QED
    BY <2>2, <2>4, <2>5 DEF StandsAt, new, b
<1>10. CASE b # Break
  <2>1. b = Half(x, 2) /\ to = Place("whole", x)
    BY <1>5, <1>10, PlacesDiffer DEF Moves, b
  <2>2. new = [tap EXCEPT !.line = Append(@, b)]
    BY <1>10 DEF Byte
  <2>3. new.line = Append(tap.line, b) /\ new.event = <<>> /\ new.value = before
    <3> HIDE DEF new
    <3>1. QED
      BY <1>2, <2>2 DEF Tap
  <2>4. ~ Starts(b, {"data", "done"})
    <3>1. b.half = 2
      BY <1>6, <2>1, PiecesAre
    <3>2. QED
      BY <3>1 DEF Starts
  <2>5. NoData(new.line)
    BY <1>1, <1>2, <2>3, <2>4, ReadOver
  <2>6. w[m + 1] = Half(x, 2)
    BY <2>1 DEF b
  <2> HIDE DEF new
  <2>7. ReadsOver(new, w, s, m + 1, to)
    BY <1>4, <1>5, <1>7, <2>1, <2>3, <2>5, <2>6 DEF ReadsOver, after
  <2>8. QED
    BY <2>7 DEF StandsAt, new, b
<1>11. QED
  BY <1>9, <1>10

LEMMA ByteStands ==
  ASSUME NEW tap \in Tap, NEW w \in Seq(Piece), NEW m \in 0 .. Len(w), m < Len(w),
         NEW s \in 0 .. m, NEW from, NEW to,
         Moves(from, w[m + 1], to), StandsAt(tap, w, s, m, from), Within(Byte(tap, w[m + 1]))
  PROVE  StandsAt(Byte(tap, w[m + 1]), w, s, m + 1, to)
<1>1. CASE Follows(tap, w, s, m, from)
  BY <1>1, ByteFollows DEF StandsAt
<1>2. CASE ReadsOver(tap, w, s, m, from)
  BY <1>2, ByteReadOver
<1>3. QED
  BY <1>1, <1>2 DEF StandsAt

LEMMA CarriesOn ==
  ASSUME NEW a, NEW b, NEW c, Carries(a, b), Carries(b, c)
  PROVE  Carries(a, c)
BY DEF Carries

(* A chunk takes the tap along as far as the chunk goes.                   *)
LEMMA FeedStands ==
  ASSUME NEW tap \in Tap, NEW w \in Seq(Piece), NEW pl, Places(w, pl),
         NEW m \in 0 .. Len(w), NEW n \in 0 .. Len(w), m < n, NEW s \in 0 .. m,
         Within(tap) => StandsAt(tap, w, s, m, pl[m])
  PROVE  LET fed == FeedSSE(tap, SubSeq(w, m + 1, n))
         IN /\ fed \in Tap /\ Carries(tap, fed)
            /\ Within(fed) => StandsAt(fed, w, s, n, pl[n])
<1> DEFINE p == SubSeq(w, m + 1, n)
           fed == FeedSSE(tap, p)
           K == n - m
<1>1. m \in Nat /\ n \in Nat /\ K \in Nat /\ m + K = n /\ Len(w) \in Nat /\ n <= Len(w)
  OBVIOUS
<1>2. p \in Seq(Piece) /\ Len(p) = K /\ \A i \in 1 .. K : p[i] = w[m + i]
  <2>1. m + 1 \in 1 .. Len(w) /\ n \in 1 .. Len(w) /\ n - (m + 1) + 1 = K
    BY <1>1
  <2>2. \A i \in 1 .. K : (m + 1) + i - 1 = m + i
    BY <1>1
  <2>3. QED
    BY <1>1, <2>1, <2>2
<1> HIDE DEF p, K
<1>3. PICK f : Fed(f, tap, p)
  BY <1>2, FeedIs
<1>4. /\ f \in [0 .. K -> Tap] /\ f[0] = tap
      /\ \A i \in 1 .. K : f[i] = Byte(f[i - 1], p[i])
  BY <1>2, <1>3 DEF Fed
<1> DEFINE good == {i \in 0 .. K : /\ Carries(tap, f[i])
                                   /\ Within(f[i]) => StandsAt(f[i], w, s, m + i, pl[m + i])}
<1>5. 0 \in good
  <2>1. m + 0 = m /\ 0 \in 0 .. K
    BY <1>1
  <2>2. Carries(tap, tap)
    BY DEF Carries
  <2>3. QED
    BY <1>4, <2>1, <2>2
<1>6. ASSUME NEW i \in 0 .. K, i < K, i \in good PROVE i + 1 \in good
  <2>1. i + 1 \in 1 .. K /\ i + 1 \in 0 .. K /\ (i + 1) - 1 = i /\ i \in Nat
    BY <1>1, <1>6
  <2>2. /\ m + i \in 0 .. Len(w) /\ m + i < Len(w) /\ (m + i) + 1 = m + (i + 1)
        /\ s \in 0 .. m + i /\ (m + i) + 1 \in 1 .. Len(w) /\ ((m + i) + 1) - 1 = m + i
    BY <1>1, <2>1, <1>6
  <2>3. f[i] \in Tap /\ f[i + 1] = Byte(f[i], w[(m + i) + 1]) /\ w[(m + i) + 1] \in Piece
    <3>1. f[i + 1] = Byte(f[i], p[i + 1]) /\ p[i + 1] = w[m + (i + 1)]
      BY <1>2, <1>4, <2>1
    <3>2. w[(m + i) + 1] \in Piece
      BY <2>2
    <3>3. QED
      BY <1>4, <2>2, <3>1, <3>2
  <2>4. Carries(f[i], f[i + 1])
    BY <2>3, ByteIs
  <2>5. Carries(tap, f[i + 1])
    BY <1>6, <2>4, CarriesOn
  <2>6. ASSUME Within(f[i + 1]) PROVE StandsAt(f[i + 1], w, s, m + (i + 1), pl[m + (i + 1)])
    <3>1. Within(f[i])
      BY <2>4, <2>6 DEF Carries, Within
    <3>2. StandsAt(f[i], w, s, m + i, pl[m + i])
      BY <1>6, <3>1
    <3>3. Moves(pl[m + i], w[(m + i) + 1], pl[(m + i) + 1])
      BY <2>2 DEF Places
    <3>4. StandsAt(f[i + 1], w, s, (m + i) + 1, pl[(m + i) + 1])
      BY <2>2, <2>3, <2>6, <3>2, <3>3, ByteStands
    <3>5. QED
      BY <2>2, <3>4
  <2>7. QED
    BY <2>1, <2>5, <2>6
<1>7. K \in good
  <2> HIDE DEF good
  <2>1. \A i \in 0 .. K : i \in good
    BY <1>1, <1>5, <1>6, Induct
  <2>2. QED
    BY <1>1, <2>1
<1>8. f[K] \in Tap /\ Carries(tap, f[K]) /\ (Within(f[K]) => StandsAt(f[K], w, s, n, pl[n]))
  BY <1>1, <1>4, <1>7
<1>9. fed = IF tap.limit # "" THEN tap
            ELSE IF Len(f[K].line) > TapMax THEN [f[K] EXCEPT !.limit = "sse_limit", !.line = <<>>]
            ELSE f[K]
  BY <1>2, <1>3 DEF Fed
<1>10. CASE tap.limit # ""
  <2>1. fed = tap
    BY <1>9, <1>10
  <2>2. QED
    BY <2>1, <1>10 DEF Carries, Within, p
<1>11. CASE tap.limit = "" /\ fed = f[K]
  BY <1>8, <1>11 DEF p
<1>12. CASE fed = [f[K] EXCEPT !.limit = "sse_limit", !.line = <<>>] /\ tap.limit = ""
  <2> DEFINE last == f[K]
  <2>1. last \in Tap /\ Carries(tap, last) /\ fed = [last EXCEPT !.limit = "sse_limit", !.line = <<>>]
    BY <1>8, <1>12
  <2> HIDE DEF last
  <2>2. <<>> \in Seq(Piece)
    OBVIOUS
  <2>3. fed \in Tap /\ Carries(tap, fed) /\ ~ Within(fed)
    <3> HIDE DEF fed
    <3>1. QED
      BY <2>1, <2>2, <1>12 DEF Tap, Carries, Within
  <2>4. QED
    BY <2>3 DEF p
<1>13. QED
  BY <1>9, <1>10, <1>11, <1>12

LEMMA FeedTyped ==
  ASSUME NEW tap \in Tap, NEW p \in Seq(Piece)
  PROVE  FeedSSE(tap, p) \in Tap
<1>1. PICK f : Fed(f, tap, p)
  BY FeedIs
<1> DEFINE last == f[Len(p)]
<1>2. last \in Tap
  <2>1. Len(p) \in 0 .. Len(p)
    OBVIOUS
  <2>2. QED
    BY <1>1, <2>1 DEF Fed
<1>3. FeedSSE(tap, p) \in {tap, last, [last EXCEPT !.limit = "sse_limit", !.line = <<>>]}
  BY <1>1 DEF Fed
<1>4. <<>> \in Seq(Piece)
  OBVIOUS
<1> HIDE DEF last
<1>5. [last EXCEPT !.limit = "sse_limit", !.line = <<>>] \in Tap
  BY <1>2, <1>4 DEF Tap
<1>6. QED
  BY <1>2, <1>3, <1>5

(* What is read of a last line that lacks its break, and of its event.     *)
LEMMA LastLineRead ==
  ASSUME NEW tap \in Tap, tap.event = <<>>, tap.line # <<>>,
         Within(Flush(FeedSSE(tap, <<Break, Break>>)))
  PROVE  Flush(FeedSSE(tap, <<Break, Break>>)).value =
           IF MarkerAt(tap.line, 1, {"data", "done"}) THEN Found(tap, tap.line, "data") ELSE tap.value
<1> DEFINE p == <<Break, Break>>
           fed == FeedSSE(tap, p)
<1>1. p \in Seq(Piece) /\ Len(p) = 2 /\ p[1] = Break /\ p[2] = Break /\ Break \in Piece
  BY PiecesAre
<1> HIDE DEF p
<1>2. PICK f : Fed(f, tap, p)
  BY <1>1, FeedIs
<1> DEFINE marked == MarkerAt(tap.line, 1, {"data", "done"})
           t1 == Byte(tap, Break)
           t2 == Byte(t1, Break)
<1>3. /\ fed = IF tap.limit # "" THEN tap
               ELSE IF Len(t2.line) > TapMax THEN [t2 EXCEPT !.limit = "sse_limit", !.line = <<>>]
               ELSE t2
  <2>1. 1 \in 1 .. 2 /\ 2 \in 1 .. 2 /\ 1 - 1 = 0 /\ 2 - 1 = 1
    OBVIOUS
  <2>2. f[1] = t1 /\ f[2] = t2
    BY <1>1, <1>2, <2>1 DEF Fed
  <2>3. QED
    BY <1>1, <1>2, <2>2 DEF Fed
<1>4. t1 \in Tap /\ Carries(tap, t1) /\ t2 \in Tap /\ Carries(t1, t2)
  BY <1>1, ByteIs
<1>6. tap.line \in Seq(Piece)
  BY DEF Tap
<1>7. t1 = IF marked THEN DataLine(tap) ELSE [tap EXCEPT !.line = <<>>]
  BY DEF Byte
<1> HIDE DEF marked
<1>8. t1.line = <<>> /\ t1.value = tap.value /\ t1.of = tap.of
  <2>1. CASE marked
    BY <1>4, <1>7, <2>1, DataLineIs DEF Carries
  <2>2. CASE ~ marked
    <3>1. t1 = [tap EXCEPT !.line = <<>>]
      BY <1>7, <2>2
    <3> HIDE DEF t1
    <3>2. QED
      BY <3>1 DEF Tap
  <2>3. QED
    BY <2>1, <2>2
<1> HIDE DEF t1
<1>9. t2 = Flush(t1)
  BY <1>8 DEF Byte
<1> HIDE DEF t2
<1>10. t2.value = Found(t1, t1.event, "data") /\ t2.event = <<>> /\ t2.line = <<>>
  BY <1>4, <1>8, <1>9, FlushIs
<1>11. fed \in Tap /\ Carries(fed, Flush(fed)) /\ Flush(fed).value = Found(fed, fed.event, "data")
  <2>1. fed \in Tap
    BY <1>1, FeedTyped
  <2> HIDE DEF fed
  <2>2. QED
    BY <2>1, FlushIs
<1>12. fed = t2 /\ tap.limit = "" /\ t2.limit = "" /\ t1.limit = ""
  <2>1. fed.limit = ""
    <3>1. Within(Flush(fed))
      BY DEF p
    <3> HIDE DEF fed
    <3>2. QED
      BY <1>11, <3>1 DEF Within, Carries
  <2>2. [t2 EXCEPT !.limit = "sse_limit", !.line = <<>>].limit = "sse_limit"
    BY <1>4 DEF Tap
  <2> HIDE DEF fed
  <2>3. fed = t2 /\ tap.limit = ""
    BY <1>3, <2>1, <2>2
  <2>4. QED
    BY <1>4, <2>1, <2>3 DEF Carries
<1>13. Flush(fed).value = t2.value
  <2>1. Len(t2.event) # 2 /\ t2.event \in Seq(Piece)
    BY <1>10
  <2>2. Found(t2, t2.event, "data") = t2.value
    BY <1>4, <2>1, FoundIs
  <2>3. QED
    BY <1>11, <1>12, <2>2
<1>14. t2.value = IF marked THEN Found(tap, tap.line, "data") ELSE tap.value
  <2>1. CASE marked
    <3>1. t1 = DataLine(tap)
      BY <1>7, <2>1
    <3>2. t1.event = tap.event \o tap.line
      BY <1>12, <3>1, DataLineIs
    <3>3. t1.event = tap.line
      <4>1. <<>> \o tap.line = tap.line
        BY <1>6, ConcatEmptySeq
      <4>2. QED
        BY <3>2, <4>1
    <3>4. Found(t1, tap.line, "data") = Found(tap, tap.line, "data")
      BY <1>8 DEF Found
    <3>5. QED
      BY <1>10, <2>1, <3>3, <3>4
  <2>2. CASE ~ marked
    <3>1. t1 = [tap EXCEPT !.line = <<>>]
      BY <1>7, <2>2
    <3>2. t1.event = <<>>
      BY <3>1 DEF Tap
    <3>3. Len(t1.event) # 2 /\ t1.event \in Seq(Piece)
      BY <3>2
    <3>4. Found(t1, t1.event, "data") = t1.value
      BY <1>4, <3>3, FoundIs
    <3>5. QED
      BY <1>8, <1>10, <2>2, <3>4
  <2>3. QED
    BY <2>1, <2>2
<1>15. QED
  BY <1>13, <1>14 DEF p, marked

(* At the end a tap on an event stream has the newest value.               *)
LEMMA StreamFinished ==
  ASSUME NEW tap \in Tap, ~ tap.connect, tap.sse, NEW w, NEW s, NEW m, NEW point,
         Within(tap) => StandsAt(tap, w, s, m, point), Within(Finished(tap))
  PROVE  Finished(tap).value = V(tap.of, w, s, m)
<1> DEFINE fed == FeedSSE(tap, <<Break, Break>>)
           newest == V(tap.of, w, s, m)
<1>1. Finished(tap) = Flush(IF tap.line = <<>> THEN tap ELSE fed)
  BY DEF Finished
<1>2. /\ fed \in Tap /\ Carries(fed, Flush(fed)) /\ (fed.limit = "" => tap.limit = "")
      /\ Carries(tap, Flush(tap)) /\ Flush(tap).value = Found(tap, tap.event, "data")
      /\ tap.event \in Seq(Piece) /\ tap.line \in Seq(Piece) /\ tap.of \in {UsageOf, EditsOf}
  <2>1. <<Break, Break>> \in Seq(Piece)
    BY PiecesAre
  <2>2. fed \in Tap
    BY <2>1, FeedTyped
  <2>3. fed.limit = "" => tap.limit = ""
    <3>1. PICK f : Fed(f, tap, <<Break, Break>>)
      BY <2>1, FeedIs
    <3>2. tap.limit # "" => fed = tap
      BY <3>1 DEF Fed
    <3> HIDE DEF fed
    <3>3. QED
      BY <3>2
  <2> HIDE DEF fed
  <2>4. QED
    BY <2>2, <2>3, FlushIs DEF Tap
<1>3. Within(tap)
  <2>1. CASE tap.line = <<>>
    BY <1>1, <1>2, <2>1 DEF Within, Carries
  <2>2. CASE tap.line # <<>>
    <3>1. Within(Flush(fed))
      BY <1>1, <2>2
    <3> HIDE DEF fed
    <3>2. QED
      BY <1>2, <3>1 DEF Within, Carries
  <2>3. QED
    BY <2>1, <2>2
<1>4. StandsAt(tap, w, s, m, point)
  BY <1>3
<1>5. ASSUME tap.line = <<>>, tap.event = <<>>, tap.value = newest
      PROVE  Finished(tap).value = newest
  <2>1. Finished(tap) = Flush(tap)
    BY <1>1, <1>5
  <2>2. Len(tap.event) # 2
    BY <1>5
  <2>3. Found(tap, tap.event, "data") = tap.value
    BY <1>2, <2>2, FoundIs
  <2>4. QED
    BY <1>2, <1>5, <2>1, <2>3
<1>6. ASSUME NEW x, InStream(x), tap.line = <<Half(x, 1)>>, tap.event = <<>>, tap.value = newest
      PROVE  Finished(tap).value = newest
  <2>1. tap.line # <<>> /\ Len(tap.line) # 2
    BY <1>6
  <2>2. Finished(tap) = Flush(fed)
    BY <1>1, <2>1
  <2>3. Found(tap, tap.line, "data") = tap.value
    BY <1>2, <2>1, FoundIs
  <2>4. QED
    BY <1>6, <2>2, <2>3, LastLineRead
<1>7. ASSUME NEW x, InStream(x), Line(x, tap.line), tap.event = <<>>, newest = Or(tap.of[x], tap.value)
      PROVE  Finished(tap).value = newest
  <2>1. x \in Unit
    BY <1>7 DEF InStream
  <2>2. tap.line # <<>>
    BY <1>7, <2>1, LineBegins
  <2>3. Finished(tap) = Flush(fed)
    BY <1>1, <2>2
  <2>4. Found(tap, tap.line, "data") = newest
    <3>1. SortOf[x] # "data" => tap.of[x] = None
      BY <1>2, <1>7, <2>1, UnitsAre DEF InStream
    <3>2. QED
      BY <1>2, <1>7, <2>1, <3>1, FoundIs
  <2>5. MarkerAt(tap.line, 1, {"data", "done"}) <=> SortOf[x] # "event"
    BY <1>7, <2>1, LineBegins DEF InStream
  <2>6. SortOf[x] = "event" => newest = tap.value
    BY <1>2, <1>7, <2>1, UnitsAre DEF Or
  <2>7. QED
    BY <1>7, <2>2, <2>3, <2>4, <2>5, <2>6, LastLineRead
<1>8. ASSUME NEW x, InStream(x), tap.line = <<>>, Line(x, tap.event), newest = Or(tap.of[x], tap.value)
      PROVE  Finished(tap).value = newest
  <2>1. x \in Unit
    BY <1>8 DEF InStream
  <2>2. Finished(tap) = Flush(tap)
    BY <1>1, <1>8
  <2>3. Found(tap, tap.event, "data") = newest
    <3>1. SortOf[x] # "data" => tap.of[x] = None
      BY <1>2, <1>8, <2>1, UnitsAre DEF InStream
    <3>2. QED
      BY <1>2, <1>8, <2>1, <3>1, FoundIs
  <2>4. QED
    BY <1>2, <2>2, <2>3
<1>9. ASSUME NoData(tap.line), tap.event = <<>>, tap.value = newest
      PROVE  Finished(tap).value = newest
  <2>1. CASE tap.line = <<>>
    BY <1>5, <1>9, <2>1
  <2>2. CASE tap.line # <<>>
    <3>1. ~ MarkerAt(tap.line, 1, {"data", "done"})
      BY <1>2, <1>9, <2>2, ReadOver
    <3>2. Finished(tap) = Flush(fed)
      BY <1>1, <2>2
    <3>3. QED
      BY <1>9, <2>2, <3>1, <3>2, LastLineRead
  <2>3. QED
    BY <2>1, <2>2
<1> HIDE DEF newest
<1>10. CASE Follows(tap, w, s, m, point)
  BY <1>5, <1>6, <1>7, <1>8, <1>10 DEF Follows, newest
<1>11. CASE ReadsOver(tap, w, s, m, point)
  BY <1>9, <1>11 DEF ReadsOver, newest
<1>12. QED
  BY <1>4, <1>10, <1>11 DEF StandsAt, newest

-----------------------------------------------------------------------------
(* A tap that reads lines where there are none                             *)

(* It holds at most a line without a marker.                               *)
Idle(tap) == NoData(tap.line) /\ tap.event = <<>> /\ tap.value = None

(* No piece is a line break or begins a line of an event stream.           *)
Lineless(p) == \A i \in 1 .. Len(p) : p[i] # Break /\ ~ Starts(p[i], {"data", "done"})

LEMMA FeedIdles ==
  ASSUME NEW tap \in Tap, NEW p \in Seq(Piece), Lineless(p), Within(tap) => Idle(tap)
  PROVE  LET fed == FeedSSE(tap, p)
         IN fed \in Tap /\ Carries(tap, fed) /\ (Within(fed) => Idle(fed))
<1> DEFINE K == Len(p)
           fed == FeedSSE(tap, p)
<1>1. PICK f : Fed(f, tap, p)
  BY FeedIs
<1>2. /\ K \in Nat /\ f \in [0 .. K -> Tap] /\ f[0] = tap
      /\ \A i \in 1 .. K : f[i] = Byte(f[i - 1], p[i])
  <2>1. K \in Nat
    OBVIOUS
  <2>2. QED
    BY <1>1, <2>1, Zenon DEF Fed
<1>3. \A i \in 1 .. K : p[i] \in Piece /\ p[i] # Break /\ ~ Starts(p[i], {"data", "done"})
  BY DEF Lineless
<1> DEFINE good == {i \in 0 .. K : Carries(tap, f[i]) /\ (Within(tap) => Idle(f[i]))}
<1> HIDE DEF K
<1>4. 0 \in good
  <2>1. 0 \in 0 .. K
    BY <1>2
  <2>2. Carries(tap, tap)
    BY DEF Carries
  <2>3. QED
    BY <1>2, <2>1, <2>2
<1>5. ASSUME NEW i \in 0 .. K, i < K, i \in good PROVE i + 1 \in good
  <2>1. i + 1 \in 1 .. K /\ i + 1 \in 0 .. K /\ (i + 1) - 1 = i
    BY <1>2, <1>5
  <2> DEFINE t == f[i]
             b == p[i + 1]
             u == f[i + 1]
  <2>2. t \in Tap /\ u = Byte(t, b)
    BY <1>2, <2>1
  <2>3. b \in Piece /\ b # Break /\ ~ Starts(b, {"data", "done"})
    BY <1>3, <2>1
  <2>4. Carries(tap, t) /\ (Within(tap) => Idle(t))
    BY <1>5
  <2> HIDE DEF t, b, u
  <2>5. Carries(tap, u)
    BY <2>2, <2>3, <2>4, ByteIs, CarriesOn
  <2>6. u.line = Append(t.line, b) /\ u.event = t.event /\ u.value = t.value /\ t.line \in Seq(Piece)
    <3>1. u = [t EXCEPT !.line = Append(@, b)]
      BY <2>2, <2>3 DEF Byte
    <3>2. QED
      BY <2>2, <3>1 DEF Tap
  <2>7. Within(tap) => Idle(u)
    BY <2>3, <2>4, <2>6, ReadOver DEF Idle
  <2>8. QED
    BY <2>1, <2>5, <2>7 DEF u
<1>6. K \in good
  <2> HIDE DEF good
  <2>1. \A i \in 0 .. K : i \in good
    BY <1>2, <1>4, <1>5, Induct
  <2>2. QED
    BY <1>2, <2>1
<1> DEFINE last == f[K]
<1>7. last \in Tap /\ Carries(tap, last) /\ (Within(tap) => Idle(last))
  BY <1>2, <1>6
<1>8. fed = IF tap.limit # "" THEN tap
            ELSE IF Len(last.line) > TapMax THEN [last EXCEPT !.limit = "sse_limit", !.line = <<>>]
            ELSE last
  BY <1>1 DEF Fed, K
<1> HIDE DEF last, fed
<1>9. CASE tap.limit # ""
  BY <1>8, <1>9 DEF Carries, Within, fed
<1>10. CASE tap.limit = "" /\ fed = last
  BY <1>7, <1>10 DEF Within, fed
<1>11. CASE fed = [last EXCEPT !.limit = "sse_limit", !.line = <<>>] /\ tap.limit = ""
  <2>1. <<>> \in Seq(Piece)
    OBVIOUS
  <2>2. fed \in Tap /\ Carries(tap, fed) /\ ~ Within(fed)
    BY <1>7, <1>11, <2>1 DEF Tap, Carries, Within
  <2>3. QED
    BY <2>2 DEF fed
<1>12. QED
  BY <1>8, <1>9, <1>10, <1>11

LEMMA IdleFinished ==
  ASSUME NEW tap \in Tap, ~ tap.connect, tap.sse, Within(tap) => Idle(tap), Within(Finished(tap))
  PROVE  Finished(tap).value = None
<1> DEFINE fed == FeedSSE(tap, <<Break, Break>>)
<1>3. Finished(tap) = Flush(IF tap.line = <<>> THEN tap ELSE fed)
  BY DEF Finished
<1>4. tap.line \in Seq(Piece) /\ Carries(tap, Flush(tap)) /\ Flush(tap).value = Found(tap, tap.event, "data")
  BY FlushIs DEF Tap
<1>5. fed \in Tap /\ Carries(fed, Flush(fed)) /\ (tap.limit # "" => fed = tap)
  <2>1. <<Break, Break>> \in Seq(Piece)
    BY PiecesAre
  <2>2. fed \in Tap
    BY <2>1, FeedTyped
  <2>3. tap.limit # "" => fed = tap
    BY DEF FeedSSE
  <2> HIDE DEF fed
  <2>4. QED
    BY <2>2, <2>3, FlushIs
<1>6. CASE tap.line = <<>>
  <2>1. Finished(tap) = Flush(tap)
    BY <1>3, <1>6
  <2>2. Idle(tap)
    BY <1>4, <2>1 DEF Within, Carries
  <2>3. Found(tap, tap.event, "data") = tap.value
    <3>1. tap.event \in Seq(Piece) /\ Len(tap.event) # 2
      BY <2>2 DEF Idle
    <3>2. QED
      BY <3>1, FoundIs
  <2>4. QED
    BY <1>4, <2>1, <2>2, <2>3 DEF Idle
<1>7. CASE tap.line # <<>>
  <2>1. Finished(tap) = Flush(fed)
    BY <1>3, <1>7
  <2>2. Within(tap)
    <3>1. Within(Flush(fed))
      BY <2>1
    <3> HIDE DEF fed
    <3>2. QED
      BY <1>5, <3>1 DEF Within, Carries
  <2>3. Idle(tap) /\ ~ MarkerAt(tap.line, 1, {"data", "done"})
    BY <1>4, <1>7, <2>2, ReadOver DEF Idle
  <2>4. QED
    BY <1>7, <2>1, <2>3, LastLineRead DEF Idle
<1>8. QED
  BY <1>6, <1>7

-----------------------------------------------------------------------------
(* Documents and Connect bodies                                            *)

LEMMA DocumentIs ==
  ASSUME NEW b \in Bodies, Document(b)
  PROVE  \E x \in Unit : SortOf[x] = "doc" /\ OnWire(b) = AtLength(x)
<1> DEFINE x == b.units[1]
<1>1. b.units \in Seq(Unit) /\ Len(b.units) = 1 /\ x \in Unit /\ SortOf[x] = "doc"
  <2>1. b.units \in Seq(Unit) /\ Len(b.units) = 1
    BY BodiesAre DEF Document
  <2>2. 1 \in DOMAIN b.units /\ x \in Unit
    BY <2>1
  <2>3. QED
    BY <2>1, <2>2 DEF Document, Of
<1>2. PICK flow \in [0 .. Len(b.units) -> Seq(Piece)] :
        /\ flow[0] = <<>>
        /\ \A n \in 1 .. Len(b.units) : flow[n] = flow[n - 1] \o OfUnit(b.units[n])
        /\ OnWire(b) = flow[Len(b.units)]
  BY WireIs
<1>3. OnWire(b) = <<>> \o OfUnit(x)
  <2>1. 1 \in 1 .. 1 /\ 1 - 1 = 0
    OBVIOUS
  <2>2. QED
    BY <1>1, <1>2, <2>1
<1>4. OfUnit(x) = AtLength(x)
  BY <1>1 DEF OfUnit
<1>5. <<>> \o OfUnit(x) = OfUnit(x)
  <2>1. OfUnit(x) \in Seq(Piece)
    BY <1>1, OfUnitIs
  <2>2. QED
    BY <2>1, ConcatEmptySeq
<1>6. QED
  BY <1>1, <1>3, <1>4, <1>5

(* Frames, one after the other: odd pieces begin one, even ones end it.    *)
Framed(w, K, unit) ==
  /\ w \in Seq(Piece) /\ Len(w) = 2 * K
  /\ \A i \in 1 .. K : /\ unit[i] \in Unit /\ SortOf[unit[i]] \in {"frame", "trailer", "failure"}
                       /\ w[2 * i - 1] = Half(unit[i], 1) /\ w[2 * i] = Half(unit[i], 2)

LEMMA ConnectIs ==
  ASSUME NEW b \in Bodies, ConnectBody(b)
  PROVE  Framed(OnWire(b), Len(b.units), b.units)
<1> DEFINE K == Len(b.units)
           unit == b.units
<1>1. K \in Nat /\ \A i \in 1 .. K : unit[i] \in Unit /\ SortOf[unit[i]] \in {"frame", "trailer", "failure"}
  <2>1. b.units \in Seq(Unit)
    BY BodiesAre
  <2>2. DOMAIN b.units = 1 .. K
    BY <2>1
  <2>3. QED
    BY <2>1, <2>2, BodiesAre DEF ConnectBody, Of
<1>2. \A i \in 1 .. K : OfUnit(unit[i]) = Whole(unit[i])
  <2>1. ASSUME NEW i \in 1 .. K PROVE OfUnit(unit[i]) = Whole(unit[i])
    <3>1. unit[i] \notin Big
      BY <1>1, UnitsAre
    <3>2. QED
      BY <1>1, <3>1 DEF OfUnit, AtLength
  <2>2. QED
    BY <2>1
<1>3. PICK flow \in [0 .. K -> Seq(Piece)] :
        /\ flow[0] = <<>>
        /\ \A n \in 1 .. K : flow[n] = flow[n - 1] \o OfUnit(unit[n])
        /\ OnWire(b) = flow[K]
  BY WireIs
<1> HIDE DEF K, unit
<1> DEFINE good == {n \in 0 .. K : Framed(flow[n], n, unit)}
<1>4. 0 \in good
  <2>1. 0 \in 0 .. K /\ 2 * 0 = 0 /\ \A i \in 1 .. 0 : FALSE
    BY <1>1
  <2>2. <<>> \in Seq(Piece) /\ Len(<<>>) = 0
    OBVIOUS
  <2>3. Framed(<<>>, 0, unit)
    BY <2>1, <2>2 DEF Framed
  <2>4. QED
    BY <1>3, <2>1, <2>3
<1>5. ASSUME NEW n \in 0 .. K, n < K, n \in good PROVE n + 1 \in good
  <2>1. n + 1 \in 1 .. K /\ n + 1 \in 0 .. K /\ (n + 1) - 1 = n /\ n \in Nat
    BY <1>1, <1>5
  <2> DEFINE old == flow[n]
             x == unit[n + 1]
             more == Whole(x)
             new == flow[n + 1]
  <2>2. /\ old \in Seq(Piece) /\ Len(old) = 2 * n /\ Len(old) \in Nat
        /\ \A i \in 1 .. n : old[2 * i - 1] = Half(unit[i], 1) /\ old[2 * i] = Half(unit[i], 2)
    BY <1>5, <2>1 DEF Framed
  <2>3. /\ x \in Unit /\ more \in Seq(Piece) /\ Len(more) = 2
        /\ more[1] = Half(x, 1) /\ more[2] = Half(x, 2)
    BY <1>1, <2>1, WholesAre
  <2>4. new = old \o more
    BY <1>2, <1>3, <2>1
  <2> HIDE DEF old, more, new
  <2>5. /\ new \in Seq(Piece) /\ Len(new) = Len(old) + Len(more)
        /\ \A i \in 1 .. Len(old) + Len(more) :
             new[i] = IF i <= Len(old) THEN old[i] ELSE more[i - Len(old)]
    BY <2>2, <2>3, <2>4, ConcatProperties
  <2>6. Len(new) = 2 * (n + 1)
    BY <2>1, <2>2, <2>3, <2>5
  <2>7. \A j \in 1 .. 2 * n + 2 : new[j] = IF j <= 2 * n THEN old[j] ELSE more[j - 2 * n]
    BY <2>1, <2>2, <2>3, <2>5
  <2>8. ASSUME NEW i \in 1 .. n + 1
        PROVE  new[2 * i - 1] = Half(unit[i], 1) /\ new[2 * i] = Half(unit[i], 2)
    <3>1. 2 * i - 1 \in 1 .. 2 * n + 2 /\ 2 * i \in 1 .. 2 * n + 2
      BY <2>1
    <3>2. CASE i <= n
      <4>1. i \in 1 .. n /\ 2 * i - 1 <= 2 * n /\ 2 * i <= 2 * n
        BY <2>1, <3>2
      <4>2. new[2 * i - 1] = old[2 * i - 1] /\ new[2 * i] = old[2 * i]
        BY <2>7, <3>1, <4>1
      <4>3. QED
        BY <2>2, <4>1, <4>2
    <3>3. CASE i = n + 1
      <4>1. /\ ~ (2 * i - 1 <= 2 * n) /\ ~ (2 * i <= 2 * n)
            /\ (2 * i - 1) - 2 * n = 1 /\ 2 * i - 2 * n = 2
        BY <2>1, <3>3
      <4>2. new[2 * i - 1] = more[1] /\ new[2 * i] = more[2]
        BY <2>7, <3>1, <4>1
      <4>3. QED
        BY <2>3, <3>3, <4>2
    <3>4. QED
      BY <2>1, <3>2, <3>3
  <2>9. \A i \in 1 .. n + 1 : i \in 1 .. K
    BY <1>1, <2>1
  <2>10. Framed(new, n + 1, unit)
    BY <1>1, <2>5, <2>6, <2>8, <2>9 DEF Framed
  <2>11. QED
    BY <2>1, <2>10 DEF new
<1>6. K \in good
  <2> HIDE DEF good
  <2>1. \A n \in 0 .. K : n \in good
    BY <1>1, <1>4, <1>5, Induct
  <2>2. QED
    BY <1>1, <2>1
<1>7. QED
  BY <1>3, <1>6 DEF K, unit

(* The first j even numbers.                                               *)
LEMMA EvensCounted ==
  ASSUME NEW K \in Nat
  PROVE  \A j \in 0 .. K : LET evens == {2 * i : i \in 1 .. j}
                           IN IsFiniteSet(evens) /\ Cardinality(evens) = j
<1> DEFINE E(j) == {2 * i : i \in 1 .. j}
           good == {j \in 0 .. K : IsFiniteSet(E(j)) /\ Cardinality(E(j)) = j}
<1>1. 0 \in good
  <2>1. E(0) = {}
    OBVIOUS
  <2> HIDE DEF E
  <2>2. IsFiniteSet(E(0)) /\ Cardinality(E(0)) = 0
    BY <2>1, FS_EmptySet
  <2>3. QED
    BY <2>2
<1>2. ASSUME NEW j \in 0 .. K, j < K, j \in good PROVE j + 1 \in good
  <2>1. E(j + 1) = E(j) \cup {2 * (j + 1)}
    <3>1. \A i : i \in 1 .. j + 1 <=> i \in 1 .. j \/ i = j + 1
      OBVIOUS
    <3>2. QED
      BY <3>1
  <2>2. 2 * (j + 1) \notin E(j)
    OBVIOUS
  <2>3. j + 1 \in 0 .. K
    BY <1>2
  <2> HIDE DEF E
  <2>4. IsFiniteSet(E(j)) /\ Cardinality(E(j)) = j
    BY <1>2
  <2>5. IsFiniteSet(E(j + 1)) /\ Cardinality(E(j + 1)) = j + 1
    BY <2>1, <2>2, <2>4, FS_AddElement
  <2>6. QED
    BY <2>3, <2>5
<1> HIDE DEF good
<1>3. \A j \in 0 .. K : j \in good
  BY <1>1, <1>2, Induct
<1>4. QED
  BY <1>3 DEF good

(* Every piece is half of a unit that is no line of an event stream.       *)
Unstreamed(w) ==
  \A i \in 1 .. Len(w) :
    \E x \in Unit : /\ SortOf[x] \notin {"event", "data", "done"}
                    /\ w[i] = Half(x, 1) \/ w[i] = Half(x, 2)

LEMMA HalfOf ==
  ASSUME NEW m \in Nat
  PROVE  \A i \in 1 .. m : \E j \in 1 .. m : \/ i = 2 * j /\ i % 2 = 0
                                             \/ i = 2 * j - 1 /\ i % 2 = 1
<1>1. ASSUME NEW i \in 1 .. m
      PROVE  \E j \in 1 .. m : (i = 2 * j /\ i % 2 = 0) \/ (i = 2 * j - 1 /\ i % 2 = 1)
  <2>1. CASE i % 2 = 0
    <3>1. i \div 2 \in 1 .. m /\ i = 2 * (i \div 2)
      BY <2>1
    <3>2. QED
      BY <2>1, <3>1
  <2>2. CASE i % 2 = 1
    <3>1. (i + 1) \div 2 \in 1 .. m /\ i = 2 * ((i + 1) \div 2) - 1
      BY <2>2
    <3>2. QED
      BY <2>2, <3>1
  <2>3. i % 2 \in {0, 1}
    OBVIOUS
  <2>4. QED
    BY <2>1, <2>2, <2>3
<1>2. QED
  BY <1>1

(* The place of a piece among frames.                                      *)
LEMMA FramePieces ==
  ASSUME NEW w, NEW K \in Nat, NEW unit, Framed(w, K, unit), NEW i \in 1 .. 2 * K
  PROVE  \E j \in 1 .. K : \/ i = 2 * j /\ i % 2 = 0 /\ w[i] = Half(unit[j], 2)
                           \/ i = 2 * j - 1 /\ i % 2 = 1 /\ w[i] = Half(unit[j], 1)
<1>1. 2 * K \in Nat
  OBVIOUS
<1>2. PICK j \in 1 .. 2 * K : (i = 2 * j /\ i % 2 = 0) \/ (i = 2 * j - 1 /\ i % 2 = 1)
  BY <1>1, HalfOf
<1>3. j \in 1 .. K
  BY <1>2
<1>4. w[2 * j - 1] = Half(unit[j], 1) /\ w[2 * j] = Half(unit[j], 2)
  BY <1>3 DEF Framed
<1>5. QED
  BY <1>2, <1>3, <1>4

LEMMA FrameHalves ==
  ASSUME NEW w, NEW K \in Nat, NEW unit, Framed(w, K, unit)
  PROVE  \A i \in 1 .. 2 * K : w[i].half = 2 - (i % 2)
<1>1. ASSUME NEW i \in 1 .. 2 * K PROVE w[i].half = 2 - (i % 2)
  <2>1. PICK j \in 1 .. K : \/ i = 2 * j /\ i % 2 = 0 /\ w[i] = Half(unit[j], 2)
                            \/ i = 2 * j - 1 /\ i % 2 = 1 /\ w[i] = Half(unit[j], 1)
    BY FramePieces
  <2>2. unit[j] \in Unit
    BY DEF Framed
  <2>3. Half(unit[j], 1).half = 1 /\ Half(unit[j], 2).half = 2
    BY <2>2, PiecesAre
  <2>4. QED
    BY <2>1, <2>3
<1>2. QED
  BY <1>1

LEMMA UnstreamedWire ==
  ASSUME NEW b \in Bodies, ~ EventStream(b)
  PROVE  OnWire(b) \in Seq(Piece) /\ Unstreamed(OnWire(b))
<1>1. CASE Document(b)
  <2>1. PICK x \in Unit : SortOf[x] = "doc" /\ OnWire(b) = AtLength(x)
    BY <1>1, DocumentIs
  <2> DEFINE xs == AtLength(x)
  <2>2. xs \in Seq(Piece) /\ xs[1] = Half(x, 1) /\ \A i \in 2 .. Len(xs) : xs[i] = Half(x, 2)
    BY AtLengthIs
  <2> HIDE DEF xs
  <2>3. \A i \in 1 .. Len(xs) : i = 1 \/ i \in 2 .. Len(xs)
    BY <2>2
  <2>4. \A i \in 1 .. Len(xs) : xs[i] = Half(x, 1) \/ xs[i] = Half(x, 2)
    BY <2>2, <2>3
  <2>5. QED
    BY <2>1, <2>2, <2>4 DEF Unstreamed, xs
<1>2. CASE ConnectBody(b)
  <2> DEFINE K == Len(b.units)
             w == OnWire(b)
             unit == b.units
  <2>1. K \in Nat /\ Framed(w, K, unit)
    BY <1>2, BodiesAre, ConnectIs
  <2> HIDE DEF K, w, unit
  <2>2. /\ w \in Seq(Piece) /\ Len(w) = 2 * K
        /\ \A j \in 1 .. K : unit[j] \in Unit /\ SortOf[unit[j]] \in {"frame", "trailer", "failure"}
    BY <2>1 DEF Framed
  <2>3. ASSUME NEW i \in 1 .. Len(w)
        PROVE  \E x \in Unit : /\ SortOf[x] \notin {"event", "data", "done"}
                               /\ w[i] = Half(x, 1) \/ w[i] = Half(x, 2)
    <3>1. i \in 1 .. 2 * K
      BY <2>2
    <3>2. PICK j \in 1 .. K : w[i] = Half(unit[j], 1) \/ w[i] = Half(unit[j], 2)
      BY <2>1, <3>1, FramePieces
    <3>3. unit[j] \in Unit /\ SortOf[unit[j]] \notin {"event", "data", "done"}
      BY <2>2
    <3>4. QED
      BY <3>2, <3>3
  <2>4. QED
    BY <2>2, <2>3 DEF Unstreamed, w
<1>3. QED
  BY <1>1, <1>2, BodiesAre

(* A wire that carries nothing yields nothing.                             *)
LEMMA NothingThere ==
  ASSUME NEW tap \in Tap, NEW w \in Seq(Piece), NEW m \in 0 .. Len(w),
         \A i \in 1 .. Len(w) : tap.of[w[i].unit] = None
  PROVE  V(tap.of, w, 0, m) = None /\ Found(tap, SubSeq(w, 1, m), "doc") = tap.value
<1> DEFINE raw == SubSeq(w, 1, m)
<1>1. m \in Nat /\ m <= Len(w) /\ Len(w) \in Nat
  OBVIOUS
<1>2. raw \in Seq(Piece) /\ Len(raw) = m /\ \A i \in 1 .. m : raw[i] = w[i]
  BY <1>1
<1> HIDE DEF raw
<1>3. Ends(tap.of, w, 0, m) = {}
  <2>1. ASSUME NEW n \in Ends(tap.of, w, 0, m) PROVE FALSE
    <3>1. n \in 2 .. m /\ \E x \in Unit : tap.of[x] # None /\ w[n] = Half(x, 2)
      BY DEF Ends
    <3>2. PICK x \in Unit : tap.of[x] # None /\ w[n] = Half(x, 2)
      BY <3>1
    <3>3. n \in 1 .. Len(w)
      BY <1>1, <3>1
    <3>4. w[n].unit = x
      BY <3>2, PiecesAre
    <3>5. QED
      BY <3>2, <3>3, <3>4
  <2>2. QED
    BY <2>1
<1>4. V(tap.of, w, 0, m) = None
  BY <1>3 DEF V
<1>5. Found(tap, raw, "doc") = tap.value
  <2>1. CASE ~ \E x \in Unit : raw = Whole(x)
    <3>1. Parsed(raw, "doc") = {}
      BY <2>1 DEF Parsed
    <3>2. QED
      BY <3>1 DEF Found
  <2>2. CASE \E x \in Unit : raw = Whole(x)
    <3>1. PICK x \in Unit : raw = Whole(x)
      BY <2>2
    <3>2. m = 2 /\ raw[1] = Half(x, 1)
      BY <1>2, <3>1, WholesAre
    <3>3. w[1] = Half(x, 1) /\ 1 \in 1 .. Len(w)
      BY <1>1, <1>2, <3>2
    <3>4. tap.of[x] = None
      BY <3>3, PiecesAre
    <3>5. Parsed(raw, "doc") \in SUBSET {x}
      BY <3>1, WholesAre DEF Parsed
    <3>6. ~ \E y \in Parsed(raw, "doc") : tap.of[y] # None
      BY <3>4, <3>5
    <3>7. QED
      BY <3>6 DEF Found
  <2>3. QED
    BY <2>1, <2>2
<1>6. QED
  BY <1>4, <1>5 DEF raw

LEMMA DocumentFinished ==
  ASSUME NEW tap \in Tap, tap.value = None, NEW x \in Unit, SortOf[x] = "doc", NEW w, w = AtLength(x),
         NEW m \in 0 .. Len(w)
  PROVE  Found(tap, SubSeq(w, 1, m), "doc") = V(tap.of, w, 0, m)
<1> DEFINE raw == SubSeq(w, 1, m)
<1>1. /\ w \in Seq(Piece) /\ Len(w) >= 2 /\ (Len(w) > 2 => x \in Big) /\ Len(w) \in Nat
      /\ w[1] = Half(x, 1) /\ \A i \in 2 .. Len(w) : w[i] = Half(x, 2)
  BY AtLengthIs
<1>2. m \in Nat /\ m <= Len(w) /\ tap.of \in {UsageOf, EditsOf}
  <2>1. m \in Nat /\ m <= Len(w)
    BY <1>1
  <2>2. QED
    BY <2>1 DEF Tap
<1>3. raw \in Seq(Piece) /\ Len(raw) = m /\ \A i \in 1 .. m : raw[i] = w[i]
  BY <1>1, <1>2
<1> HIDE DEF raw
<1>4. CASE tap.of[x] = None
  <2>1. \A i \in 1 .. Len(w) : w[i].unit = x
    <3>1. \A i \in 1 .. Len(w) : i = 1 \/ i \in 2 .. Len(w)
      BY <1>1
    <3>2. QED
      BY <1>1, <3>1, PiecesAre
  <2>2. V(tap.of, w, 0, m) = None /\ Found(tap, raw, "doc") = tap.value
    BY <1>1, <1>4, <2>1, NothingThere DEF raw
  <2>3. QED
    BY <2>2 DEF raw
<1>5. CASE m < 2
  <2>1. Found(tap, raw, "doc") = None
    <3>1. Len(raw) # 2
      BY <1>2, <1>3, <1>5
    <3>2. QED
      BY <1>3, <3>1, FoundIs
  <2>2. Ends(tap.of, w, 0, m) = {}
    <3>1. \A n \in 2 .. m : FALSE
      BY <1>2, <1>5
    <3>2. QED
      BY <3>1 DEF Ends
  <2>3. QED
    BY <2>1, <2>2 DEF V, raw
<1>6. CASE m = 2
  <2>1. w[2] = Half(x, 2)
    BY <1>1
  <2>2. raw = Whole(x)
    <3>1. raw[1] = Half(x, 1) /\ raw[2] = Half(x, 2)
      BY <1>1, <1>3, <1>6, <2>1
    <3>2. QED
      BY <1>3, <1>6, <3>1, WholeIs
  <2>3. Line(x, raw)
    <3>1. raw[1] = Half(x, 1) /\ Len(raw) >= 2
      BY <1>1, <1>3, <1>6
    <3>2. QED
      BY <1>3, <2>2, <3>1 DEF Line
  <2>4. Found(tap, raw, "doc") = Or(tap.of[x], None)
    BY <1>3, <2>3, FoundIs
  <2>5. V(tap.of, w, 0, 1) = None
    <3>1. \A n \in 2 .. 1 : FALSE
      OBVIOUS
    <3>2. Ends(tap.of, w, 0, 1) = {}
      BY <3>1 DEF Ends
    <3>3. QED
      BY <3>2 DEF V
  <2>6. V(tap.of, w, 0, 2) = Or(tap.of[x], None)
    <3>1. 1 \in 0 .. Len(w) /\ 1 < Len(w) /\ 1 + 1 = 2 /\ 1 > 0
      BY <1>1
    <3>2. V(tap.of, w, 0, 1 + 1) =
            IF \E y \in Unit : 1 > 0 /\ w[1] = Half(y, 1) /\ w[1 + 1] = Half(y, 2)
            THEN Or(tap.of[w[1 + 1].unit], V(tap.of, w, 0, 1)) ELSE V(tap.of, w, 0, 1)
      BY <1>1, <3>1, VStep
    <3>3. w[2].unit = x
      BY <2>1, PiecesAre
    <3>4. QED
      BY <1>1, <2>1, <2>5, <3>1, <3>2, <3>3
  <2>7. QED
    BY <1>6, <2>4, <2>6 DEF raw
<1>7. CASE m > 2 /\ tap.of[x] # None
  <2>1. x \notin Big
    BY <1>2, <1>7, UnitsAre
  <2>2. QED
    BY <1>1, <1>2, <1>7, <2>1
<1>8. QED
  BY <1>2, <1>4, <1>5, <1>6, <1>7

(* What finishConnect makes of the first m pieces of frames.               *)
LEMMA ConnectFinished ==
  ASSUME NEW tap \in Tap, NEW w, NEW K \in Nat, NEW unit, Framed(w, K, unit), NEW m \in 0 .. 2 * K,
         tap.raw = SubSeq(w, 1, m)
  PROVE  LET r == FinishedConnect(tap)
         IN /\ r.value = V(tap.of, w, 0, m) /\ r.limit = tap.limit /\ r.of = tap.of /\ r.connect = tap.connect
            /\ r.finish = IF \E x \in Unit, n \in 1 .. m :
                               SortOf[x] = "failure" /\ n < m /\ w[n] = Half(x, 1) /\ w[n + 1] = Half(x, 2)
                          THEN "error" ELSE IF m % 2 = 1 THEN "incomplete" ELSE ""
<1> DEFINE raw == tap.raw
           evens == {2 * j : j \in 1 .. m \div 2}
           of == tap.of
           units == UnitsIn(raw)
           with == {n \in DOMAIN units : \E x \in units[n] : of[x] # None}
           failed == \E n \in DOMAIN units : \E x \in units[n] : SortOf[x] = "failure"
           newest == CHOOSE n \in with : \A k \in with : k <= n
           value == IF with = {} THEN None ELSE of[CHOOSE x \in units[newest] : TRUE]
           finish == IF failed THEN "error"
                     ELSE IF 2 * Cardinality(Envelopes(raw)) < Len(raw) THEN "incomplete" ELSE ""
           Broke(x, n) == SortOf[x] = "failure" /\ n < m /\ w[n] = Half(x, 1) /\ w[n + 1] = Half(x, 2)
<1>1. /\ w \in Seq(Piece) /\ Len(w) = 2 * K /\ m \in Nat /\ m <= Len(w) /\ m <= 2 * K
      /\ \A j \in 1 .. K : /\ unit[j] \in Unit
                           /\ w[2 * j - 1] = Half(unit[j], 1) /\ w[2 * j] = Half(unit[j], 2)
  <2>1. w \in Seq(Piece) /\ Len(w) = 2 * K
    BY DEF Framed
  <2>2. m \in Nat /\ m <= 2 * K
    OBVIOUS
  <2>3. \A j \in 1 .. K : /\ unit[j] \in Unit
                          /\ w[2 * j - 1] = Half(unit[j], 1) /\ w[2 * j] = Half(unit[j], 2)
    BY DEF Framed
  <2>4. QED
    BY <2>1, <2>2, <2>3
<1>2. raw \in Seq(Piece) /\ Len(raw) = m /\ \A i \in 1 .. m : raw[i] = w[i]
  BY <1>1
<1>3. FinishedConnect(tap) = [tap EXCEPT !.value = value, !.finish = finish]
  BY DEF FinishedConnect
<1> HIDE DEF raw
<1>4. \A i \in 1 .. m : w[i].half = 2 - (i % 2)
  <2>1. \A i \in 1 .. m : i \in 1 .. 2 * K
    BY <1>1
  <2>2. QED
    BY <2>1, FrameHalves
<1>5. Envelopes(raw) = evens
  <2>1. DOMAIN raw = 1 .. m
    BY <1>1, <1>2
  <2>2. \A n \in 1 .. m : n % 2 = 0 <=> n \in evens
    <3>1. ASSUME NEW n \in 1 .. m, n % 2 = 0 PROVE n \in evens
      <4>1. n \div 2 \in 1 .. m \div 2 /\ n = 2 * (n \div 2)
        BY <1>1, <3>1
      <4>2. QED
        BY <4>1
    <3>2. ASSUME NEW n \in evens PROVE n % 2 = 0
      BY <1>1, <3>2
    <3>3. QED
      BY <3>1, <3>2
  <2>3. evens \in SUBSET (1 .. m)
    BY <1>1
  <2>4. \A n \in 1 .. m : \A i \in 1 .. n : raw[i].half = 2 - (i % 2)
    <3>1. \A n \in 1 .. m : \A i \in 1 .. n : i \in 1 .. m
      BY <1>1
    <3>2. QED
      BY <1>2, <1>4, <3>1
  <2> HIDE DEF evens
  <2>5. QED
    BY <2>1, <2>2, <2>3, <2>4 DEF Envelopes
<1>6. Cardinality(Envelopes(raw)) = m \div 2
  <2>1. m \div 2 \in 0 .. m
    BY <1>1
  <2>2. QED
    BY <1>1, <1>5, <2>1, EvensCounted
<1>7. 2 * Cardinality(Envelopes(raw)) < Len(raw) <=> m % 2 = 1
  BY <1>1, <1>2, <1>6
<1>8. \A n \in evens : /\ n \in 2 .. m /\ n - 1 \in 1 .. m /\ n \in 1 .. m
                       /\ \E j \in 1 .. K : n = 2 * j
  <2>1. ASSUME NEW n \in evens
        PROVE  n \in 2 .. m /\ n - 1 \in 1 .. m /\ n \in 1 .. m /\ \E j \in 1 .. K : n = 2 * j
    <3>1. PICK j \in 1 .. m \div 2 : n = 2 * j
      OBVIOUS
    <3>2. j \in 1 .. K /\ 2 * j \in 2 .. m /\ 2 * j - 1 \in 1 .. m /\ 2 * j \in 1 .. m
      BY <1>1, <3>1
    <3>3. QED
      BY <3>1, <3>2
  <2>2. QED
    BY <2>1
<1>9. /\ DOMAIN units = evens
      /\ \A n \in evens : units[n] = {x \in Unit : w[n - 1] = Half(x, 1) /\ w[n] = Half(x, 2)}
  <2>1. DOMAIN units = evens /\ \A n \in evens : units[n] = {x \in Unit : SubSeq(raw, n - 1, n) = Whole(x)}
    BY <1>5 DEF UnitsIn
  <2>2. ASSUME NEW n \in evens, NEW x \in Unit
        PROVE  SubSeq(raw, n - 1, n) = Whole(x) <=> w[n - 1] = Half(x, 1) /\ w[n] = Half(x, 2)
    <3> DEFINE pair == SubSeq(raw, n - 1, n)
    <3>1. n - 1 \in 1 .. m /\ n \in 1 .. m /\ n \in Nat
      BY <1>1, <1>8
    <3>2. pair \in Seq(Piece) /\ Len(pair) = 2 /\ pair[1] = w[n - 1] /\ pair[2] = w[n]
      BY <1>1, <1>2, <3>1
    <3> HIDE DEF pair
    <3>3. pair = Whole(x) <=> w[n - 1] = Half(x, 1) /\ w[n] = Half(x, 2)
      BY <3>2, WholeIs
    <3>4. QED
      BY <3>3 DEF pair
  <2> HIDE DEF units, evens
  <2>3. QED
    BY <2>1, <2>2
<1>10. with = Ends(of, w, 0, m)
  <2>1. ASSUME NEW n \in with PROVE n \in Ends(of, w, 0, m)
    <3>1. n \in DOMAIN units /\ \E x \in units[n] : of[x] # None
      OBVIOUS
    <3> HIDE DEF units, evens
    <3>2. n \in evens /\ n \in 2 .. m
      BY <1>8, <1>9, <3>1
    <3>3. \E x \in Unit : of[x] # None /\ w[n - 1] = Half(x, 1) /\ w[n] = Half(x, 2)
      BY <1>9, <3>1, <3>2
    <3>4. QED
      BY <3>2, <3>3 DEF Ends
  <2>2. ASSUME NEW n \in Ends(of, w, 0, m) PROVE n \in with
    <3>1. PICK x \in Unit : of[x] # None /\ w[n - 1] = Half(x, 1) /\ w[n] = Half(x, 2)
      BY DEF Ends
    <3>2. n \in 2 .. m
      BY DEF Ends
    <3>3. n \in 1 .. 2 * K /\ n \in 1 .. m
      BY <1>1, <3>2
    <3>4. PICK j \in 1 .. K : \/ n = 2 * j /\ n % 2 = 0 /\ w[n] = Half(unit[j], 2)
                              \/ n = 2 * j - 1 /\ n % 2 = 1 /\ w[n] = Half(unit[j], 1)
      BY <3>3, FramePieces
    <3>5. n = 2 * j
      <4>1. Half(unit[j], 1) # Half(x, 2)
        BY <1>1, PiecesAre
      <4>2. QED
        BY <3>1, <3>4, <4>1
    <3>6. j \in 1 .. m \div 2
      BY <1>1, <3>3, <3>5
    <3>7. n \in evens
      BY <3>5, <3>6
    <3> HIDE DEF evens, units
    <3>8. x \in units[n]
      BY <1>9, <3>1, <3>7
    <3>9. QED
      BY <1>9, <3>1, <3>7, <3>8
  <2>3. with \in SUBSET Ends(of, w, 0, m)
    BY <2>1
  <2>4. QED
    BY <2>2, <2>3
<1>11. value = V(of, w, 0, m)
  <2>1. CASE with = {}
    BY <1>10, <2>1 DEF V
  <2>2. CASE with # {}
    <3> DEFINE top == CHOOSE n \in Ends(of, w, 0, m) : \A k \in Ends(of, w, 0, m) : k <= n
    <3>1. newest = top /\ V(of, w, 0, m) = of[w[top].unit]
      BY <1>10, <2>2 DEF V
    <3>2. newest \in with
      <4>1. with \in SUBSET (0 .. m)
        BY <1>8, <1>9
      <4> HIDE DEF with
      <4>2. \E n \in with : \A k \in with : k <= n
        BY <1>1, <2>2, <4>1, GreatestExists
      <4>3. QED
        BY <4>2
    <3>3. newest \in evens /\ \E x \in units[newest] : of[x] # None
      <4> HIDE DEF newest, units
      <4>1. QED
        BY <1>9, <3>2
    <3> HIDE DEF newest
    <3>4. PICK x \in units[newest] : of[x] # None
      BY <3>3
    <3>5. \A y \in units[newest] : w[newest].unit = y
      BY <1>9, <3>3, PiecesAre
    <3>6. (CHOOSE y \in units[newest] : TRUE) = w[newest].unit
      BY <3>4, <3>5
    <3>7. QED
      BY <2>2, <3>1, <3>6
  <2>3. QED
    BY <2>1, <2>2
<1>12. failed <=> \E x \in Unit, n \in 1 .. m : Broke(x, n)
  <2>1. ASSUME NEW n \in evens, NEW x \in units[n], SortOf[x] = "failure"
        PROVE  x \in Unit /\ n - 1 \in 1 .. m /\ Broke(x, n - 1)
    <3>1. x \in Unit /\ w[n - 1] = Half(x, 1) /\ w[n] = Half(x, 2)
      BY <1>9
    <3>2. n - 1 \in 1 .. m /\ n - 1 < m /\ (n - 1) + 1 = n
      BY <1>8
    <3>3. QED
      BY <2>1, <3>1, <3>2
  <2>2. ASSUME NEW x \in Unit, NEW n \in 1 .. m, Broke(x, n)
        PROVE  n + 1 \in evens /\ x \in units[n + 1]
    <3>1. n + 1 \in 1 .. m /\ n + 1 \in 1 .. 2 * K /\ (n + 1) - 1 = n
      BY <1>1, <2>2
    <3>2. PICK j \in 1 .. K :
            \/ n + 1 = 2 * j /\ (n + 1) % 2 = 0 /\ w[n + 1] = Half(unit[j], 2)
            \/ n + 1 = 2 * j - 1 /\ (n + 1) % 2 = 1 /\ w[n + 1] = Half(unit[j], 1)
      BY <3>1, FramePieces
    <3>3. n + 1 = 2 * j
      <4>1. Half(unit[j], 1) # Half(x, 2)
        BY <1>1, PiecesAre
      <4>2. QED
        BY <2>2, <3>2, <4>1
    <3>4. j \in 1 .. m \div 2
      BY <1>1, <3>1, <3>3
    <3>5. n + 1 \in evens
      BY <3>3, <3>4
    <3> HIDE DEF evens, units
    <3>6. QED
      BY <1>9, <2>2, <3>1, <3>5
  <2> HIDE DEF evens, units, Broke
  <2>3. ASSUME failed PROVE \E x \in Unit, n \in 1 .. m : Broke(x, n)
    BY <1>9, <2>1, <2>3
  <2>4. ASSUME NEW x \in Unit, NEW n \in 1 .. m, Broke(x, n) PROVE failed
    <3>1. n + 1 \in evens /\ x \in units[n + 1] /\ SortOf[x] = "failure"
      BY <2>2, <2>4 DEF Broke
    <3>2. QED
      BY <1>9, <3>1
  <2>5. QED
    BY <2>3, <2>4
<1>13. finish = IF \E x \in Unit, n \in 1 .. m : Broke(x, n) THEN "error"
                ELSE IF m % 2 = 1 THEN "incomplete" ELSE ""
  <2> HIDE DEF failed, Broke
  <2>1. QED
    BY <1>7, <1>12
<1> HIDE DEF value, finish
<1>14. /\ FinishedConnect(tap).value = value /\ FinishedConnect(tap).finish = finish
       /\ FinishedConnect(tap).limit = tap.limit /\ FinishedConnect(tap).of = tap.of
       /\ FinishedConnect(tap).connect = tap.connect
  BY <1>3 DEF Tap
<1>15. QED
  BY <1>11, <1>13, <1>14

-----------------------------------------------------------------------------
(* The invariant                                                           *)

PlacesOf(b) == CHOOSE pl : Places(OnWire(b), pl)

(* Of the m pieces of b that were read the first j were read as JSON; the  *)
(* rest, if there is one, is read as lines.                                *)
Lined(b, m, j) == b.type = "sse" \/ j < m

Split(b, m, j) ==
  /\ m \in 0 .. Len(OnWire(b)) /\ j \in 0 .. m
  /\ b.type = "sse" => j = 0
  /\ b.type = "connect" => j = m

(* A tap that has read so much: on an event stream read as lines it stands *)
(* where the stream does, as far as it knows it; of what is not read as    *)
(* lines it has all that came so far.                                      *)
TapHolds(tap, of, bounded, b, m, j) ==
  /\ tap \in Tap /\ tap.of = of /\ tap.bounded = bounded
  /\ tap.connect <=> b.type = "connect" /\ bounded
  /\ tap.sse <=> Lined(b, m, j)
  /\ tap.sse /\ Within(tap) =>
       IF EventStream(b) THEN StandsAt(tap, OnWire(b), j, m, PlacesOf(b)[m]) ELSE Idle(tap)
  /\ ~ tap.sse =>
       /\ tap.value = None /\ tap.line = <<>> /\ tap.event = <<>>
       /\ Within(tap) => tap.raw = SubSeq(OnWire(b), 1, m)

(* Its report then.                                                        *)
Reports(r, of, bounded, b, m, j) ==
  LET w == OnWire(b)
      Broke(x, n) == SortOf[x] = "failure" /\ n < m /\ w[n] = Half(x, 1) /\ w[n + 1] = Half(x, 2)
  IN /\ r.of = of
     /\ r.connect <=> b.type = "connect" /\ bounded
     /\ Within(r) =>
          /\ r.value = IF b.type = "json" /\ (EventStream(b) <=> ~ Lined(b, m, j)) THEN None
                       ELSE V(of, w, IF Lined(b, m, j) THEN j ELSE 0, m)
          /\ r.connect => r.finish = IF \E x \in Unit, n \in 1 .. m : Broke(x, n) THEN "error"
                                     ELSE IF m % 2 = 1 THEN "incomplete" ELSE ""

OneOfTheTwo(of, bounded) == (of = UsageOf /\ bounded = TRUE) \/ (of = EditsOf /\ bounded = FALSE)

TapsInv ==
  /\ body \in Bodies /\ Split(body, taken, asJSON) /\ over \in BOOLEAN
  /\ ~ over => /\ TapHolds(usageTap, UsageOf, TRUE, body, taken, asJSON)
               /\ TapHolds(editsTap, EditsOf, FALSE, body, taken, asJSON)
  /\ over => /\ Reports(usageTap, UsageOf, TRUE, body, taken, asJSON)
             /\ Reports(editsTap, EditsOf, FALSE, body, taken, asJSON)

LEMMA WireTyped ==
  ASSUME NEW b \in Bodies
  PROVE  /\ OnWire(b) \in Seq(Piece) /\ Len(OnWire(b)) \in Nat
         /\ EventStream(b) => Places(OnWire(b), PlacesOf(b))
<1>1. OnWire(b) \in Seq(Piece)
  BY StreamHasPlaces, UnstreamedWire
<1>2. EventStream(b) => Places(OnWire(b), PlacesOf(b))
  BY StreamHasPlaces DEF PlacesOf
<1>3. QED
  BY <1>1, <1>2

LEMMA NewTapHolds ==
  ASSUME NEW b \in Bodies, NEW of, NEW bounded, OneOfTheTwo(of, bounded)
  PROVE  TapHolds(NewTap(b.type, of, bounded), of, bounded, b, 0, 0)
<1> DEFINE tap == NewTap(b.type, of, bounded)
           w == OnWire(b)
<1>1. of \in {UsageOf, EditsOf} /\ bounded \in BOOLEAN
  BY DEF OneOfTheTwo
<1>2. <<>> \in Seq(Piece) /\ None \in Values
  <2>1. <<>> \in Seq(Piece)
    OBVIOUS
  <2>2. None \in Values
    BY DEF Values
  <2>3. QED
    BY <2>1, <2>2
<1>3. /\ tap.sse = (b.type = "sse") /\ tap.connect = (b.type = "connect" /\ bounded)
      /\ tap.of = of /\ tap.bounded = bounded /\ tap.raw = <<>> /\ tap.line = <<>>
      /\ tap.event = <<>> /\ tap.value = None /\ tap.limit = ""
  BY DEF NewTap
<1>4. tap \in Tap
  BY <1>1, <1>2 DEF NewTap, Tap
<1> HIDE DEF tap
<1>5. tap.sse <=> Lined(b, 0, 0)
  <2>1. ~ (0 < 0)
    OBVIOUS
  <2>2. tap.sse = (b.type = "sse")
    BY <1>3
  <2>3. QED
    BY <2>1, <2>2, Zenon DEF Lined
<1>6. ASSUME EventStream(b) PROVE StandsAt(tap, w, 0, 0, PlacesOf(b)[0])
  <2>1. PlacesOf(b)[0] = First
    BY <1>6, WireTyped DEF Places
  <2>2. tap.value = V(tap.of, w, 0, 0)
    BY <1>3, VOfNothing
  <2>3. QED
    BY <1>3, <2>1, <2>2 DEF StandsAt, Follows
<1>7. ASSUME ~ EventStream(b) PROVE ~ tap.sse
  BY <1>3, <1>7, BodiesAre DEF Document, ConnectBody
<1>8. SubSeq(w, 1, 0) = <<>>
  BY WireTyped
<1>9. QED
  BY <1>3, <1>4, <1>5, <1>6, <1>7, <1>8 DEF TapHolds, tap

(* No chunk of a Connect body looks like one of an event stream, and the   *)
(* chunks of a document have neither lines nor breaks.                     *)
LEMMA Looks ==
  ASSUME NEW b \in Bodies, ~ EventStream(b),
         NEW m \in 0 .. Len(OnWire(b)), NEW n \in 0 .. Len(OnWire(b)), m < n
  PROVE  LET p == SubSeq(OnWire(b), m + 1, n)
         IN Lineless(p) /\ (b.type = "connect" => ~ LooksSSE(p))
<1> DEFINE w == OnWire(b)
           p == SubSeq(w, m + 1, n)
<1>1. w \in Seq(Piece) /\ Len(w) \in Nat /\ Unstreamed(w)
  BY WireTyped, UnstreamedWire
<1>2. m \in Nat /\ n \in Nat /\ n <= Len(w) /\ m + 1 \in 1 .. Len(w)
  BY <1>1
<1> HIDE DEF w
<1>3. /\ p \in Seq(Piece) /\ Len(p) = n - m /\ \A i \in 1 .. n - m : p[i] = w[m + i] /\ m + i \in 1 .. Len(w)
  BY <1>1, <1>2
<1> HIDE DEF p
<1>4. DOMAIN p = 1 .. n - m /\ 1 \in 1 .. n - m
  BY <1>2, <1>3
<1>5. \A i \in 1 .. n - m : p[i] # Break /\ SortOf[p[i].unit] \notin {"event", "data", "done"}
  <2>1. ASSUME NEW i \in 1 .. n - m
        PROVE  p[i] # Break /\ SortOf[p[i].unit] \notin {"event", "data", "done"}
    <3>1. PICK x \in Unit : /\ SortOf[x] \notin {"event", "data", "done"}
                            /\ p[i] = Half(x, 1) \/ p[i] = Half(x, 2)
      BY <1>1, <1>3 DEF Unstreamed
    <3>2. p[i].unit = x /\ p[i] # Break
      BY <3>1, PiecesAre
    <3>3. QED
      BY <3>1, <3>2
  <2>2. QED
    BY <2>1
<1>6. Lineless(p)
  BY <1>3, <1>5 DEF Lineless, Starts
<1>7. ASSUME b.type = "connect" PROVE ~ LooksSSE(p)
  <2>1. ASSUME NEW i \in 1 .. n - m PROVE p[i].unit \notin SaysData
    <3> DEFINE K == Len(b.units)
               unit == b.units
    <3>1. K \in Nat /\ Framed(w, K, unit)
      BY <1>7, BodiesAre, ConnectIs DEF Document, EventStream, w
    <3> HIDE DEF K, unit
    <3>2. m + i \in 1 .. 2 * K
      BY <1>3, <3>1 DEF Framed
    <3>3. PICK j \in 1 .. K : p[i] = Half(unit[j], 1) \/ p[i] = Half(unit[j], 2)
      BY <1>3, <3>1, <3>2, FramePieces
    <3>4. unit[j] \in Unit /\ SortOf[unit[j]] \in {"frame", "trailer", "failure"}
      BY <3>1 DEF Framed
    <3>5. p[i].unit = unit[j]
      BY <3>3, <3>4, PiecesAre
    <3>6. QED
      BY <3>4, <3>5, UnitsAre
  <2>2. QED
    BY <1>4, <1>5, <2>1 DEF LooksSSE, MarkerAt, Starts
<1>8. QED
  BY <1>6, <1>7 DEF p, w

(* Wherever a tap begins to read lines, it is at a place of the stream.    *)
LEMMA StandsAnywhere ==
  ASSUME NEW b \in Bodies, EventStream(b), NEW m \in 0 .. Len(OnWire(b)), NEW tap \in Tap,
         tap.line = <<>>, tap.event = <<>>, tap.value = None
  PROVE  StandsAt(tap, OnWire(b), m, m, PlacesOf(b)[m])
<1> DEFINE w == OnWire(b)
           pl == PlacesOf(b)
<1>1. Places(w, pl) /\ Len(w) \in Nat
  BY WireTyped
<1>2. V(tap.of, w, m, m) = None
  BY <1>1, VOfNothing
<1>3. \/ pl[m] = First
      \/ \E x : /\ InStream(x)
               /\ \/ pl[m] = Place("half", x)
                  \/ pl[m] = Place("whole", x)
                  \/ SortOf[x] # "event" /\ pl[m] = Place("ended", x)
  <2>1. CASE m = 0
    BY <1>1, <2>1 DEF Places
  <2>2. CASE m # 0
    <3>1. m \in 1 .. Len(w)
      BY <1>1, <2>2
    <3>2. Moves(pl[m - 1], w[m], pl[m])
      BY <1>1, <3>1 DEF Places
    <3> HIDE DEF w, pl
    <3>3. QED
      BY <3>2 DEF Moves
  <2>3. QED
    BY <2>1, <2>2
<1> HIDE DEF w, pl
<1>4. CASE pl[m] = First
  BY <1>2, <1>4 DEF StandsAt, Follows, w, pl
<1>5. ASSUME NEW x, InStream(x),
             \/ pl[m] = Place("half", x)
             \/ pl[m] = Place("whole", x)
             \/ SortOf[x] # "event" /\ pl[m] = Place("ended", x)
      PROVE  ReadsOver(tap, w, m, m, pl[m])
  BY <1>2, <1>5 DEF ReadsOver, NoData
<1>6. QED
  BY <1>3, <1>4, <1>5 DEF StandsAt, w, pl

LEMMA TakenOn ==
  ASSUME NEW w \in Seq(Piece), NEW m \in 0 .. Len(w), NEW n \in 0 .. Len(w), m < n
  PROVE  SubSeq(w, 1, m) \o SubSeq(w, m + 1, n) = SubSeq(w, 1, n)
<1> DEFINE a == SubSeq(w, 1, m)
           c == SubSeq(w, m + 1, n)
           d == SubSeq(w, 1, n)
<1>1. m \in Nat /\ n \in Nat /\ Len(w) \in Nat /\ n <= Len(w)
  OBVIOUS
<1>2. a \in Seq(Piece) /\ Len(a) = m /\ \A i \in 1 .. m : a[i] = w[i]
  BY <1>1
<1>3. c \in Seq(Piece) /\ Len(c) = n - m /\ \A i \in 1 .. n - m : c[i] = w[m + i]
  BY <1>1
<1>4. d \in Seq(Piece) /\ Len(d) = n /\ \A i \in 1 .. n : d[i] = w[i]
  BY <1>1
<1> HIDE DEF a, c, d
<1>5. /\ a \o c \in Seq(Piece) /\ Len(a \o c) = Len(a) + Len(c)
      /\ \A i \in 1 .. Len(a) + Len(c) : (a \o c)[i] = IF i <= Len(a) THEN a[i] ELSE c[i - Len(a)]
  BY <1>2, <1>3, ConcatProperties
<1>6. Len(a \o c) = n
  BY <1>1, <1>2, <1>3, <1>5
<1>7. ASSUME NEW i \in 1 .. n PROVE (a \o c)[i] = d[i]
  <2>1. (a \o c)[i] = IF i <= m THEN a[i] ELSE c[i - m]
    BY <1>1, <1>2, <1>3, <1>5
  <2>2. CASE i <= m
    BY <1>1, <1>2, <1>4, <2>1, <2>2
  <2>3. CASE ~ (i <= m)
    <3>1. i - m \in 1 .. n - m /\ m + (i - m) = i
      BY <1>1, <2>3
    <3>2. QED
      BY <1>3, <1>4, <2>1, <2>3, <3>1
  <2>4. QED
    BY <2>2, <2>3
<1>8. a \o c = d
  BY <1>4, <1>5, <1>6, <1>7
<1>9. QED
  BY <1>8 DEF a, c, d

LEMMA BufferIs ==
  ASSUME NEW tap \in Tap, NEW p \in Seq(Piece), NEW why \in {"json_limit", "connect_limit"}
  PROVE  LET new == Buffer(tap, p, why)
         IN /\ new \in Tap /\ new.of = tap.of /\ new.bounded = tap.bounded /\ new.sse = tap.sse
            /\ new.connect = tap.connect /\ new.value = tap.value
            /\ new.line = tap.line /\ new.event = tap.event
            /\ Within(new) => Within(tap) /\ new.raw = tap.raw \o p
<1>1. tap.raw \o p \in Seq(Piece)
  <2>1. tap.raw \in Seq(Piece)
    BY DEF Tap
  <2>2. QED
    BY <2>1
<1>2. why \in {"", "json_limit", "sse_limit", "sse_event_limit", "connect_limit"} /\ why # ""
  OBVIOUS
<1> DEFINE full == [tap EXCEPT !.limit = why]
           more == [tap EXCEPT !.raw = @ \o p]
<1>3. Buffer(tap, p, why) = full \/ Buffer(tap, p, why) = more
  BY DEF Buffer
<1>4. /\ full \in Tap /\ full.of = tap.of /\ full.bounded = tap.bounded /\ full.sse = tap.sse
      /\ full.connect = tap.connect /\ full.value = tap.value /\ ~ Within(full)
      /\ full.line = tap.line /\ full.event = tap.event
  BY <1>2 DEF Tap, Within
<1>5. /\ more \in Tap /\ more.of = tap.of /\ more.bounded = tap.bounded /\ more.sse = tap.sse
      /\ more.connect = tap.connect /\ more.value = tap.value /\ more.raw = tap.raw \o p
      /\ more.limit = tap.limit /\ more.line = tap.line /\ more.event = tap.event
  BY <1>1 DEF Tap
<1>6. Within(more) => Within(tap)
  BY <1>5 DEF Within
<1> HIDE DEF full, more
<1>7. QED
  BY <1>3, <1>4, <1>5, <1>6

LEMMA WrittenHolds ==
  ASSUME NEW b \in Bodies, NEW of, NEW bounded, NEW tap, NEW m, NEW j, Split(b, m, j),
         NEW n \in 1 .. Len(OnWire(b)), m < n, TapHolds(tap, of, bounded, b, m, j)
  PROVE  LET p == SubSeq(OnWire(b), m + 1, n)
             k == IF Lined(b, m, j) \/ LooksSSE(p) THEN j ELSE n
         IN Split(b, n, k) /\ TapHolds(Written(tap, p), of, bounded, b, n, k)
<1> DEFINE w == OnWire(b)
           p == SubSeq(w, m + 1, n)
           asLines == Lined(b, m, j) \/ LooksSSE(p)
           k == IF asLines THEN j ELSE n
           new == Written(tap, p)
<1>1. /\ w \in Seq(Piece) /\ Len(w) \in Nat
      /\ m \in 0 .. Len(w) /\ n \in 0 .. Len(w) /\ j \in 0 .. m /\ m \in Nat /\ n \in Nat /\ j \in Nat
  <2>1. w \in Seq(Piece) /\ Len(w) \in Nat /\ m \in 0 .. Len(w) /\ j \in 0 .. m
    BY WireTyped DEF Split
  <2>2. QED
    BY <2>1
<1>2. p \in Seq(Piece)
  BY <1>1
<1>3. /\ tap \in Tap /\ tap.of = of /\ tap.bounded = bounded /\ (tap.connect <=> b.type = "connect" /\ bounded)
      /\ tap.sse <=> Lined(b, m, j)
  BY DEF TapHolds
<1>4. asLines => b.type # "connect"
  <2>1. ASSUME b.type = "connect" PROVE ~ Lined(b, m, j) /\ ~ LooksSSE(p)
    <3>1. j = m /\ ~ EventStream(b)
      BY <2>1 DEF Split, EventStream
    <3>2. ~ LooksSSE(p)
      BY <1>1, <2>1, <3>1, Looks
    <3>3. QED
      BY <1>1, <2>1, <3>1, <3>2 DEF Lined
  <2>2. QED
    BY <2>1
<1>5. Split(b, n, k) /\ (Lined(b, n, k) <=> asLines)
  <2> HIDE DEF p, w
  <2>1. CASE asLines
    <3>1. k = j /\ j \in 0 .. n /\ j < n
      BY <1>1, <2>1
    <3>2. QED
      BY <1>1, <1>4, <2>1, <3>1 DEF Split, Lined, w
  <2>2. CASE ~ asLines
    <3>1. k = n /\ n \in 0 .. n /\ ~ (n < n) /\ b.type # "sse"
      BY <1>1, <2>2 DEF Lined
    <3>2. QED
      BY <1>1, <2>2, <3>1 DEF Split, Lined, w
  <2>3. QED
    BY <2>1, <2>2
<1>6. CASE asLines
  <2> DEFINE t0 == [tap EXCEPT !.sse = TRUE]
             fed == FeedSSE(t0, p)
  <2>1. ~ tap.connect
    BY <1>3, <1>4, <1>6
  <2>2. new = fed
    BY <1>3, <1>6, <2>1 DEF Written
  <2>3. /\ t0 \in Tap /\ t0.of = tap.of /\ t0.line = tap.line /\ t0.event = tap.event
        /\ t0.value = tap.value /\ t0.sse = TRUE /\ t0.bounded = tap.bounded
        /\ t0.connect = tap.connect /\ t0.limit = tap.limit
    BY <1>3 DEF Tap
  <2> HIDE DEF t0, new, asLines
  <2>4. fed \in Tap /\ Carries(t0, fed)
          => /\ fed \in Tap /\ fed.of = of /\ fed.bounded = bounded /\ fed.sse
             /\ fed.connect <=> b.type = "connect" /\ bounded
    BY <1>3, <2>3 DEF Carries
  <2>5. CASE EventStream(b)
    <3>1. Within(t0) => StandsAt(t0, w, j, m, PlacesOf(b)[m])
      <4>1. CASE tap.sse
        <5>1. Within(t0) => StandsAt(tap, w, j, m, PlacesOf(b)[m])
          BY <2>3, <2>5, <4>1 DEF TapHolds, Within
        <5>2. QED
          BY <2>3, <5>1 DEF StandsAt, Follows, ReadsOver
      <4>2. CASE ~ tap.sse
        <5>1. j = m
          BY <1>1, <1>3, <4>2 DEF Lined
        <5>2. t0.line = <<>> /\ t0.event = <<>> /\ t0.value = None
          BY <2>3, <4>2 DEF TapHolds
        <5>3. StandsAt(t0, w, m, m, PlacesOf(b)[m])
          BY <1>1, <2>3, <2>5, <5>2, StandsAnywhere
        <5>4. QED
          BY <5>1, <5>3
      <4>3. QED
        BY <4>1, <4>2
    <3>2. Places(w, PlacesOf(b))
      BY <2>5, WireTyped
    <3> HIDE DEF w
    <3>3. fed \in Tap /\ Carries(t0, fed) /\ (Within(fed) => StandsAt(fed, w, j, n, PlacesOf(b)[n]))
      BY <1>1, <2>3, <3>1, <3>2, FeedStands
    <3> HIDE DEF fed, p, k
    <3>4. TapHolds(fed, of, bounded, b, n, k)
      <4>1. k = j /\ Lined(b, n, k)
        BY <1>5, <1>6 DEF k
      <4>2. QED
        BY <2>4, <2>5, <3>3, <4>1 DEF TapHolds, w
    <3>5. QED
      BY <1>5, <2>2, <3>4 DEF new, k, p, w, asLines
  <2>6. CASE ~ EventStream(b)
    <3>1. Within(t0) => Idle(t0)
      <4>1. CASE tap.sse
        <5>1. Within(t0) => Idle(tap)
          BY <2>3, <2>6, <4>1 DEF TapHolds, Within
        <5>2. QED
          BY <2>3, <5>1 DEF Idle
      <4>2. CASE ~ tap.sse
        <5>1. t0.line = <<>> /\ t0.event = <<>> /\ t0.value = None
          BY <2>3, <4>2 DEF TapHolds
        <5>2. QED
          BY <5>1 DEF Idle, NoData
      <4>3. QED
        BY <4>1, <4>2
    <3>2. Lineless(p)
      BY <1>1, <2>6, Looks
    <3>3. fed \in Tap /\ Carries(t0, fed) /\ (Within(fed) => Idle(fed))
      BY <1>2, <2>3, <3>1, <3>2, FeedIdles
    <3> HIDE DEF fed, p, k, w
    <3>4. TapHolds(fed, of, bounded, b, n, k)
      <4>1. Lined(b, n, k)
        BY <1>5, <1>6 DEF k
      <4>2. QED
        BY <2>4, <2>6, <3>3, <4>1 DEF TapHolds
    <3>5. QED
      BY <1>5, <2>2, <3>4 DEF new, k, p, w, asLines
  <2>7. QED
    BY <2>5, <2>6
<1>7. CASE ~ asLines
  <2>1. /\ ~ tap.sse /\ tap.value = None /\ tap.line = <<>> /\ tap.event = <<>>
        /\ Within(tap) => tap.raw = SubSeq(w, 1, m)
    BY <1>3, <1>7 DEF TapHolds
  <2>2. \/ new = Buffer(tap, p, "connect_limit")
        \/ new = Buffer(tap, p, "json_limit")
        \/ new = tap /\ ~ Within(tap)
    BY <1>7, <2>1 DEF Written, Within
  <2>3. SubSeq(w, 1, m) \o p = SubSeq(w, 1, n)
    BY <1>1, TakenOn
  <2> HIDE DEF p, new, w, asLines, k
  <2>4. /\ new \in Tap /\ new.of = of /\ new.bounded = bounded /\ ~ new.sse /\ new.value = None
        /\ new.line = <<>> /\ new.event = <<>>
        /\ new.connect <=> b.type = "connect" /\ bounded
        /\ Within(new) => new.raw = SubSeq(w, 1, n)
    <3>1. CASE new = Buffer(tap, p, "connect_limit") \/ new = Buffer(tap, p, "json_limit")
      <4>1. /\ new \in Tap /\ new.of = tap.of /\ new.bounded = tap.bounded /\ new.sse = tap.sse
            /\ new.connect = tap.connect /\ new.value = tap.value
            /\ new.line = tap.line /\ new.event = tap.event
            /\ Within(new) => Within(tap) /\ new.raw = tap.raw \o p
        <5>1. PICK why \in {"json_limit", "connect_limit"} : new = Buffer(tap, p, why)
          BY <3>1
        <5> DEFINE more == Buffer(tap, p, why)
        <5>2. /\ more \in Tap /\ more.of = tap.of /\ more.bounded = tap.bounded /\ more.sse = tap.sse
              /\ more.connect = tap.connect /\ more.value = tap.value
              /\ more.line = tap.line /\ more.event = tap.event
              /\ Within(more) => Within(tap) /\ more.raw = tap.raw \o p
          BY <1>2, <1>3, BufferIs
        <5> HIDE DEF more
        <5>3. new = more
          BY <5>1 DEF more
        <5>4. QED
          BY <5>2, <5>3
      <4>2. QED
        BY <1>3, <2>1, <2>3, <4>1
    <3>2. CASE new = tap /\ ~ Within(tap)
      BY <1>3, <2>1, <3>2
    <3>3. QED
      BY <2>2, <3>1, <3>2
  <2>5. TapHolds(new, of, bounded, b, n, k)
    <3>1. ~ Lined(b, n, k)
      BY <1>5, <1>7
    <3>2. QED
      BY <2>4, <3>1 DEF TapHolds, w
  <2>6. QED
    BY <1>5, <2>5 DEF new, k, p, w, asLines
<1>8. QED
  BY <1>6, <1>7

LEMMA FeedKeeps ==
  ASSUME NEW tap \in Tap
  PROVE  LET fed == FeedSSE(tap, <<Break, Break>>)
         IN fed \in Tap /\ fed.of = tap.of /\ fed.connect = tap.connect
<1> DEFINE p == <<Break, Break>>
           fed == FeedSSE(tap, p)
<1>1. p \in Seq(Piece) /\ Len(p) = 2 /\ p[1] = Break /\ p[2] = Break /\ Break \in Piece
  BY PiecesAre
<1> HIDE DEF p
<1>2. PICK f : Fed(f, tap, p)
  BY <1>1, FeedIs
<1> DEFINE t1 == f[1]
           t2 == f[2]
<1>3. t1 = Byte(tap, Break) /\ t2 = Byte(t1, Break)
  <2>1. 1 \in 1 .. 2 /\ 2 \in 1 .. 2 /\ 1 - 1 = 0 /\ 2 - 1 = 1
    OBVIOUS
  <2>2. QED
    BY <1>1, <1>2, <2>1 DEF Fed
<1>4. t1 \in Tap /\ Carries(tap, t1) /\ t2 \in Tap /\ Carries(t1, t2)
  BY <1>1, <1>3, ByteIs
<1>5. fed \in {tap, t2, [t2 EXCEPT !.limit = "sse_limit", !.line = <<>>]}
  BY <1>1, <1>2 DEF Fed
<1>6. fed \in Tap
  BY <1>1, FeedTyped
<1> HIDE DEF fed, t1, t2
<1>7. fed.of = tap.of /\ fed.connect = tap.connect
  <2>1. t2.of = tap.of /\ t2.connect = tap.connect
    BY <1>4 DEF Carries
  <2>2. CASE fed = [t2 EXCEPT !.limit = "sse_limit", !.line = <<>>]
    BY <1>4, <2>1, <2>2 DEF Tap
  <2>3. QED
    BY <1>5, <2>1, <2>2
<1>8. QED
  BY <1>6, <1>7 DEF fed, p

(* No document begins as an event stream does.                             *)
LEMMA NoDocument ==
  ASSUME NEW b \in Bodies, EventStream(b), NEW m \in 0 .. Len(OnWire(b)), NEW tap \in Tap
  PROVE  Found(tap, SubSeq(OnWire(b), 1, m), "doc") = tap.value
<1> DEFINE w == OnWire(b)
           pl == PlacesOf(b)
           raw == SubSeq(w, 1, m)
<1>1. w \in Seq(Piece) /\ Len(w) \in Nat /\ Places(w, pl)
  BY WireTyped
<1>2. m \in Nat /\ m <= Len(w)
  BY <1>1
<1> HIDE DEF w, pl
<1>3. raw \in Seq(Piece) /\ Len(raw) = m /\ \A i \in 1 .. m : raw[i] = w[i]
  BY <1>1, <1>2
<1> HIDE DEF raw
<1>4. ASSUME NEW y \in Parsed(raw, "doc") PROVE FALSE
  <2>1. y \in Unit /\ raw = Whole(y) /\ SortOf[y] = "doc"
    BY <1>4 DEF Parsed
  <2>2. m = 2 /\ raw[1] = Half(y, 1)
    BY <1>3, <2>1, WholesAre
  <2>3. 1 \in 1 .. Len(w) /\ 1 - 1 = 0 /\ w[1] = Half(y, 1)
    BY <1>1, <1>2, <1>3, <2>2
  <2>4. pl[0] = First /\ Moves(pl[0], w[1], pl[1])
    BY <1>1, <2>3 DEF Places
  <2>5. \E x : InStream(x) /\ w[1] = Half(x, 1)
    BY <2>4, PlacesDiffer DEF Moves
  <2>6. PICK x : InStream(x) /\ w[1] = Half(x, 1)
    BY <2>5
  <2>7. x = y
    BY <2>1, <2>3, <2>6, PiecesAre DEF InStream
  <2>8. QED
    BY <2>1, <2>6, <2>7 DEF InStream
<1>5. Parsed(raw, "doc") = {}
  BY <1>4
<1>6. Found(tap, raw, "doc") = tap.value
  BY <1>5 DEF Found
<1>7. QED
  BY <1>6 DEF raw, w

(* A body with frames has no edits, so a tap that looks for them finds     *)
(* none.                                                                   *)
LEMMA FramesHoldNoEdits ==
  ASSUME NEW b \in Bodies, ConnectBody(b), NEW m \in 0 .. Len(OnWire(b)),
         NEW tap \in Tap, tap.of = EditsOf
  PROVE  V(EditsOf, OnWire(b), 0, m) = None /\ Found(tap, SubSeq(OnWire(b), 1, m), "doc") = tap.value
<1> DEFINE w == OnWire(b)
           K == Len(b.units)
           unit == b.units
<1>1. K \in Nat /\ Framed(w, K, unit)
  BY BodiesAre, ConnectIs
<1>2. w \in Seq(Piece) /\ m \in 0 .. Len(w)
  BY WireTyped
<1> HIDE DEF K, unit, w
<1>3. Len(w) = 2 * K
  BY <1>1 DEF Framed
<1>4. ASSUME NEW i \in 1 .. Len(w) PROVE tap.of[w[i].unit] = None
  <2>1. i \in 1 .. 2 * K
    BY <1>3
  <2>2. PICK k \in 1 .. K : w[i] = Half(unit[k], 1) \/ w[i] = Half(unit[k], 2)
    BY <1>1, <2>1, FramePieces
  <2>3. unit[k] \in Unit /\ SortOf[unit[k]] \in {"frame", "trailer", "failure"}
    BY <1>1 DEF Framed
  <2>4. w[i].unit = unit[k]
    BY <2>2, <2>3, PiecesAre
  <2>5. QED
    BY <2>3, <2>4, UnitsAre
<1>5. V(tap.of, w, 0, m) = None /\ Found(tap, SubSeq(w, 1, m), "doc") = tap.value
  BY <1>2, <1>4, NothingThere
<1>6. QED
  BY <1>5 DEF w

LEMMA FinishedReports ==
  ASSUME NEW b \in Bodies, NEW of, NEW bounded, OneOfTheTwo(of, bounded), NEW tap,
         NEW m, NEW j, Split(b, m, j), TapHolds(tap, of, bounded, b, m, j)
  PROVE  Reports(Finished(tap), of, bounded, b, m, j)
<1> DEFINE w == OnWire(b)
           r == Finished(tap)
<1>1. w \in Seq(Piece) /\ Len(w) \in Nat /\ m \in 0 .. Len(w) /\ m \in Nat /\ j \in 0 .. m
  <2>1. w \in Seq(Piece) /\ Len(w) \in Nat /\ m \in 0 .. Len(w) /\ j \in 0 .. m
    BY WireTyped DEF Split
  <2>2. QED
    BY <2>1
<1>2. /\ tap \in Tap /\ tap.of = of /\ tap.bounded = bounded
      /\ tap.connect <=> b.type = "connect" /\ bounded
      /\ tap.sse <=> Lined(b, m, j)
  BY DEF TapHolds
<1>3. CASE tap.sse
  <2>1. ~ tap.connect /\ b.type # "connect"
    <3>1. ASSUME b.type = "connect" PROVE FALSE
      <4>1. j = m /\ j < m
        BY <1>2, <1>3, <3>1 DEF Split, Lined
      <4>2. QED
        BY <1>1, <4>1
    <3>2. QED
      BY <1>2, <3>1
  <2>2. r.of = of /\ r.connect = tap.connect
    <3> DEFINE fed == FeedSSE(tap, <<Break, Break>>)
    <3>1. fed \in Tap /\ fed.of = tap.of /\ fed.connect = tap.connect
      BY <1>2, FeedKeeps, PiecesAre
    <3> HIDE DEF fed
    <3>2. r = Flush(tap) \/ r = Flush(fed)
      BY <1>3, <2>1 DEF Finished, fed
    <3> HIDE DEF r
    <3>3. QED
      BY <1>2, <3>1, <3>2, FlushIs DEF Carries
  <2>3. CASE EventStream(b)
    <3>1. Within(tap) => StandsAt(tap, w, j, m, PlacesOf(b)[m])
      BY <1>3, <2>3 DEF TapHolds
    <3>2. Within(r) => r.value = V(of, w, j, m)
      BY <1>2, <1>3, <2>1, <3>1, StreamFinished
    <3> HIDE DEF r
    <3>3. Reports(r, of, bounded, b, m, j)
      BY <1>2, <1>3, <2>1, <2>2, <2>3, <3>2 DEF Reports
    <3>4. QED
      BY <3>3 DEF r
  <2>4. CASE ~ EventStream(b)
    <3>1. Within(tap) => Idle(tap)
      BY <1>3, <2>4 DEF TapHolds
    <3>2. Within(r) => r.value = None
      BY <1>2, <1>3, <2>1, <3>1, IdleFinished
    <3>3. b.type = "json"
      BY <2>1, <2>4, BodiesAre DEF Document, ConnectBody
    <3> HIDE DEF r
    <3>4. Reports(r, of, bounded, b, m, j)
      BY <1>2, <1>3, <2>1, <2>2, <2>4, <3>2, <3>3 DEF Reports
    <3>5. QED
      BY <3>4 DEF r
  <2>5. QED
    BY <2>3, <2>4
<1>4. CASE ~ tap.sse
  <2>1. /\ tap.value = None /\ (Within(tap) => tap.raw = SubSeq(w, 1, m))
        /\ ~ Lined(b, m, j) /\ b.type # "sse"
    BY <1>2, <1>4 DEF TapHolds, Lined
  <2>2. CASE tap.connect
    <3>1. ConnectBody(b) /\ r = FinishedConnect(tap) /\ b.type = "connect"
      BY <1>2, <2>2, BodiesAre DEF Document, EventStream, Finished
    <3> DEFINE K == Len(b.units)
               unit == b.units
    <3>2. K \in Nat /\ Framed(w, K, unit) /\ Len(w) = 2 * K
      BY <3>1, BodiesAre, ConnectIs DEF Framed
    <3>3. r.limit = tap.limit /\ r.of = tap.of /\ r.connect = tap.connect
      BY <1>2, <3>1 DEF FinishedConnect, Tap
    <3> HIDE DEF K, unit, w, r
    <3>4. ASSUME Within(r)
          PROVE  /\ r.value = V(of, w, 0, m)
                 /\ r.finish = IF \E x \in Unit, n \in 1 .. m :
                                    SortOf[x] = "failure" /\ n < m /\ w[n] = Half(x, 1) /\ w[n + 1] = Half(x, 2)
                               THEN "error" ELSE IF m % 2 = 1 THEN "incomplete" ELSE ""
      <4>1. tap.raw = SubSeq(w, 1, m)
        BY <2>1, <3>3, <3>4 DEF Within
      <4>2. m \in 0 .. 2 * K
        BY <1>1, <3>2
      <4>3. QED
        BY <1>2, <3>1, <3>2, <4>1, <4>2, ConnectFinished
    <3>5. Reports(r, of, bounded, b, m, j)
      BY <1>2, <2>1, <2>2, <3>1, <3>3, <3>4 DEF Reports, w
    <3>6. QED
      BY <3>5 DEF r
  <2>3. CASE ~ tap.connect
    <3> DEFINE found == Found(tap, tap.raw, "doc")
    <3>1. r = [tap EXCEPT !.value = found]
      BY <1>4, <2>3 DEF Finished
    <3>2. r.value = found /\ r.of = tap.of /\ r.connect = tap.connect /\ r.limit = tap.limit
      BY <1>2, <3>1 DEF Tap
    <3>3. ASSUME Within(tap)
          PROVE  found = IF b.type = "json" /\ EventStream(b) THEN None ELSE V(of, w, 0, m)
      <4>1. tap.raw = SubSeq(w, 1, m)
        BY <2>1, <3>3
      <4>2. CASE EventStream(b)
        <5>1. found = None
          BY <1>1, <1>2, <2>1, <4>1, <4>2, NoDocument
        <5>2. b.type = "json"
          BY <2>1, <4>2 DEF EventStream
        <5>3. QED
          BY <4>2, <5>1, <5>2
      <4>3. CASE Document(b) /\ ~ EventStream(b)
        <5>1. PICK x \in Unit : SortOf[x] = "doc" /\ w = AtLength(x)
          BY <4>3, DocumentIs
        <5> HIDE DEF w
        <5>2. QED
          BY <1>1, <1>2, <2>1, <4>1, <4>3, <5>1, DocumentFinished
      <4>4. CASE ConnectBody(b) /\ ~ EventStream(b)
        <5>1. of = EditsOf
          BY <1>2, <2>3, <4>4 DEF OneOfTheTwo, ConnectBody
        <5>2. V(of, w, 0, m) = None /\ found = None
          BY <1>1, <1>2, <2>1, <4>1, <4>4, <5>1, FramesHoldNoEdits
        <5>3. QED
          BY <4>4, <5>2
      <4>5. QED
        BY <4>2, <4>3, <4>4, BodiesAre
    <3> HIDE DEF r, found
    <3>4. Reports(r, of, bounded, b, m, j)
      BY <1>2, <2>1, <2>3, <3>2, <3>3 DEF Reports, Within
    <3>5. QED
      BY <3>4 DEF r
  <2>4. QED
    BY <2>2, <2>3
<1>5. QED
  BY <1>3, <1>4

LEMMA TapsStep == TapsInv /\ [TapsNext]_tapVars => TapsInv'
<1> SUFFICES ASSUME TapsInv, [TapsNext]_tapVars PROVE TapsInv'
  OBVIOUS
<1>1. /\ body \in Bodies /\ Split(body, taken, asJSON) /\ over \in BOOLEAN
      /\ ~ over => /\ TapHolds(usageTap, UsageOf, TRUE, body, taken, asJSON)
                   /\ TapHolds(editsTap, EditsOf, FALSE, body, taken, asJSON)
  BY DEF TapsInv
<1>2. ASSUME NEW n \in 1 .. Len(OnWire(body)), Chunk(n) PROVE TapsInv'
  <2> DEFINE p == SubSeq(OnWire(body), taken + 1, n)
             k == IF Lined(body, taken, asJSON) \/ LooksSSE(p) THEN asJSON ELSE n
  <2>1. /\ ~ over /\ taken < n /\ usageTap' = Written(usageTap, p) /\ editsTap' = Written(editsTap, p)
        /\ taken' = n /\ body' = body /\ over' = over /\ asJSON' = k
    BY <1>2 DEF Chunk, AsLines, Lined
  <2>2. /\ Split(body, n, k)
        /\ TapHolds(Written(usageTap, p), UsageOf, TRUE, body, n, k)
        /\ TapHolds(Written(editsTap, p), EditsOf, FALSE, body, n, k)
    BY <1>1, <2>1, WrittenHolds
  <2> HIDE DEF p, k
  <2>3. QED
    BY <1>1, <2>1, <2>2 DEF TapsInv
<1>3. ASSUME ~ over, Report, UNCHANGED <<body, taken, asJSON>> PROVE TapsInv'
  <2>1. /\ Reports(Finished(usageTap), UsageOf, TRUE, body, taken, asJSON)
        /\ Reports(Finished(editsTap), EditsOf, FALSE, body, taken, asJSON)
    BY <1>1, <1>3, FinishedReports DEF OneOfTheTwo
  <2>2. QED
    BY <1>1, <1>3, <2>1 DEF TapsInv, Report
<1>4. CASE EndOfBody
  BY <1>3, <1>4 DEF EndOfBody
<1>5. CASE ClosedEarly
  BY <1>3, <1>5 DEF ClosedEarly
<1>6. CASE UNCHANGED tapVars
  BY <1>6 DEF TapsInv, tapVars
<1>7. CASE ClosedAgain
  BY <1>6, <1>7 DEF ClosedAgain
<1>8. QED
  BY <1>2, <1>4, <1>5, <1>6, <1>7 DEF TapsNext

LEMMA TapsInvReports == TapsInv => TapsReportWhatArrived
<1> SUFFICES ASSUME TapsInv, over PROVE TapsReportWhatArrived
  BY DEF TapsReportWhatArrived
<1> DEFINE w == OnWire(body)
           from == IF AsLines THEN asJSON ELSE 0
           Broke(x, n) == SortOf[x] = "failure" /\ n < taken /\ w[n] = Half(x, 1) /\ w[n + 1] = Half(x, 2)
<1>1. /\ w \in Seq(Piece) /\ taken \in 0 .. Len(w) /\ asJSON \in 0 .. taken
      /\ Reports(usageTap, UsageOf, TRUE, body, taken, asJSON)
      /\ Reports(editsTap, EditsOf, FALSE, body, taken, asJSON)
  BY WireTyped DEF TapsInv, Split
<1>2. AsLines <=> Lined(body, taken, asJSON)
  BY DEF AsLines, Lined
<1>3. /\ usageTap.of = UsageOf /\ editsTap.of = EditsOf
      /\ usageTap.limit = "" => usageTap.value = IF Mistaken THEN None ELSE V(UsageOf, w, from, taken)
      /\ editsTap.limit = "" => editsTap.value = IF Mistaken THEN None ELSE V(EditsOf, w, from, taken)
      /\ usageTap.connect /\ usageTap.limit = "" =>
           usageTap.finish = IF \E x \in Unit, n \in 1 .. taken : Broke(x, n) THEN "error"
                             ELSE IF taken % 2 = 1 THEN "incomplete" ELSE ""
  BY <1>1, <1>2 DEF Reports, Within, Mistaken
<1>4. Newest(UsageOf, from) = V(UsageOf, w, from, taken) /\ Newest(EditsOf, from) = V(EditsOf, w, from, taken)
  <2>1. from \in 0 .. taken
    BY <1>1
  <2> HIDE DEF from
  <2>2. QED
    BY <1>1, <2>1, NewestIs
<1>5. (\E x \in Unit, n \in 1 .. taken : Broke(x, n))
        <=> \E x \in Unit, n \in 1 .. taken : SortOf[x] = "failure" /\ Reached(x, n)
  <2>1. \A x \in Unit, n \in 1 .. taken :
          Reached(x, n) <=> n < taken /\ w[n] = Half(x, 1) /\ w[n + 1] = Half(x, 2)
    BY <1>1, ReachedIs
  <2>2. QED
    BY <2>1
<1>6. QED
  BY <1>3, <1>4, <1>5 DEF TapsReportWhatArrived

LEMMA TapsInitInv == TapsInit => TapsInv
<1> SUFFICES ASSUME TapsInit PROVE TapsInv
  OBVIOUS
<1>1. /\ body \in Bodies /\ taken = 0 /\ over = FALSE /\ asJSON = 0
      /\ usageTap = NewTap(body.type, UsageOf, TRUE) /\ editsTap = NewTap(body.type, EditsOf, FALSE)
  BY DEF TapsInit
<1>2. Split(body, 0, 0)
  <2>1. 0 \in 0 .. Len(OnWire(body)) /\ 0 \in 0 .. 0
    BY <1>1, WireTyped
  <2>2. QED
    BY <2>1 DEF Split
<1>3. /\ TapHolds(usageTap, UsageOf, TRUE, body, 0, 0)
      /\ TapHolds(editsTap, EditsOf, FALSE, body, 0, 0)
  BY <1>1, NewTapHolds DEF OneOfTheTwo
<1>4. QED
  BY <1>1, <1>2, <1>3 DEF TapsInv

(* However the network cuts a body, within the marker of a line as well,   *)
(* and wherever it breaks off, a tap that hit no limit reports what        *)
(* arrived whole, except for what a body labelled as JSON loses when it is *)
(* found to be lines too late, never or wrongly: for every body of the     *)
(* shapes TapAssumption names, of any length, and every limit.             *)
THEOREM TapsAreTrue == TapsSpec => []TapsReportWhatArrived
BY TapsInitInv, TapsStep, TapsInvReports, PTL DEF TapsSpec

-----------------------------------------------------------------------------
(* The lock of a benchmark series, for any processes and any numbers, of   *)
(* which a dead process's may be given out again, as long as one process   *)
(* at a time is between reading the file and writing it.  The file names   *)
(* the one process that has the lock, so whoever reads it then finds that  *)
(* process alive under another number than its own and gives up; and a     *)
(* process that may write the file has read of nobody alive.               *)

(* A number is one process's as long as that process runs.                 *)
NumbersDiffer ==
  \A p, q \in Running : PidOf[p] = PidOf[q] => p = q

(* While one writes the file nobody has the lock.                          *)
WriterAlone ==
  \A p, q \in Proc : At(p, "writing") => ~Holding(q)

(* The directories there are were left behind, or are of the one series.   *)
SandboxesOwned ==
  \A q \in sandbox : place[q] \in {"ready", "marking", "running", "releasing", "over", "dead"}

SweepsOver ==
  \A p \in Proc : \A q \in doomed[p] : place[q] \in {"over", "dead"}

LockInv ==
  /\ LockTypeOK /\ OneSeries /\ OneClaim
  /\ NumbersDiffer /\ WriterAlone /\ SandboxesOwned /\ SweepsOver

PlaceName == {"new", "reading", "writing", "listing", "sweeping", "ready", "marking", "running",
              "releasing", "over", "dead"}

LEMMA LockVariables ==
  ASSUME LockTypeOK
  PROVE  /\ place \in [Proc -> PlaceName] /\ doomed \in [Proc -> SUBSET Proc]
         /\ sandbox \subseteq Proc
<1>1. place \in [Proc -> PlaceName]
  BY Zenon DEF LockTypeOK, PlaceName
<1>2. doomed \in [Proc -> SUBSET Proc]
  BY Zenon DEF LockTypeOK
<1>3. sandbox \subseteq Proc
  BY Zenon DEF LockTypeOK
<1>4. QED
  BY <1>1, <1>2, <1>3

LEMMA LockTypes ==
  ASSUME LockTypeOK, [LockNext]_lockVars
  PROVE  LockTypeOK'
<1> USE DEF LockTypeOK, Go
<1>1. ASSUME NEW p \in Proc, NEW q \in Proc, SweepEntry(p, q) PROVE LockTypeOK'
  BY <1>1 DEF SweepEntry
<1>2. ASSUME NEW p \in Proc, NEW there \in {"ready", "releasing"}, RunOver(p, there)
      PROVE  LockTypeOK'
  BY <1>2 DEF RunOver
<1>3. ASSUME NEW p \in Proc,
             Launch(p) \/ ReadLock(p) \/ WriteLock(p) \/ ListDirs(p) \/ Swept(p)
      PROVE  LockTypeOK'
  BY <1>3 DEF Launch, ReadLock, WriteLock, ListDirs, Swept
<1>4. ASSUME NEW p \in Proc, MakeSandbox(p) \/ WriteKeep(p) \/ Release(p) \/ Crash(p)
      PROVE  LockTypeOK'
  BY <1>4 DEF MakeSandbox, WriteKeep, Release, Crash
<1>5. CASE UNCHANGED lockVars
  BY <1>5 DEF lockVars
<1>6. QED
  BY <1>1, <1>2, <1>3, <1>4, <1>5 DEF LockNext

(* A process goes on or ends, and writes neither the file nor anything but *)
(* its own directory.                                                      *)
LEMMA GoesOn ==
  ASSUME LockInv, NEW p \in Running, place' = [place EXCEPT ![p] = place'[p]],
         place'[p] # "writing" \/ At(p, "writing"), Holding(p)' => Holding(p),
         lock' = lock, OneClaim', LockTypeOK',
         \A q \in sandbox' : q \in sandbox \/ q = p,
         p \in sandbox' =>
           place'[p] \in {"ready", "marking", "running", "releasing", "over", "dead"},
         \A r \in Proc : \A q \in doomed'[r] : place[q] \in {"over", "dead"}
  PROVE  LockInv'
<1>1. /\ p \in Proc /\ place \in [Proc -> PlaceName] /\ place[p] \notin {"new", "over", "dead"}
      /\ sandbox' \subseteq Proc /\ doomed' \in [Proc -> SUBSET Proc]
  <2>1. p \in Proc /\ place[p] \notin {"new", "over", "dead"}
    BY DEF Running
  <2>2. sandbox' \subseteq Proc
    BY Zenon DEF LockTypeOK
  <2>3. doomed' \in [Proc -> SUBSET Proc]
    BY Zenon DEF LockTypeOK
  <2>4. QED
    BY <2>1, <2>2, <2>3, LockVariables DEF LockInv
<1>2. \A q \in Proc : q # p => place'[q] = place[q]
  BY <1>1
<1>3. \A q \in Proc : /\ Holding(q)' => Holding(q)
                      /\ At(q, "writing")' => At(q, "writing")
                      /\ q \in Running' => q \in Running
  BY <1>1, <1>2 DEF Holding, At, Running
<1>4. OneSeries'
  BY <1>3 DEF LockInv, OneSeries
<1>5. NumbersDiffer'
  BY <1>1, <1>3 DEF LockInv, NumbersDiffer, Running
<1>6. WriterAlone'
  BY <1>3 DEF LockInv, WriterAlone
<1>7. SandboxesOwned'
  BY <1>1, <1>2 DEF LockInv, SandboxesOwned
<1>8. SweepsOver'
  BY <1>1, <1>2 DEF SweepsOver
<1>9. QED
  BY <1>4, <1>5, <1>6, <1>7, <1>8 DEF LockInv

LEMMA LockStep ==
  ASSUME LockInv, [LockNext /\ OneClaim']_lockVars
  PROVE  LockInv'
<1>1. LockTypeOK' /\ OneClaim'
  BY LockTypes DEF LockInv, OneClaim, lockVars
<1>2. /\ place \in [Proc -> PlaceName] /\ doomed \in [Proc -> SUBSET Proc]
      /\ sandbox \subseteq Proc
  BY LockVariables DEF LockInv
<1>3. ASSUME NEW p \in Proc, Launch(p) PROVE LockInv'
  <2>1. /\ place' = [place EXCEPT ![p] = "reading"] /\ lock' = lock /\ sandbox' = sandbox
        /\ doomed' = doomed /\ place[p] = "new" /\ PidOf[p] \notin {PidOf[q] : q \in Running}
    BY <1>3 DEF Launch, At, Go, alive
  <2>2. place'[p] = "reading" /\ \A q \in Proc : q # p => place'[q] = place[q]
    BY <1>2, <2>1
  <2>3. \A q \in Proc : /\ Holding(q)' <=> Holding(q)
                        /\ At(q, "writing")' <=> At(q, "writing")
                        /\ q \in Running' <=> q = p \/ q \in Running
    BY <2>1, <2>2 DEF Holding, At, Running
  <2>4. OneSeries' /\ WriterAlone'
    BY <2>1, <2>3 DEF LockInv, OneSeries, WriterAlone
  <2>5. NumbersDiffer'
    <3>1. Running' = Running \cup {p}
      BY <2>3 DEF Running
    <3>2. QED
      BY <2>1, <3>1 DEF LockInv, NumbersDiffer
  <2>6. SandboxesOwned' /\ SweepsOver'
    BY <1>2, <2>1, <2>2 DEF LockInv, SandboxesOwned, SweepsOver
  <2>7. QED
    BY <1>1, <2>4, <2>5, <2>6 DEF LockInv
<1>4. ASSUME NEW p \in Proc, ReadLock(p) PROVE LockInv'
  <2>1. /\ At(p, "reading") /\ lock' = lock /\ sandbox' = sandbox /\ doomed' = doomed
        /\ place' = [place EXCEPT ![p] = place'[p]] /\ place'[p] \in {"over", "writing"}
        /\ place'[p] = "writing" => lock \in {None, PidOf[p]} \/ ~alive(lock)
    BY <1>2, <1>4 DEF ReadLock, At, Go
  <2>2. p \in Running /\ p \notin sandbox
    BY <2>1 DEF LockInv, SandboxesOwned, Running, At
  <2>3. CASE place'[p] = "over"
    BY <1>1, <2>1, <2>2, <2>3, GoesOn DEF LockInv, SweepsOver, Holding
  <2>4. CASE place'[p] = "writing"
    <3>1. \A q \in Proc : q # p => place'[q] = place[q]
      BY <1>2, <2>1
    <3>2. ASSUME NEW q \in Proc, Holding(q) PROVE FALSE
      <4>1. lock = PidOf[q] /\ q \in Running /\ q # p
        BY <2>1, <3>2 DEF LockInv, OneSeries, Holding, Running, At
      <4>2. PidOf[q] # PidOf[p] /\ alive(lock)
        BY <2>2, <4>1 DEF LockInv, NumbersDiffer, alive
      <4>3. PidOf[q] # None
        BY PidAssumption
      <4>4. QED
        BY <2>1, <2>4, <4>1, <4>2, <4>3
    <3>3. \A q \in Proc : ~Holding(q)' /\ (q \in Running' <=> q \in Running)
      BY <2>2, <2>4, <3>1, <3>2 DEF Holding, Running
    <3>4. OneSeries' /\ WriterAlone'
      BY <3>3 DEF OneSeries, WriterAlone
    <3>5. NumbersDiffer'
      BY <3>3 DEF LockInv, NumbersDiffer, Running
    <3>6. SandboxesOwned' /\ SweepsOver'
      BY <1>2, <2>1, <2>2, <3>1 DEF LockInv, SandboxesOwned, SweepsOver, At
    <3>7. QED
      BY <1>1, <3>4, <3>5, <3>6 DEF LockInv
  <2>5. QED
    BY <2>1, <2>3, <2>4
<1>5. ASSUME NEW p \in Proc, WriteLock(p) PROVE LockInv'
  <2>1. /\ At(p, "writing") /\ lock' = PidOf[p] /\ sandbox' = sandbox /\ doomed' = doomed
        /\ place' = [place EXCEPT ![p] = "listing"]
    BY <1>5 DEF WriteLock, Go
  <2>2. place'[p] = "listing" /\ \A q \in Proc : q # p => place'[q] = place[q]
    BY <1>2, <2>1
  <2>3. \A q \in Proc : ~Holding(q) /\ (q # p => ~At(q, "writing"))
    BY <2>1 DEF LockInv, WriterAlone, OneClaim, At
  <2>4. \A q \in Proc : /\ Holding(q)' <=> q = p
                        /\ ~At(q, "writing")'
                        /\ q \in Running' <=> q \in Running
    BY <2>1, <2>2, <2>3 DEF Holding, At, Running
  <2>5. OneSeries' /\ WriterAlone'
    BY <2>1, <2>4 DEF OneSeries, WriterAlone
  <2>6. NumbersDiffer'
    BY <2>4 DEF LockInv, NumbersDiffer, Running
  <2>7. SandboxesOwned' /\ SweepsOver'
    BY <1>2, <2>1, <2>2 DEF LockInv, SandboxesOwned, SweepsOver, At
  <2>8. QED
    BY <1>1, <2>5, <2>6, <2>7 DEF LockInv
<1>6. ASSUME NEW p \in Proc, ListDirs(p) PROVE LockInv'
  <2>1. /\ At(p, "listing") /\ lock' = lock /\ sandbox' = sandbox
        /\ doomed' = [doomed EXCEPT ![p] = sandbox]
        /\ place' = [place EXCEPT ![p] = place'[p]] /\ place'[p] = "sweeping"
    BY <1>2, <1>6 DEF ListDirs, Go
  <2>2. p \in Running /\ p \notin sandbox /\ Holding(p)
    BY <2>1 DEF LockInv, SandboxesOwned, Running, At, Holding
  <2>3. \A q \in sandbox : place[q] \in {"over", "dead"}
    BY <1>2, <2>2 DEF LockInv, SandboxesOwned, OneSeries, Holding
  <2>4. \A r \in Proc : \A q \in doomed'[r] : place[q] \in {"over", "dead"}
    BY <1>2, <2>1, <2>3 DEF LockInv, SweepsOver
  <2>5. QED
    BY <1>1, <2>1, <2>2, <2>4, GoesOn DEF At
<1>7. ASSUME NEW p \in Proc, NEW q \in Proc, SweepEntry(p, q) PROVE LockInv'
  <2>1. /\ At(p, "sweeping") /\ lock' = lock /\ place' = place
        /\ sandbox' \subseteq sandbox /\ doomed' = [doomed EXCEPT ![p] = @ \ {q}]
    BY <1>7 DEF SweepEntry
  <2>2. p \in Running /\ p \notin sandbox /\ place' = [place EXCEPT ![p] = place'[p]]
    BY <1>2, <2>1 DEF LockInv, SandboxesOwned, Running, At
  <2>3. \A r \in Proc : \A d \in doomed'[r] : place[d] \in {"over", "dead"}
    BY <1>2, <2>1 DEF LockInv, SweepsOver
  <2>4. QED
    BY <1>1, <2>1, <2>2, <2>3, GoesOn DEF At, Holding
<1>8. ASSUME NEW p \in Proc, Swept(p) PROVE LockInv'
  <2>1. /\ At(p, "sweeping") /\ lock' = lock /\ sandbox' = sandbox /\ doomed' = doomed
        /\ place' = [place EXCEPT ![p] = place'[p]] /\ place'[p] = "ready"
    BY <1>2, <1>8 DEF Swept, Go
  <2>2. p \in Running
    BY <2>1 DEF Running, At
  <2>3. QED
    BY <1>1, <2>1, <2>2, GoesOn DEF LockInv, SweepsOver, At, Holding
<1>9. ASSUME NEW p \in Proc, MakeSandbox(p) PROVE LockInv'
  <2>1. /\ At(p, "ready") /\ lock' = lock /\ sandbox' = sandbox \cup {p} /\ doomed' = doomed
        /\ place' = [place EXCEPT ![p] = place'[p]] /\ place'[p] \in {"marking", "running"}
    BY <1>2, <1>9 DEF MakeSandbox, Go
  <2>2. p \in Running
    BY <2>1 DEF Running, At
  <2>3. QED
    BY <1>1, <2>1, <2>2, GoesOn DEF LockInv, SweepsOver, At, Holding
<1>10. ASSUME NEW p \in Proc, WriteKeep(p) PROVE LockInv'
  <2>1. /\ At(p, "marking") /\ lock' = lock /\ sandbox' = sandbox /\ doomed' = doomed
        /\ place' = [place EXCEPT ![p] = place'[p]] /\ place'[p] \in {"running", "releasing"}
    BY <1>2, <1>10 DEF WriteKeep, Go
  <2>2. p \in Running
    BY <2>1 DEF Running, At
  <2>3. QED
    BY <1>1, <2>1, <2>2, GoesOn DEF LockInv, SweepsOver, At, Holding
<1>11. ASSUME NEW p \in Proc, NEW there \in {"ready", "releasing"}, RunOver(p, there)
       PROVE  LockInv'
  <2>1. /\ At(p, "running") /\ lock' = lock /\ sandbox' \subseteq sandbox /\ doomed' = doomed
        /\ place' = [place EXCEPT ![p] = place'[p]] /\ place'[p] \in {"ready", "releasing"}
    BY <1>2, <1>11 DEF RunOver, Go
  <2>2. p \in Running
    BY <2>1 DEF Running, At
  <2>3. QED
    BY <1>1, <2>1, <2>2, GoesOn DEF LockInv, SweepsOver, At, Holding
<1>12. ASSUME NEW p \in Proc, Release(p) PROVE LockInv'
  <2>1. /\ At(p, "releasing") /\ sandbox' = sandbox /\ doomed' = doomed
        /\ place' = [place EXCEPT ![p] = "over"]
    BY <1>12 DEF Release, Go
  <2>2. place'[p] = "over" /\ \A q \in Proc : q # p => place'[q] = place[q]
    BY <1>2, <2>1
  <2>3. \A q \in Proc : Holding(q) => q = p
    BY <2>1 DEF LockInv, OneSeries, Holding, At
  <2>4. \A q \in Proc : /\ ~Holding(q)'
                        /\ q \in Running' => q \in Running
    BY <2>1, <2>2, <2>3 DEF Holding, Running
  <2>5. OneSeries' /\ WriterAlone'
    BY <2>4 DEF OneSeries, WriterAlone
  <2>6. NumbersDiffer'
    BY <2>4 DEF LockInv, NumbersDiffer, Running
  <2>7. SandboxesOwned' /\ SweepsOver'
    BY <1>2, <2>1, <2>2 DEF LockInv, SandboxesOwned, SweepsOver
  <2>8. QED
    BY <1>1, <2>5, <2>6, <2>7 DEF LockInv
<1>13. ASSUME NEW p \in Proc, Crash(p) PROVE LockInv'
  <2>1. /\ p \in Running /\ lock' = lock /\ sandbox' = sandbox
        /\ doomed' = [doomed EXCEPT ![p] = {}]
        /\ place' = [place EXCEPT ![p] = place'[p]] /\ place'[p] = "dead"
    BY <1>2, <1>13 DEF Crash, Go
  <2>2. \A r \in Proc : \A q \in doomed'[r] : place[q] \in {"over", "dead"}
    BY <1>2, <2>1 DEF LockInv, SweepsOver
  <2>3. QED
    BY <1>1, <2>1, <2>2, GoesOn DEF Holding
<1>14. CASE UNCHANGED lockVars
  BY <1>14 DEF lockVars, LockInv, LockTypeOK, OneSeries, OneClaim, NumbersDiffer, WriterAlone,
               SandboxesOwned, SweepsOver, Holding, At, Running
<1>15. QED
  BY <1>3, <1>4, <1>5, <1>6, <1>7, <1>8, <1>9, <1>10, <1>11, <1>12, <1>13, <1>14 DEF LockNext

LEMMA LockStarts ==
  ASSUME LockInit
  PROVE  LockInv
<1>1. /\ keeps \in SUBSET Proc /\ sandbox = {} /\ kept = {} /\ lock = None
      /\ doomed = [p \in Proc |-> {}] /\ place = [p \in Proc |-> "new"]
  BY Zenon DEF LockInit
<1>2. LockTypeOK
  <2>1. place \in [Proc -> PlaceName]
    BY <1>1 DEF PlaceName
  <2>2. doomed \in [Proc -> SUBSET Proc]
    BY <1>1
  <2>3. keeps \cup sandbox \cup kept \subseteq Proc
    BY <1>1
  <2>4. lock \in {PidOf[p] : p \in Proc} \cup {None}
    BY <1>1, Zenon
  <2>5. QED
    BY <2>1, <2>2, <2>3, <2>4, Zenon DEF LockTypeOK, PlaceName
<1>3. (\A p \in Proc : place[p] = "new" /\ doomed[p] = {}) /\ sandbox = {}
  BY <1>1
<1>4. OneSeries /\ OneClaim /\ NumbersDiffer /\ WriterAlone /\ SandboxesOwned /\ SweepsOver
  BY <1>3 DEF OneSeries, OneClaim, NumbersDiffer, WriterAlone, SandboxesOwned, SweepsOver,
              Holding, At, Running
<1>5. QED
  BY <1>2, <1>4 DEF LockInv

(* The types hold however the claims overlap.                              *)
THEOREM LockTypesCorrect == LockSpec => []LockTypeOK
<1>1. LockInit => LockTypeOK
  BY LockStarts DEF LockInv
<1>2. LockTypeOK /\ [LockNext]_lockVars => LockTypeOK'
  BY LockTypes
<1>3. QED
  BY <1>1, <1>2, PTL DEF LockSpec

(* Series do not overlap when no two processes claim the lock at once      *)
(* (claimLock): neither a crash nor a number that is given out again lets  *)
(* a second series in.                                                     *)
THEOREM SeriesAreSerial == SerialSpec => []OneSeries
<1>1. LockInv => OneSeries
  BY DEF LockInv
<1>2. QED
  BY <1>1, LockStarts, LockStep, PTL DEF SerialSpec

(* Under the same condition a sweep removes no directory of a series that  *)
(* goes on, its own included (the loop of claimLock).                      *)
THEOREM SweepsRemoveOrphans == SerialSpec => SweepsOnlyOrphans
<1>1. ASSUME LockInv
      PROVE  \A p, q \in Proc : SweepEntry(p, q) /\ ~At(q, "over") /\ ~At(q, "dead") => q \in sandbox'
  BY <1>1 DEF LockInv, SweepsOver, SweepEntry, At
<1>2. QED
  BY <1>1, LockStarts, LockStep, PTL DEF SerialSpec, SweepsOnlyOrphans

-----------------------------------------------------------------------------
(* The process runner, for any output, pipe and scanner.  What has         *)
(* returned stays over because the three things it waited for are final: a *)
(* child that is gone, a pipe that is closed, a scanner that has stopped.  *)

Over ==
  result # None =>
    \/ child = "none" /\ result.code = 127
    \/ /\ chosen # None /\ waited /\ scanner = "stopped"
       /\ result = [code |-> IF child = "killed" THEN -1 ELSE 0, timedOut |-> chosen = "timer"]

ChildHistory ==
  /\ child = "none" => ~waited /\ chosen = None /\ pipe = <<>> /\ open
  /\ waited => child \in {"exited", "killed"}
  /\ child = "exited" => unsaid = <<>> /\ ~hangs
  /\ child = "killed" => chosen = "timer"

Buffers ==
  /\ unsaid \in Seq({"more", "end"}) /\ pipe \in Seq({"more", "end"})
  /\ scanner = "reading" => held \in 0 .. LineMax

ProcInv == ProcTypeOK /\ Over /\ ChildHistory /\ Buffers

LEMMA ProcStarts ==
  ASSUME ProcInit
  PROVE  ProcInv
<1>1. unsaid \in Seq({"more", "end"})
  BY ProcAssumption DEF ProcInit
<1>2. ProcTypeOK
  <2>1. {open, hangs, waited} \subseteq BOOLEAN
    BY Zenon DEF ProcInit
  <2>2. /\ pipe = <<>> /\ Len(pipe) <= PipeMax /\ \A i \in DOMAIN pipe : pipe[i] \in {"more", "end"}
        /\ held \in 0 .. LineMax + 1 /\ lines \in Nat
    BY ProcAssumption DEF ProcInit
  <2>3. child = "none" /\ scanner = "reading" /\ chosen = None /\ result = None
    BY DEF ProcInit
  <2>4. QED
    BY <2>1, <2>2, <2>3 DEF ProcTypeOK
<1>3. QED
  BY <1>1, <1>2, ProcAssumption DEF ProcInit, ProcInv, Over, ChildHistory, Buffers

LEMMA ProcStep ==
  ASSUME ProcInv, [ProcNext]_procVars
  PROVE  ProcInv'
<1> USE ProcAssumption DEF ProcInv, Over, ChildHistory
<1>0. ASSUME Start PROVE ProcInv'
  BY <1>0 DEF Start, ProcTypeOK, Buffers
<1>1. ASSUME CannotStart PROVE ProcInv'
  <2>1. /\ result'.code = 127 /\ child' = "none"
        /\ result' \in [code : {-1, 0, 127}, timedOut : BOOLEAN]
    BY <1>1 DEF CannotStart
  <2>2. ProcTypeOK'
    BY <1>1, <2>1 DEF CannotStart, ProcTypeOK
  <2>3. Buffers'
    BY <1>1 DEF CannotStart, Buffers
  <2>4. ChildHistory'
    BY <1>1 DEF CannotStart
  <2>5. QED
    BY <2>1, <2>2, <2>3, <2>4
<1>2. ASSUME ChildWrites PROVE ProcInv'
  <2>1. Head(unsaid) \in {"more", "end"} /\ Tail(unsaid) \in Seq({"more", "end"})
    BY <1>2 DEF ChildWrites, Buffers
  <2>2. /\ Append(pipe, Head(unsaid)) \in Seq({"more", "end"})
        /\ Len(Append(pipe, Head(unsaid))) <= PipeMax
        /\ \A i \in DOMAIN Append(pipe, Head(unsaid)) : Append(pipe, Head(unsaid))[i] \in {"more", "end"}
    BY <1>2, <2>1 DEF ChildWrites, Buffers
  <2>3. ProcTypeOK'
    BY <1>2, <2>2 DEF ChildWrites, ProcTypeOK
  <2>4. Buffers'
    BY <1>2, <2>1, <2>2 DEF ChildWrites, Buffers
  <2>5. QED
    BY <1>2, <2>3, <2>4 DEF ChildWrites
<1>3. ASSUME ChildExits PROVE ProcInv'
  BY <1>3 DEF ChildExits, ProcTypeOK, Buffers
<1>4. ASSUME ScanPiece PROVE ProcInv'
  <2>1. /\ Head(pipe) \in {"more", "end"} /\ Tail(pipe) \in Seq({"more", "end"})
        /\ Len(Tail(pipe)) <= PipeMax
        /\ \A i \in DOMAIN Tail(pipe) : Tail(pipe)[i] \in {"more", "end"}
        /\ held \in 0 .. LineMax
    BY <1>4 DEF ScanPiece, ProcTypeOK, Buffers
  <2>2. ProcTypeOK'
    BY <1>4, <2>1 DEF ScanPiece, ProcTypeOK
  <2>3. Buffers'
    BY <1>4, <2>1 DEF ScanPiece, Buffers
  <2>4. QED
    BY <1>4, <2>2, <2>3 DEF ScanPiece
<1>5. ASSUME ScanEnds PROVE ProcInv'
  BY <1>5 DEF ScanEnds, ProcTypeOK, Buffers
<1>6. ASSUME WaitReturns PROVE ProcInv'
  <2>1. /\ waited' /\ {open', hangs', waited'} \subseteq BOOLEAN
    BY <1>6, Zenon DEF WaitReturns, ProcTypeOK
  <2>2. /\ child \in {"exited", "killed"} /\ pipe' = <<>>
        /\ UNCHANGED <<child, unsaid, hangs, scanner, held, lines, chosen, result>>
    BY <1>6 DEF WaitReturns
  <2>3. ProcTypeOK'
    BY <2>1, <2>2 DEF ProcTypeOK
  <2>4. Over' /\ ChildHistory' /\ Buffers'
    BY <2>1, <2>2 DEF Buffers
  <2>5. QED
    BY <2>3, <2>4
<1>7. ASSUME ReceiveWait \/ Expire PROVE ProcInv'
  BY <1>7 DEF ReceiveWait, Expire, ProcTypeOK, Buffers
<1>8. ASSUME Return PROVE ProcInv'
  BY <1>8 DEF Return, ProcTypeOK, Buffers
<1>9. CASE UNCHANGED procVars
  BY <1>9 DEF procVars, ProcTypeOK, Buffers
<1>10. QED
  BY <1>0, <1>1, <1>2, <1>3, <1>4, <1>5, <1>6, <1>7, <1>8, <1>9 DEF ProcNext

(* Every variable of the process runner has its type.                      *)
THEOREM ProcTypesCorrect == ProcSpec => []ProcTypeOK
<1>1. ProcInv => ProcTypeOK
  BY DEF ProcInv
<1>2. QED
  BY <1>1, ProcStarts, ProcStep, PTL DEF ProcSpec

(* The exit code and the timeout that runProc returns are the child's.     *)
THEOREM ResultsAreTrue == ProcSpec => []ResultIsTrue
<1>1. ASSUME ProcInv PROVE ResultIsTrue
  <2> SUFFICES ASSUME result # None
               PROVE  /\ result.code = 0 /\ ~result.timedOut =>
                           child = "exited" /\ unsaid = <<>> /\ ~hangs
                      /\ child = "killed" => result.timedOut /\ result.code = -1
    BY DEF ResultIsTrue
  <2>1. CASE child = "none" /\ result.code = 127
    BY <2>1
  <2>2. CASE child # "none"
    <3>1. /\ child \in {"exited", "killed"} /\ (child = "killed" => chosen = "timer")
          /\ (child = "exited" => unsaid = <<>> /\ ~hangs)
      BY <1>1, <2>2 DEF ProcInv, Over, ChildHistory
    <3>2. result = [code |-> IF child = "killed" THEN -1 ELSE 0, timedOut |-> chosen = "timer"]
      BY <1>1, <2>2 DEF ProcInv, Over
    <3>3. result.code = IF child = "killed" THEN -1 ELSE 0
      BY <3>2
    <3>4. chosen = "timer" => result.timedOut
      BY <3>2, Zenon
    <3>5. QED
      BY <3>1, <3>3, <3>4
  <2>3. QED
    BY <1>1, <2>1, <2>2 DEF ProcInv, Over, ChildHistory
<1>2. QED
  BY <1>1, ProcStarts, ProcStep, PTL DEF ProcSpec

(* Nothing that runProc began goes on behind its return.                   *)
THEOREM ReturnsLast == ProcSpec => ReturnIsLast
<1>1. ASSUME ProcInv, [ProcNext]_procVars
      PROVE  [result = None]_procVars
  <2>1. SUFFICES ASSUME ProcNext, result # None PROVE FALSE
    BY <1>1
  <2>2. CASE child = "none"
    BY <1>1, <2>1, <2>2 DEF ProcNext, Start, CannotStart, ChildWrites, ChildExits, ScanPiece, ScanEnds,
         WaitReturns, ReceiveWait, Expire, Return, ProcInv, ChildHistory
  <2>3. CASE child # "none"
    BY <1>1, <2>1, <2>3 DEF ProcNext, Start, CannotStart, ChildWrites, ChildExits, ScanPiece, ScanEnds,
         WaitReturns, ReceiveWait, Expire, Return, ProcInv, ChildHistory, Over
  <2>4. QED
    BY <2>2, <2>3
<1>2. QED
  BY <1>1, ProcStarts, ProcStep, PTL DEF ProcSpec, ReturnIsLast


-----------------------------------------------------------------------------
(* The types of the parts whose invariants above do not hold them already  *)

(* What finitely many requests told is a number.  The library              *)
(* sums along subsets, one element less at a time.                         *)
LEMMA TotalIsNumber ==
  ASSUME NEW es, NEW S, IsFiniteSet(S), \A i \in S : Told(es[i]) \in Nat
  PROVE  ToldOf(es, S) \in Nat
<1> DEFINE pick(s) == CHOOSE x \in s : TRUE
           K == Cardinality(S)
           Sum(s, g) == IF s = {} THEN 0 ELSE Told(es[pick(s)]) + g[s \ {pick(s)}]
           IsTotal(g) == g = [s \in SUBSET S |-> Sum(s, g)]
           total == CHOOSE g : IsTotal(g)
<1>1. ToldOf(es, S) = total[S]
  BY DEF ToldOf, MapThenSumSet, MapThenFoldSet
<1>2. K \in Nat /\ S \in SUBSET S
  BY FS_CardinalityType
<1>3. \A s \in SUBSET S :
         /\ Cardinality(s) \in 0 .. K /\ (Cardinality(s) = 0 <=> s = {})
         /\ s # {} => /\ pick(s) \in s /\ s \ {pick(s)} \in SUBSET S
                      /\ Cardinality(s \ {pick(s)}) = Cardinality(s) - 1
                      /\ Told(es[pick(s)]) \in Nat
  <2> TAKE s \in SUBSET S
  <2>1. IsFiniteSet(s) /\ Cardinality(s) <= K
    BY FS_Subset
  <2>2. Cardinality(s) \in Nat /\ (Cardinality(s) = 0 <=> s = {})
    BY <2>1, FS_CardinalityType, FS_EmptySet
  <2>3. s # {} => pick(s) \in s
    OBVIOUS
  <2>4. s # {} => Cardinality(s \ {pick(s)}) = Cardinality(s) - 1
    BY <2>1, <2>3, FS_RemoveElement
  <2>5. QED
    BY <1>2, <2>1, <2>2, <2>3, <2>4
<1> HIDE DEF pick, K
<1>4. PICK g \in [SUBSET S -> Nat] : \A s \in SUBSET S : g[s] = Sum(s, g)
  <2> DEFINE UpTo(n, g) == \A s \in SUBSET S : Cardinality(s) <= n => g[s] = Sum(s, g)
             N == {n \in 0 .. K : \E g \in [SUBSET S -> Nat] : UpTo(n, g)}
  <2>1. 0 \in N
    <3> DEFINE g == [s \in SUBSET S |-> 0]
    <3>1. g \in [SUBSET S -> Nat]
      OBVIOUS
    <3>2. ASSUME NEW s \in SUBSET S, Cardinality(s) <= 0 PROVE g[s] = Sum(s, g)
      <4>1. s = {}
        <5>1. Cardinality(s) \in 0 .. K /\ (Cardinality(s) = 0 <=> s = {})
          BY <1>3, Zenon
        <5>2. QED
          BY <1>2, <3>2, <5>1
      <4>2. QED
        BY <4>1
    <3>3. UpTo(0, g)
      BY <3>2
    <3> HIDE DEF g, UpTo
    <3>4. QED
      BY <1>2, <3>1, <3>3
  <2>2. ASSUME NEW n \in 0 .. K, n < K, n \in N PROVE n + 1 \in N
    <3>1. PICK g \in [SUBSET S -> Nat] : UpTo(n, g)
      BY <2>2
    <3> DEFINE h == [s \in SUBSET S |-> IF Cardinality(s) <= n THEN g[s] ELSE Sum(s, g)]
    <3>2. h \in [SUBSET S -> Nat]
      <4>1. ASSUME NEW s \in SUBSET S, ~(Cardinality(s) <= n) PROVE Sum(s, g) \in Nat
        <5>1. s # {} /\ Told(es[pick(s)]) \in Nat /\ g[s \ {pick(s)}] \in Nat
          BY <1>3, <2>2, <4>1
        <5>2. QED
          BY <5>1
      <4> HIDE DEF Sum
      <4>2. QED
        BY <4>1
    <3>3. ASSUME NEW s \in SUBSET S, Cardinality(s) <= n + 1 PROVE h[s] = Sum(s, h)
      <4>1. CASE s = {}
        <5>1. Cardinality(s) <= n
          <6>1. Cardinality(s) = 0
            BY <1>3, <4>1, Zenon
          <6>2. QED
            BY <1>2, <2>2, <6>1
        <5>2. h[s] = g[s] /\ g[s] = 0
          BY <3>1, <4>1, <5>1
        <5>3. QED
          BY <4>1, <5>2
      <4>2. CASE s # {}
        <5>1. s \ {pick(s)} \in SUBSET S /\ Cardinality(s \ {pick(s)}) <= n
          <6>1. Cardinality(s) \in Nat /\ Cardinality(s \ {pick(s)}) = Cardinality(s) - 1
            BY <1>3, <4>2
          <6>2. QED
            BY <1>3, <2>2, <3>3, <4>2, <6>1
        <5>2. h[s \ {pick(s)}] = g[s \ {pick(s)}]
          BY <5>1
        <5>3. h[s] = Told(es[pick(s)]) + g[s \ {pick(s)}]
          BY <3>1, <4>2
        <5>4. QED
          BY <4>2, <5>2, <5>3
      <4>3. QED
        BY <4>1, <4>2
    <3> HIDE DEF h
    <3>4. UpTo(n + 1, h)
      BY <3>3
    <3>5. n + 1 \in 0 .. K
      BY <1>2, <2>2
    <3> HIDE DEF UpTo
    <3>6. QED
      BY <3>2, <3>4, <3>5
  <2> HIDE DEF N
  <2>3. K \in N
    BY <1>2, <2>1, <2>2, Induct
  <2>4. PICK g \in [SUBSET S -> Nat] : UpTo(K, g)
    BY <2>3 DEF N
  <2>5. ASSUME NEW s \in SUBSET S PROVE Cardinality(s) <= K
    <3>1. Cardinality(s) \in 0 .. K
      BY <1>3, Zenon
    <3>2. QED
      BY <1>2, <3>1
  <2> HIDE DEF Sum
  <2>6. QED
    BY <2>4, <2>5
<1>5. IsTotal(g)
  <2> HIDE DEF Sum
  <2>1. QED
    BY <1>4
<1>6. IsTotal(total)
  <2> HIDE DEF IsTotal
  <2>1. QED
    BY <1>5
<1>7. \A s \in SUBSET S : total[s] = Sum(s, total)
  <2> HIDE DEF total, Sum
  <2>1. QED
    BY <1>6
<1> HIDE DEF total, IsTotal
<1> DEFINE M == {n \in 0 .. K : \A s \in SUBSET S : Cardinality(s) = n => total[s] \in Nat}
<1>8. 0 \in M
  <2>1. ASSUME NEW s \in SUBSET S, Cardinality(s) = 0 PROVE total[s] \in Nat
    <3>1. s = {}
      BY <1>3, <2>1
    <3>2. total[s] = Sum(s, total)
      BY <1>7
    <3>3. QED
      BY <3>1, <3>2
  <2>2. QED
    BY <1>2, <2>1
<1>9. ASSUME NEW n \in 0 .. K, n < K, n \in M PROVE n + 1 \in M
  <2>1. ASSUME NEW s \in SUBSET S, Cardinality(s) = n + 1 PROVE total[s] \in Nat
    <3>1. /\ s # {} /\ s \ {pick(s)} \in SUBSET S /\ Cardinality(s \ {pick(s)}) = n
          /\ Told(es[pick(s)]) \in Nat
      <4>1. n \in Nat /\ Cardinality(s) # 0
        BY <1>2, <2>1
      <4>2. s # {}
        BY <1>3, <4>1, Zenon
      <4>3. /\ s \ {pick(s)} \in SUBSET S /\ Told(es[pick(s)]) \in Nat
            /\ Cardinality(s \ {pick(s)}) = Cardinality(s) - 1
        BY <1>3, <4>2, Zenon
      <4>4. QED
        BY <2>1, <4>1, <4>2, <4>3
    <3>2. total[s \ {pick(s)}] \in Nat
      BY <1>9, <3>1
    <3>3. total[s] = Sum(s, total)
      BY <1>7
    <3>4. QED
      BY <3>1, <3>2, <3>3
  <2>2. n + 1 \in 0 .. K
    BY <1>2, <1>9
  <2>3. QED
    BY <2>1, <2>2
<1> HIDE DEF M
<1>10. K \in M
  BY <1>2, <1>8, <1>9, Induct
<1>11. QED
  BY <1>1, <1>2, <1>10 DEF M, K

(* The places in the plan, and the totals as numbers.                      *)
BenchPlace ==
  /\ cli \in Cli
  /\ phase \in {"idle", "agent", "ended", "recorded", "stopped"}
  /\ step \in 0 .. Len(Plan)
  /\ clean \in BOOLEAN
  /\ Len(runs) <= step
  /\ phase \in {"agent", "ended"} => Len(runs) < step
  /\ \A i \in DOMAIN runs : runs[i].told \in Nat
  /\ \A row \in published : row.saved \in Int \cup {None}

(* What a run's requests told is a number.                                 *)
LEMMA RecordIsTold ==
  ASSUME events \in Events, NEW s, NEW ledger, NEW read, NEW failed
  PROVE  Record(s, events, ledger, read, failed).told \in Nat
<1> DEFINE replied == {i \in Upstream(events) : ~events[i].canceled}
<1>1. /\ Len(events) \in Nat /\ DOMAIN events = 1 .. Len(events)
      /\ \A i \in DOMAIN events : events[i] \in Reply \cup {Unsettled}
  BY DEF Events
<1>2. \A i \in DOMAIN events : Told(events[i]) \in Nat
  <2>1. Reply \cup {Unsettled} \subseteq ReplyType
    BY BenchAssumption, Zenon
  <2>2. QED
    BY <1>1, <2>1 DEF ReplyType, Told
<1>3. replied \in SUBSET (DOMAIN events)
  BY DEF Upstream, Inference
<1> HIDE DEF replied
<1>4. IsFiniteSet(replied)
  <2>1. IsFiniteSet(1 .. Len(events))
    BY <1>1, FS_Interval
  <2>2. QED
    BY <1>1, <1>3, <2>1, FS_Subset
<1>5. ToldOf(events, replied) \in Nat
  BY <1>2, <1>3, <1>4, TotalIsNumber
<1>6. QED
  BY <1>5 DEF Record, replied

LEMMA PlanLength == Len(Plan) \in Nat
<1>1. Plan \in Seq([mode : {"on", "off", "direct"}, rep : Nat])
  BY BenchAssumption, Zenon
<1>2. QED
  BY <1>1

LEMMA BenchPlaceStep == BenchInv /\ BenchPlace /\ [BenchNext]_benchVars => BenchPlace'
<1> SUFFICES ASSUME BenchInv, BenchPlace, [BenchNext]_benchVars PROVE BenchPlace'
  OBVIOUS
<1>0. IsSeq(runs) /\ Len(runs) \in Nat /\ Len(Plan) \in Nat /\ DOMAIN runs = 1 .. Len(runs)
  <2>1. IsSeq(runs)
    BY DEF BenchInv, RunsSound
  <2>2. QED
    BY <2>1, PlanLength DEF IsSeq
<1> USE DEF BenchPlace
<1>1. CASE StartRun
  BY <1>0, <1>1 DEF StartRun
<1>2. CASE Request
  BY <1>2 DEF Request
<1>3. ASSUME NEW i \in DOMAIN events, NEW reply \in Reply, Settle(i, reply) PROVE BenchPlace'
  BY <1>3 DEF Settle
<1>4. ASSUME NEW fine \in BOOLEAN, AgentEnds(fine) PROVE BenchPlace'
  BY <1>4 DEF AgentEnds
<1>5. ASSUME NEW ledger \in Ledgers, NEW read \in 0 .. (Checks + 1),
             NEW failed \in SUBSET (1 .. Checks), RecordRun(ledger, read, failed)
      PROVE  BenchPlace'
  <2> DEFINE run == Record(Plan[step], events, ledger, read, failed)
  <2>1. run.told \in Nat
    BY RecordIsTold DEF BenchInv
  <2>2. /\ runs' = Append(runs, run) /\ clean' = TRUE /\ phase = "ended" /\ phase' = "recorded"
        /\ cli' = cli /\ step' = step /\ published' = published
    BY <1>5 DEF RecordRun
  <2> HIDE DEF run
  <2>3. IsSeq(runs') /\ \A i \in DOMAIN runs' : runs'[i] = run \/ \E j \in DOMAIN runs : runs'[i] = runs[j]
    BY <1>0, <2>2, AppendIsSeq
  <2>4. \A i \in DOMAIN runs' : runs'[i].told \in Nat
    BY <2>1, <2>3
  <2>5. Len(runs') = Len(runs) + 1
    BY <1>0, <2>2 DEF IsSeq
  <2>6. QED
    BY <1>0, <2>2, <2>4, <2>5
<1>6. CASE WriteComparison
  <2>1. /\ published' = BuildComparisons(runs) /\ phase' = "idle"
        /\ UNCHANGED <<cli, step, clean, runs>>
    BY <1>6 DEF WriteComparison
  <2>2. ASSUME NEW row \in BuildComparisons(runs) PROVE row.saved \in Int \cup {None}
    <3>1. CASE row.saved # None
      <4>1. PICK i, j \in DOMAIN runs : row.saved = runs[i].told - runs[j].told
        BY <3>1, PublishedIsSound DEF BenchInv
      <4>2. QED
        BY <4>1
    <3>2. QED
      BY <3>1
  <2>3. QED
    BY <2>1, <2>2
<1>7. CASE Stop
  BY <1>7 DEF Stop
<1>8. CASE UNCHANGED benchVars
  BY <1>8 DEF benchVars
<1>9. QED
  BY <1>1, <1>2, <1>3, <1>4, <1>5, <1>6, <1>7, <1>8 DEF BenchNext

(* A series begins no run beyond its plan, records no run it did not       *)
(* begin, and every published difference is a number (run.go, report.go).  *)
THEOREM BenchTypesCorrect == BenchSpec => []BenchTypeOK
<1>1. BenchInit => BenchInv
  BY DEF BenchInit, BenchInv, Events, RunsSound, IsSeq, NoInventedSavings
<1>2. BenchInit => BenchPlace
  BY PlanLength DEF BenchInit, BenchPlace
<1>3. BenchInv /\ BenchPlace => BenchTypeOK
  <2> SUFFICES ASSUME BenchInv, BenchPlace PROVE BenchTypeOK
    OBVIOUS
  <2>1. \A i \in DOMAIN events : events[i] \in Reply \cup {Unsettled}
    BY DEF BenchInv, Events
  <2>2. QED
    BY <2>1 DEF BenchPlace, BenchTypeOK
<1>4. QED
  BY <1>1, <1>2, <1>3, BenchStep, BenchPlaceStep, PTL DEF BenchSpec

(* Every entry of the application ledger is a skill that was delivered or  *)
(* a failure, the catalogue holds ids only, and a run ends well or not     *)
(* (routing.go, requiredLeftover).                                         *)
THEOREM ApplyTypesCorrect == ApplySpec => []ApplyTypeOK
<1>1. ApplyInit => ApplyInv /\ ApplyTypeOK
  <2> SUFFICES ASSUME ApplyInit PROVE ApplyTypeOK
    BY ApplyInitInv
  <2>1. ApplyInv
    BY ApplyInitInv
  <2>2. DOMAIN applied = {} /\ policy \in Policy /\ unserved \in BOOLEAN
    <3>1. applied = <<>> /\ unserved = FALSE /\ policy \in Policy
      BY DEF ApplyInit
    <3>2. DOMAIN applied = {}
      BY <3>1
    <3>3. unserved \in BOOLEAN
      BY <3>1, Zenon
    <3>4. QED
      BY <3>1, <3>2, <3>3
  <2>3. QED
    BY <2>1, <2>2 DEF ApplyInv, Ids, ApplyTypeOK
<1>2. ApplyInv /\ ApplyTypeOK /\ [ApplyNext]_applyVars => ApplyTypeOK'
  <2> SUFFICES ASSUME ApplyInv, ApplyTypeOK, [ApplyNext]_applyVars PROVE ApplyTypeOK'
    OBVIOUS
  <2>1. ApplyInv'
    BY ApplyStep
  <2>2. Ids(known)' /\ exit' \in {None, "success", "failure"}
    BY <2>1 DEF ApplyInv
  <2>3. CASE AutoApply
    <3>1. PICK words, skills, id, item, command, again, picked, got, takes, asked :
            Served(words, skills, id, item, command, again, picked, got, takes, asked)
      BY <2>3, RequestIsServed
    <3> DEFINE v == IF item \in Bodiless THEN "failed" ELSE item
    <3>2. /\ applied' = IF picked THEN Set(applied, id, v) ELSE applied
          /\ policy' = policy /\ unserved' \in BOOLEAN
      BY <3>1 DEF Served
    <3>3. picked => v \in Skill \cup {"failed"}
      BY <3>1 DEF Served
    <3> HIDE DEF v
    <3>4. /\ DOMAIN Set(applied, id, v) = DOMAIN applied \cup {id} /\ Set(applied, id, v)[id] = v
          /\ \A x \in DOMAIN applied : x # id => Set(applied, id, v)[x] = applied[x]
      BY DEF Set
    <3>5. \A x \in DOMAIN applied' : applied'[x] \in Skill \cup {"failed"}
      BY <3>2, <3>3, <3>4 DEF ApplyTypeOK
    <3>6. QED
      BY <2>2, <3>2, <3>5 DEF ApplyTypeOK, Ids
  <2>4. CASE RunEnds
    BY <2>2, <2>4 DEF ApplyTypeOK, Ids, RunEnds
  <2>5. CASE UNCHANGED applyVars
    BY <2>5 DEF ApplyTypeOK, applyVars
  <2>6. QED
    BY <2>3, <2>4, <2>5 DEF ApplyNext
<1>3. QED
  BY <1>1, <1>2, ApplyStep, PTL DEF ApplySpec

(* A history is a sequence of messages with one marker at most, whatever   *)
(* tools quote, and an open request is a turn or a compaction              *)
(* (native_compact.go, Handler).                                           *)
THEOREM NativeTypesCorrect == NativeSpec => []NativeTypeOK
<1>1. NativeInv => NativeTypeOK
  BY DEF NativeInv
<1>2. QED
  BY <1>1, NativeStart, NativeStep, PTL DEF NativeSpec

(* A tap says which limit it hit and how a Connect stream ended, if it     *)
(* says anything (bodyTap of usage.go).                                    *)
TapLimits == {"", "json_limit", "sse_limit", "sse_event_limit", "connect_limit"}
TapEnds   == {"", "error", "incomplete"}

Marked(tap) == tap.limit \in TapLimits /\ tap.finish \in TapEnds

LEMMA TapIsMarked ==
  ASSUME NEW tap \in Tap
  PROVE  Marked(tap)
<1>1. tap \in [sse : BOOLEAN, connect : BOOLEAN, of : {UsageOf, EditsOf}, bounded : BOOLEAN,
              raw : Seq(Piece), line : Seq(Piece), event : Seq(Piece), value : Values,
              limit : TapLimits, finish : TapEnds]
  BY Zenon DEF Tap, TapLimits, TapEnds
<1>2. tap.limit \in TapLimits /\ tap.finish \in TapEnds
  BY <1>1
<1>3. QED
  BY <1>2 DEF Marked

(* What ends up in other fields leaves these two as they are.              *)
LEMMA TapFields ==
  ASSUME NEW tap \in Tap, NEW v, NEW e
  PROVE  /\ [tap EXCEPT !.value = v].limit = tap.limit
         /\ [tap EXCEPT !.value = v].finish = tap.finish
         /\ [tap EXCEPT !.value = v, !.finish = e].limit = tap.limit
         /\ [tap EXCEPT !.value = v, !.finish = e].finish = e
<1>1. tap \in [sse : BOOLEAN, connect : BOOLEAN, of : {UsageOf, EditsOf}, bounded : BOOLEAN,
              raw : Seq(Piece), line : Seq(Piece), event : Seq(Piece), value : Values,
              limit : TapLimits, finish : TapEnds]
  BY Zenon DEF Tap, TapLimits, TapEnds
<1>2. QED
  BY <1>1

LEMMA FinishedIsMarked ==
  ASSUME NEW tap \in Tap
  PROVE  Marked(Finished(tap))
<1>m. Marked(tap)
  BY TapIsMarked
<1>1. CASE tap.connect
  <2> DEFINE units  == UnitsIn(tap.raw)
             with   == {n \in DOMAIN units : \E x \in units[n] : tap.of[x] # None}
             failed == \E n \in DOMAIN units : \E x \in units[n] : SortOf[x] = "failure"
             newest == CHOOSE n \in with : \A k \in with : k <= n
             short  == 2 * Cardinality(Envelopes(tap.raw)) < Len(tap.raw)
             v == IF with = {} THEN None ELSE tap.of[CHOOSE x \in units[newest] : TRUE]
             e == IF failed THEN "error" ELSE IF short THEN "incomplete" ELSE ""
  <2>1. Finished(tap) = [tap EXCEPT !.value = v, !.finish = e]
    BY <1>1, Zenon DEF Finished, FinishedConnect
  <2> HIDE DEF failed, short, v
  <2>2. e \in TapEnds
    BY Zenon DEF TapEnds
  <2> HIDE DEF e
  <2>3. Finished(tap).limit = tap.limit /\ Finished(tap).finish = e
    BY <2>1, TapFields
  <2>4. QED
    BY <1>m, <2>2, <2>3 DEF Marked
<1>2. CASE ~tap.connect /\ tap.sse
  <2> DEFINE t == IF tap.line = <<>> THEN tap ELSE FeedSSE(tap, <<Break, Break>>)
  <2>1. <<Break, Break>> \in Seq(Piece)
    BY PiecesAre
  <2>2. t \in Tap
    BY <2>1, FeedTyped
  <2>3. Finished(tap) = Flush(t)
    BY <1>2 DEF Finished
  <2> HIDE DEF t
  <2>4. Finished(tap) \in Tap
    BY <2>2, <2>3, FlushIs
  <2>5. QED
    BY <2>4, TapIsMarked
<1>3. CASE ~tap.connect /\ ~tap.sse
  <2>1. Finished(tap) = [tap EXCEPT !.value = Found(tap, tap.raw, "doc")]
    BY <1>3 DEF Finished
  <2>2. Finished(tap).limit = tap.limit /\ Finished(tap).finish = tap.finish
    BY <2>1, TapFields
  <2>3. QED
    BY <1>m, <2>2 DEF Marked
<1>4. QED
  BY <1>1, <1>2, <1>3

(* For any body, any chunks and any limit a tap names the limit it hit and *)
(* the verdict of a Connect stream as one of those that usage.go knows.    *)
THEOREM TapsTypesCorrect == TapsSpec => []TapsTypeOK
<1> DEFINE Marks == Marked(usageTap) /\ Marked(editsTap)
<1>h. ASSUME TapsInv, ~over PROVE usageTap \in Tap /\ editsTap \in Tap /\ Marks
  <2>1. usageTap \in Tap /\ editsTap \in Tap
    BY <1>h DEF TapsInv, TapHolds
  <2>2. QED
    BY <2>1, TapIsMarked
<1>1. TapsInit => Marks
  BY <1>h, TapsInitInv DEF TapsInit
<1>2. TapsInv /\ Marks /\ [TapsNext]_tapVars => Marks'
  <2> SUFFICES ASSUME TapsInv, Marks, [TapsNext]_tapVars PROVE Marks'
    OBVIOUS
  <2>1. TapsInv'
    BY TapsStep
  <2>2. ASSUME NEW n \in 1 .. Len(OnWire(body)), Chunk(n) PROVE Marks'
    <3>1. ~over'
      BY <2>2 DEF Chunk
    <3>2. usageTap' \in Tap /\ editsTap' \in Tap
      BY <2>1, <3>1 DEF TapsInv, TapHolds
    <3>3. QED
      BY <3>2, TapIsMarked DEF Marked
  <2>3. ASSUME ~over, Report PROVE Marks'
    <3>1. Marked(Finished(usageTap)) /\ Marked(Finished(editsTap))
      BY <1>h, <2>3, FinishedIsMarked
    <3>2. QED
      BY <2>3, <3>1 DEF Report
  <2>4. CASE UNCHANGED tapVars
    BY <2>4 DEF tapVars, Marked
  <2>5. QED
    BY <2>2, <2>3, <2>4 DEF TapsNext, EndOfBody, ClosedEarly, ClosedAgain
<1>3. TapsInv /\ Marks => TapsTypeOK
  <2> SUFFICES ASSUME TapsInv, Marks PROVE TapsTypeOK
    OBVIOUS
  <2>1. /\ body \in Bodies /\ over \in BOOLEAN
        /\ taken \in 0 .. Len(OnWire(body)) /\ asJSON \in 0 .. taken
    BY DEF TapsInv, Split
  <2>2. taken \in Nat /\ asJSON \in Nat
    BY <2>1, WireTyped
  <2>3. QED
    BY <2>1, <2>2, Zenon DEF TapsTypeOK, Marked, TapLimits, TapEnds
<1> HIDE DEF Marks
<1>4. QED
  BY <1>1, <1>2, <1>3, TapsInitInv, TapsStep, PTL DEF TapsSpec

-----------------------------------------------------------------------------
(* The parts side by side. A step of one part leaves the variables of the  *)
(* others alone, so that every behaviour of the parts is one of each of    *)
(* them, and what holds of a part alone holds of it beside the others.     *)

LEMMA PartsStart ==
  PartsInit => /\ HintsInit /\ JevInit /\ SelInit /\ SteerInit /\ ApplyInit /\ NativeInit
               /\ FitInit /\ TapsInit /\ FramesInit /\ LockInit /\ ProcInit /\ BenchInit
               /\ part \in Part
BY DEF PartsInit

LEMMA PartsMove ==
  ASSUME [PartsNext]_partsVars, part \in Part
  PROVE  /\ part' \in Part
         /\ [HintsNext]_hintVars
         /\ [JevNext]_jevVars
         /\ [SelNext]_selVars
         /\ [SteerNext]_steerVars
         /\ [ApplyNext]_applyVars
         /\ [NativeNext]_nativeVars
         /\ [FitNext]_fitVars
         /\ [TapsNext]_tapVars
         /\ [FramesNext]_frameVars
         /\ [LockNext]_lockVars
         /\ [ProcNext]_procVars
         /\ [BenchNext]_benchVars
<1>1. CASE UNCHANGED partsVars
  BY <1>1 DEF partsVars
<1>2. CASE PartsNext
  <2>1. Rest /\ part' = part
    BY <1>2 DEF PartsNext, Rest
  <2>2. [HintsNext]_hintVars
    <3>1. CASE part = "hints"
      BY <1>2, <3>1 DEF PartsNext
    <3>2. CASE part # "hints"
      BY <2>1, <3>2 DEF Rest
    <3>3. QED
      BY <3>1, <3>2
  <2>3. [JevNext]_jevVars
    <3>1. CASE part = "jev"
      BY <1>2, <3>1 DEF PartsNext
    <3>2. CASE part # "jev"
      BY <2>1, <3>2 DEF Rest
    <3>3. QED
      BY <3>1, <3>2
  <2>4. [SelNext]_selVars
    <3>1. CASE part = "selection"
      BY <1>2, <3>1 DEF PartsNext
    <3>2. CASE part # "selection"
      BY <2>1, <3>2 DEF Rest
    <3>3. QED
      BY <3>1, <3>2
  <2>5. [SteerNext]_steerVars
    <3>1. CASE part = "steer"
      BY <1>2, <3>1 DEF PartsNext
    <3>2. CASE part # "steer"
      BY <2>1, <3>2 DEF Rest
    <3>3. QED
      BY <3>1, <3>2
  <2>6. [ApplyNext]_applyVars
    <3>1. CASE part = "apply"
      BY <1>2, <3>1 DEF PartsNext
    <3>2. CASE part # "apply"
      BY <2>1, <3>2 DEF Rest
    <3>3. QED
      BY <3>1, <3>2
  <2>7. [NativeNext]_nativeVars
    <3>1. CASE part = "native"
      BY <1>2, <3>1 DEF PartsNext
    <3>2. CASE part # "native"
      BY <2>1, <3>2 DEF Rest
    <3>3. QED
      BY <3>1, <3>2
  <2>8. [FitNext]_fitVars
    <3>1. CASE part = "fit"
      BY <1>2, <3>1 DEF PartsNext
    <3>2. CASE part # "fit"
      BY <2>1, <3>2 DEF Rest
    <3>3. QED
      BY <3>1, <3>2
  <2>9. [TapsNext]_tapVars
    <3>1. CASE part = "taps"
      BY <1>2, <3>1 DEF PartsNext
    <3>2. CASE part # "taps"
      BY <2>1, <3>2 DEF Rest
    <3>3. QED
      BY <3>1, <3>2
  <2>10. [FramesNext]_frameVars
    <3>1. CASE part = "frames"
      BY <1>2, <3>1 DEF PartsNext
    <3>2. CASE part # "frames"
      BY <2>1, <3>2 DEF Rest
    <3>3. QED
      BY <3>1, <3>2
  <2>11. [LockNext]_lockVars
    <3>1. CASE part = "lock"
      BY <1>2, <3>1 DEF PartsNext
    <3>2. CASE part # "lock"
      BY <2>1, <3>2 DEF Rest
    <3>3. QED
      BY <3>1, <3>2
  <2>12. [ProcNext]_procVars
    <3>1. CASE part = "proc"
      BY <1>2, <3>1 DEF PartsNext
    <3>2. CASE part # "proc"
      BY <2>1, <3>2 DEF Rest
    <3>3. QED
      BY <3>1, <3>2
  <2>13. [BenchNext]_benchVars
    <3>1. CASE part = "bench"
      BY <1>2, <3>1 DEF PartsNext
    <3>2. CASE part # "bench"
      BY <2>1, <3>2 DEF Rest
    <3>3. QED
      BY <3>1, <3>2
  <2>14. QED
    BY <2>1, <2>2, <2>3, <2>4, <2>5, <2>6, <2>7, <2>8, <2>9, <2>10, <2>11, <2>12, <2>13
<1>3. QED
  BY <1>1, <1>2

(* A behaviour of the parts is a behaviour of every part: none of them     *)
(* writes what another one keeps (Server of proxy.go, runCmd of run.go).   *)
THEOREM PartsAreTheirParts ==
  PartsSpec => /\ HintsSpec /\ JevSpec /\ SelSpec /\ SteerSpec /\ ApplySpec /\ NativeSpec
               /\ FitSpec /\ TapsSpec /\ FramesSpec /\ LockSpec /\ ProcSpec /\ BenchSpec
<1>1. part \in Part /\ [PartsNext]_partsVars => (part \in Part)'
  BY PartsMove
<1>2. PartsInit => HintsInit
  BY PartsStart
<1>3. part \in Part /\ [PartsNext]_partsVars => [HintsNext]_hintVars
  BY PartsMove
<1>4. PartsInit => JevInit
  BY PartsStart
<1>5. part \in Part /\ [PartsNext]_partsVars => [JevNext]_jevVars
  BY PartsMove
<1>6. PartsInit => SelInit
  BY PartsStart
<1>7. part \in Part /\ [PartsNext]_partsVars => [SelNext]_selVars
  BY PartsMove
<1>8. PartsInit => SteerInit
  BY PartsStart
<1>9. part \in Part /\ [PartsNext]_partsVars => [SteerNext]_steerVars
  BY PartsMove
<1>10. PartsInit => ApplyInit
  BY PartsStart
<1>11. part \in Part /\ [PartsNext]_partsVars => [ApplyNext]_applyVars
  BY PartsMove
<1>12. PartsInit => NativeInit
  BY PartsStart
<1>13. part \in Part /\ [PartsNext]_partsVars => [NativeNext]_nativeVars
  BY PartsMove
<1>14. PartsInit => FitInit
  BY PartsStart
<1>15. part \in Part /\ [PartsNext]_partsVars => [FitNext]_fitVars
  BY PartsMove
<1>16. PartsInit => TapsInit
  BY PartsStart
<1>17. part \in Part /\ [PartsNext]_partsVars => [TapsNext]_tapVars
  BY PartsMove
<1>18. PartsInit => FramesInit
  BY PartsStart
<1>19. part \in Part /\ [PartsNext]_partsVars => [FramesNext]_frameVars
  BY PartsMove
<1>20. PartsInit => LockInit
  BY PartsStart
<1>21. part \in Part /\ [PartsNext]_partsVars => [LockNext]_lockVars
  BY PartsMove
<1>22. PartsInit => ProcInit
  BY PartsStart
<1>23. part \in Part /\ [PartsNext]_partsVars => [ProcNext]_procVars
  BY PartsMove
<1>24. PartsInit => BenchInit
  BY PartsStart
<1>25. part \in Part /\ [PartsNext]_partsVars => [BenchNext]_benchVars
  BY PartsMove
<1>26. QED
  BY PartsStart, <1>1, <1>2, <1>3, <1>4, <1>5, <1>6, <1>7, <1>8, <1>9, <1>10, <1>11, <1>12, <1>13, <1>14, <1>15, <1>16, <1>17, <1>18, <1>19, <1>20, <1>21, <1>22, <1>23, <1>24, <1>25,
     PTL DEF PartsSpec, HintsSpec, JevSpec, SelSpec, SteerSpec, ApplySpec, NativeSpec, FitSpec, TapsSpec, FramesSpec, LockSpec, ProcSpec, BenchSpec

(* The variables of the part that takes steps have their types, whatever   *)
(* the constants of all the parts are: the store of hints keeps to its     *)
(* bound and queues every hint once (rewrite.go), no call of the Jev       *)
(* client reports more attempts than it sent (jev.go), and so on.          *)
THEOREM PartsTypesCorrect ==
  ASSUME CataloguesServe
  PROVE  PartsSpec => []PartsTypeOK
<1>1. part \in Part /\ [PartsNext]_partsVars => (part \in Part)'
  BY PartsMove
<1>2. /\ part \in Part /\ HintsTypeOK /\ StoreMatchesOrder /\ JevTypeOK /\ SelTypeOK /\ SteerTypeOK
      /\ ApplyTypeOK /\ NativeTypeOK /\ FitTypeOK /\ TapsTypeOK /\ FramesTypeOK /\ LockTypeOK
      /\ ProcTypeOK /\ ResultIsTrue /\ BenchTypeOK
      => PartsTypeOK
  BY DEF Part, PartsTypeOK
<1>3. QED
  BY <1>1, <1>2, PartsStart, PartsAreTheirParts, StoreCorrect, JevTypeCorrect, SelTypesCorrect,
     SteerTypesCorrect, ApplyTypesCorrect, NativeTypesCorrect, FitTypesCorrect, TapsTypesCorrect,
     FramesTypesCorrect, LockTypesCorrect, ProcTypesCorrect, ResultsAreTrue, BenchTypesCorrect,
     PTL DEF PartsSpec

(* Beside the others, every part keeps what it promises: the claims of the *)
(* request handler's parts, the taps, the benchmark and its processes hold *)
(* together in every state.  Only the catalogues are assumed to serve, as  *)
(* in the theorem about narrowing.                                         *)
THEOREM PartsAreCorrect ==
  ASSUME CataloguesServe
  PROVE  PartsSpec => [](/\ HintsStable /\ CachedIsGiven /\ PaidAnswersKept /\ SentIsUsable
                         /\ NoLocalLoop /\ SteeredRequest /\ SkillStaysWithTask
                         /\ OnlyAskedIsAnswered /\ StateShowsCalls /\ TapsReportWhatArrived
                         /\ SlotsKept /\ NoInventedSavings /\ ResultIsTrue)
               /\ ReturnIsLast
BY PartsAreTheirParts, HintsAreStable, CachesHoldGivenAnswers, PaidAnswersAreKept,
   NarrowedStaysUsable, LocalStepsEnd, RequestsAreSteered, SkillsStay, TranscriptsAreAskedFor,
   CallsAreShown, TapsAreTrue, SlotsAreKept, SavingsAreBilled, ResultsAreTrue, ReturnsLast,
   PTL
=============================================================================
