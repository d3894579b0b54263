--------------------------- MODULE EventLog_proofs ---------------------------
(***************************************************************************)
(* What Add and Update do to a log of events of any kind: the numbers stay *)
(* the newest ones, in order and without a gap, for every size of the log. *)
(***************************************************************************)
EXTENDS EventLog, TLAPS

LogStarted == seq > 0 => items # << >>

LogInv(E) ==
  /\ seq \in Nat
  /\ items \in Seq(E)
  /\ LogContiguous
  /\ LogStarted

(* Add appends the event with the next number, and of the others drops at  *)
(* most the oldest.                                                        *)
LEMMA AddKeepsLog ==
  ASSUME NEW E, NEW e, LogInv(E), Add(e),
         [e EXCEPT !.seq = seq + 1] \in E, [e EXCEPT !.seq = seq + 1].seq = seq + 1
  PROVE  /\ LogInv(E)' /\ seq' = seq + 1
         /\ DOMAIN items' = 1 .. Len(items') /\ Len(items') \in Nat \ {0}
         /\ items'[Len(items')] = [e EXCEPT !.seq = seq + 1]
         /\ \A i \in 1 .. Len(items') :
              i # Len(items') => \E j \in DOMAIN items : items'[i] = items[j]
<1> DEFINE new == [e EXCEPT !.seq = seq + 1]
<1>1. /\ seq \in Nat /\ items \in Seq(E) /\ Len(items) \in Nat
      /\ Len(items) <= Limit /\ Len(items) <= seq /\ DOMAIN items = 1 .. Len(items)
      /\ \A i \in 1 .. Len(items) : items[i].seq = seq - Len(items) + i
  BY DEF LogInv, LogContiguous
<1>2. new \in E /\ new.seq = seq + 1 /\ seq' = seq + 1 /\ items' = Append(Kept, new)
  BY DEF Add
<1> HIDE DEF new
<1>3. /\ Kept \in Seq(E) /\ Len(Kept) \in Nat
      /\ Len(Kept) + 1 <= Limit /\ Len(Kept) <= seq
      /\ \A i \in 1 .. Len(Kept) : /\ Kept[i].seq = seq - Len(Kept) + i
                                   /\ \E j \in DOMAIN items : Kept[i] = items[j]
  <2>1. CASE Len(items) >= Limit
    <3>1. items # << >> /\ Kept = Tail(items)
      BY <1>1, <2>1, LimitAssumption DEF Kept
    <3>2. Kept \in Seq(E) /\ Len(Kept) = Len(items) - 1 /\ Len(Kept) \in Nat
      BY <1>1, <3>1
    <3>3. \A i \in 1 .. Len(Kept) : Kept[i] = items[i + 1] /\ i + 1 \in 1 .. Len(items)
      BY <1>1, <3>1, <3>2
    <3>4. \A i \in 1 .. Len(Kept) : Kept[i].seq = seq - Len(items) + (i + 1)
      BY <1>1, <3>2, <3>3
    <3>5. \A i \in 1 .. Len(Kept) : Kept[i].seq = seq - Len(Kept) + i
      BY <1>1, <3>2, <3>4
    <3>6. \A i \in 1 .. Len(Kept) : \E j \in DOMAIN items : Kept[i] = items[j]
      BY <1>1, <3>3
    <3>7. QED
      BY <1>1, <3>2, <3>5, <3>6, LimitAssumption
  <2>2. CASE ~(Len(items) >= Limit)
    <3>1. Kept = items
      BY <2>2 DEF Kept
    <3>2. QED
      BY <1>1, <2>2, <3>1, LimitAssumption
  <2>3. QED
    BY <2>1, <2>2
<1>4. /\ items' \in Seq(E) /\ Len(items') = Len(Kept) + 1
      /\ DOMAIN items' = 1 .. Len(items') /\ items'[Len(items')] = new
      /\ \A i \in 1 .. Len(Kept) : items'[i] = Kept[i]
  BY <1>2, <1>3
<1>5. ASSUME NEW i \in 1 .. Len(items') PROVE items'[i].seq = seq' - Len(items') + i
  <2>1. CASE i \in 1 .. Len(Kept)
    BY <1>1, <1>2, <1>3, <1>4, <2>1
  <2>2. CASE i = Len(Kept) + 1
    BY <1>1, <1>2, <1>3, <1>4, <2>2
  <2>3. QED
    BY <1>3, <1>4, <2>1, <2>2
<1>6. LogContiguous'
  BY <1>1, <1>2, <1>3, <1>4, <1>5 DEF LogContiguous
<1>7. LogStarted' /\ seq' \in Nat
  BY <1>1, <1>2, <1>3, <1>4 DEF LogStarted
<1>8. LogInv(E)'
  BY <1>4, <1>6, <1>7 DEF LogInv
<1>9. \A i \in 1 .. Len(items') :
        i # Len(items') => \E j \in DOMAIN items : items'[i] = items[j]
  BY <1>3, <1>4
<1>10. QED
  BY <1>2, <1>3, <1>4, <1>8, <1>9 DEF new

(* Update changes the events with one number, and no number.               *)
LEMMA UpdateKeepsLog ==
  ASSUME NEW E, LogInv(E), NEW n, NEW changed, Update(n, changed),
         \A i \in DOMAIN items : changed[i] \in E /\ changed[i].seq = items[i].seq
  PROVE  /\ LogInv(E)' /\ seq' = seq
         /\ DOMAIN items' = DOMAIN items /\ Len(items') = Len(items)
         /\ \A i \in DOMAIN items :
              items'[i] = IF items[i].seq = n THEN changed[i] ELSE items[i]
<1>1. /\ seq \in Nat /\ items \in Seq(E) /\ Len(items) \in Nat
      /\ DOMAIN items = 1 .. Len(items) /\ \A i \in 1 .. Len(items) : items[i] \in E
  BY DEF LogInv
<1>2. /\ seq' = seq
      /\ items' = [i \in 1 .. Len(items) |-> IF items[i].seq = n THEN changed[i] ELSE items[i]]
  BY <1>1 DEF Update
<1>3. \A i \in 1 .. Len(items) : items'[i] \in E /\ items'[i].seq = items[i].seq
  BY <1>1, <1>2
<1>4. items' \in Seq(E) /\ Len(items') = Len(items) /\ DOMAIN items' = 1 .. Len(items)
  BY <1>1, <1>2, <1>3
<1>5. LogContiguous'
  BY <1>1, <1>2, <1>3, <1>4 DEF LogInv, LogContiguous
<1>6. LogStarted'
  BY <1>1, <1>2, <1>4 DEF LogInv, LogStarted
<1>7. QED
  BY <1>1, <1>2, <1>4, <1>5, <1>6 DEF LogInv

=============================================================================
