-------------------------- MODULE Rewriting_proofs ---------------------------
(***************************************************************************)
(* Proofs about what is written into a request: the tools that are left    *)
(* of a catalogue (Selection), the history and the forced tool of Codex    *)
(* (CodexSteer), the slots of a Devin frame (ConnectFrames) and the state  *)
(* under a budget (StateFit).  They share lemmas about least elements and  *)
(* about parts of sequences.                                               *)
(***************************************************************************)
EXTENDS Selection, CodexSteer, ConnectFrames, StateFit, TLAPS, FiniteSetTheorems,
        SequenceTheorems, WellFoundedInduction

-----------------------------------------------------------------------------
(* Least elements, prefixes and suffixes.                                  *)

(* A set of natural numbers has a least element.                           *)
LEMMA LeastExists ==
  ASSUME NEW S \in SUBSET Nat, S # {}
  PROVE  \E n \in S : \A m \in S : n <= m
<1> DEFINE Below == OpToRel(<, Nat)
<1>1. IsWellFoundedOn(Below, Nat)
  BY NatLessThanWellFounded
<1>2. \A x, y \in Nat : <<x, y>> \in Below <=> x < y
  BY DEF OpToRel
<1> HIDE DEF Below
<1>3. PICK x \in S : \A y \in S : <<y, x>> \notin Below
  BY <1>1, WFMin
<1>4. ASSUME NEW y \in S PROVE x <= y
  <2>1. x \in Nat /\ y \in Nat /\ ~ (y < x)
    BY <1>2, <1>3
  <2>2. QED
    BY <2>1
<1>5. QED
  BY <1>4

(* A set of natural numbers with a bound has a greatest element.           *)
LEMMA GreatestExists ==
  ASSUME NEW b \in Nat, NEW S \in SUBSET (0 .. b), S # {}
  PROVE  \E n \in S : \A m \in S : m <= n
<1> DEFINE T == {k \in Nat : b - k \in S}
<1>1. PICK n \in S : TRUE
  OBVIOUS
<1>2. b - n \in Nat /\ b - (b - n) = n
  OBVIOUS
<1>3. T \in SUBSET Nat /\ T # {}
  BY <1>2
<1>4. PICK k \in T : \A m \in T : k <= m
  BY <1>3, LeastExists
<1>5. ASSUME NEW m \in S PROVE m <= b - k
  <2>1. m \in 0 .. b /\ b - m \in Nat /\ b - (b - m) = m
    OBVIOUS
  <2>2. k <= b - m
    BY <1>4, <2>1
  <2>3. QED
    BY <1>4, <2>1, <2>2
<1>6. QED
  BY <1>4, <1>5

-----------------------------------------------------------------------------
(* Prefixes and suffixes                                                   *)

LEMMA PrefixIs ==
  ASSUME NEW S, NEW s \in Seq(S), NEW t \in Seq(S)
  PROVE  IsPrefix(s, t) <=> Len(s) <= Len(t) /\ \A i \in 1 .. Len(s) : s[i] = t[i]
<1>1. SubSeq(s, 1, Len(s)) = s
  BY SubSeqFull
<1>2. ASSUME Len(s) <= Len(t)
      PROVE  /\ SubSeq(t, 1, Len(s)) \in Seq(S) /\ Len(SubSeq(t, 1, Len(s))) = Len(s)
             /\ \A i \in 1 .. Len(s) : SubSeq(t, 1, Len(s))[i] = t[i]
  <2>1. \A i \in 1 .. Len(s) : t[i] \in S
    BY <1>2
  <2>2. QED
    BY <2>1, <1>2, SubSeqProperties
<1>3. ASSUME Len(s) <= Len(t), \A i \in 1 .. Len(s) : s[i] = t[i]
      PROVE  s = SubSeq(t, 1, Len(s))
  BY <1>2, <1>3, SeqEqual
<1>4. QED
  BY <1>1, <1>2, <1>3 DEF IsPrefix

LEMMA PrefixSelf ==
  ASSUME NEW s, Len(s) \in Nat
  PROVE  IsPrefix(s, s)
BY DEF IsPrefix

(* The newest elements of a sequence are a suffix of it.                   *)
LEMMA NewestIsSuffix ==
  ASSUME NEW S, NEW s \in Seq(S), NEW n \in 1 .. Len(s)
  PROVE  /\ SubSeq(s, Len(s) - n + 1, Len(s)) # <<>>
         /\ IsSuffix(SubSeq(s, Len(s) - n + 1, Len(s)), s)
<1> DEFINE t == SubSeq(s, Len(s) - n + 1, Len(s))
<1>1. Len(s) \in Nat /\ n \in Nat /\ \A i \in Len(s) - n + 1 .. Len(s) : s[i] \in S
  OBVIOUS
<1>2. /\ t \in Seq(S) /\ Len(t) = n
      /\ \A i \in 1 .. n : t[i] = s[Len(s) - n + i]
  <2>1. /\ t \in Seq(S)
        /\ Len(t) = IF Len(s) - n + 1 <= Len(s) THEN Len(s) - (Len(s) - n + 1) + 1 ELSE 0
        /\ \A i \in 1 .. Len(s) - (Len(s) - n + 1) + 1 : t[i] = s[Len(s) - n + 1 + i - 1]
    BY <1>1, SubSeqProperties
  <2> HIDE DEF t
  <2>2. QED
    BY <1>1, <2>1
<1> HIDE DEF t
<1>3. /\ Reverse(t) \in Seq(S) /\ Len(Reverse(t)) = n
      /\ \A i \in 1 .. n : Reverse(t)[i] = t[n - i + 1]
  BY <1>1, <1>2 DEF Reverse
<1>4. /\ Reverse(s) \in Seq(S) /\ Len(Reverse(s)) = Len(s)
      /\ \A i \in 1 .. Len(s) : Reverse(s)[i] = s[Len(s) - i + 1]
  BY <1>1 DEF Reverse
<1>5. ASSUME NEW i \in 1 .. n PROVE Reverse(t)[i] = Reverse(s)[i]
  <2>1. n - i + 1 \in 1 .. n /\ Len(s) - n + (n - i + 1) = Len(s) - i + 1 /\ i \in 1 .. Len(s)
    BY <1>1
  <2>2. t[n - i + 1] = s[Len(s) - i + 1]
    BY <1>2, <2>1
  <2>3. QED
    BY <1>3, <1>4, <2>1, <2>2
<1>6. IsPrefix(Reverse(t), Reverse(s))
  BY <1>1, <1>3, <1>4, <1>5, PrefixIs
<1>7. t # <<>>
  BY <1>1, <1>2
<1>8. QED
  BY <1>6, <1>7 DEF IsSuffix, t

-----------------------------------------------------------------------------
(* Parts of a sequence.                                                    *)

(* Positions are numbered from 1 without a gap, in their order.            *)
LEMMA Ranked ==
  ASSUME NEW n \in Nat, NEW I \in SUBSET (1 .. n)
  PROVE  /\ Cardinality(I) \in 0 .. n
         /\ \A i \in I : Rank(I, i) \in 1 .. Cardinality(I) /\ Nth(I, Rank(I, i)) = i
         /\ \A k \in 1 .. Cardinality(I) : Nth(I, k) \in I /\ Rank(I, Nth(I, k)) = k
         /\ \A i, j \in I : i < j <=> Rank(I, i) < Rank(I, j)
<1> DEFINE c == Cardinality(I)
           upto(i) == {j \in I : j <= i}
           rank == [i \in I |-> Rank(I, i)]
<1>1. IsFiniteSet(I) /\ c \in Nat /\ c <= n
  <2>1. IsFiniteSet(1 .. n) /\ Cardinality(1 .. n) = n
    BY FS_Interval
  <2>2. QED
    BY <2>1, FS_Subset, FS_CardinalityType
<1>2. ASSUME NEW i \in I PROVE IsFiniteSet(upto(i)) /\ Rank(I, i) \in Nat /\ Rank(I, i) <= c
  BY <1>1, FS_Subset, FS_CardinalityType DEF Rank
<1>3. ASSUME NEW i \in I PROVE Rank(I, i) >= 1
  <2>1. {i} \subseteq upto(i) /\ Cardinality({i}) = 1
    BY FS_Singleton
  <2>2. Cardinality({i}) <= Cardinality(upto(i))
    BY <1>2, <2>1, FS_Subset
  <2>3. QED
    BY <1>2, <2>1, <2>2 DEF Rank
<1>r. \A i \in I : Rank(I, i) \in 1 .. c
  <2> TAKE i \in I
  <2>1. Rank(I, i) \in Nat /\ Rank(I, i) <= c /\ Rank(I, i) >= 1
    BY <1>2, <1>3
  <2> HIDE DEF c
  <2>2. QED
    BY <1>1, <2>1
<1>4. ASSUME NEW i \in I, NEW j \in I, i < j PROVE Rank(I, i) < Rank(I, j)
  <2>1. upto(i) \subseteq upto(j) /\ j \in upto(j) /\ j \notin upto(i)
    <3>1. i \in Int /\ j \in Int /\ I \subseteq Int
      OBVIOUS
    <3>2. \A k \in I : k <= i => k <= j
      BY <1>4, <3>1
    <3>3. j <= j /\ ~(j <= i)
      BY <1>4, <3>1
    <3>4. QED
      BY <3>2, <3>3
  <2>2. /\ Cardinality(upto(i)) <= Cardinality(upto(j))
        /\ Cardinality(upto(j)) = Cardinality(upto(i)) => upto(j) = upto(i)
    BY <1>2, <2>1, FS_Subset
  <2>3. Cardinality(upto(i)) \in Nat /\ Cardinality(upto(j)) \in Nat
    BY <1>2 DEF Rank
  <2> HIDE DEF upto
  <2>4. Cardinality(upto(i)) < Cardinality(upto(j))
    BY <2>1, <2>2, <2>3
  <2>5. QED
    BY <2>4 DEF upto, Rank
<1>5. \A i, j \in I : i < j <=> Rank(I, i) < Rank(I, j)
  <2> TAKE i, j \in I
  <2>1. i = j \/ i < j \/ j < i
    OBVIOUS
  <2>2. Rank(I, i) \in Nat /\ Rank(I, j) \in Nat
    BY <1>2
  <2>3. QED
    BY <1>4, <2>1, <2>2
<1>6. rank \in Injection(I, 1 .. c)
  <2>1. \A i \in I : rank[i] \in 1 .. c
    BY <1>r
  <2>2. \A i, j \in I : rank[i] = rank[j] => i = j
    BY <1>2, <1>5
  <2>3. QED
    BY <2>1, <2>2 DEF Injection, IsInjective
<1>7. IsFiniteSet(1 .. c) /\ Cardinality(1 .. c) = c
  BY <1>1, FS_Interval
<1>8. rank \in Surjection(I, 1 .. c)
  BY <1>6, <1>7, FS_Injection
<1>9. \A k \in 1 .. c : \E i \in I : Rank(I, i) = k
  BY <1>8 DEF Surjection
<1>10. \A k \in 1 .. c : Nth(I, k) \in I /\ Rank(I, Nth(I, k)) = k
  BY <1>9 DEF Nth
<1>11. \A i \in I : Rank(I, i) \in 1 .. c /\ Nth(I, Rank(I, i)) = i
  <2> TAKE i \in I
  <2>1. Rank(I, i) \in 1 .. c
    BY <1>r
  <2>2. Nth(I, Rank(I, i)) \in I /\ Rank(I, Nth(I, Rank(I, i))) = Rank(I, i)
    BY <1>10, <2>1
  <2>3. Nth(I, Rank(I, i)) = i
    <3> DEFINE m == Nth(I, Rank(I, i))
    <3>1. m \in I /\ Rank(I, m) = Rank(I, i) /\ Rank(I, i) \in Nat
      BY <1>2, <2>2
    <3> HIDE DEF m
    <3>2. ~(m < i) /\ ~(i < m)
      BY <1>5, <3>1
    <3>3. m = i
      BY <3>1, <3>2
    <3>4. QED
      BY <3>3 DEF m
  <2>4. QED
    BY <2>1, <2>3
<1>12. QED
  BY <1>1, <1>5, <1>10, <1>11

(* What is picked is what is at the positions, in their order.             *)
LEMMA PickedIs ==
  ASSUME NEW T, NEW s \in Seq(T), NEW I \in SUBSET (DOMAIN s)
  PROVE  /\ Picked(s, I) \in Seq(T)
         /\ Len(Picked(s, I)) = Cardinality(I) /\ Cardinality(I) \in 0 .. Len(s)
         /\ \A k \in 1 .. Cardinality(I) : Nth(I, k) \in I /\ Picked(s, I)[k] = s[Nth(I, k)]
         /\ {Picked(s, I)[k] : k \in DOMAIN Picked(s, I)} = {s[i] : i \in I}
<1>1. DOMAIN s = 1 .. Len(s) /\ Len(s) \in Nat
  OBVIOUS
<1>2. /\ Cardinality(I) \in 0 .. Len(s)
      /\ \A i \in I : Rank(I, i) \in 1 .. Cardinality(I) /\ Nth(I, Rank(I, i)) = i
      /\ \A k \in 1 .. Cardinality(I) : Nth(I, k) \in I
  BY <1>1, Ranked
<1>3. Picked(s, I) \in [1 .. Cardinality(I) -> T]
  BY <1>1, <1>2 DEF Picked
<1>4. Picked(s, I) \in Seq(T) /\ Len(Picked(s, I)) = Cardinality(I)
  BY <1>2, <1>3
<1>5. \A k \in 1 .. Cardinality(I) : Picked(s, I)[k] = s[Nth(I, k)]
  BY DEF Picked
<1>6. {Picked(s, I)[k] : k \in DOMAIN Picked(s, I)} = {s[i] : i \in I}
  BY <1>2, <1>3, <1>5
<1>7. QED
  BY <1>2, <1>4, <1>5, <1>6

(* A sequence is empty exactly if nothing is picked; all of it is picked   *)
(* only as it is.                                                          *)
LEMMA PickedAll ==
  ASSUME NEW T, NEW s \in Seq(T)
  PROVE  Picked(s, DOMAIN s) = s
<1>1. DOMAIN s = 1 .. Len(s) /\ Len(s) \in Nat
  OBVIOUS
<1>2. ASSUME NEW k \in 1 .. Len(s) PROVE Rank(DOMAIN s, k) = k
  <2>1. {j \in DOMAIN s : j <= k} = 1 .. k
    BY <1>1
  <2>2. Cardinality(1 .. k) = k
    BY FS_Interval
  <2>3. QED
    BY <2>1, <2>2 DEF Rank
<1>3. Cardinality(DOMAIN s) = Len(s)
  BY <1>1, FS_Interval
<1>4. ASSUME NEW k \in 1 .. Len(s) PROVE Nth(DOMAIN s, k) = k
  BY <1>1, <1>2, <1>4, Ranked
<1>5. QED
  BY <1>1, <1>3, <1>4 DEF Picked

-----------------------------------------------------------------------------
(* The tools of a request, for any catalogues, tasks and settings.         *)

(* What is in a part of a sequence, and when nothing is.                   *)
LEMMA ThoseIs ==
  ASSUME NEW T, NEW s \in Seq(T), NEW S
  PROVE  /\ Those(s, S) \in Seq(T)
         /\ Names(Those(s, S)) = Names(s) \cap S
         /\ Those(s, S) = <<>> <=> Names(s) \cap S = {}
         /\ Those(s, S) # <<>> => Head(Those(s, S)) \in Names(s) \cap S
<1> DEFINE I == {i \in DOMAIN s : s[i] \in S}
           t == Those(s, S)
<1>1. /\ t \in Seq(T) /\ {t[k] : k \in DOMAIN t} = {s[i] : i \in I}
  <2>1. t = Picked(s, I) /\ I \in SUBSET (DOMAIN s)
    BY Zenon DEF Those
  <2> HIDE DEF t, I
  <2>2. QED
    BY <2>1, PickedIs
<1>2. {s[i] : i \in I} = Names(s) \cap S
  BY DEF Names
<1>3. Names(t) = Names(s) \cap S
  BY <1>1, <1>2 DEF Names
<1> HIDE DEF t
<1>4. t = <<>> <=> Names(t) = {}
  BY <1>1 DEF Names
<1>5. t # <<>> => Head(t) \in Names(t)
  BY <1>1 DEF Names
<1>6. QED
  BY <1>1, <1>3, <1>4, <1>5 DEF t

(* Parts that have the same elements are the same part.                    *)
LEMMA SamePart ==
  ASSUME NEW s, NEW S, NEW R, Names(s) \cap S = Names(s) \cap R
  PROVE  Those(s, S) = Those(s, R)
<1>1. {i \in DOMAIN s : s[i] \in S} = {i \in DOMAIN s : s[i] \in R}
  BY DEF Names
<1>2. QED
  BY <1>1 DEF Those

LEMMA AllOfIt ==
  ASSUME NEW T, NEW s \in Seq(T)
  PROVE  Those(s, Names(s)) = s
<1>1. {i \in DOMAIN s : s[i] \in Names(s)} = DOMAIN s
  BY DEF Names
<1>2. QED
  BY <1>1, PickedAll DEF Those

LEMMA ConcatNames ==
  ASSUME NEW T, NEW s \in Seq(T), NEW t \in Seq(T)
  PROVE  s \o t \in Seq(T) /\ Names(s \o t) = Names(s) \cup Names(t)
<1>1. /\ s \o t \in Seq(T) /\ Len(s \o t) = Len(s) + Len(t)
      /\ \A i \in 1 .. Len(s) + Len(t) :
           (s \o t)[i] = IF i <= Len(s) THEN s[i] ELSE t[i - Len(s)]
  OBVIOUS
<1>2. DOMAIN s = 1 .. Len(s) /\ DOMAIN t = 1 .. Len(t) /\ Len(s) \in Nat /\ Len(t) \in Nat
  OBVIOUS
<1> DEFINE c == s \o t
<1>3. DOMAIN c = 1 .. Len(s) + Len(t)
  BY <1>1, <1>2
<1> HIDE DEF c
<1>4. ASSUME NEW i \in DOMAIN c PROVE c[i] \in Names(s) \cup Names(t)
  <2>1. CASE i <= Len(s)
    BY <1>1, <1>2, <1>3, <2>1 DEF c, Names
  <2>2. CASE ~(i <= Len(s))
    <3>1. c[i] = t[i - Len(s)] /\ i - Len(s) \in DOMAIN t
      BY <1>1, <1>2, <1>3, <2>2 DEF c
    <3>2. QED
      BY <3>1 DEF Names
  <2>3. QED
    BY <2>1, <2>2
<1>5. ASSUME NEW i \in DOMAIN s PROVE i \in DOMAIN c /\ c[i] = s[i]
  BY <1>1, <1>2, <1>3 DEF c
<1>6. ASSUME NEW i \in DOMAIN t PROVE i + Len(s) \in DOMAIN c /\ c[i + Len(s)] = t[i]
  <2>1. i + Len(s) \in 1 .. Len(s) + Len(t) /\ ~(i + Len(s) <= Len(s)) /\ i + Len(s) - Len(s) = i
    BY <1>2
  <2>2. QED
    BY <1>1, <1>3, <2>1 DEF c
<1>7. Names(c) = Names(s) \cup Names(t)
  BY <1>4, <1>5, <1>6 DEF Names
<1>8. QED
  BY <1>1, <1>7 DEF c

-----------------------------------------------------------------------------
(* Planning                                                                *)

LEMMA AliasIs ==
  ASSUME NEW offered, NEW want \in Tool
  PROVE  /\ AliasIn(offered, want) \in offered \cup {None}
         /\ want \in offered => AliasIn(offered, want) = want
         /\ AliasIn(offered, want) \in {want, None} \cup Names(Aliases[want])
<1>1. Aliases[want] \in Seq(Tool)
  BY PlanningAssumption
<1> DEFINE known == Those(Aliases[want], offered)
<1>2. known # <<>> => Head(known) \in offered /\ Head(known) \in Names(Aliases[want])
  BY <1>1, ThoseIs
<1> HIDE DEF known
<1>3. AliasIn(offered, want) =
        IF want \in offered THEN want ELSE IF known # <<>> THEN Head(known) ELSE None
  BY Zenon DEF AliasIn, known
<1>4. QED
  BY <1>2, <1>3

LEMMA LocateToolIs ==
  ASSUME NEW tools \in Seq(Tool)
  PROVE  PreferLocateTool(tools) \in Names(tools) \cup {None}
<1> DEFINE of(kind) == OfKind(tools, kind)
           ranked == of("grep") \o of("read") \o of("exec")
<1>1. ASSUME NEW kind PROVE of(kind) \in Seq(Tool) /\ Names(of(kind)) \subseteq Names(tools)
  BY ThoseIs DEF OfKind
<1> HIDE DEF of
<1> DEFINE two == of("grep") \o of("read")
<1>2. two \in Seq(Tool) /\ Names(two) \subseteq Names(tools)
  BY <1>1, ConcatNames
<1> HIDE DEF two
<1>3. ranked \in Seq(Tool) /\ Names(ranked) \subseteq Names(tools)
  <2>1. ranked = two \o of("exec")
    BY DEF two
  <2>2. of("exec") \in Seq(Tool) /\ Names(of("exec")) \subseteq Names(tools)
    BY <1>1
  <2> HIDE DEF ranked
  <2>3. QED
    BY <1>2, <2>1, <2>2, ConcatNames
<1>4. PreferLocateTool(tools) = IF ranked # <<>> THEN Head(ranked) ELSE None
  BY Zenon DEF PreferLocateTool, of
<1> HIDE DEF ranked
<1>5. ranked # <<>> => Head(ranked) \in Names(ranked)
  BY <1>3 DEF Names
<1>6. QED
  BY <1>3, <1>4, <1>5

(* The goals that remain are those of the task under the host's names, and *)
(* none of their tools was called.                                         *)
LEMMA RemainingIs ==
  ASSUME NEW task \in Tasks, NEW actions, NEW host \in Host
  PROVE  /\ Remaining(task, actions, host) \in Seq(Seq(Tool))
         /\ \A g \in Names(Remaining(task, actions, host)) :
              /\ \A k \in DOMAIN actions : actions[k].tool \notin Names(g)
              /\ \E i \in DOMAIN Goals(task) :
                   \A n \in Names(g) : \E w \in Names(Goals(task)[i]) : n = Native[host][w]
<1> DEFINE goals == Goals(task)
           native == [i \in DOMAIN goals |-> [j \in DOMAIN goals[i] |-> Native[host][goals[i][j]]]]
           called == {actions[i].tool : i \in DOMAIN actions}
           open == {g \in Names(native) : Names(g) \cap called = {}}
<1>1. goals \in Seq(Seq(DOMAIN Native[host]))
  BY SelectionAssumption
<1>2. Native[host] \in [DOMAIN Native[host] -> Tool]
  BY PlanningAssumption
<1>3. Remaining(task, actions, host) = Those(native, open)
  BY Zenon DEF Remaining
<1> HIDE DEF goals
<1>4. ASSUME NEW i \in DOMAIN goals
      PROVE  /\ native[i] \in Seq(Tool)
             /\ \A n \in Names(native[i]) : \E w \in Names(goals[i]) : n = Native[host][w]
  <2>1. goals[i] \in Seq(DOMAIN Native[host])
    BY <1>1
  <2>2. \A j \in DOMAIN goals[i] : Native[host][goals[i][j]] \in Tool
    BY <1>2, <2>1
  <2> DEFINE f == [j \in DOMAIN goals[i] |-> Native[host][goals[i][j]]]
  <2>3. f \in Seq(Tool)
    BY <2>1, <2>2
  <2>4. \A n \in Names(f) : \E w \in Names(goals[i]) : n = Native[host][w]
    BY DEF Names
  <2>5. native[i] = f
    OBVIOUS
  <2> HIDE DEF native, f
  <2>6. QED
    BY <2>3, <2>4, <2>5
<1>5. DOMAIN goals = 1 .. Len(goals) /\ Len(goals) \in Nat
  BY <1>1
<1>6. native \in Seq(Seq(Tool)) /\ DOMAIN native = DOMAIN goals
  <2>1. native \in [1 .. Len(goals) -> Seq(Tool)]
    BY <1>4, <1>5
  <2> HIDE DEF native
  <2>2. QED
    BY <1>5, <2>1
<1>7. \A g \in Names(native) :
        \E i \in DOMAIN goals : \A n \in Names(g) : \E w \in Names(goals[i]) : n = Native[host][w]
  <2> HIDE DEF native
  <2> TAKE g \in Names(native)
  <2>1. PICK i \in DOMAIN goals : g = native[i]
    BY <1>6 DEF Names
  <2>2. QED
    BY <1>4, <2>1
<1>8. \A g \in open : g \in Names(native) /\ \A k \in DOMAIN actions : actions[k].tool \notin Names(g)
  <2> HIDE DEF native
  <2>1. QED
    OBVIOUS
<1> HIDE DEF native, open
<1>9. Those(native, open) \in Seq(Seq(Tool)) /\ Names(Those(native, open)) \subseteq open
  BY <1>6, ThoseIs
<1>10. QED
  BY <1>3, <1>7, <1>8, <1>9 DEF goals

LEMMA LeastIs ==
  ASSUME NEW S \in SUBSET Nat, S # {}
  PROVE  Min(S) \in S
BY LeastExists DEF Min

(* The tool for a goal is one that serves a remaining goal, unless that is *)
(* an agent and the task is one of searching and reading.                  *)
LEMMA GoalToolIs ==
  ASSUME NEW task, NEW tools \in Seq(Tool), NEW goals \in Seq(Seq(Tool)),
         NEW t, t = GoalTool(task, tools, goals)
  PROVE  /\ t \in Names(tools) \cup {None}
         /\ t # None =>
              \E g \in Names(goals) : \E n \in Names(g) :
                /\ n \in Tool /\ AliasIn(Names(tools), n) # None
                /\ t = AliasIn(Names(tools), n) \/ (task.locate /\ IsAgent(AliasIn(Names(tools), n)))
<1> DEFINE served(i) == {j \in DOMAIN goals[i] : AliasIn(Names(tools), goals[i][j]) # None}
           open == {i \in DOMAIN goals : served(i) # {}}
           tool == AliasIn(Names(tools), goals[Min(open)][Min(served(Min(open)))])
           instead == PreferLocateTool(tools)
<1>1. t = IF open = {} THEN None
          ELSE IF task.locate /\ IsAgent(tool) /\ instead # None THEN instead ELSE tool
  BY Zenon DEF GoalTool
<1>2. DOMAIN goals \subseteq Nat /\ \A i \in DOMAIN goals : goals[i] \in Seq(Tool) /\ DOMAIN goals[i] \subseteq Nat
  OBVIOUS
<1>3. ASSUME open # {}
      PROVE  \E g \in Names(goals) : \E n \in Names(g) :
               n \in Tool /\ tool = AliasIn(Names(tools), n) /\ tool # None /\ tool \in Names(tools)
  <2>1. Min(open) \in open
    BY <1>2, <1>3, LeastIs
  <2> DEFINE i == Min(open)
  <2>2. i \in DOMAIN goals /\ served(i) # {}
    BY <2>1
  <2> HIDE DEF i
  <2>3. Min(served(i)) \in served(i)
    BY <1>2, <2>2, LeastIs
  <2> DEFINE n == goals[i][Min(served(i))]
  <2> HIDE DEF served
  <2> DEFINE m == Min(served(i))
  <2> HIDE DEF m
  <2>a. m \in DOMAIN goals[i] /\ AliasIn(Names(tools), goals[i][m]) # None
    BY <2>3 DEF served, m
  <2>b. goals[i][m] \in Tool /\ goals[i][m] \in Names(goals[i]) /\ goals[i] \in Names(goals)
    BY <1>2, <2>2, <2>a DEF Names
  <2>4. n \in Tool /\ AliasIn(Names(tools), n) # None /\ n \in Names(goals[i]) /\ goals[i] \in Names(goals)
    BY <2>a, <2>b DEF m
  <2>5. tool = AliasIn(Names(tools), n)
    BY Zenon DEF i, served
  <2> HIDE DEF n, tool
  <2>6. tool \in Names(tools)
    BY <2>4, <2>5, AliasIs
  <2>7. QED
    BY <2>4, <2>5, <2>6
<1>4. instead \in Names(tools) \cup {None}
  BY LocateToolIs
<1> HIDE DEF open, tool, instead
<1>5. CASE open = {}
  BY <1>1, <1>5
<1>6. CASE open # {}
  <2>1. PICK g \in Names(goals) : \E n \in Names(g) :
               n \in Tool /\ tool = AliasIn(Names(tools), n) /\ tool # None /\ tool \in Names(tools)
    BY <1>3, <1>6
  <2>2. PICK n \in Names(g) :
               n \in Tool /\ tool = AliasIn(Names(tools), n) /\ tool # None /\ tool \in Names(tools)
    BY <2>1
  <2>3. t = tool \/ (t = instead /\ task.locate /\ IsAgent(tool))
    BY <1>1, <1>6
  <2>4. QED
    BY <1>4, <2>2, <2>3
<1>7. QED
  BY <1>5, <1>6

(* Of the tools that may be suggested t stands in for an open goal.        *)
Stands(t, task, actions, host, may) ==
  \E g \in Names(Remaining(task, actions, host)) : \E n \in Names(g) : n # t /\ AliasIn(may, n) = t

(* The local decision leaves the catalogue alone, or is not about a step   *)
(* that was taken, unless by a tool that stands in for its goal.           *)
Fresh(d, task, actions, host, may) ==
  \/ d.pass
  \/ /\ ~PendingAgent(actions) /\ ~AgentStreak(actions)
     /\ task.locate =>
          \A k \in DOMAIN actions : actions[k].tool = d.tool => Stands(d.tool, task, actions, host, may)

(* A local decision is for one of the offered tools that may be suggested, *)
(* when there is one; for no agent while one runs or after two of them;    *)
(* and for a task of searching and reading it is for a tool that was not   *)
(* called before or that stands in for another name.                       *)
LEMMA DecideIs ==
  ASSUME NEW task \in Tasks, NEW actions, NEW specs \in Seq(Tool), NEW host \in Host,
         NEW may, may = {t \in Names(specs) : ~HostMeta(t)}, may # {},
         NEW best \in {None} \cup may,
         NEW d, d = DecideSpecs(task, actions, specs, host, best)
  PROVE  /\ d.set = {}
         /\ d.pass \/ d.tool \in may
         /\ Fresh(d, task, actions, host, may)
<1> DEFINE offered == Those(specs, may)
           tools == IF offered = <<>> THEN Defaults[host] ELSE offered
           shell == AliasIn(Names(tools), "Bash")
           goals == Remaining(task, actions, host)
           goal == GoalTool(task, tools, goals)
           instead == PreferLocateTool(tools)
<1>1. offered \in Seq(Tool) /\ Names(offered) = may /\ offered # <<>>
  <2>1. Names(specs) \cap may = may
    OBVIOUS
  <2>2. QED
    BY <2>1, ThoseIs
<1>2. tools \in Seq(Tool) /\ Names(tools) = may
  BY <1>1
<1>3. d = CASE PendingAgent(actions) -> Leave("selected", "pending_agent")
    [] ~PendingAgent(actions) /\ AgentStreak(actions) -> Leave("selected", "agent_streak")
    [] OTHER ->
       IF task.shell /\ shell # None THEN Decision(shell, FALSE, "selected", "catalog_score")
       ELSE IF goal # None
       THEN Decision(goal, FALSE, IF task.locate THEN "selected" ELSE "defer",
                     IF task.locate THEN "sequential_locate" ELSE "word_match")
       ELSE IF task.locate
       THEN IF instead # None /\ ~ActionUsed(actions, instead)
            THEN Decision(instead, FALSE, "selected", "sequential_locate")
            ELSE Leave("defer", "unknown")
       ELSE IF best # None THEN Decision(best, FALSE, "defer", "catalog_score")
       ELSE Leave("defer", "unknown")
  BY Zenon DEF DecideSpecs
<1> HIDE DEF tools
<1>4. /\ goals \in Seq(Seq(Tool))
      /\ \A g \in Names(goals) :
           /\ \A k \in DOMAIN actions : actions[k].tool \notin Names(g)
           /\ \E i \in DOMAIN Goals(task) :
                \A n \in Names(g) : \E w \in Names(Goals(task)[i]) : n = Native[host][w]
  BY RemainingIs
<1> HIDE DEF goals
<1>5. shell \in may \cup {None} /\ goal \in may \cup {None} /\ instead \in may \cup {None}
  <2>1. "Bash" \in Tool
    BY PlanningAssumption
  <2>2. QED
    BY <1>2, <1>4, <2>1, AliasIs, GoalToolIs, LocateToolIs
<1>6. /\ task.locate => ~task.shell
      /\ None \notin Tool /\ may \subseteq Tool
  <2>1. task \in Task
    BY SelectionAssumption
  <2>2. QED
    BY <2>1, PlanningAssumption DEF Task, Names
<1>7. ASSUME task.locate, goal # None, NEW k \in DOMAIN actions, actions[k].tool = goal
      PROVE  Stands(goal, task, actions, host, may)
  <2>1. PICK g \in Names(goals) : \E n \in Names(g) :
                /\ n \in Tool /\ AliasIn(may, n) # None
                /\ (goal = AliasIn(may, n)) \/ (task.locate /\ IsAgent(AliasIn(may, n)))
    <3> HIDE DEF goal
    <3>1. goal = GoalTool(task, tools, goals)
      BY DEF goal
    <3>2. \E g \in Names(goals) : \E n \in Names(g) :
             /\ n \in Tool /\ AliasIn(Names(tools), n) # None
             /\ (goal = AliasIn(Names(tools), n)) \/ (task.locate /\ IsAgent(AliasIn(Names(tools), n)))
      BY ONLY <1>2, <1>4, <1>7, <3>1, GoalToolIs
    <3>3. QED
      BY <1>2, <3>2
  <2>2. PICK n \in Names(g) :
                /\ n \in Tool /\ AliasIn(may, n) # None
                /\ (goal = AliasIn(may, n)) \/ (task.locate /\ IsAgent(AliasIn(may, n)))
    BY <2>1
  <2>3. PICK i \in DOMAIN Goals(task) : \E w \in Names(Goals(task)[i]) : n = Native[host][w]
    BY <1>4
  <2>4. ~ IsAgent(AliasIn(may, n))
    <3>1. NoAgents(host, Goals(task)[i])
      BY <1>7, <2>3, SelectionAssumption
    <3>2. AliasIn(may, n) \in {n} \cup Names(Aliases[n])
      BY <2>2, AliasIs
    <3>3. QED
      BY <2>3, <3>1, <3>2 DEF NoAgents
  <2>5. goal = AliasIn(may, n) /\ n # goal
    BY <1>4, <1>7, <2>2, <2>4
  <2>6. QED
    BY <2>5 DEF Stands, goals
<1>8. ASSUME instead # None, ~ActionUsed(actions, instead), NEW k \in DOMAIN actions
      PROVE  actions[k].tool # instead
  <2> DEFINE called == {actions[i].tool : i \in DOMAIN actions}
  <2>1. AliasIn(called, instead) = None
    BY <1>8, Zenon DEF ActionUsed
  <2>2. instead \in Tool
    BY <1>5, <1>6, <1>8
  <2>3. instead \notin called
    BY <1>8, <2>1, <2>2, AliasIs
  <2>4. QED
    BY <2>3
<1> HIDE DEF shell, goal, instead
<1>9. \/ d.pass /\ d.set = {}
      \/ /\ d.set = {} /\ ~PendingAgent(actions) /\ ~AgentStreak(actions)
         /\ \/ d.tool = shell /\ shell # None /\ task.shell
            \/ d.tool = goal /\ goal # None
            \/ d.tool = instead /\ instead # None /\ ~ActionUsed(actions, instead)
            \/ d.tool = best /\ best # None /\ ~task.locate
  BY <1>3 DEF Leave, Decision
<1>10. Fresh(d, task, actions, host, may)
  BY <1>6, <1>7, <1>8, <1>9 DEF Fresh
<1>11. QED
  BY <1>5, <1>9, <1>10

-----------------------------------------------------------------------------
(* What goes out                                                           *)

(* SentIsUsable of a catalogue that came and what was sent for it.         *)
Usable(catalog, refs, shadow, s) ==
  /\ s.tools = Those(catalog, Names(s.tools))
  /\ Names(catalog) \cap (Sticky \cup refs) \subseteq Names(s.tools)
  /\ s.apply \in {"none", "advise"} => (s.tools = catalog /\ s.choice = "host")
  /\ s.apply \in {"filter", "forced", "direct"} => Names(s.tools) \ Sticky # {}
  /\ s.choice \in Tool => (s.choice \in Names(s.tools) /\ s.by = "jev")
  /\ shadow => s.apply = "none"

LEMMA FilterableIs ==
  ASSUME NEW catalog \in Seq(Tool)
  PROVE  /\ Filterable(catalog) \in Seq(Tool)
         /\ Names(Filterable(catalog)) = Names(catalog) \ Sticky
         /\ CandidatesOf(catalog) \subseteq Names(catalog) \ Sticky
         /\ Names(catalog) \subseteq Tool
<1>1. /\ Filterable(catalog) \in Seq(Tool)
      /\ Names(Filterable(catalog)) = Names(catalog) \cap (Names(catalog) \ Sticky)
  BY ThoseIs DEF Filterable
<1>2. Names(catalog) \subseteq Tool
  BY DEF Names
<1>3. QED
  BY <1>1, <1>2 DEF CandidatesOf

(* A catalogue that goes out as it came is usable, advised on or not.      *)
LEMMA UntouchedIsUsable ==
  ASSUME NEW catalog \in Seq(Tool), NEW refs, NEW shadow \in BOOLEAN,
         NEW s, s.tools = catalog, s.choice = "host", s.apply \in {"none", "advise"},
         shadow => s.apply = "none"
  PROVE  Usable(catalog, refs, shadow, s)
<1>1. Those(catalog, Names(catalog)) = catalog
  BY AllOfIt
<1>2. "host" \notin Tool
  BY SelectionAssumption
<1>3. QED
  BY <1>1, <1>2 DEF Usable

(* A tool that is offered is offered under its own name.                   *)
LEMMA OfferedIsItself ==
  ASSUME NEW catalog \in Seq(Tool), NEW t \in Names(catalog)
  PROVE  CatalogAliasIn(Names(catalog), t) = t /\ t # None
<1>1. t \in Tool /\ None \notin Tool
  BY PlanningAssumption DEF Names
<1>2. AliasIn(Names(catalog), t) = t
  BY <1>1, AliasIs
<1>3. QED
  BY <1>1, <1>2 DEF CatalogAliasIn

(* Narrowing to a tool that may be suggested keeps it, with every sticky   *)
(* and every referenced tool, in the order of the catalogue.               *)
LEMMA NarrowedIs ==
  ASSUME NEW c, NEW r, NEW d, c.catalog \in Seq(Tool),
         d.tool \in Names(c.catalog) \ Sticky, d.set = {} \/ d.tool \in d.set,
         NEW out, out = Reconstruct(c.catalog, KeptFor(c, r, d))
  PROVE  /\ out = Those(c.catalog, Names(out))
         /\ Names(c.catalog) \cap (Sticky \cup r.refs) \subseteq Names(out)
         /\ d.tool \in Names(out)
<1> DEFINE catalog == c.catalog
           wish == IF d.set = {} THEN {d.tool} ELSE d.set
           want == Resolved(catalog, wish)
           first == Those(catalog, want \ Sticky)
           rest == Those(catalog, Sticky \cup (r.refs \ want))
           filtered == FilterTools(catalog, want, r.refs)
           kept == KeptFor(c, r, d)
<1>1. d.tool \in want
  <2>1. CatalogAliasIn(Names(catalog), d.tool) = d.tool /\ d.tool # None
    BY OfferedIsItself
  <2>2. QED
    BY <2>1 DEF Resolved
<1>2. kept = IF c.task.locate THEN KeepLocatePair(catalog, filtered) ELSE filtered
  BY Zenon DEF KeptFor
<1>3. filtered = IF first = <<>> THEN <<>> ELSE first \o rest
  BY Zenon DEF FilterTools
<1>4. out = Those(catalog, Sticky \cup Names(kept))
  BY Zenon DEF Reconstruct
<1> HIDE DEF want, kept, filtered
<1>5. /\ first \in Seq(Tool) /\ Names(first) = Names(catalog) \cap (want \ Sticky) /\ first # <<>>
  <2>1. Names(catalog) \cap (want \ Sticky) # {}
    BY <1>1
  <2>2. QED
    BY <2>1, ThoseIs
<1>6. rest \in Seq(Tool) /\ Names(rest) = Names(catalog) \cap (Sticky \cup (r.refs \ want))
  BY ThoseIs
<1> HIDE DEF first, rest
<1>7. filtered \in Seq(Tool) /\ Names(filtered) = Names(first) \cup Names(rest)
  BY <1>3, <1>5, <1>6, ConcatNames
<1>8. Names(filtered) \subseteq Names(kept)
  <2> DEFINE pair == Those(catalog, {t \in Names(catalog) \ Names(filtered) : Kind[t] \in {"grep", "read", "search"}})
  <2>1. KeepLocatePair(catalog, filtered) = filtered \o pair
    BY Zenon DEF KeepLocatePair
  <2>2. pair \in Seq(Tool)
    BY ThoseIs
  <2> HIDE DEF pair
  <2>3. Names(filtered) \subseteq Names(KeepLocatePair(catalog, filtered))
    BY <1>7, <2>1, <2>2, ConcatNames
  <2>4. QED
    BY <1>2, <2>3
<1>9. Names(out) = Names(catalog) \cap (Sticky \cup Names(kept))
  BY <1>4, ThoseIs
<1>10. out = Those(catalog, Names(out))
  BY <1>4, <1>9, SamePart
<1>11. QED
  BY <1>1, <1>5, <1>6, <1>7, <1>8, <1>9, <1>10

-----------------------------------------------------------------------------
(* The inductive invariant                                                 *)

(* The conversation is one of the gateway's; what is decided about it at   *)
(* each stage is to pass, or a tool that may be suggested, and what is     *)
(* kept beside it when Jev answered holds it.                              *)
SelInv ==
  /\ at # "none" => /\ setup \in Setups /\ convo.task \in Tasks
                    /\ convo.catalog \in Catalogs[setup.host]
  /\ at \in {"local", "asking", "decided", "answered"} =>
       decision.pass \/ decision.tool \in CandidatesOf(convo.catalog)
  /\ at \in {"local", "asking"} => decision.set = {}
  /\ at \in {"decided", "answered"} =>
       decision.pass \/ decision.set = {} \/ decision.tool \in decision.set
  /\ SentIsUsable

LEMMA SetupIs ==
  ASSUME NEW s \in Setups
  PROVE  /\ s.host \in Host /\ s.shadow \in BOOLEAN /\ Catalogs[s.host] \subseteq Seq(Tool)
BY SelectionAssumption

LEMMA SelInitInv == SelInit => SelInv
BY DEF SelInit, SelInv, SentIsUsable

(* What is sent is usable if the catalogue is left alone.                  *)
LEMMA PassedIsUsable ==
  ASSUME SelInv, at # "none", UNCHANGED <<setup, convo, req>>,
         NEW s, s.tools = convo.catalog, s.choice = "host", s.apply \in {"none", "advise"},
         setup.shadow => s.apply = "none", Send(s)
  PROVE  SelInv'
<1>1. /\ setup \in Setups /\ convo.task \in Tasks /\ convo.catalog \in Catalogs[setup.host]
  BY DEF SelInv
<1>2. convo.catalog \in Seq(Tool) /\ setup.shadow \in BOOLEAN
  BY <1>1, SetupIs
<1>3. at' = "sent" /\ sent' = s
  BY DEF Send
<1>4. Usable(convo.catalog, req.refs, setup.shadow, sent')
  BY <1>2, <1>3, UntouchedIsUsable
<1>5. SentIsUsable'
  BY <1>4 DEF SentIsUsable, Usable
<1>6. QED
  BY <1>1, <1>3, <1>5 DEF SelInv

LEMMA PassIsUsable ==
  ASSUME SelInv, at # "none", PassThrough
  PROVE  SelInv'
<1> DEFINE s == AsItCame(convo.catalog)
<1>1. s.tools = convo.catalog /\ s.choice = "host" /\ s.apply = "none"
  BY DEF AsItCame, Unsent
<1>2. Send(s) /\ UNCHANGED <<setup, convo, req>>
  BY DEF PassThrough
<1> HIDE DEF s
<1>3. QED
  BY <1>1, <1>2, PassedIsUsable

LEMMA FallBackKeeps ==
  ASSUME SelInv, at \in {"local", "asking"}, FallBackOrPass
  PROVE  SelInv'
<1>1. CASE Fallback = None
  <2>1. PassThrough
    BY <1>1 DEF FallBackOrPass
  <2>2. QED
    BY <2>1, PassIsUsable
<1>2. CASE Fallback # None
  <2>1. /\ setup \in Setups /\ convo.task \in Tasks /\ convo.catalog \in Catalogs[setup.host]
        /\ decision.pass \/ decision.tool \in CandidatesOf(convo.catalog)
    BY DEF SelInv
  <2>2. Fallback = CatalogAliasIn(Names(convo.catalog), decision.tool) /\ ~decision.pass
    BY <1>2, Zenon DEF Fallback
  <2>3. convo.catalog \in Seq(Tool)
    BY <2>1, SetupIs
  <2>4. Fallback = decision.tool
    BY <2>1, <2>2, <2>3, FilterableIs, OfferedIsItself
  <2>5. /\ decision' = [decision EXCEPT !.tool = Fallback, !.set = {Fallback}]
        /\ at' = "decided" /\ UNCHANGED <<setup, convo, req, sent>>
    BY <1>2 DEF FallBackOrPass
  <2>6. \/ decision'.pass
        \/ decision'.tool \in CandidatesOf(convo.catalog) /\ decision'.tool \in decision'.set
    BY <2>1, <2>2, <2>4, <2>5 DEF Decisions
  <2>7. QED
    BY <2>1, <2>5, <2>6 DEF SelInv, SentIsUsable
<1>3. QED
  BY <1>1, <1>2

LEMMA DecidedIs ==
  ASSUME CataloguesServe, SelInv, Decide
  PROVE  /\ decision'.set = {}
         /\ decision'.pass \/ decision'.tool \in CandidatesOf(convo.catalog)
         /\ Fresh(decision', convo.task, convo.actions, setup.host, CandidatesOf(convo.catalog))
<1>1. /\ setup \in Setups /\ convo.task \in Tasks /\ convo.catalog \in Catalogs[setup.host]
      /\ setup.host \in Host /\ convo.catalog \in Seq(Tool)
  BY SetupIs DEF SelInv, Decide, Considered
<1>2. Filterable(convo.catalog) # <<>>
  BY DEF Decide
<1>3. Filterable(convo.catalog) \in Seq(Tool) /\ CandidatesOf(convo.catalog) # {}
  BY <1>1, <1>2, FilterableIs DEF CataloguesServe
<1>4. PICK best \in {None} \cup CandidatesOf(convo.catalog) :
        decision' = DecideSpecs(convo.task, convo.actions, Filterable(convo.catalog), setup.host, best)
  BY DEF Decide
<1> DEFINE may == CandidatesOf(convo.catalog)  task == convo.task  actions == convo.actions
           host == setup.host  specs == Filterable(convo.catalog)  d == decision'
<1>5. /\ task \in Tasks /\ host \in Host /\ specs \in Seq(Tool)
      /\ may = {t \in Names(specs) : ~HostMeta(t)} /\ may # {}
      /\ best \in {None} \cup may
      /\ d = DecideSpecs(task, actions, specs, host, best)
  BY <1>1, <1>3, <1>4 DEF CandidatesOf
<1> HIDE DEF task, actions, host, specs, d, may
<1>6. d.set = {} /\ (d.pass \/ d.tool \in may)
  BY ONLY <1>5, DecideIs
<1>7. Fresh(d, task, actions, host, may)
  BY ONLY <1>5, DecideIs
<1>8. QED
  BY <1>6, <1>7 DEF d, may, task, actions, host

LEMMA DecideKeeps ==
  ASSUME CataloguesServe, SelInv, Decide
  PROVE  SelInv'
<1>1. /\ setup \in Setups /\ convo.task \in Tasks /\ convo.catalog \in Catalogs[setup.host]
      /\ at' = "local" /\ UNCHANGED <<setup, convo, req, sent>>
  BY DEF SelInv, Decide, Considered
<1>2. decision'.set = {} /\ (decision'.pass \/ decision'.tool \in CandidatesOf(convo.catalog))
  BY DecidedIs
<1>3. QED
  BY <1>1, <1>2 DEF SelInv, SentIsUsable

LEMMA AnswerKeeps ==
  ASSUME SelInv, JevAnswers
  PROVE  SelInv'
<1>1. /\ setup \in Setups /\ convo.task \in Tasks /\ convo.catalog \in Catalogs[setup.host]
      /\ at' = "answered" /\ UNCHANGED <<setup, convo, req, sent>>
  BY DEF SelInv, JevAnswers
<1>2. \/ decision'.pass
      \/ decision'.tool \in CandidatesOf(convo.catalog) /\ decision'.tool \in decision'.set
  <2>1. CASE \E reason \in {"invalid", "coverage_short", "no_tool_needed"} :
               decision' = Leave("defer", reason)
    BY <2>1 DEF Leave, Decision
  <2>2. ASSUME NEW s \in Adopted, NEW t \in (Shortlist(s) \cap Candidates),
               decision' = [Decision(t, FALSE, "selected", "coverage") EXCEPT !.set = Shortlist(s)]
        PROVE  decision'.tool \in CandidatesOf(convo.catalog) /\ decision'.tool \in decision'.set
    <3>1. decision'.tool = t /\ decision'.set = Shortlist(s)
      BY <2>2 DEF Decision
    <3>2. Candidates = CandidatesOf(convo.catalog)
      BY DEF Candidates, CandidatesOf
    <3>3. QED
      BY <3>1, <3>2
  <2>3. QED
    BY <2>1, <2>2 DEF JevAnswers
<1>3. QED
  BY <1>1, <1>2 DEF SelInv, SentIsUsable

LEMMA LeaveKeeps ==
  ASSUME SelInv, LeaveCatalogue
  PROVE  SelInv'
<1>1. at # "none"
  BY DEF LeaveCatalogue, Settled
<1>2. CASE PassThrough
  BY <1>1, <1>2, PassIsUsable
<1>3. CASE ~PassThrough
  <2> DEFINE s == [AsItCame(convo.catalog) EXCEPT !.apply = "advise"]
  <2>1. ~setup.shadow /\ UNCHANGED <<setup, convo, req>> /\ Send(s)
    BY <1>3 DEF LeaveCatalogue, Advising
  <2>2. s.tools = convo.catalog /\ s.choice = "host" /\ s.apply = "advise"
    BY DEF AsItCame, Unsent
  <2> HIDE DEF s
  <2>3. QED
    BY <1>1, <2>1, <2>2, PassedIsUsable
<1>4. QED
  BY <1>2, <1>3

LEMMA AdviseKeeps ==
  ASSUME SelInv, Advise
  PROVE  SelInv'
<1> DEFINE s == [AsItCame(convo.catalog) EXCEPT !.apply = "advise", !.by = DecidedBy]
<1>1. at # "none" /\ ~setup.shadow
  BY DEF Advise, Suggests, Settled, Advising
<1>2. s.tools = convo.catalog /\ s.choice = "host" /\ s.apply = "advise"
  BY DEF AsItCame, Unsent
<1>3. CASE req.target
  <2>1. Send(s) /\ UNCHANGED <<setup, convo, req>>
    BY <1>3 DEF Advise
  <2> HIDE DEF s
  <2>2. QED
    BY <1>1, <1>2, <2>1, PassedIsUsable
<1>4. CASE ~req.target
  <2>1. PassThrough
    BY <1>4 DEF Advise
  <2>2. QED
    BY <1>1, <2>1, PassIsUsable
<1>5. QED
  BY <1>3, <1>4

(* Narrowing sends a catalogue that has what was decided.                  *)
LEMMA NarrowKeeps ==
  ASSUME SelInv, Narrow
  PROVE  SelInv'
<1> DEFINE kept == KeptFor(convo, req, decision)
           out == Reconstruct(convo.catalog, kept)
<1>1. /\ setup \in Setups /\ convo.task \in Tasks /\ convo.catalog \in Catalogs[setup.host]
      /\ at \in {"decided", "answered"} /\ ~decision.pass /\ ~setup.shadow
      /\ decision.tool \in CandidatesOf(convo.catalog)
      /\ decision.set = {} \/ decision.tool \in decision.set
      /\ UNCHANGED <<setup, convo, req>> /\ at' = "sent"
  BY DEF SelInv, Narrow, Suggests, Settled, Suggested, Send
<1>2. convo.catalog \in Seq(Tool)
  BY <1>1, SetupIs
<1>3. decision.tool \in Names(convo.catalog) \ Sticky /\ decision.tool \in Tool
  BY <1>1, <1>2, FilterableIs
<1>4. /\ out = Those(convo.catalog, Names(out))
      /\ Names(convo.catalog) \cap (Sticky \cup req.refs) \subseteq Names(out)
      /\ decision.tool \in Names(out)
  BY <1>1, <1>2, <1>3, NarrowedIs
<1>5. /\ sent'.tools = out
      /\ sent'.apply \in {"filter", "forced", "direct"}
      /\ \/ sent'.choice = "none"
         \/ sent'.choice = decision.tool /\ sent'.by = "jev"
  <2> DEFINE direct == /\ Forces /\ Protocol(req) = "chat" /\ decision.tool \in setup.direct
                       /\ Head(kept) \in ConstantArgs
  <2>1. sent' = [tools |-> out,
                 apply |-> IF direct THEN "direct" ELSE IF Forces THEN "forced" ELSE "filter",
                 choice |-> IF Forces THEN decision.tool ELSE "none",
                 args |-> IF direct THEN Head(kept) ELSE None,
                 by |-> DecidedBy]
    BY Zenon DEF Narrow, Send
  <2>2. Forces => at = "answered"
    BY DEF Forces
  <2>3. at = "answered" => DecidedBy = "jev"
    BY DEF DecidedBy
  <2> HIDE DEF direct, out, kept
  <2>4. QED
    BY <2>1, <2>2, <2>3
<1> HIDE DEF out, kept
<1>6. "none" \notin Tool
  BY SelectionAssumption
<1>7. Usable(convo.catalog, req.refs, setup.shadow, sent')
  BY <1>1, <1>3, <1>4, <1>5, <1>6 DEF Usable
<1>8. SentIsUsable'
  BY <1>1, <1>7 DEF SentIsUsable, Usable
<1>9. QED
  BY <1>1, <1>8 DEF SelInv

LEMMA SelStepInv ==
  ASSUME CataloguesServe, SelInv, [SelNext]_selVars
  PROVE  SelInv'
<1>1. CASE Begin
  BY <1>1 DEF Begin, SelInv, SentIsUsable
<1>2. CASE Receive
  BY <1>2 DEF Receive, SelInv, SentIsUsable
<1>3. CASE PassBefore
  BY <1>3, PassIsUsable DEF PassBefore
<1>4. CASE AnswerLocally
  <2>1. sent'.by = "lookup"
    BY <1>4 DEF AnswerLocally, Send, Unsent
  <2>2. QED
    BY <1>4, <2>1 DEF AnswerLocally, Considered, Send, SelInv, SentIsUsable
<1>5. CASE Decide
  BY <1>5, DecideKeeps
<1>6. CASE Unasked
  BY <1>6 DEF Unasked, SelInv, SentIsUsable
<1>7. CASE NotWorthAsking
  BY <1>7, PassIsUsable DEF NotWorthAsking
<1>8. CASE NobodyToAsk
  BY <1>8, FallBackKeeps DEF NobodyToAsk
<1>9. CASE AskJev
  BY <1>9 DEF AskJev, SelInv, SentIsUsable
<1>10. CASE JevFails
  BY <1>10, FallBackKeeps DEF JevFails
<1>11. CASE JevAnswers
  BY <1>11, AnswerKeeps
<1>12. CASE LeaveCatalogue
  BY <1>12, LeaveKeeps
<1>13. CASE ProposeOnly
  BY <1>13, PassIsUsable DEF ProposeOnly, Suggests, Settled
<1>14. CASE Advise
  BY <1>14, AdviseKeeps
<1>15. CASE Narrow
  BY <1>15, NarrowKeeps
<1>16. CASE HostRuns
  <2>1. /\ at' = "idle" /\ setup' = setup /\ at = "sent"
        /\ \E t, p : convo' = [convo EXCEPT !.actions = Append(@, [tool |-> t, pending |-> p])]
    BY <1>16 DEF HostRuns
  <2>2. convo'.task = convo.task /\ convo'.catalog = convo.catalog
    BY <2>1
  <2>3. QED
    BY <2>1, <2>2 DEF SelInv, SentIsUsable
<1>17. CASE AgentReports
  <2>1. /\ at' = at /\ setup' = setup /\ at = "idle"
        /\ \E i : convo' = [convo EXCEPT !.actions[i].pending = FALSE]
    BY <1>17 DEF AgentReports
  <2>2. convo'.task = convo.task /\ convo'.catalog = convo.catalog
    BY <2>1
  <2>3. QED
    BY <2>1, <2>2 DEF SelInv, SentIsUsable
<1>18. CASE UNCHANGED selVars
  BY <1>18 DEF selVars, SelInv, SentIsUsable
<1>19. QED
  BY <1>1, <1>2, <1>3, <1>4, <1>5, <1>6, <1>7, <1>8, <1>9, <1>10, <1>11, <1>12, <1>13, <1>14,
     <1>15, <1>16, <1>17, <1>18 DEF SelNext

(* However a catalogue is narrowed, forced or left alone, what goes out    *)
(* can be worked with: SentIsUsable in every reachable state.              *)
THEOREM NarrowedStaysUsable ==
  ASSUME CataloguesServe
  PROVE  SelSpec => []SentIsUsable
<1>1. SelInit => SelInv
  BY SelInitInv
<1>2. SelInv /\ [SelNext]_selVars => SelInv'
  BY SelStepInv
<1>3. SelInv => SentIsUsable
  BY DEF SelInv
<1>4. QED
  BY <1>1, <1>2, <1>3, PTL DEF SelSpec

-----------------------------------------------------------------------------
(* The local decision makes headway                                        *)

(* Until the catalogue is narrowed, what was decided without Jev is fresh. *)
LoopInv ==
  /\ at = "local" \/ (at = "decided" /\ setup.by # "jev") =>
       Fresh(decision, convo.task, convo.actions, setup.host, CandidatesOf(convo.catalog))
  /\ NoLocalLoop

LEMMA PassIsNoLoop ==
  ASSUME PassThrough
  PROVE  LoopInv'
<1>1. at' = "sent" /\ sent'.by = "pass"
  BY DEF PassThrough, Send, AsItCame, Unsent
<1>2. QED
  BY <1>1 DEF LoopInv, NoLocalLoop

LEMMA FallBackIsNoLoop ==
  ASSUME FallBackOrPass
  PROVE  LoopInv'
<1>1. CASE Fallback = None
  BY <1>1, PassIsNoLoop DEF FallBackOrPass
<1>2. CASE Fallback # None
  <2>1. setup.by = "jev"
    BY <1>2 DEF Fallback
  <2>2. at' = "decided" /\ setup' = setup
    BY <1>2 DEF FallBackOrPass
  <2>3. QED
    BY <2>1, <2>2 DEF LoopInv, NoLocalLoop
<1>3. QED
  BY <1>1, <1>2

(* What was decided without Jev was no step that was taken, so neither is  *)
(* what goes out for it.                                                   *)
LEMMA DecidedIsNoLoop ==
  ASSUME LoopInv, at \in {"decided", "answered"}, ~decision.pass, at' = "sent",
         UNCHANGED <<setup, convo, decision>>, sent'.by = DecidedBy
  PROVE  LoopInv'
<1>1. ASSUME sent'.by = "local", setup.by # "jev"
      PROVE  /\ ~PendingAgent(convo.actions) /\ ~AgentStreak(convo.actions)
             /\ convo.task.locate =>
                  \A k \in DOMAIN convo.actions : convo.actions[k].tool = decision.tool => StandsIn(decision.tool)
  <2>1. at = "decided"
    BY <1>1 DEF DecidedBy
  <2>2. Fresh(decision, convo.task, convo.actions, setup.host, CandidatesOf(convo.catalog))
    BY <1>1, <2>1 DEF LoopInv
  <2>3. QED
    BY <2>2 DEF Fresh, Stands, StandsIn
<1>2. StandsIn(decision.tool)' <=> StandsIn(decision.tool)
  BY DEF StandsIn, CandidatesOf, Filterable
<1>3. QED
  BY <1>1, <1>2 DEF LoopInv, NoLocalLoop

LEMMA LoopStepInv ==
  ASSUME CataloguesServe, SelInv, LoopInv, [SelNext]_selVars
  PROVE  LoopInv'
<1> USE DEF LoopInv, NoLocalLoop
<1>1. CASE Begin
  BY <1>1 DEF Begin
<1>2. CASE Receive
  BY <1>2 DEF Receive
<1>3. CASE PassBefore
  BY <1>3, PassIsNoLoop DEF PassBefore
<1>4. CASE AnswerLocally
  <2>1. sent'.by = "lookup" /\ at' = "sent"
    BY <1>4 DEF AnswerLocally, Send, Unsent
  <2>2. QED
    BY <2>1
<1>5. CASE Decide
  <2>1. Fresh(decision', convo.task, convo.actions, setup.host, CandidatesOf(convo.catalog))
    BY <1>5, DecidedIs
  <2>2. at' = "local" /\ convo' = convo /\ setup' = setup
    BY <1>5 DEF Decide
  <2>3. CandidatesOf(convo.catalog)' = CandidatesOf(convo.catalog)
    BY <2>2 DEF CandidatesOf, Filterable
  <2>4. QED
    BY <2>1, <2>2, <2>3 DEF Fresh, Stands
<1>6. CASE Unasked
  BY <1>6 DEF Unasked
<1>7. CASE NotWorthAsking
  BY <1>7, PassIsNoLoop DEF NotWorthAsking
<1>8. CASE NobodyToAsk
  BY <1>8, FallBackIsNoLoop DEF NobodyToAsk
<1>9. CASE AskJev
  BY <1>9 DEF AskJev
<1>10. CASE JevFails
  BY <1>10, FallBackIsNoLoop DEF JevFails
<1>11. CASE JevAnswers
  BY <1>11 DEF JevAnswers
<1>12. CASE LeaveCatalogue
  <2>1. CASE PassThrough
    BY <2>1, PassIsNoLoop
  <2>2. CASE ~PassThrough
    <3>1. at' = "sent" /\ sent'.by = "pass"
      BY <1>12, <2>2 DEF LeaveCatalogue, Send, AsItCame, Unsent
    <3>2. QED
      BY <3>1
  <2>3. QED
    BY <2>1, <2>2
<1>13. CASE ProposeOnly
  BY <1>13, PassIsNoLoop DEF ProposeOnly
<1>14. CASE Advise
  <2>1. CASE req.target
    <3>1. /\ at' = "sent" /\ at \in {"decided", "answered"} /\ ~decision.pass
          /\ UNCHANGED <<setup, convo, decision>> /\ sent'.by = DecidedBy
      BY <1>14, <2>1 DEF Advise, Suggests, Suggested, Settled, Send, AsItCame, Unsent
    <3>2. QED
      BY <3>1, DecidedIsNoLoop
  <2>2. CASE ~req.target
    BY <1>14, <2>2, PassIsNoLoop DEF Advise
  <2>3. QED
    BY <2>1, <2>2
<1>15. CASE Narrow
  <2>1. /\ at' = "sent" /\ at \in {"decided", "answered"} /\ ~decision.pass
        /\ UNCHANGED <<setup, convo, decision>> /\ sent'.by = DecidedBy
    BY <1>15 DEF Narrow, Suggests, Suggested, Settled, Send
  <2>2. QED
    BY <2>1, DecidedIsNoLoop
<1>16. CASE HostRuns
  BY <1>16 DEF HostRuns
<1>17. CASE AgentReports
  BY <1>17 DEF AgentReports
<1>18. CASE UNCHANGED selVars
  <2>1. StandsIn(decision.tool)' <=> StandsIn(decision.tool)
    BY <1>18 DEF selVars, StandsIn, CandidatesOf, Filterable
  <2>2. QED
    BY <1>18, <2>1 DEF selVars, Fresh, Stands, CandidatesOf, Filterable
<1>19. QED
  BY <1>1, <1>2, <1>3, <1>4, <1>5, <1>6, <1>7, <1>8, <1>9, <1>10, <1>11, <1>12, <1>13, <1>14,
     <1>15, <1>16, <1>17, <1>18 DEF SelNext

(* A step that was taken is narrowed to again only by a tool that stands   *)
(* in for another name, and the local decision does not follow up on       *)
(* running agents: NoLocalLoop, whatever names the hosts give their tools. *)
THEOREM LocalStepsEnd ==
  ASSUME CataloguesServe
  PROVE  SelSpec => []NoLocalLoop
<1>1. SelInit => SelInv /\ LoopInv
  BY SelInitInv DEF SelInit, LoopInv, NoLocalLoop
<1>2. SelInv /\ LoopInv /\ [SelNext]_selVars => SelInv' /\ LoopInv'
  BY SelStepInv, LoopStepInv
<1>3. LoopInv => NoLocalLoop
  BY DEF LoopInv
<1>4. QED
  BY <1>1, <1>2, <1>3, PTL DEF SelSpec

-----------------------------------------------------------------------------
(* The types of a conversation                                             *)

(* A local decision is one the code can make: an outcome and a reason it   *)
(* knows, and a tool only when it does not leave the catalogue alone.      *)
LEMMA DecisionIsKnown ==
  ASSUME NEW task \in Tasks, NEW actions, NEW specs, NEW host, NEW best
  PROVE  LET d == DecideSpecs(task, actions, specs, host, best)
         IN /\ d = Decision(d.tool, d.pass, d.outcome, d.reason)
            /\ d.pass \in BOOLEAN /\ d.outcome \in {"selected", "defer"} /\ d.reason \in Reasons
            /\ d.pass => d.tool = Respond
<1> DEFINE offered == Those(specs, {t \in Names(specs) : ~HostMeta(t)})
           tools == IF offered = <<>> THEN Defaults[host] ELSE offered
           shell == AliasIn(Names(tools), "Bash")
           goal == GoalTool(task, tools, Remaining(task, actions, host))
           instead == PreferLocateTool(tools)
           d == DecideSpecs(task, actions, specs, host, best)
           verdict == IF task.locate THEN "selected" ELSE "defer"
           reason == IF task.locate THEN "sequential_locate" ELSE "word_match"
<1>1. d = CASE PendingAgent(actions) -> Leave("selected", "pending_agent")
    [] ~PendingAgent(actions) /\ AgentStreak(actions) -> Leave("selected", "agent_streak")
    [] OTHER ->
       IF task.shell /\ shell # None THEN Decision(shell, FALSE, "selected", "catalog_score")
       ELSE IF goal # None
       THEN Decision(goal, FALSE, verdict, reason)
       ELSE IF task.locate
       THEN IF instead # None /\ ~ActionUsed(actions, instead)
            THEN Decision(instead, FALSE, "selected", "sequential_locate")
            ELSE Leave("defer", "unknown")
       ELSE IF best # None THEN Decision(best, FALSE, "defer", "catalog_score")
       ELSE Leave("defer", "unknown")
  BY Zenon DEF DecideSpecs
<1>2. verdict \in {"selected", "defer"} /\ reason \in Reasons
  <2>1. CASE task.locate
    BY <2>1 DEF Reasons
  <2>2. CASE ~task.locate
    BY <2>2 DEF Reasons
  <2>3. QED
    BY <2>1, <2>2
<1> HIDE DEF d, tools, shell, goal, instead, verdict, reason
<1>3. \/ d = Leave("selected", "pending_agent")
      \/ d = Leave("selected", "agent_streak")
      \/ d = Decision(shell, FALSE, "selected", "catalog_score")
      \/ d = Decision(goal, FALSE, verdict, reason)
      \/ d = Decision(instead, FALSE, "selected", "sequential_locate")
      \/ d = Leave("defer", "unknown")
      \/ d = Decision(best, FALSE, "defer", "catalog_score")
  BY <1>1, Zenon
<1>4. ASSUME NEW t, NEW o \in {"selected", "defer"}, NEW r \in Reasons, NEW p \in BOOLEAN,
             d = Decision(t, p, o, r), p => t = Respond
      PROVE  /\ d = Decision(d.tool, d.pass, d.outcome, d.reason)
             /\ d.pass \in BOOLEAN /\ d.outcome \in {"selected", "defer"} /\ d.reason \in Reasons
             /\ d.pass => d.tool = Respond
  <2>1. d.tool = t /\ d.pass = p /\ d.outcome = o /\ d.reason = r
    BY <1>4 DEF Decision
  <2>2. QED
    BY <1>4, <2>1
<1>5. /\ "pending_agent" \in Reasons /\ "agent_streak" \in Reasons /\ "catalog_score" \in Reasons
      /\ "sequential_locate" \in Reasons /\ "unknown" \in Reasons
  BY DEF Reasons
<1>6. \E t, o, r, p : /\ d = Decision(t, p, o, r) /\ (p => t = Respond)
                      /\ o \in {"selected", "defer"} /\ r \in Reasons /\ p \in BOOLEAN
  <2>1. CASE d = Leave("selected", "pending_agent")
    BY <1>5, <2>1 DEF Leave
  <2>2. CASE d = Leave("selected", "agent_streak")
    BY <1>5, <2>2 DEF Leave
  <2>3. CASE d = Decision(shell, FALSE, "selected", "catalog_score")
    BY <1>5, <2>3
  <2>4. CASE d = Decision(goal, FALSE, verdict, reason)
    BY <1>2, <2>4
  <2>5. CASE d = Decision(instead, FALSE, "selected", "sequential_locate")
    BY <1>5, <2>5
  <2>6. CASE d = Leave("defer", "unknown")
    BY <1>5, <2>6 DEF Leave
  <2>7. CASE d = Decision(best, FALSE, "defer", "catalog_score")
    BY <1>5, <2>7
  <2>8. QED
    BY <1>3, <2>1, <2>2, <2>3, <2>4, <2>5, <2>6, <2>7
<1>7. QED
  BY <1>4, <1>6 DEF d

(* The decision is known, and a conversation has a catalogue and calls of  *)
(* known tools.                                                            *)
SelTyped ==
  /\ SelTypeOK
  /\ convo \in [task : Tasks \cup {NoTask}, catalog : Seq(Tool),
                actions : Seq([tool : Tool, pending : BOOLEAN])]

LEMMA UndecidedIsKnown ==
  \A o \in {"selected", "defer"}, r \in Reasons : Leave(o, r) \in Decisions
BY DEF Leave, Decision, Decisions

LEMMA ReasonsOfJev == {"unknown", "coverage", "coverage_short", "invalid", "no_tool_needed"} \subseteq Reasons
BY DEF Reasons

LEMMA SelInitTyped == SelInit => SelTyped
<1> SUFFICES ASSUME SelInit PROVE SelTyped
  OBVIOUS
<1>1. decision \in Decisions
  BY UndecidedIsKnown, ReasonsOfJev DEF SelInit, Undecided
<1>2. QED
  BY <1>1 DEF SelInit, SelTyped, SelTypeOK, NoConvo, Unsent

LEMMA SentIsTyped ==
  ASSUME SelTyped, UNCHANGED <<setup, convo, req, decision>>, at' = "sent",
         sent'.tools \in Seq(Tool), sent'.choice \in Tool \cup {"host", "none"}
  PROVE  SelTyped'
BY DEF SelTyped, SelTypeOK

LEMMA PassIsTyped ==
  ASSUME SelTyped, PassThrough, UNCHANGED decision
  PROVE  SelTyped'
<1>1. sent'.tools = convo.catalog /\ sent'.choice = "host" /\ at' = "sent"
  BY DEF PassThrough, Send, AsItCame, Unsent
<1>2. QED
  BY <1>1, SentIsTyped DEF PassThrough, SelTyped, SelTypeOK

LEMMA FallBackIsTyped ==
  ASSUME SelInv, SelTyped, at \in {"local", "asking"}, FallBackOrPass
  PROVE  SelTyped'
<1>1. CASE Fallback = None
  BY <1>1, PassIsTyped DEF FallBackOrPass
<1>2. CASE Fallback # None
  <2>1. /\ Fallback = CatalogAliasIn(Names(convo.catalog), decision.tool) /\ ~decision.pass
        /\ decision.tool \in CandidatesOf(convo.catalog) /\ convo.catalog \in Seq(Tool)
    BY <1>2, Zenon DEF Fallback, SelInv, SelTyped, SelTypeOK
  <2>2. Fallback = decision.tool /\ decision.tool \in Tool
    BY <2>1, FilterableIs, OfferedIsItself
  <2>3. /\ decision' = [decision EXCEPT !.tool = Fallback, !.set = {Fallback}]
        /\ at' = "decided" /\ UNCHANGED <<setup, convo, req, sent>>
    BY <1>2 DEF FallBackOrPass
  <2>4. decision' \in Decisions
    BY <2>2, <2>3 DEF Decisions, SelTyped, SelTypeOK
  <2>5. QED
    BY <2>3, <2>4 DEF SelTyped, SelTypeOK
<1>3. QED
  BY <1>1, <1>2

LEMMA DecideIsTyped ==
  ASSUME CataloguesServe, SelInv, SelTyped, Decide
  PROVE  SelTyped'
<1>1. /\ at' = "local" /\ UNCHANGED <<setup, convo, req, sent>>
      /\ convo.task \in Tasks /\ convo.catalog \in Seq(Tool)
  BY DEF Decide, Considered, SelInv, SelTyped, SelTypeOK
<1>2. decision'.set = {} /\ (decision'.pass \/ decision'.tool \in CandidatesOf(convo.catalog))
  BY DecidedIs
<1>3. PICK best : decision' =
         DecideSpecs(convo.task, convo.actions, Filterable(convo.catalog), setup.host, best)
  BY DEF Decide
<1>4. /\ decision' = Decision(decision'.tool, decision'.pass, decision'.outcome, decision'.reason)
      /\ decision'.pass \in BOOLEAN /\ decision'.outcome \in {"selected", "defer"}
      /\ decision'.reason \in Reasons
      /\ decision'.pass => decision'.tool = Respond
  <2> DEFINE task == convo.task  actions == convo.actions
             specs == Filterable(convo.catalog)  host == setup.host
  <2>1. task \in Tasks /\ decision' = DecideSpecs(task, actions, specs, host, best)
    BY <1>1, <1>3
  <2> HIDE DEF task, actions, specs, host
  <2>2. QED
    BY ONLY <2>1, DecisionIsKnown
<1>5. decision'.tool \in Tool \cup {Respond}
  BY <1>1, <1>2, <1>4, FilterableIs
<1>6. decision' \in Decisions
  <2>1. ASSUME NEW d, d = Decision(d.tool, d.pass, d.outcome, d.reason), d.pass \in BOOLEAN,
               d.outcome \in {"selected", "defer"}, d.reason \in Reasons,
               d.tool \in Tool \cup {Respond}
        PROVE  d \in Decisions
    BY <2>1 DEF Decision, Decisions
  <2>2. QED
    BY <1>4, <1>5, <2>1
<1>7. QED
  BY <1>1, <1>6 DEF SelTyped, SelTypeOK

LEMMA AnswerIsTyped ==
  ASSUME SelTyped, JevAnswers
  PROVE  SelTyped'
<1>1. at' = "answered" /\ UNCHANGED <<setup, convo, req, sent>>
  BY DEF JevAnswers
<1>2. Candidates \subseteq Tool /\ MustKeep(convo, req) \subseteq Tool
  <2>1. convo.catalog \in Seq(Tool)
    BY DEF SelTyped, SelTypeOK
  <2>2. Candidates \subseteq Names(convo.catalog) /\ Names(convo.catalog) \subseteq Tool
    BY <2>1, FilterableIs DEF Candidates
  <2>3. req.refs \subseteq Tool
    BY SelectionAssumption DEF SelTyped, SelTypeOK, NoReq
  <2>4. QED
    BY <2>2, <2>3 DEF MustKeep
<1>3. decision' \in Decisions
  <2>1. CASE \E reason \in {"invalid", "coverage_short", "no_tool_needed"} :
               decision' = Leave("defer", reason)
    BY <2>1, UndecidedIsKnown, ReasonsOfJev
  <2>2. ASSUME NEW s \in Adopted, NEW t \in (Shortlist(s) \cap Candidates),
               decision' = [Decision(t, FALSE, "selected", "coverage") EXCEPT !.set = Shortlist(s)]
        PROVE  decision' \in Decisions
    <3>1. decision' = [tool |-> t, pass |-> FALSE, outcome |-> "selected", reason |-> "coverage",
                       set |-> Shortlist(s)]
      BY <2>2 DEF Decision
    <3>2. t \in Tool /\ Shortlist(s) \subseteq Tool
      BY <1>2 DEF Shortlist, Adopted
    <3>3. QED
      BY <3>1, <3>2, ReasonsOfJev DEF Decisions
  <2>3. QED
    BY <2>1, <2>2 DEF JevAnswers
<1>4. QED
  BY <1>1, <1>3 DEF SelTyped, SelTypeOK

LEMMA NarrowIsTyped ==
  ASSUME SelInv, SelTyped, Narrow
  PROVE  SelTyped'
<1> DEFINE kept == KeptFor(convo, req, decision)
           out == Reconstruct(convo.catalog, kept)
<1>1. /\ decision.tool \in CandidatesOf(convo.catalog) /\ convo.catalog \in Seq(Tool)
      /\ UNCHANGED <<setup, convo, req, decision>> /\ at' = "sent"
  BY DEF SelInv, SelTyped, SelTypeOK, Narrow, Suggests, Settled, Suggested, Send
<1>2. out \in Seq(Tool)
  BY <1>1, ThoseIs DEF Reconstruct
<1>3. decision.tool \in Tool
  BY <1>1, FilterableIs
<1>4. sent'.tools = out /\ sent'.choice \in {decision.tool, "none"}
  <2> DEFINE direct == /\ Forces /\ Protocol(req) = "chat" /\ decision.tool \in setup.direct
                       /\ Head(kept) \in ConstantArgs
  <2>1. sent' = [tools |-> out,
                 apply |-> IF direct THEN "direct" ELSE IF Forces THEN "forced" ELSE "filter",
                 choice |-> IF Forces THEN decision.tool ELSE "none",
                 args |-> IF direct THEN Head(kept) ELSE None,
                 by |-> DecidedBy]
    BY Zenon DEF Narrow, Send
  <2> HIDE DEF direct, out, kept
  <2>2. QED
    BY <2>1
<1> HIDE DEF out, kept
<1>5. QED
  BY <1>1, <1>2, <1>3, <1>4, SentIsTyped

LEMMA HostIsTyped ==
  ASSUME SelTyped, HostRuns \/ AgentReports
  PROVE  SelTyped'
<1> DEFINE Action == [tool : Tool, pending : BOOLEAN]
<1>1. convo \in [task : Tasks \cup {NoTask}, catalog : Seq(Tool), actions : Seq(Action)]
  BY DEF SelTyped
<1>2. ASSUME NEW acts \in Seq(Action), convo' = [convo EXCEPT !.actions = acts]
      PROVE  /\ convo' \in [task : Tasks \cup {NoTask}, catalog : Seq(Tool), actions : Seq(Action)]
             /\ convo'.task \in Tasks \cup {NoTask} /\ convo'.catalog \in Seq(Tool)
             /\ convo'.actions \in Seq(Action)
  BY <1>1, <1>2
<1>3. CASE HostRuns
  <2>1. PICK t \in Names(sent.tools), p \in BOOLEAN :
           convo' = [convo EXCEPT !.actions = Append(convo.actions, [tool |-> t, pending |-> p])]
    BY <1>3 DEF HostRuns
  <2>2. t \in Tool
    BY DEF SelTyped, SelTypeOK, Names
  <2>3. [tool |-> t, pending |-> p] \in Action /\ convo.actions \in Seq(Action)
    BY <1>1, <2>2
  <2>4. Append(convo.actions, [tool |-> t, pending |-> p]) \in Seq(Action)
    <3> DEFINE one == [tool |-> t, pending |-> p]
    <3>1. one \in Action
      BY <2>3
    <3> HIDE DEF one, Action
    <3>2. Append(convo.actions, one) \in Seq(Action)
      BY <2>3, <3>1
    <3>3. QED
      BY <3>2 DEF one
  <2> HIDE DEF Action
  <2>5. at' = "idle" /\ req' = NoReq /\ decision' = Undecided /\ UNCHANGED <<setup, sent>>
    BY <1>3 DEF HostRuns
  <2>6. decision' \in Decisions
    BY <2>5, UndecidedIsKnown, ReasonsOfJev DEF Undecided
  <2>7. QED
    BY <1>2, <2>1, <2>4, <2>5, <2>6 DEF SelTyped, SelTypeOK, Action
<1>4. CASE AgentReports
  <2>1. PICK i \in DOMAIN convo.actions :
           convo' = [convo EXCEPT !.actions[i].pending = FALSE]
    BY <1>4 DEF AgentReports
  <2> DEFINE acts == [convo.actions EXCEPT ![i].pending = FALSE]
  <2>2. convo' = [convo EXCEPT !.actions = acts]
    BY <2>1
  <2>3. acts \in Seq(Action)
    <3>1. convo.actions \in Seq(Action) /\ convo.actions[i] \in Action
      <4>1. convo.actions \in Seq(Action)
        BY <1>1
      <4> HIDE DEF Action
      <4>2. QED
        BY <4>1
    <3>2. [convo.actions[i] EXCEPT !.pending = FALSE] \in Action
      BY <3>1
    <3>3. QED
      BY <3>1, <3>2
  <2>4. at' = "idle" /\ UNCHANGED <<setup, req, decision, sent>>
    BY <1>4 DEF AgentReports
  <2> HIDE DEF acts, Action
  <2>5. QED
    BY <1>2, <2>2, <2>3, <2>4 DEF SelTyped, SelTypeOK, Action
<1>5. QED
  BY <1>3, <1>4

LEMMA SelStepTyped ==
  ASSUME CataloguesServe, SelInv, SelTyped, [SelNext]_selVars
  PROVE  SelTyped'
<1>1. CASE Begin
  <2>1. PICK s \in Setups, t \in Tasks : \E c \in Catalogs[s.host] :
           setup' = s /\ convo' = [task |-> t, catalog |-> c, actions |-> <<>>]
    BY <1>1 DEF Begin
  <2>2. PICK c \in Catalogs[s.host] :
           setup' = s /\ convo' = [task |-> t, catalog |-> c, actions |-> <<>>]
    BY <2>1
  <2>3. c \in Seq(Tool)
    BY SetupIs
  <2>4. at' = "idle" /\ UNCHANGED <<req, decision, sent>>
    BY <1>1 DEF Begin
  <2>5. QED
    BY <2>2, <2>3, <2>4 DEF SelTyped, SelTypeOK
<1>2. CASE Receive
  BY <1>2 DEF Receive, SelTyped, SelTypeOK
<1>3. CASE PassBefore
  BY <1>3, PassIsTyped DEF PassBefore
<1>4. CASE AnswerLocally
  <2>1. sent'.tools = <<>> /\ sent'.choice = "none" /\ at' = "sent"
    BY <1>4 DEF AnswerLocally, Send, Unsent
  <2>2. QED
    BY <1>4, <2>1, SentIsTyped DEF AnswerLocally
<1>5. CASE Decide
  BY <1>5, DecideIsTyped
<1>6. CASE Unasked
  BY <1>6 DEF Unasked, SelTyped, SelTypeOK
<1>7. CASE NotWorthAsking
  BY <1>7, PassIsTyped DEF NotWorthAsking
<1>8. CASE NobodyToAsk
  BY <1>8, FallBackIsTyped DEF NobodyToAsk
<1>9. CASE AskJev
  BY <1>9 DEF AskJev, SelTyped, SelTypeOK
<1>10. CASE JevFails
  BY <1>10, FallBackIsTyped DEF JevFails
<1>11. CASE JevAnswers
  BY <1>11, AnswerIsTyped
<1>12. CASE LeaveCatalogue
  <2>1. CASE PassThrough
    BY <1>12, <2>1, PassIsTyped DEF LeaveCatalogue
  <2>2. CASE ~PassThrough
    <3>1. /\ at' = "sent" /\ sent'.tools = convo.catalog /\ sent'.choice = "host"
          /\ UNCHANGED <<setup, convo, req, decision>>
      BY <1>12, <2>2 DEF LeaveCatalogue, Send, AsItCame, Unsent
    <3>2. QED
      BY <3>1, SentIsTyped DEF SelTyped, SelTypeOK
  <2>3. QED
    BY <2>1, <2>2
<1>13. CASE ProposeOnly
  BY <1>13, PassIsTyped DEF ProposeOnly
<1>14. CASE Advise
  <2>1. /\ at' = "sent" /\ sent'.tools = convo.catalog /\ sent'.choice = "host"
        /\ UNCHANGED <<setup, convo, req, decision>>
    BY <1>14 DEF Advise, PassThrough, Send, AsItCame, Unsent
  <2>2. QED
    BY <2>1, SentIsTyped DEF SelTyped, SelTypeOK
<1>15. CASE Narrow
  BY <1>15, NarrowIsTyped
<1>16. CASE HostRuns \/ AgentReports
  BY <1>16, HostIsTyped
<1>17. CASE UNCHANGED selVars
  BY <1>17 DEF selVars, SelTyped, SelTypeOK
<1>18. QED
  BY <1>1, <1>2, <1>3, <1>4, <1>5, <1>6, <1>7, <1>8, <1>9, <1>10, <1>11, <1>12, <1>13, <1>14,
     <1>15, <1>16, <1>17 DEF SelNext

(* Whatever a conversation does, its decision is one the code can make     *)
(* about tools that exist, and what is sent are tools that exist.          *)
THEOREM SelTypesCorrect ==
  ASSUME CataloguesServe
  PROVE  SelSpec => []SelTypeOK
<1>1. SelInit => SelInv /\ SelTyped
  BY SelInitInv, SelInitTyped
<1>2. SelInv /\ SelTyped /\ [SelNext]_selVars => SelInv' /\ SelTyped'
  BY SelStepInv, SelStepTyped
<1>3. SelTyped => SelTypeOK
  BY DEF SelTyped
<1>4. QED
  BY <1>1, <1>2, <1>3, PTL DEF SelSpec

-----------------------------------------------------------------------------
(* Codex steering, for any turns, tool lists and cut. What was sent is a   *)
(* prefix of the history as it is cut now, since each turn is cut alone.   *)

(* A request that is being asked about may be steered, and the state of it *)
(* is the end of its history.                                              *)
AskedSoundly ==
  /\ steering.at # "idle" =>
       steering.tools \in ToolLists /\ steering.choice \in {"auto", "required", "decided"}
  /\ steering.at = "asking" =>
       Steerable /\ steering.asked # <<>> /\ IsSuffix(steering.asked, Truncated)

SteerInv ==
  /\ turns \in Seq(Turn) /\ wire \in Seq(Turn)
  /\ truncates \in BOOLEAN
  /\ DOMAIN steering = {"at", "tools", "choice", "odd", "asked"}
  /\ IsPrefix(wire, Truncated)
  /\ AskedSoundly
  /\ SteeredRequest

LEMMA TruncatedIs ==
  ASSUME turns \in Seq(Turn)
  PROVE  /\ Truncated \in Seq(Turn) /\ Len(Truncated) = Len(turns)
         /\ \A i \in 1 .. Len(turns) :
              Truncated[i] = IF truncates THEN TruncateMiddle(turns[i]) ELSE turns[i]
BY SteerAssumption DEF Truncated, TruncateMiddle

(* The state is the end of the history, and not empty.                     *)
LEMMA StateIsNewest ==
  ASSUME NEW h \in Seq(Turn), h # <<>>
  PROVE  StateOf(h) # <<>> /\ IsSuffix(StateOf(h), h)
<1> DEFINE Cost(n) == FoldLeft(LAMBDA a, b : a + b, 0, SubSeq(h, Len(h) - n + 1, Len(h)))
           fits == {n \in 1 .. Len(h) : n = 1 \/ Cost(n) <= StateMax}
           k == CHOOSE n \in fits : \A m \in fits : m <= n
<1>1. StateOf(h) = SubSeq(h, Len(h) - k + 1, Len(h))
  BY DEF StateOf
<1>2. 1 \in fits /\ fits \in SUBSET (0 .. Len(h)) /\ Len(h) \in Nat
  <2> HIDE DEF Cost
  <2>1. 1 \in 1 .. Len(h) /\ Len(h) \in Nat
    OBVIOUS
  <2>2. QED
    BY <2>1
<1> HIDE DEF fits
<1>3. \E n \in fits : \A m \in fits : m <= n
  BY <1>2, GreatestExists
<1>4. k \in fits
  BY <1>3
<1>5. k \in 1 .. Len(h)
  BY <1>4 DEF fits
<1> HIDE DEF k
<1>6. QED
  BY <1>1, <1>5, NewestIsSuffix

(* A name that may be forced stands for one declared tool.                 *)
LEMMA ForcedIsOne ==
  ASSUME NEW tools \in ToolLists, ~Collision(tools), NEW name, Forceable(tools, name)
  PROVE  LET so == {i \in DOMAIN tools : /\ Callable(tools[i]) /\ tools[i].name = name[1]
                                         /\ tools[i].ns \in {"", DefaultNamespace}}
         IN /\ Cardinality(so) = 1
            /\ \A i \in so : tools[i].type = Candidate(tools, name).type
            /\ Candidate(tools, name).type # "none" /\ Candidate(tools, name).type # "host"
<1> DEFINE so == {i \in DOMAIN tools : /\ Callable(tools[i]) /\ tools[i].name = name[1]
                                       /\ tools[i].ns \in {"", DefaultNamespace}}
           of == {i \in DOMAIN tools : Qualified(tools[i]) = name}
           k == CHOOSE i \in DOMAIN tools :
                  Qualified(tools[i]) = name /\ \A j \in 1 .. i - 1 : Qualified(tools[j]) # name
<1>1. tools \in Seq(Declared) /\ DOMAIN tools = 1 .. Len(tools) /\ Len(tools) \in Nat
  BY SteerAssumption
<1>2. of \in SUBSET Nat /\ of # {}
  BY <1>1 DEF Forceable, CandidateNames
<1>3. PICK i \in of : \A j \in of : i <= j
  BY <1>2, LeastExists
<1>4. \A j \in 1 .. i - 1 : Qualified(tools[j]) # name
  BY <1>1, <1>3
<1>5. k \in DOMAIN tools /\ Qualified(tools[k]) = name /\ Candidate(tools, name) = tools[k]
  BY <1>3, <1>4 DEF Candidate
<1> HIDE DEF k, of
<1>6. Callable(tools[k]) /\ ~Namespaced(tools[k])
  BY <1>5 DEF Forceable
<1>7. name = <<tools[k].name>> /\ tools[k].ns \in {"", DefaultNamespace}
  BY <1>5, <1>6 DEF Qualified, Namespaced
<1>n. name[1] = tools[k].name
  BY <1>7
<1>8. k \in so
  BY <1>5, <1>6, <1>7, <1>n
<1>9. ASSUME NEW j \in so PROVE j = k
  <2>1. Qualified(tools[j]) = name
    BY <1>7 DEF Qualified, Namespaced
  <2>2. ~(j < k) /\ ~(k < j)
    BY <1>1, <1>5, <1>6, <2>1 DEF Collision
  <2> HIDE DEF so
  <2>i. j \in Int /\ k \in Int
    <3>1. j \in DOMAIN tools /\ k \in DOMAIN tools /\ DOMAIN tools = 1 .. Len(tools)
      BY <1>1, <1>5 DEF so
    <3>2. QED
      BY ONLY <3>1
  <2>3. QED
    BY <2>2, <2>i
<1>10. so = {k}
  BY <1>8, <1>9
<1>11. tools[k].type \in {"function", "custom", "hosted"}
  BY <1>1, <1>5, SteerAssumption
<1> HIDE DEF so
<1>12. Cardinality(so) = 1
  BY <1>10, FS_Singleton
<1>13. QED
  BY <1>5, <1>6, <1>10, <1>11, <1>12 DEF so, Callable

(* What is sent repeats what was sent before.                              *)
LEMMA SendKeeps ==
  ASSUME SteerInv, NEW choice, SendSteered(choice),
         choice # HostChoice =>
           /\ steering.choice # "decided" /\ steering.odd = "none"
           /\ choice = NoTool => steering.choice = "auto"
           /\ steering.asked # <<>> /\ IsSuffix(steering.asked, Truncated)
           /\ choice # NoTool =>
                LET tools == steering.tools
                    so == {i \in DOMAIN tools : /\ Callable(tools[i]) /\ tools[i].name = choice.name
                                                /\ tools[i].ns \in {"", DefaultNamespace}}
                IN Cardinality(so) = 1 /\ \A i \in so : tools[i].type = choice.type
  PROVE  SteerInv'
<1>1. /\ wire' = Truncated /\ wireBefore' = wire /\ steering' = NoSteering
      /\ outcome' = [choice |-> choice, of |-> steering]
      /\ truncates' = truncates /\ turns' = turns
  BY DEF SendSteered
<1>2. Truncated' = Truncated /\ Truncated \in Seq(Turn)
  BY <1>1, TruncatedIs DEF SteerInv, Truncated
<1>3. IsPrefix(wire', Truncated') /\ IsPrefix(wireBefore', wire')
  <2>1. IsPrefix(wire, Truncated) /\ Len(Truncated) \in Nat
    <3>1. Len(Truncated) \in Nat
      BY ONLY SteerInv, TruncatedIs DEF SteerInv
    <3>2. IsPrefix(wire, Truncated)
      BY DEF SteerInv
    <3>3. QED
      BY <3>1, <3>2
  <2>2. IsPrefix(Truncated, Truncated)
    BY <2>1, PrefixSelf
  <2>3. QED
    BY <1>1, <1>2, <2>1, <2>2
<1>4. AskedSoundly'
  BY <1>1 DEF AskedSoundly, NoSteering
<1>5. SteeredRequest'
  BY <1>1, <1>3 DEF SteeredRequest
<1>6. DOMAIN steering' = {"at", "tools", "choice", "odd", "asked"}
  BY <1>1 DEF NoSteering
<1>7. QED
  BY <1>1, <1>2, <1>3, <1>4, <1>5, <1>6 DEF SteerInv

LEMMA SteerStep == SteerInv /\ [SteerNext]_steerVars => SteerInv'
<1> SUFFICES ASSUME SteerInv, [SteerNext]_steerVars PROVE SteerInv'
  OBVIOUS
<1>t. /\ turns \in Seq(Turn) /\ wire \in Seq(Turn) /\ truncates \in BOOLEAN
      /\ IsPrefix(wire, Truncated) /\ Truncated \in Seq(Turn) /\ AskedSoundly
  BY TruncatedIs DEF SteerInv
<1>1. CASE CodexTurn
  <2>1. PICK t \in Turn : turns' = Append(turns, t)
    BY <1>1 DEF CodexTurn
  <2>2. /\ truncates' = truncates /\ steering' = steering /\ wire' = wire /\ outcome' = outcome
        /\ wireBefore' = wireBefore /\ steering.at = "idle"
    BY <1>1 DEF CodexTurn
  <2>3. turns' \in Seq(Turn) /\ Len(turns') = Len(turns) + 1 /\ \A i \in 1 .. Len(turns) : turns'[i] = turns[i]
    BY <1>t, <2>1
  <2>4. (turns \in Seq(Turn) => /\ Truncated \in Seq(Turn) /\ Len(Truncated) = Len(turns)
         /\ \A i \in 1 .. Len(turns) :
              Truncated[i] = IF truncates THEN TruncateMiddle(turns[i]) ELSE turns[i])'
    BY TruncatedIs, PTL
  <2>5. IsPrefix(wire', Truncated')
    <3>1. Len(wire) <= Len(Truncated) /\ \A i \in 1 .. Len(wire) : wire[i] = Truncated[i]
      BY <1>t, PrefixIs
    <3>2. /\ Truncated' \in Seq(Turn) /\ Len(Truncated') = Len(turns) + 1
          /\ \A i \in 1 .. Len(turns) : Truncated'[i] = Truncated[i]
      BY <1>t, <2>2, <2>3, <2>4, TruncatedIs DEF TruncateMiddle
    <3>3. Len(Truncated) = Len(turns) /\ Len(turns) \in Nat /\ Len(wire) \in Nat
      BY <1>t, TruncatedIs
    <3>4. Len(wire) <= Len(Truncated') /\ \A i \in 1 .. Len(wire) : wire[i] = Truncated'[i]
      BY <3>1, <3>2, <3>3
    <3>5. IsPrefix(wire, Truncated')
      BY <1>t, <3>2, <3>4, PrefixIs
    <3>6. QED
      BY <2>2, <3>5
  <2>6. QED
    BY <1>t, <2>2, <2>3, <2>5 DEF SteerInv, AskedSoundly, SteeredRequest
<1>2. CASE CodexRequest
  <2>1. /\ steering'.at = "arrived" /\ outcome' = Untouched /\ steering'.tools \in ToolLists
        /\ steering'.choice \in {"auto", "required", "decided"}
        /\ DOMAIN steering' = {"at", "tools", "choice", "odd", "asked"}
        /\ truncates' = truncates /\ turns' = turns /\ wire' = wire /\ wireBefore' = wireBefore
    BY <1>2 DEF CodexRequest
  <2>2. AskedSoundly' /\ Truncated' = Truncated
    BY <2>1 DEF AskedSoundly, Truncated
  <2>3. SteeredRequest'
    BY <2>1 DEF SteerInv, SteeredRequest, Untouched
  <2>4. QED
    BY <1>t, <2>1, <2>2, <2>3 DEF SteerInv
<1>3. CASE SteerPasses \/ SteerWithoutJev \/ SteerUnsure
  BY <1>3, SendKeeps DEF SteerPasses, SteerWithoutJev, SteerUnsure
<1>4. CASE SteerAsks
  <2>1. /\ steering.at = "arrived" /\ Steerable
        /\ steering' = [steering EXCEPT !.at = "asking", !.asked = StateOf(Truncated)]
        /\ truncates' = truncates /\ turns' = turns /\ wire' = wire /\ wireBefore' = wireBefore
        /\ outcome' = outcome
    BY <1>4 DEF SteerAsks
  <2>r. DOMAIN steering = {"at", "tools", "choice", "odd", "asked"}
    BY DEF SteerInv
  <2>2. Truncated # <<>>
    BY <1>t, <2>1, TruncatedIs DEF Steerable
  <2>3. StateOf(Truncated) # <<>> /\ IsSuffix(StateOf(Truncated), Truncated)
    BY <1>t, <2>2, StateIsNewest
  <2>4. /\ steering'.at = "asking" /\ steering'.asked = StateOf(Truncated)
        /\ steering'.tools = steering.tools /\ steering'.choice = steering.choice
        /\ steering'.odd = steering.odd
    BY <2>1, <2>r
  <2>5. Steerable' /\ Truncated' = Truncated
    BY <2>1, <2>4 DEF Steerable, Truncated
  <2>6. AskedSoundly'
    BY <1>t, <2>1, <2>3, <2>4, <2>5 DEF AskedSoundly
  <2>7. SteeredRequest'
    BY <2>1 DEF SteerInv, SteeredRequest
  <2>8. QED
    BY <1>t, <2>1, <2>5, <2>6, <2>7 DEF SteerInv
<1>5. CASE SteerNone
  BY <1>5, <1>t, SendKeeps DEF SteerNone, AskedSoundly, Steerable
<1>6. CASE SteerTool
  <2>1. steering.at = "asking"
    BY <1>6 DEF SteerTool
  <2>2. PICK name \in CandidateNames(steering.tools) \cup {<<"undeclared">>} :
          SendSteered(IF Forceable(steering.tools, name)
                      THEN [type |-> Candidate(steering.tools, name).type, name |-> name[1]]
                      ELSE HostChoice)
    BY <1>6 DEF SteerTool
  <2>3. CASE ~Forceable(steering.tools, name)
    BY <2>2, <2>3, SendKeeps
  <2>4. CASE Forceable(steering.tools, name)
    <3> DEFINE choice == [type |-> Candidate(steering.tools, name).type, name |-> name[1]]
    <3>1. choice.type = Candidate(steering.tools, name).type /\ choice.name = name[1]
      OBVIOUS
    <3>2. SendSteered(choice)
      BY <2>2, <2>4
    <3>3. /\ Steerable /\ steering.tools \in ToolLists
          /\ steering.asked # <<>> /\ IsSuffix(steering.asked, Truncated)
      BY <1>t, <2>1 DEF AskedSoundly
    <3>4. ~Collision(steering.tools) /\ steering.choice # "decided" /\ steering.odd = "none"
      BY <3>3 DEF Steerable
    <3>5. choice # NoTool
      BY <2>4, <3>1, <3>3, <3>4, ForcedIsOne DEF NoTool
    <3>6. LET tools == steering.tools
              so == {i \in DOMAIN tools : /\ Callable(tools[i]) /\ tools[i].name = choice.name
                                          /\ tools[i].ns \in {"", DefaultNamespace}}
          IN Cardinality(so) = 1 /\ \A i \in so : tools[i].type = choice.type
      BY <2>4, <3>1, <3>3, <3>4, ForcedIsOne
    <3> HIDE DEF choice
    <3>7. QED
      BY <3>2, <3>3, <3>4, <3>5, <3>6, SendKeeps
  <2>5. QED
    BY <2>3, <2>4
<1>7. CASE UNCHANGED steerVars
  BY <1>7, <1>t DEF steerVars, SteerInv, AskedSoundly, Steerable, SteeredRequest, Truncated
<1>8. QED
  BY <1>1, <1>2, <1>3, <1>4, <1>5, <1>6, <1>7 DEF SteerNext

LEMMA SteerInitInv == SteerInit => SteerInv
<1> SUFFICES ASSUME SteerInit PROVE SteerInv
  OBVIOUS
<1>1. turns = <<>> /\ wire = <<>> /\ wireBefore = <<>> /\ truncates \in BOOLEAN
      /\ steering = NoSteering /\ outcome = Untouched
  BY DEF SteerInit
<1>2. <<>> \in Seq(Turn) /\ Len(<<>>) = 0
  OBVIOUS
<1>3. IsPrefix(<<>>, <<>>)
  <2>1. SubSeq(<<>>, 1, 0) = <<>>
    BY SubSeqEmpty
  <2>2. QED
    BY <1>2, <2>1 DEF IsPrefix
<1>4. Truncated \in Seq(Turn) /\ IsPrefix(wire, Truncated)
  <2>1. Truncated = <<>>
    BY <1>1, <1>2, TruncatedIs
  <2>2. QED
    BY <1>1, <1>2, <1>3, <2>1
<1>5. AskedSoundly
  BY <1>1 DEF AskedSoundly, NoSteering
<1>6. SteeredRequest
  BY <1>1, <1>3 DEF SteeredRequest, Untouched
<1>7. QED
  BY <1>1, <1>2, <1>4, <1>5, <1>6 DEF SteerInv, NoSteering

(* For any tools that are declared and any history, what goes out repeats  *)
(* the history of the request before, and a request is steered only as     *)
(* Jev was asked to judge it: towards one callable tool of that name       *)
(* (codex_steer.go, codex_tool_output.go).                                 *)
THEOREM RequestsAreSteered == SteerSpec => []SteeredRequest
<1>1. SteerInv => SteeredRequest
  BY DEF SteerInv
<1>2. QED
  BY <1>1, SteerInitInv, SteerStep, PTL DEF SteerSpec

(* The histories that were sent are histories, and what is steered is one  *)
(* of the tool lists.                                                      *)
THEOREM SteerTypesCorrect == SteerSpec => []SteerTypeOK
<1>1. SteerInit => SteerInv /\ SteerTypeOK
  BY SteerInitInv DEF SteerInit, SteerTypeOK, NoSteering
<1>2. SteerInv /\ SteerTypeOK /\ [SteerNext]_steerVars => SteerInv' /\ SteerTypeOK'
  <2> SUFFICES ASSUME SteerInv, SteerTypeOK, [SteerNext]_steerVars PROVE SteerTypeOK'
    BY SteerStep
  <2>1. turns' \in Seq(Turn) /\ wire' \in Seq(Turn)
    BY SteerStep DEF SteerInv
  <2>2. ASSUME NEW choice, SendSteered(choice) PROVE SteerTypeOK'
    BY <2>1, <2>2 DEF SendSteered, NoSteering, SteerTypeOK
  <2>3. CASE CodexTurn
    BY <2>1, <2>3 DEF CodexTurn, SteerTypeOK
  <2>4. CASE CodexRequest
    BY <2>1, <2>4 DEF CodexRequest, SteerTypeOK
  <2>5. CASE SteerAsks
    <3>1. steering'.at = "asking" /\ steering'.tools = steering.tools
      BY <2>5 DEF SteerAsks, SteerInv
    <3>2. QED
      BY <2>1, <2>5, <3>1 DEF SteerAsks, SteerTypeOK
  <2>6. CASE UNCHANGED steerVars
    BY <2>1, <2>6 DEF steerVars, SteerTypeOK
  <2>7. CASE SteerPasses \/ SteerWithoutJev \/ SteerUnsure \/ SteerNone \/ SteerTool
    BY <2>2, <2>7 DEF SteerPasses, SteerWithoutJev, SteerUnsure, SteerNone, SteerTool
  <2>8. QED
    BY <2>3, <2>4, <2>5, <2>6, <2>7 DEF SteerNext
<1>3. QED
  BY <1>1, <1>2, PTL DEF SteerSpec

-----------------------------------------------------------------------------
(* Devin Connect frames, for any frames and any plan. The slots of the     *)
(* messages are the positions that can be lifted, in their order; so to go *)
(* from a message to its slot and back loses nothing.                      *)

Messages(items) == {i \in DOMAIN items : Liftable(items[i])}

(* A message is numbered by how many messages there are up to it, and its  *)
(* slot is found again under this number.                                  *)
LEMMA SlotOfMessage ==
  ASSUME NEW items \in Seq(Item), NEW msgs \in SUBSET (DOMAIN Lifted(items))
  PROVE  {Lifted(items)[k] : k \in msgs} = {i \in Messages(items) : Rank(Messages(items), i) \in msgs}
<1> DEFINE I == Messages(items)
           s == [i \in DOMAIN items |-> i]
<1>1. DOMAIN items = 1 .. Len(items) /\ Len(items) \in Nat
  OBVIOUS
<1>2. s \in Seq(Nat) /\ DOMAIN s = DOMAIN items /\ I \in SUBSET (DOMAIN s)
  BY <1>1 DEF Messages
<1>3. Lifted(items) = Picked(s, I)
  BY DEF Lifted, Messages
<1> HIDE DEF s
<1>4. /\ DOMAIN Picked(s, I) = 1 .. Cardinality(I)
      /\ \A k \in 1 .. Cardinality(I) : Nth(I, k) \in I /\ Picked(s, I)[k] = s[Nth(I, k)]
  BY <1>2, PickedIs DEF Picked
<1>5. \A k \in 1 .. Cardinality(I) : Lifted(items)[k] = Nth(I, k)
  BY <1>2, <1>3, <1>4 DEF s
<1>6. /\ \A i \in I : Rank(I, i) \in 1 .. Cardinality(I) /\ Nth(I, Rank(I, i)) = i
      /\ \A k \in 1 .. Cardinality(I) : Nth(I, k) \in I /\ Rank(I, Nth(I, k)) = k
  BY <1>1, Ranked DEF Messages
<1>7. msgs \subseteq 1 .. Cardinality(I)
  BY <1>3, <1>4
<1> HIDE DEF I
<1>8. {Lifted(items)[k] : k \in msgs} = {i \in I : Rank(I, i) \in msgs}
  BY <1>5, <1>6, <1>7
<1>9. QED
  BY <1>8 DEF I

(* The newest definition of a name has the name.                           *)
LEMMA DefinitionIs ==
  ASSUME NEW T, NEW catalog \in Seq(T), NEW name, \E i \in DOMAIN catalog : catalog[i].name = name
  PROVE  /\ Definition(catalog, name).name = name
         /\ \E i \in DOMAIN catalog : Definition(catalog, name) = catalog[i]
<1> DEFINE S == {i \in DOMAIN catalog : catalog[i].name = name}
<1>1. DOMAIN catalog = 1 .. Len(catalog) /\ Len(catalog) \in Nat
  OBVIOUS
<1>2. S \in SUBSET (0 .. Len(catalog)) /\ S # {}
  BY <1>1
<1>3. PICK n \in S : \A m \in S : m <= n
  BY <1>1, <1>2, GreatestExists
<1>4. \E i \in DOMAIN catalog :
        catalog[i].name = name /\ \A k \in DOMAIN catalog : catalog[k].name = name => k <= i
  BY <1>3
<1>5. QED
  BY <1>4 DEF Definition

(* The names of a catalogue are those of its entries that have one.        *)
LEMMA NamesAre ==
  ASSUME NEW T, NEW catalog \in Seq(T)
  PROVE  /\ ItemNames(catalog) \in Seq({catalog[i].name : i \in DOMAIN catalog})
         /\ \A k \in DOMAIN ItemNames(catalog) : \E i \in DOMAIN catalog :
              ItemNames(catalog)[k] = catalog[i].name /\ catalog[i].name # None
<1> DEFINE I == {i \in DOMAIN catalog : catalog[i].name # None}
           named == Picked(catalog, I)
           N == {catalog[i].name : i \in DOMAIN catalog}
<1>1. I \in SUBSET (DOMAIN catalog) /\ Len(catalog) \in Nat
  OBVIOUS
<1>i. \A i \in I : i \in DOMAIN catalog /\ catalog[i].name # None
  OBVIOUS
<1> HIDE DEF I
<1>2. /\ named \in Seq(T) /\ Len(named) = Cardinality(I) /\ Cardinality(I) \in Nat
      /\ \A k \in 1 .. Cardinality(I) : Nth(I, k) \in I /\ named[k] = catalog[Nth(I, k)]
  <2>1. Cardinality(I) \in 0 .. Len(catalog)
    BY <1>1, PickedIs
  <2>2. QED
    BY <1>1, <2>1, PickedIs
<1>3. ItemNames(catalog) = [k \in DOMAIN named |-> named[k].name]
  BY DEF ItemNames, I
<1>4. DOMAIN named = 1 .. Cardinality(I)
  BY DEF Picked
<1> HIDE DEF named
<1>5. \A k \in 1 .. Cardinality(I) : \E i \in DOMAIN catalog :
        ItemNames(catalog)[k] = catalog[i].name /\ catalog[i].name # None
  <2> TAKE k \in 1 .. Cardinality(I)
  <2>1. Nth(I, k) \in DOMAIN catalog /\ catalog[Nth(I, k)].name # None
    BY <1>2, <1>i
  <2>2. ItemNames(catalog)[k] = catalog[Nth(I, k)].name
    BY <1>2, <1>3, <1>4
  <2>3. QED
    BY <2>1, <2>2
<1>6. ItemNames(catalog) \in [1 .. Cardinality(I) -> N]
  BY <1>3, <1>4, <1>5
<1>7. ItemNames(catalog) \in Seq(N)
  BY <1>2, <1>6
<1>8. QED
  BY <1>3, <1>4, <1>5, <1>7

(* Tools that are written back under kept names have these names.          *)
LEMMA CatalogIsKept ==
  ASSUME NEW T, NEW catalog \in Seq(T), NEW N, NEW names \in Seq(N),
         \A k \in DOMAIN names : \E i \in DOMAIN catalog :
           names[k] = catalog[i].name /\ catalog[i].name # None
  PROVE  /\ ItemNames(CatalogWritten(catalog, names)) = names
         /\ Range(CatalogWritten(catalog, names)) \subseteq Range(catalog)
<1> DEFINE w == CatalogWritten(catalog, names)
           I == {k \in DOMAIN w : w[k].name # None}
<1>1. DOMAIN names = 1 .. Len(names) /\ Len(names) \in Nat /\ names = [k \in DOMAIN names |-> names[k]]
  OBVIOUS
<1>2. w = [k \in DOMAIN names |-> Definition(catalog, names[k])]
  BY DEF CatalogWritten
<1>3. ASSUME NEW k \in DOMAIN names
      PROVE  w[k].name = names[k] /\ names[k] # None /\ w[k] \in Range(catalog)
  <2>1. /\ Definition(catalog, names[k]).name = names[k]
        /\ \E i \in DOMAIN catalog : Definition(catalog, names[k]) = catalog[i]
    BY DefinitionIs
  <2>2. names[k] # None
    OBVIOUS
  <2>3. QED
    BY <1>2, <2>1, <2>2 DEF Range
<1>4. DOMAIN w = DOMAIN names /\ w \in Seq(Range(catalog))
  BY <1>1, <1>2, <1>3
<1>5. I = DOMAIN w
  BY <1>3, <1>4
<1>6. Picked(w, I) = w
  BY <1>4, <1>5, PickedAll
<1>7. ItemNames(w) = [k \in DOMAIN w |-> w[k].name]
  BY <1>6 DEF ItemNames
<1> HIDE DEF w
<1>8. ItemNames(w) = names
  BY <1>1, <1>3, <1>4, <1>7
<1>9. Range(w) \subseteq Range(catalog)
  BY <1>3, <1>4 DEF Range
<1>10. QED
  BY <1>8, <1>9 DEF w

(* What a plan may say of a frame.                                         *)
LEMMA PlanIs ==
  ASSUME NEW frame \in Frames, NEW plan \in Plans(frame)
  PROVE  /\ frame.json # <<>> \/ ~Lifts(frame) \/ ~Differs(plan) => plan.drop = {} /\ plan.shorten = {}
         /\ plan.drop \cup plan.shorten \subseteq DOMAIN Lifted(frame.history)
         /\ frame.json = <<>> /\ Lifts(frame) =>
              \/ plan.names = ItemNames(frame.catalog)
              \/ \E keep : plan.names = Those(ItemNames(frame.catalog), keep)
<1>1. CASE frame.json # <<>>
  <2>1. plan \in JSONPlans(frame)
    BY <1>1 DEF Plans
  <2>2. plan.drop = {} /\ plan.shorten = {}
    <3> DEFINE may == IF HasChat(frame.json) THEN BOOLEAN ELSE {FALSE}
    <3>1. plan \in {PlanOf(said[1], said[2], <<>>, {}, {}) : said \in may \X may}
      BY <2>1, Zenon DEF JSONPlans
    <3> HIDE DEF may
    <3>2. QED
      BY <3>1 DEF PlanOf
  <2>3. QED
    BY <1>1, <2>2
<1>2. CASE frame.json = <<>> /\ ~Lifts(frame)
  <2>1. plan = PlanOf(FALSE, FALSE, <<>>, {}, {})
    BY <1>2 DEF Plans
  <2>2. plan.drop = {} /\ plan.shorten = {}
    BY <2>1 DEF PlanOf
  <2>3. QED
    BY <1>2, <2>2
<1>3. CASE frame.json = <<>> /\ Lifts(frame)
  <2> DEFINE msgs == IF HistoryLifts(frame.history) THEN DOMAIN Lifted(frame.history) ELSE {}
             all == ItemNames(frame.catalog)
             keeps == {Those(all, keep) : keep \in SUBSET Range(all)}
  <2>1. plan \in LiftedPlans(frame)
    BY <1>3 DEF Plans
  <2>2. msgs \subseteq DOMAIN Lifted(frame.history)
    OBVIOUS
  <2>3. \A names \in keeps : \E keep : names = Those(all, keep)
    OBVIOUS
  <2> DEFINE same == SamePlans(all)
             fewer == FewerPlans(keeps)
             shorter == ShorterPlans(keeps, msgs)
  <2>u. LiftedPlans(frame) = same \cup fewer \cup shorter
    BY Zenon DEF LiftedPlans
  <2>4. plan \in same \/ plan \in fewer \/ plan \in shorter
    BY <2>1, <2>u
  <2> HIDE DEF msgs, keeps
  <2>5. CASE plan \in same
    <3>1. plan.drop = {} /\ plan.shorten = {} /\ plan.names = all
      BY <2>5 DEF PlanOf, SamePlans
    <3>2. QED
      BY <3>1
  <2>6. CASE plan \in fewer
    <3>1. plan.drop = {} /\ plan.shorten = {} /\ plan.names \in keeps
      BY <2>6 DEF PlanOf, FewerPlans
    <3>2. QED
      BY <2>3, <3>1
  <2>7. CASE plan \in shorter
    <3>1. /\ plan.drop \subseteq msgs /\ plan.shorten \subseteq msgs /\ plan.names \in keeps
          /\ plan.changed
      BY <2>7 DEF PlanOf, ShorterPlans
    <3>2. Differs(plan)
      BY <3>1 DEF Differs
    <3>3. QED
      BY <1>3, <2>2, <2>3, <3>1, <3>2
  <2>8. QED
    BY <2>4, <2>5, <2>6, <2>7
<1>4. QED
  BY <1>1, <1>2, <1>3

(* SlotsKept of a frame that came and what went out for it.                *)
Keeps(came, plan, went) ==
  LET nth(i) == Cardinality({j \in 1 .. i : Liftable(came.history[j])})
      ofMsgs(msgs) == {i \in DOMAIN came.history : Liftable(came.history[i]) /\ nth(i) \in msgs}
  IN /\ Len(went.history) = Len(came.history)
     /\ \A i \in DOMAIN came.history :
          /\ i \notin ofMsgs(plan.drop \cup plan.shorten) => went.history[i] = came.history[i]
          /\ i \in ofMsgs(plan.drop) /\ came.history[i].text = "long" =>
               went.history[i] = [came.history[i] EXCEPT !.text = "stub"]
     /\ Lifts(came) /\ Differs(plan) /\ came.json = <<>> =>
          /\ ItemNames(went.catalog) = plan.names
          /\ Range(went.catalog) \subseteq Range(came.catalog)

LEMMA WrittenKeeps ==
  ASSUME NEW frame \in Frames, NEW plan \in Plans(frame)
  PROVE  Keeps(frame, plan, FrameWritten(frame, plan))
<1> DEFINE went == FrameWritten(frame, plan)
           items == frame.history
           I == Messages(items)
           nth(i) == Cardinality({j \in 1 .. i : Liftable(items[j])})
           ofMsgs(msgs) == {i \in DOMAIN items : Liftable(items[i]) /\ nth(i) \in msgs}
<1>1. /\ DOMAIN frame = {"json", "history", "catalog"}
      /\ items \in Seq(Item) /\ frame.catalog \in Seq(Range(frame.catalog))
      /\ DOMAIN items = 1 .. Len(items) /\ Len(items) \in Nat
  BY FramesAssumption
<1>2. \A i \in DOMAIN items : nth(i) = Rank(I, i)
  <2> TAKE i \in DOMAIN items
  <2>1. {j \in 1 .. i : Liftable(items[j])} = {j \in I : j <= i}
    BY <1>1 DEF Messages
  <2>2. QED
    BY <2>1 DEF Rank
<1>3. \A msgs : ofMsgs(msgs) = {i \in I : Rank(I, i) \in msgs}
  BY <1>2 DEF Messages
<1>4. CASE frame.json # <<>> \/ ~Lifts(frame) \/ ~Differs(plan)
  <2>1. plan.drop = {} /\ plan.shorten = {}
    BY <1>4, PlanIs
  <2>2. went.history = items
    BY <1>1, <1>4 DEF FrameWritten
  <2>3. QED
    BY <1>4, <2>1, <2>2 DEF Keeps
<1>5. CASE frame.json = <<>> /\ Lifts(frame) /\ Differs(plan)
  <2>1. went = [frame EXCEPT !.catalog = CatalogWritten(@, plan.names), !.history = HistoryWritten(@, plan)]
    BY <1>5 DEF FrameWritten
  <2>2. went.history = HistoryWritten(items, plan) /\ went.catalog = CatalogWritten(frame.catalog, plan.names)
    BY <1>1, <2>1
  <2>3. plan.drop \subseteq DOMAIN Lifted(items) /\ plan.shorten \subseteq DOMAIN Lifted(items)
    BY PlanIs
  <2>4. \A msgs \in SUBSET (DOMAIN Lifted(items)) : {Lifted(items)[k] : k \in msgs} = ofMsgs(msgs)
    BY <1>1, <1>3, SlotOfMessage
  <2>5. went.history = [i \in DOMAIN items |->
                          IF i \in ofMsgs(plan.drop) THEN Overwritten(items[i], "stub")
                          ELSE IF i \in ofMsgs(plan.shorten) THEN Overwritten(items[i], "cut")
                          ELSE items[i]]
    BY <2>2, <2>3, <2>4 DEF HistoryWritten
  <2>6. ofMsgs(plan.drop \cup plan.shorten) = ofMsgs(plan.drop) \cup ofMsgs(plan.shorten)
    OBVIOUS
  <2>7. \A item : item.text = "long" => Overwritten(item, "stub") = [item EXCEPT !.text = "stub"]
    BY DEF Overwritten
  <2>8. /\ ItemNames(went.catalog) = plan.names
        /\ Range(went.catalog) \subseteq Range(frame.catalog)
    <3> DEFINE all == ItemNames(frame.catalog)
               N == {frame.catalog[i].name : i \in DOMAIN frame.catalog}
    <3>1. /\ all \in Seq(N)
          /\ \A k \in DOMAIN all : \E i \in DOMAIN frame.catalog :
               all[k] = frame.catalog[i].name /\ frame.catalog[i].name # None
      BY <1>1, NamesAre
    <3> HIDE DEF all, N
    <3>2. plan.names = all \/ \E keep : plan.names = Those(all, keep)
      BY <1>5, PlanIs DEF all
    <3>3. ASSUME NEW keep
          PROVE  /\ Those(all, keep) \in Seq(N)
                 /\ \A k \in DOMAIN Those(all, keep) : \E j \in DOMAIN all : Those(all, keep)[k] = all[j]
      <4> DEFINE J == {j \in DOMAIN all : all[j] \in keep}
      <4>1. J \in SUBSET (DOMAIN all)
        OBVIOUS
      <4> HIDE DEF J
      <4>2. /\ Picked(all, J) \in Seq(N) /\ Len(Picked(all, J)) = Cardinality(J)
            /\ \A k \in 1 .. Cardinality(J) : Nth(J, k) \in J /\ Picked(all, J)[k] = all[Nth(J, k)]
        BY <3>1, <4>1, PickedIs
      <4>3. Those(all, keep) = Picked(all, J) /\ DOMAIN Picked(all, J) = 1 .. Cardinality(J)
        BY DEF Those, J, Picked
      <4>4. QED
        BY <4>1, <4>2, <4>3
    <3>4. /\ plan.names \in Seq(N)
          /\ \A k \in DOMAIN plan.names : \E j \in DOMAIN all : plan.names[k] = all[j]
      BY <3>1, <3>2, <3>3
    <3>5. \A k \in DOMAIN plan.names : \E i \in DOMAIN frame.catalog :
            plan.names[k] = frame.catalog[i].name /\ frame.catalog[i].name # None
      BY <3>1, <3>4
    <3> DEFINE catalog == frame.catalog  names == plan.names
    <3>6. catalog \in Seq(Range(frame.catalog)) /\ went.catalog = CatalogWritten(catalog, names)
      BY <1>1, <2>2
    <3>7. /\ names \in Seq(N)
          /\ \A k \in DOMAIN names : \E i \in DOMAIN catalog :
               names[k] = catalog[i].name /\ catalog[i].name # None
      BY <3>4, <3>5
    <3> HIDE DEF catalog, names, went
    <3>8. /\ ItemNames(CatalogWritten(catalog, names)) = names
          /\ Range(CatalogWritten(catalog, names)) \subseteq Range(catalog)
      BY ONLY <3>6, <3>7, CatalogIsKept
    <3>9. QED
      BY <3>6, <3>8 DEF catalog, names
  <2>9. Len(went.history) = Len(items)
    BY <1>1, <2>5
  <2> HIDE DEF went, ofMsgs
  <2>10. \A i \in DOMAIN items :
           /\ i \notin ofMsgs(plan.drop \cup plan.shorten) => went.history[i] = items[i]
           /\ i \in ofMsgs(plan.drop) /\ items[i].text = "long" =>
                went.history[i] = [items[i] EXCEPT !.text = "stub"]
    BY <2>5, <2>6, <2>7
  <2>11. QED
    BY <2>8, <2>9, <2>10 DEF Keeps, went, ofMsgs
<1>6. QED
  BY <1>4, <1>5

(* For any frames: every item stays in its slot, what was no message or is *)
(* not in the plan as it came, and the tools are the kept ones under their *)
(* own definitions (writebackDevinHistory, keptToolRaws).                  *)
THEOREM SlotsAreKept == FramesSpec => []SlotsKept
<1>1. FramesInit => SlotsKept
  BY DEF FramesInit, SlotsKept
<1>2. SlotsKept /\ [FramesNext]_frameVars => SlotsKept'
  <2> SUFFICES ASSUME SlotsKept, [FramesNext]_frameVars PROVE SlotsKept'
    OBVIOUS
  <2>1. ASSUME NEW frame \in Frames, NEW plan \in Plans(frame), PassFrame(frame, plan)
        PROVE  SlotsKept'
    <3>1. passed' = [came |-> frame, plan |-> plan, went |-> FrameWritten(frame, plan)]
      BY <2>1 DEF PassFrame
    <3>2. Keeps(passed'.came, passed'.plan, passed'.went)
      BY <3>1, WrittenKeeps
    <3>3. QED
      BY <3>2 DEF SlotsKept, Keeps
  <2>2. ASSUME NEW why, PassTail(why) PROVE SlotsKept'
    BY <2>2 DEF PassTail, SlotsKept
  <2>3. CASE UNCHANGED frameVars
    BY <2>3 DEF frameVars, SlotsKept
  <2>4. QED
    BY <2>1, <2>2, <2>3 DEF FramesNext
<1>3. QED
  BY <1>1, <1>2, PTL DEF FramesSpec

(* A frame that was passed is one that came, and what an event says of it  *)
(* is a number of frames within the bound and whether one was changed.     *)
THEOREM FramesTypesCorrect == FramesSpec => []FramesTypeOK
<1>1. FramesInit => FramesTypeOK
  BY FramesAssumption DEF FramesInit, FramesTypeOK
<1>2. FramesTypeOK /\ [FramesNext]_frameVars => FramesTypeOK'
  <2> SUFFICES ASSUME FramesTypeOK, [FramesNext]_frameVars PROVE FramesTypeOK'
    OBVIOUS
  <2>1. ASSUME NEW frame \in Frames, NEW plan \in Plans(frame), PassFrame(frame, plan)
        PROVE  FramesTypeOK'
    <3>1. plan.changed \in BOOLEAN
      <4>1. \A c, a, names, drop, shorten : PlanOf(c, a, names, drop, shorten).changed = c
        BY DEF PlanOf
      <4>2. \/ plan \in JSONPlans(frame) \/ plan \in LiftedPlans(frame)
            \/ plan = PlanOf(FALSE, FALSE, <<>>, {}, {})
        BY Zenon DEF Plans
      <4>3. CASE plan \in JSONPlans(frame)
        <5>1. PICK said \in BOOLEAN \X BOOLEAN : plan = PlanOf(said[1], said[2], <<>>, {}, {})
          BY <4>3 DEF JSONPlans
        <5>2. QED
          BY <4>1, <5>1
      <4>4. CASE plan \in LiftedPlans(frame)
        <5>1. \E names : plan \in SamePlans(names) \/ plan \in FewerPlans(names)
                         \/ \E msgs : plan \in ShorterPlans(names, msgs)
          BY <4>4, Zenon DEF LiftedPlans
        <5>2. PICK names : plan \in SamePlans(names) \/ plan \in FewerPlans(names)
                           \/ \E msgs : plan \in ShorterPlans(names, msgs)
          BY <5>1
        <5>3. CASE plan \in SamePlans(names)
          <6>1. PICK a : plan = PlanOf(FALSE, a, names, {}, {})
            BY <5>3 DEF SamePlans
          <6>2. plan.changed = FALSE
            BY <6>1 DEF PlanOf
          <6>3. QED
            BY <6>2
        <5>4. CASE plan \in FewerPlans(names)
          <6>1. PICK a, kept : plan = PlanOf(TRUE, a, kept, {}, {})
            BY <5>4 DEF FewerPlans, PlanOf
          <6>2. plan.changed = TRUE
            BY <6>1 DEF PlanOf
          <6>3. QED
            BY <6>2
        <5>5. CASE \E msgs : plan \in ShorterPlans(names, msgs)
          <6>1. PICK kept, drop, shorten : plan = PlanOf(TRUE, FALSE, kept, drop, shorten)
            BY <5>5 DEF ShorterPlans, PlanOf
          <6>2. plan.changed = TRUE
            BY <6>1 DEF PlanOf
          <6>3. QED
            BY <6>2
        <5>6. QED
          BY <5>2, <5>3, <5>4, <5>5
      <4>5. CASE plan = PlanOf(FALSE, FALSE, <<>>, {}, {})
        <5>1. plan.changed = FALSE
          BY <4>5 DEF PlanOf
        <5>2. QED
          BY <5>1
      <4>6. QED
        BY <4>2, <4>3, <4>4, <4>5
    <3>2. passed'.came = frame /\ tail' = tail
      BY <2>1 DEF PassFrame
    <3>3. /\ noted.frames \in 0 .. FrameMax /\ noted.frames < FrameMax /\ FrameMax \in Nat
          /\ noted' = [frames |-> noted.frames + 1, changed |-> plan.changed]
      BY <2>1, FramesAssumption DEF PassFrame, FramesTypeOK
    <3>4. noted' \in [frames : 0 .. FrameMax, changed : BOOLEAN]
      BY <3>1, <3>3
    <3>5. QED
      BY <3>2, <3>4 DEF FramesTypeOK
  <2>2. ASSUME NEW why \in {"ended", "cut", "oversized"}, PassTail(why) PROVE FramesTypeOK'
    BY <2>2 DEF PassTail, FramesTypeOK
  <2>3. CASE UNCHANGED frameVars
    BY <2>3 DEF frameVars, FramesTypeOK
  <2>4. QED
    BY <2>1, <2>2, <2>3 DEF FramesNext
<1>3. QED
  BY <1>1, <1>2, PTL DEF FramesSpec

-----------------------------------------------------------------------------
(* The state under a budget, for histories of any shape and any sizes. The *)
(* rows of a stage are reduced in one order with the pinned ones last; of  *)
(* pinned rows only long texts are abridged, none is collapsed, compacted  *)
(* or left out, and a history is too large only if its smallest form does  *)
(* not fit.                                                                *)

Shown == {"full", "inputs200", "inputs60"}

LongTexts == {i \in DOMAIN hist : hist[i].kind = "text" /\ hist[i].long}
OldTexts == {i \in Old : hist[i].kind = "text"}
OldCalls == {i \in Old : hist[i].kind # "text"}

(* Rows of a stage are reduced in its order.                               *)
InOrder ==
  \A i \in LongTexts, j \in LongTexts :
    i \in todo /\ j \notin todo => ~Precedes(i, j)

(* How far the rows have been reduced when a stage is reached.             *)
Abridged == \A i \in LongTexts : rows[i] # "full"
PinnedStand == \A i \in DOMAIN hist : Pinned(i) => rows[i] \in Shown \cup {"abridged"}

(* At least this much does not fit when a history is too large.            *)
Smallest ==
  [i \in DOMAIN hist |-> IF Pinned(i) THEN rows[i]
                         ELSE IF hist[i].kind = "text" THEN "left_out" ELSE "compacted"]

(* The tokens of rows, with the history they are of as an argument.        *)
TokensOf(h, r) == FoldLeft(LAMBDA sum, i : sum + Size[h[i]][r[i]], 0, [i \in DOMAIN r |-> i])

FitInv ==
  /\ hist \in Seq(Shape)
  /\ stage \in {"none", "full", "inputs<=200", "inputs<=60", "texts abridged", "old messages collapsed",
                "old calls compacted", "old messages left out", "too_large"}
  /\ stage = "none" => rows = <<>> /\ todo = {}
  /\ stage # "none" => rows \in [DOMAIN hist -> Level]
  /\ stage \in {"full", "inputs<=200", "inputs<=60"} =>
       todo = {} /\ \A i \in DOMAIN hist : rows[i] \in Shown
  /\ stage = "texts abridged" =>
       /\ todo \subseteq LongTexts /\ InOrder
       /\ \A i \in DOMAIN hist : rows[i] \in Shown \/ (rows[i] = "abridged" /\ i \in LongTexts \ todo)
       /\ \A i \in LongTexts \ todo : rows[i] = "abridged"
  /\ stage = "old messages collapsed" =>
       /\ todo \subseteq OldTexts
       /\ \A i \in DOMAIN hist : rows[i] \in Shown \cup {"abridged", "collapsed"}
  /\ stage = "old calls compacted" =>
       /\ todo \subseteq OldCalls
       /\ \A i \in DOMAIN hist : rows[i] \in Shown \cup {"abridged", "collapsed", "compacted"}
       /\ \A i \in OldCalls \ todo : rows[i] = "compacted"
  /\ stage = "old messages left out" =>
       /\ todo \subseteq OldTexts
       /\ \A i \in DOMAIN hist : rows[i] = "left_out" => i \in OldTexts
       /\ \A i \in OldCalls : rows[i] = "compacted"
       /\ \A i \in OldTexts \ todo : rows[i] = "left_out"
  /\ stage = "too_large" => todo = {} /\ ~Fits(Smallest)
  /\ stage \in {"old messages collapsed", "old calls compacted", "old messages left out", "too_large"} =>
       Abridged /\ PinnedStand

LEMMA FitIsShown == FitInv => StateShowsCalls
<1> SUFFICES ASSUME FitInv PROVE StateShowsCalls
  OBVIOUS
<1>1. CASE stage = "none"
  BY <1>1 DEF FitInv, StateShowsCalls
<1>2. CASE stage # "none"
  <2>1. DOMAIN rows = DOMAIN hist /\ \A i \in DOMAIN hist : i \in Int
    <3>1. rows \in [DOMAIN hist -> Level] /\ hist \in Seq(Shape)
      BY <1>2 DEF FitInv
    <3>2. QED
      BY <3>1
  <2>2. ASSUME NEW i \in DOMAIN hist, rows[i] = "left_out" PROVE hist[i].kind = "text" \/ stage = "too_large"
    BY <1>2, <2>2 DEF FitInv, Shown, OldTexts
  <2>3. ASSUME NEW i \in DOMAIN hist, Pinned(i) PROVE rows[i] \notin {"collapsed", "compacted", "left_out"}
    BY <1>2, <2>3 DEF FitInv, Shown, PinnedStand
  <2>4. ASSUME NEW i \in DOMAIN hist, Pinned(i), rows[i] = "abridged",
               NEW j \in DOMAIN hist, hist[j].kind = "text", hist[j].long, ~Pinned(j)
        PROVE  rows[j] # "full"
    <3>1. j \in LongTexts
      BY <2>4 DEF LongTexts
    <3>2. CASE stage = "texts abridged"
      <4>1. i \in LongTexts /\ i \notin todo
        BY <2>4, <3>2 DEF FitInv, Shown
      <4>2. Precedes(j, i)
        BY <2>4 DEF Precedes
      <4>3. j \notin todo
        BY <3>1, <3>2, <4>1, <4>2 DEF FitInv, InOrder
      <4>4. QED
        BY <3>1, <3>2, <4>3 DEF FitInv
    <3>3. CASE stage \in {"full", "inputs<=200", "inputs<=60"}
      BY <2>4, <3>3 DEF FitInv, Shown
    <3>4. CASE stage \notin {"none", "full", "inputs<=200", "inputs<=60", "texts abridged"}
      BY <3>1, <3>4 DEF FitInv, Abridged
    <3>5. QED
      BY <1>2, <3>2, <3>3, <3>4
  <2>5. stage = "too_large" => ~Fits(Smallest)
    BY DEF FitInv
  <2>6. QED
    BY <2>1, <2>2, <2>3, <2>4, <2>5 DEF StateShowsCalls, Smallest
<1>3. QED
  BY <1>1, <1>2

LEMMA ForemostIs ==
  ASSUME NEW n \in Nat, NEW is \in SUBSET (1 .. n), is # {}
  PROVE  Foremost(is) \in is /\ \A j \in is : Precedes(Foremost(is), j)
<1>1. \E i \in is : \A j \in is : Precedes(i, j)
  <2>1. CASE \A i \in is : Pinned(i)
    <3>1. PICK i \in is : \A j \in is : i <= j
      BY LeastExists
    <3>2. QED
      BY <2>1, <3>1 DEF Precedes
  <2>2. CASE \E i \in is : ~Pinned(i)
    <3> DEFINE S == {i \in is : ~Pinned(i)}
    <3>1. S \in SUBSET Nat /\ S # {}
      <4>1. is \subseteq Nat /\ S \subseteq is
        OBVIOUS
      <4>2. QED
        BY <2>2, <4>1
    <3>2. PICK i \in S : \A j \in S : i <= j
      BY <3>1, LeastExists
    <3>3. QED
      BY <3>2 DEF Precedes
  <2>3. QED
    BY <2>1, <2>2
<1>2. QED
  BY <1>1 DEF Foremost

LEMMA ReduceKeeps == FitInv /\ ReduceRow => FitInv'
<1> SUFFICES ASSUME FitInv, ReduceRow PROVE FitInv'
  OBVIOUS
<1> DEFINE f == Foremost(todo)
<1>1. /\ todo # {} /\ rows' = [rows EXCEPT ![f] = To(stage)]
      /\ todo' = todo \ {f} /\ hist' = hist /\ stage' = stage
  BY DEF ReduceRow
<1>2. /\ hist \in Seq(Shape) /\ Len(hist) \in Nat /\ DOMAIN hist = 1 .. Len(hist)
      /\ todo \subseteq DOMAIN hist
      /\ stage \in {"texts abridged", "old messages collapsed", "old calls compacted",
                    "old messages left out"}
  <2>1. hist \in Seq(Shape)
    BY DEF FitInv
  <2>2. stage \in {"texts abridged", "old messages collapsed", "old calls compacted",
                  "old messages left out"}
    BY <1>1 DEF FitInv
  <2>3. todo \subseteq LongTexts \/ todo \subseteq OldTexts \/ todo \subseteq OldCalls
    BY <2>2 DEF FitInv
  <2>4. todo \subseteq DOMAIN hist
    BY <2>3 DEF LongTexts, OldTexts, OldCalls, Old
  <2>5. Len(hist) \in Nat /\ DOMAIN hist = 1 .. Len(hist)
    BY <2>1
  <2>6. QED
    BY <2>1, <2>2, <2>4, <2>5
<1>3. f \in todo /\ \A j \in todo : Precedes(f, j)
  BY <1>1, <1>2, ForemostIs
<1> HIDE DEF f
<1>4. rows \in [DOMAIN hist -> Level] /\ To(stage) \in Level
  BY <1>2 DEF FitInv, To, Level
<1>5. /\ rows' \in [DOMAIN hist -> Level] /\ rows'[f] = To(stage)
      /\ \A i \in DOMAIN hist : i # f => rows'[i] = rows[i]
  BY <1>1, <1>2, <1>3, <1>4
<1>6. /\ LongTexts' = LongTexts /\ OldTexts' = OldTexts /\ OldCalls' = OldCalls
      /\ \A i : Pinned(i)' <=> Pinned(i)
      /\ \A i, j : Precedes(i, j)' <=> Precedes(i, j)
  BY <1>1 DEF LongTexts, OldTexts, OldCalls, Old, Pinned, Precedes
<1>7. CASE stage = "texts abridged"
  <2>1. todo \subseteq LongTexts /\ todo' \subseteq LongTexts /\ To(stage) = "abridged"
    BY <1>1, <1>7 DEF FitInv, To
  <2>2. InOrder'
    <3> SUFFICES ASSUME NEW i \in LongTexts, NEW j \in LongTexts, i \in todo', j \notin todo'
                 PROVE  ~Precedes(i, j)
      BY <1>6 DEF InOrder
    <3>1. CASE j \notin todo
      BY <1>1, <1>7, <3>1 DEF FitInv, InOrder
    <3>2. CASE j = f
      <4>1. Precedes(j, i) /\ i # j
        BY <1>1, <1>3, <3>2
      <4>i. i \in Int /\ j \in Int
        <5>1. i \in DOMAIN hist /\ j \in DOMAIN hist
          BY DEF LongTexts
        <5>2. i \in 1 .. Len(hist) /\ j \in 1 .. Len(hist) /\ Len(hist) \in Nat
          BY ONLY <5>1, <1>2
        <5>3. QED
          BY ONLY <5>2
      <4>2. QED
        BY <4>1, <4>i DEF Precedes
    <3>3. QED
      BY <1>1, <3>1, <3>2
  <2>3. \A i \in DOMAIN hist : rows'[i] \in Shown \/ (rows'[i] = "abridged" /\ i \in LongTexts \ todo')
    BY <1>1, <1>3, <1>5, <1>7, <2>1 DEF FitInv
  <2>4. \A i \in LongTexts \ todo' : rows'[i] = "abridged"
    BY <1>1, <1>3, <1>5, <1>7, <2>1 DEF FitInv, LongTexts
  <2>5. QED
    BY <1>1, <1>2, <1>5, <1>6, <1>7, <2>1, <2>2, <2>3, <2>4 DEF FitInv, InOrder
<1>8. CASE stage # "texts abridged"
  <2>1. todo \subseteq Old /\ ~Pinned(f) /\ To(stage) # "full"
    BY <1>2, <1>3, <1>8 DEF FitInv, OldTexts, OldCalls, Old, To
  <2>2. Abridged' /\ PinnedStand'
    <3>1. Abridged /\ PinnedStand
      BY <1>2, <1>8 DEF FitInv
    <3>2. Abridged'
      <4> SUFFICES ASSUME NEW i \in LongTexts PROVE rows'[i] # "full"
        BY <1>6 DEF Abridged
      <4>1. i \in DOMAIN hist /\ rows[i] # "full"
        BY <3>1 DEF Abridged, LongTexts
      <4>2. QED
        BY <1>5, <2>1, <4>1
    <3>3. PinnedStand'
      <4> SUFFICES ASSUME NEW i \in DOMAIN hist, Pinned(i) PROVE rows'[i] \in Shown \cup {"abridged"}
        BY <1>1, <1>6 DEF PinnedStand
      <4>1. QED
        BY <1>5, <2>1, <3>1 DEF PinnedStand
    <3>4. QED
      BY <3>2, <3>3
  <2>3. CASE stage = "old messages collapsed"
    <3>1. To(stage) = "collapsed" /\ todo \subseteq OldTexts /\ todo' \subseteq OldTexts
      BY <1>1, <2>3 DEF FitInv, To
    <3>2. \A i \in DOMAIN hist : rows'[i] \in Shown \cup {"abridged", "collapsed"}
      BY <1>5, <2>3, <3>1 DEF FitInv
    <3>3. QED
      BY <1>1, <1>2, <1>5, <1>6, <2>2, <2>3, <3>1, <3>2 DEF FitInv
  <2>4. CASE stage = "old calls compacted"
    <3>1. To(stage) = "compacted" /\ todo \subseteq OldCalls /\ todo' \subseteq OldCalls
      BY <1>1, <2>4 DEF FitInv, To
    <3>2. \A i \in DOMAIN hist : rows'[i] \in Shown \cup {"abridged", "collapsed", "compacted"}
      BY <1>5, <2>4, <3>1 DEF FitInv
    <3>3. \A i \in OldCalls \ todo' : rows'[i] = "compacted"
      BY <1>1, <1>5, <2>4, <3>1 DEF FitInv, OldCalls, Old
    <3>4. QED
      BY <1>1, <1>2, <1>5, <1>6, <2>2, <2>4, <3>1, <3>2, <3>3 DEF FitInv
  <2>5. CASE stage = "old messages left out"
    <3>1. To(stage) = "left_out" /\ todo \subseteq OldTexts /\ todo' \subseteq OldTexts
      BY <1>1, <2>5 DEF FitInv, To
    <3>2. \A i \in DOMAIN hist : rows'[i] = "left_out" => i \in OldTexts
      BY <1>3, <1>5, <2>5, <3>1 DEF FitInv
    <3>3. \A i \in OldCalls : rows'[i] = "compacted" /\ i # f
      BY <1>3, <1>5, <2>5, <3>1 DEF FitInv, OldCalls, OldTexts, Old
    <3>4. \A i \in OldTexts \ todo' : rows'[i] = "left_out"
      BY <1>1, <1>5, <2>5, <3>1 DEF FitInv, OldTexts, Old
    <3>5. QED
      BY <1>1, <1>2, <1>5, <1>6, <2>2, <2>5, <3>1, <3>2, <3>3, <3>4 DEF FitInv
  <2>6. QED
    BY <1>2, <1>8, <2>3, <2>4, <2>5
<1>9. QED
  BY <1>7, <1>8

LEMMA FitStep == FitInv /\ [FitNext]_fitVars => FitInv'
<1> SUFFICES ASSUME FitInv, [FitNext]_fitVars PROVE FitInv'
  OBVIOUS
<1>d. hist \in Seq(Shape) /\ DOMAIN hist = 1 .. Len(hist)
  <2>1. hist \in Seq(Shape)
    BY DEF FitInv
  <2>2. QED
    BY <2>1
<1>1. CASE FitHistory
  BY <1>1 DEF FitHistory, FitInv
<1>2. CASE FitStart
  <2>1. /\ stage = "none" /\ stage' = "full" /\ hist' = hist /\ todo' = todo
        /\ rows' = [i \in DOMAIN hist |-> "full"]
    BY <1>2 DEF FitStart
  <2>2. rows' \in [DOMAIN hist -> Level] /\ \A i \in DOMAIN hist : rows'[i] \in Shown
    BY <2>1 DEF Level, Shown
  <2>3. QED
    BY <1>d, <2>1, <2>2 DEF FitInv
<1>3. CASE ShortenInputs
  <2>1. /\ stage \in {"full", "inputs<=200"} /\ stage' \in {"inputs<=200", "inputs<=60"}
        /\ hist' = hist /\ todo' = todo
        /\ \E to \in Shown : rows' = [i \in DOMAIN hist |-> IF hist[i].kind = "call" THEN to ELSE "full"]
    BY <1>3 DEF ShortenInputs, Shown
  <2>2. rows' \in [DOMAIN hist -> Level] /\ \A i \in DOMAIN hist : rows'[i] \in Shown
    BY <2>1 DEF Level, Shown
  <2>3. QED
    BY <1>d, <2>1, <2>2 DEF FitInv
<1>4. CASE ReduceRow
  BY <1>4, ReduceKeeps
<1>5. CASE NextStage
  <2>1. /\ stage \in {"inputs<=60", "texts abridged", "old messages collapsed", "old calls compacted"}
        /\ todo = {} /\ stage' = After(stage) /\ todo' = Rows(stage')
        /\ hist' = hist /\ rows' = rows /\ rows \in [DOMAIN hist -> Level]
    BY <1>5 DEF NextStage, FitInv
  <2>2. /\ LongTexts' = LongTexts /\ OldTexts' = OldTexts /\ OldCalls' = OldCalls
        /\ \A i : Pinned(i)' <=> Pinned(i)
    BY <2>1 DEF LongTexts, OldTexts, OldCalls, Old, Pinned
  <2>3. CASE stage = "inputs<=60"
    <3>1. stage' = "texts abridged" /\ todo' = LongTexts
      BY <2>1, <2>3 DEF After, Rows, LongTexts
    <3>2. InOrder'
      BY <2>2, <3>1 DEF InOrder
    <3>3. QED
      BY <1>d, <2>1, <2>2, <2>3, <3>1, <3>2 DEF FitInv
  <2>4. CASE stage = "texts abridged"
    <3>1. stage' = "old messages collapsed" /\ todo' = OldTexts
      BY <2>1, <2>4 DEF After, Rows, OldTexts
    <3>2. Abridged' /\ PinnedStand'
      BY <2>1, <2>2, <2>4 DEF FitInv, Abridged, PinnedStand
    <3>3. QED
      BY <1>d, <2>1, <2>2, <2>4, <3>1, <3>2 DEF FitInv
  <2>5. CASE stage \in {"old messages collapsed", "old calls compacted"}
    <3>1. Abridged' /\ PinnedStand'
      BY <2>1, <2>2, <2>5 DEF FitInv, Abridged, PinnedStand
    <3>2. CASE stage = "old messages collapsed"
      <4>1. stage' = "old calls compacted" /\ todo' = OldCalls
        BY <2>1, <3>2 DEF After, Rows, OldCalls
      <4>2. QED
        BY <1>d, <2>1, <2>2, <3>1, <3>2, <4>1 DEF FitInv
    <3>3. CASE stage = "old calls compacted"
      <4>1. stage' = "old messages left out" /\ todo' = OldTexts
        BY <2>1, <3>3 DEF After, Rows, OldTexts, OldMessages
      <4>2. QED
        BY <1>d, <2>1, <2>2, <3>1, <3>3, <4>1 DEF FitInv, Shown
    <3>4. QED
      BY <2>5, <3>2, <3>3
  <2>6. QED
    BY <2>1, <2>3, <2>4, <2>5
<1>6. CASE TooLarge
  <2>1. /\ stage = "old messages left out" /\ todo = {} /\ ~Fits(rows)
        /\ rows' = [i \in DOMAIN hist |-> IF Pinned(i) THEN rows[i] ELSE "left_out"]
        /\ stage' = "too_large" /\ hist' = hist /\ todo' = todo
        /\ rows \in [DOMAIN hist -> Level]
    BY <1>6 DEF TooLarge, FitInv
  <2>2. Smallest' = rows
    <3>1. Smallest' = [i \in DOMAIN hist |-> IF Pinned(i) THEN rows'[i]
                                            ELSE IF hist[i].kind = "text" THEN "left_out" ELSE "compacted"]
      BY <2>1 DEF Smallest, Pinned
    <3>2. ASSUME NEW i \in DOMAIN hist PROVE Smallest'[i] = rows[i]
      <4>1. CASE Pinned(i)
        BY <2>1, <3>1, <4>1
      <4>2. CASE ~Pinned(i)
        <5>1. i \in OldTexts \/ (i \in OldCalls /\ hist[i].kind # "text")
          BY <4>2 DEF OldTexts, OldCalls, Old
        <5>2. QED
          BY <2>1, <3>1, <4>2, <5>1 DEF FitInv, OldTexts
      <4>3. QED
        BY <4>1, <4>2
    <3>3. QED
      BY <2>1, <3>1, <3>2
  <2>3. ~Fits(Smallest)'
    <3>1. Fits(Smallest)' <=> TokensOf(hist', Smallest') <= Budget
      <4>1. Tokens(Smallest)' = TokensOf(hist, Smallest)'
        BY Zenon DEF Tokens, TokensOf
      <4>2. TokensOf(hist, Smallest)' = TokensOf(hist', Smallest')
        OBVIOUS
      <4>3. QED
        BY <4>1, <4>2 DEF Fits
    <3>2. Fits(rows) <=> TokensOf(hist, rows) <= Budget
      BY Zenon DEF Fits, Tokens, TokensOf
    <3>3. QED
      BY <2>1, <2>2, <3>1, <3>2
  <2>4. rows' \in [DOMAIN hist -> Level]
    BY <2>1 DEF Level
  <2>5. Abridged' /\ PinnedStand'
    BY <1>d, <2>1 DEF FitInv, Abridged, PinnedStand, Pinned, LongTexts
  <2>6. QED
    BY <1>d, <2>1, <2>3, <2>4, <2>5 DEF FitInv
<1>7. CASE UNCHANGED fitVars
  <2>1. hist' = hist /\ rows' = rows /\ todo' = todo /\ stage' = stage
    BY <1>7 DEF fitVars
  <2>2. /\ LongTexts' = LongTexts /\ OldTexts' = OldTexts /\ OldCalls' = OldCalls
        /\ InOrder' = InOrder /\ Abridged' = Abridged /\ PinnedStand' = PinnedStand
        /\ Smallest' = Smallest
    BY <2>1 DEF LongTexts, OldTexts, OldCalls, Old, InOrder, Precedes, Abridged, PinnedStand, Pinned, Smallest
  <2>3. Fits(Smallest)' <=> Fits(Smallest)
    <3>1. Fits(Smallest)' <=> TokensOf(hist', Smallest') <= Budget
      <4>1. Tokens(Smallest)' = TokensOf(hist, Smallest)'
        BY Zenon DEF Tokens, TokensOf
      <4>2. TokensOf(hist, Smallest)' = TokensOf(hist', Smallest')
        OBVIOUS
      <4>3. QED
        BY <4>1, <4>2 DEF Fits
    <3>2. Fits(Smallest) <=> TokensOf(hist, Smallest) <= Budget
      BY Zenon DEF Fits, Tokens, TokensOf
    <3>3. QED
      BY <2>1, <2>2, <3>1, <3>2
  <2>4. QED
    BY <2>1, <2>2, <2>3 DEF FitInv
<1>8. QED
  BY <1>1, <1>2, <1>3, <1>4, <1>5, <1>6, <1>7 DEF FitNext

(* For any history, sizes and budget: Jev is shown every call and result   *)
(* unless not even the shortest rows fit, and pinned rows are reduced last *)
(* and least (FitState of internal/compact/state.go).                      *)
THEOREM CallsAreShown == FitSpec => []StateShowsCalls
<1>1. FitInit => FitInv
  BY DEF FitInit, FitInv
<1>2. QED
  BY <1>1, FitStep, FitIsShown, PTL DEF FitSpec

(* Every item of a history has a row at a level there is, and a stage goes *)
(* over rows of the history only.                                          *)
THEOREM FitTypesCorrect == FitSpec => []FitTypeOK
<1>1. FitInit => FitInv
  BY DEF FitInit, FitInv
<1>2. FitInv => FitTypeOK
  <2> SUFFICES ASSUME FitInv PROVE FitTypeOK
    OBVIOUS
  <2>1. hist \in Seq(Shape)
    BY Zenon DEF FitInv
  <2>2. rows \in Seq(Level)
    <3>1. CASE stage = "none"
      <4>1. rows = <<>>
        BY <3>1, Zenon DEF FitInv
      <4>2. QED
        BY <4>1
    <3>2. CASE stage # "none"
      <4>1. rows \in [DOMAIN hist -> Level]
        BY <3>2, Zenon DEF FitInv
      <4>2. DOMAIN hist = 1 .. Len(hist) /\ Len(hist) \in Nat
        BY <2>1
      <4>3. QED
        BY <4>1, <4>2
    <3>3. QED
      BY <3>1, <3>2
  <2>3. todo \subseteq DOMAIN hist
    <3>1. LongTexts \subseteq DOMAIN hist /\ OldTexts \subseteq DOMAIN hist /\ OldCalls \subseteq DOMAIN hist
      BY DEF LongTexts, OldTexts, OldCalls, Old
    <3>2. todo = {} \/ todo \subseteq LongTexts \/ todo \subseteq OldTexts \/ todo \subseteq OldCalls
      BY Zenon DEF FitInv
    <3>3. QED
      BY <3>1, <3>2
  <2>4. QED
    BY <2>1, <2>2, <2>3, Zenon DEF FitInv, FitTypeOK
<1>3. QED
  BY <1>1, <1>2, FitStep, PTL DEF FitSpec
=============================================================================
