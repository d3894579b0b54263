-------------------------- MODULE Dashboard_proofs --------------------------
(***************************************************************************)
(* Proofs about Dashboard, for every size of the log and of the page and   *)
(* any number of polls in flight: while one gateway process runs, the      *)
(* cursor of the page hides no event that was not dropped before the page  *)
(* asked from the beginning.                                               *)
(*                                                                         *)
(* The cursor is not enough to carry the argument: it may fall when an     *)
(* overtaken response puts an unsettled copy back, and a poll in flight    *)
(* remembers an older one.  The invariant speaks of every copy and of      *)
(* every cursor a poll was sent with: each event up to it is accounted for,*)
(* by the page or by a poll whose response reaches that far.               *)
(***************************************************************************)
EXTENDS Dashboard, EventLog_proofs, WellFoundedInduction

(* The response to this fetch, which may still be to come, will account    *)
(* for event n: it is asked for, and what was answered reaches that far.   *)
Reaches(f, n) ==
  /\ f.since < n
  /\ \/ f.at = "asked"
     \/ f.at = "answered" /\ \E e \in f.events : n <= e.seq

Accounted(n) ==
  n \in shown \/ n < told \/ n < unsaid \/ \E p \in Poll : Reaches(poll[p], n)

AccountedUpTo(m) == \A n \in 1 .. m : Accounted(n)

(* Rendering this response accounts for what went before its first event.  *)
Says(f) == Announced(f) \/ FromTheBeginning(f)

(* A response has the events from its cursor on, or tells that they went,  *)
(* or was asked for from the beginning.                                    *)
Complete(f) ==
  \A e \in f.events, n \in Nat :
    f.since < n /\ n <= e.seq => n \in Seqs(f.events) \/ (Says(f) /\ n < f.oldest)

Bounded ==
  /\ seq <= MaxSeq
  /\ \A e \in store : e.seq <= MaxSeq
  /\ \A p \in Poll : \A e \in poll[p].events : e.seq <= MaxSeq

ResponsesComplete == \A p \in Poll : poll[p].at = "answered" => Complete(poll[p])

(* Nothing on the page or in flight is newer than the log.                 *)
NotAhead ==
  /\ \A e \in store : e.seq <= seq
  /\ \A p \in Poll : poll[p].since <= seq
  /\ \A p \in Poll : \A e \in poll[p].events : e.seq <= seq

NothingHidden ==
  /\ \A e \in store : AccountedUpTo(e.seq)
  /\ \A p \in Poll : AccountedUpTo(poll[p].since)

IInv ==
  /\ TypeOK
  /\ LogContiguous
  /\ LogStarted
  /\ Bounded
  /\ ResponsesComplete
  /\ restarts = 0 => NotAhead /\ NothingHidden

-----------------------------------------------------------------------------
(* A bounded set of numbers has a greatest one.                            *)
LEMMA MaxExists ==
  ASSUME NEW S \in SUBSET Nat, S # {}, NEW b \in Nat, \A n \in S : n <= b
  PROVE  \E n \in S : \A m \in S : m <= n
<1> DEFINE Below == OpToRel(<, Nat)
           T == {b - n : n \in S}
<1>1. IsWellFoundedOn(Below, Nat)
  BY NatLessThanWellFounded
<1>2. \A x, y \in Nat : <<x, y>> \in Below <=> x < y
  BY DEF OpToRel
<1>3. T \subseteq Nat /\ T # {}
  <2>1. PICK n \in S : TRUE
    OBVIOUS
  <2>2. b - n \in T
    OBVIOUS
  <2>3. \A m \in S : b - m \in Nat
    OBVIOUS
  <2>4. QED
    BY <2>2, <2>3
<1> HIDE DEF Below
<1>4. PICK x \in T : \A y \in T : <<y, x>> \notin Below
  BY <1>1, <1>3, WFMin
<1>5. PICK n \in S : x = b - n
  OBVIOUS
<1>6. ASSUME NEW m \in S PROVE m <= n
  <2>1. b - m \in T /\ b - m \in Nat /\ x \in Nat
    BY <1>3
  <2>2. ~ (b - m < x)
    BY <1>2, <1>4, <2>1
  <2>3. QED
    BY <1>5, <2>2
<1>7. QED
  BY <1>6

(* The cursor is the number of a copy, or 0.                               *)
LEMMA CursorOfCopy ==
  ASSUME NEW events \in SUBSET Event, NEW b \in Nat, \A e \in events : e.seq <= b
  PROVE  Cursor(events) = 0 \/ \E e \in events : Cursor(events) = e.seq
<1> DEFINE head == {n \in Seqs(events) : SettledUpTo(events, n)}
<1>1. CASE head = {}
  BY <1>1 DEF Cursor
<1>2. CASE head # {}
  <2>1. head \in SUBSET Nat /\ \A n \in head : n <= b
    BY DEF Seqs, Event
  <2>2. Cursor(events) = CHOOSE n \in head : \A m \in head : m <= n
    BY <1>2 DEF Cursor
  <2> HIDE DEF head
  <2>3. \E n \in head : \A m \in head : m <= n
    BY <1>2, <2>1, MaxExists
  <2>4. Cursor(events) \in head
    BY <2>2, <2>3
  <2>5. QED
    BY <2>4 DEF head, Seqs
<1>3. QED
  BY <1>1, <1>2

(* LogInv of EventLog_proofs for the events of this module.                *)
EventsInv == LogInv(Event)

(* A new event keeps the newest events without a gap.                      *)
LEMMA AddKeepsEvents == EventsInv /\ LogAdd => EventsInv' /\ seq' = seq + 1
<1> SUFFICES ASSUME EventsInv, LogAdd PROVE EventsInv' /\ seq' = seq + 1
  OBVIOUS
<1> DEFINE e == [seq |-> 0, settled |-> FALSE]
<1>1. e \in Event /\ Add(e)
  BY DEF Event, LogAdd
<1> HIDE DEF e
<1>2. [e EXCEPT !.seq = seq + 1] \in Event /\ [e EXCEPT !.seq = seq + 1].seq = seq + 1
  BY <1>1 DEF Event, EventsInv, LogInv
<1>3. QED
  BY <1>1, <1>2, AddKeepsLog DEF EventsInv

(* Settling leaves the numbers of the retained events as they are.         *)
LEMMA SettleKeepsEvents ==
  ASSUME EventsInv, NEW n, LogSettle(n) PROVE EventsInv' /\ seq' = seq
<1> DEFINE changed == [i \in DOMAIN items |-> [items[i] EXCEPT !.settled = TRUE]]
<1>1. \A i \in DOMAIN items : changed[i] \in Event /\ changed[i].seq = items[i].seq
  <2>1. \A i \in DOMAIN items : items[i] \in Event
    BY DEF EventsInv, LogInv
  <2>2. QED
    BY <2>1 DEF Event
<1>2. Update(n, changed)
  BY DEF LogSettle
<1> HIDE DEF changed
<1>3. QED
  BY <1>1, <1>2, UpdateKeepsLog DEF EventsInv

(* One Snapshot answers for every event after its cursor: it has it, or it *)
(* tells that it went.                                                     *)
LEMMA SnapshotComplete ==
  ASSUME EventsInv, NEW since \in Nat
  PROVE  /\ Snapshot(since) \in Fetch
         /\ \A e \in Snapshot(since).events : e.seq <= seq
         /\ Complete(Snapshot(since))
         /\ \A n \in 1 .. seq : since < n => Reaches(Snapshot(since), n)
<1> DEFINE f == Snapshot(since)
<1>1. /\ seq \in Nat /\ items \in Seq(Event) /\ Len(items) \in Nat
      /\ DOMAIN items = 1 .. Len(items) /\ \A i \in 1 .. Len(items) : items[i] \in Event
      /\ Len(items) <= seq
      /\ \A i \in 1 .. Len(items) : items[i].seq = seq - Len(items) + i
  BY DEF EventsInv, LogInv, LogContiguous
<1>2. /\ f.at = "answered" /\ f.since = since /\ f.events = NewerThan(since)
      /\ f.oldest = Oldest /\ f.truncated = Truncated(since)
  BY DEF Snapshot
<1>3. \A e : e \in f.events <=> \E i \in 1 .. Len(items) : e = items[i] /\ e.seq > since
  BY <1>1, <1>2 DEF NewerThan
<1>4. Oldest \in Nat /\ (items # << >> => Oldest = seq - Len(items) + 1)
  BY <1>1 DEF Oldest, Event
<1>5. f \in Fetch
  <2>1. NewerThan(since) \in SUBSET Event
    BY <1>1 DEF NewerThan
  <2>2. Truncated(since) \in BOOLEAN
    BY DEF Truncated
  <2>3. QED
    BY <1>4, <2>1, <2>2 DEF Snapshot, Fetch
<1>6. \A e \in f.events : e.seq <= seq
  BY <1>1, <1>3
<1>7. ASSUME NEW n \in Nat, since < n, n <= seq, items # << >>, Oldest <= n
      PROVE  n \in Seqs(f.events)
  <2>1. n - (seq - Len(items)) \in 1 .. Len(items)
    BY <1>1, <1>4, <1>7
  <2>2. items[n - (seq - Len(items))].seq = n
    BY <1>1, <2>1
  <2>3. items[n - (seq - Len(items))] \in f.events
    BY <1>3, <1>7, <2>1, <2>2
  <2>4. QED
    BY <2>2, <2>3 DEF Seqs
<1>8. ASSUME NEW e \in f.events, NEW n \in Nat, since < n, n <= e.seq
      PROVE  n \in Seqs(f.events) \/ (Says(f) /\ n < f.oldest)
  <2>0. e.seq \in Nat /\ e.seq <= seq /\ \E i \in 1 .. Len(items) : e = items[i]
    BY <1>1, <1>3, <1>6 DEF Event
  <2>1. items # << >> /\ n <= seq
    BY <1>1, <1>8, <2>0
  <2>2. CASE Oldest <= n
    BY <1>7, <1>8, <2>1, <2>2
  <2>3. CASE n < Oldest
    <3>1. Truncated(since) \/ since = 0
      BY <1>4, <1>8, <2>1, <2>3 DEF Truncated
    <3>2. QED
      BY <1>2, <2>3, <3>1 DEF Says, Announced, FromTheBeginning
  <2>4. QED
    BY <1>4, <2>2, <2>3
<1>9. ASSUME NEW n \in 1 .. seq, since < n PROVE Reaches(f, n)
  <2>1. items # << >>
    BY <1>1, <1>9 DEF EventsInv, LogInv, LogStarted
  <2>2. Len(items) \in 1 .. Len(items) /\ items[Len(items)].seq = seq
    BY <1>1, <2>1
  <2>3. items[Len(items)] \in f.events
    BY <1>1, <1>3, <1>9, <2>2
  <2>4. n <= items[Len(items)].seq
    BY <1>1, <2>2
  <2>5. \E e \in f.events : n <= e.seq
    BY <2>3, <2>4
  <2>6. f.since < n /\ f.at = "answered"
    BY <1>2, <1>9
  <2> HIDE DEF f
  <2>7. QED
    BY <2>5, <2>6 DEF Reaches
<1>10. Complete(f)
  BY <1>2, <1>8 DEF Complete
<1>11. QED
  BY <1>5, <1>6, <1>9, <1>10

-----------------------------------------------------------------------------
(* The values a slot for fetches takes beside responses.                   *)
LEMMA FetchTypes ==
  ASSUME NEW n \in Nat
  PROVE  /\ NoFetch \in Fetch /\ NoFetch.at = "idle" /\ NoFetch.since = 0 /\ NoFetch.events = {}
         /\ Asked(n) \in Fetch /\ Asked(n).at = "asked" /\ Asked(n).since = n
         /\ Asked(n).events = {}
BY DEF NoFetch, Asked, Fetch

(* Init establishes the invariant.                                         *)
LEMMA InitInv == Init => IInv
<1> SUFFICES ASSUME Init PROVE IInv
  OBVIOUS
<1>1. \A p \in Poll : poll[p] = NoFetch
  BY DEF Init
<1>2. NoFetch \in Fetch /\ NoFetch.at = "idle" /\ NoFetch.since = 0 /\ NoFetch.events = {}
  BY FetchTypes
<1>3. seq = 0 /\ items = << >> /\ store = {}
  BY DEF Init, LogInit
<1>4. TypeOK
  BY <1>2, <1>3 DEF Init, TypeOK
<1>5. LogContiguous /\ LogStarted
  BY <1>3, LimitAssumption DEF LogContiguous, LogStarted
<1>6. Bounded /\ ResponsesComplete /\ NotAhead
  BY <1>1, <1>2, <1>3, BoundsAssumption DEF Bounded, ResponsesComplete, NotAhead
<1>7. NothingHidden
  BY <1>1, <1>2, <1>3 DEF NothingHidden, AccountedUpTo
<1>8. QED
  BY <1>4, <1>5, <1>6, <1>7 DEF IInv

(* What is accounted for stays so when the page and the polls are left.    *)
LEMMA AccountedStays ==
  ASSUME UNCHANGED <<page, poll>>, NEW m, AccountedUpTo(m) PROVE AccountedUpTo(m)'
BY DEF AccountedUpTo, Accounted, Reaches, page

(* A new event is accounted for by nobody, and needs not be.              *)
LEMMA AddEventInv == IInv /\ AddEvent => IInv'
<1> SUFFICES ASSUME IInv, AddEvent PROVE IInv'
  OBVIOUS
<1> USE DEF IInv
<1>1. /\ UNCHANGED <<page, poll, restarts, reconnects>>
      /\ store' = store /\ poll' = poll /\ shown' = shown /\ told' = told /\ unsaid' = unsaid
      /\ restarts' = restarts /\ reconnects' = reconnects
      /\ seq < MaxSeq /\ LogAdd
  BY DEF AddEvent, page
<1>2. EventsInv' /\ seq' = seq + 1 /\ seq \in Nat
  BY <1>1, AddKeepsEvents DEF EventsInv, LogInv, TypeOK
<1>3. TypeOK'
  BY <1>1, <1>2 DEF TypeOK, EventsInv, LogInv
<1>4. (LogContiguous /\ LogStarted)'
  BY <1>2 DEF EventsInv, LogInv
<1>5. Bounded'
  BY <1>1, <1>2, BoundsAssumption DEF Bounded
<1>6. ResponsesComplete'
  BY <1>1 DEF ResponsesComplete
<1>7. NotAhead => NotAhead'
  BY <1>1, <1>2 DEF NotAhead, TypeOK, Event, Fetch
<1>8. NothingHidden => NothingHidden'
  BY <1>1, AccountedStays DEF NothingHidden
<1>9. QED
  BY <1>1, <1>3, <1>4, <1>5, <1>6, <1>7, <1>8

(* Settling changes no number.                                            *)
LEMMA SettleInv == ASSUME IInv, NEW n, Settle(n) PROVE IInv'
<1> USE DEF IInv
<1>1. /\ UNCHANGED <<page, poll, restarts, reconnects>>
      /\ store' = store /\ poll' = poll /\ shown' = shown /\ told' = told /\ unsaid' = unsaid
      /\ restarts' = restarts /\ reconnects' = reconnects
      /\ LogSettle(n)
  BY DEF Settle, page
<1>2. EventsInv' /\ seq' = seq
  BY <1>1, SettleKeepsEvents DEF EventsInv, LogInv, TypeOK
<1>3. TypeOK'
  BY <1>1, <1>2 DEF TypeOK, EventsInv, LogInv
<1>4. (LogContiguous /\ LogStarted)'
  BY <1>2 DEF EventsInv, LogInv
<1>5. Bounded' /\ ResponsesComplete' /\ (NotAhead => NotAhead')
  BY <1>1, <1>2 DEF Bounded, ResponsesComplete, NotAhead
<1>6. NothingHidden => NothingHidden'
  BY <1>1, AccountedStays DEF NothingHidden
<1>7. QED
  BY <1>1, <1>3, <1>4, <1>5, <1>6

(* A restart ends what is claimed, and leaves complete responses complete.*)
LEMMA RestartInv == IInv /\ Restart => IInv'
<1> SUFFICES ASSUME IInv, Restart PROVE IInv'
  OBVIOUS
<1> USE DEF IInv
<1>1. /\ seq' = 0 /\ items' = << >> /\ store' = store /\ shown' = {} /\ told' = 0
      /\ unsaid' = 0
      /\ restarts' = restarts + 1 /\ restarts \in Nat /\ reconnects' = reconnects
      /\ poll' = [p \in Poll |-> IF poll[p].at = "asked" THEN NoFetch ELSE poll[p]]
  BY DEF Restart, TypeOK
<1>2. \A p \in Poll : poll'[p] = NoFetch \/ poll'[p] = poll[p]
  BY <1>1
<1>3. NoFetch \in Fetch /\ NoFetch.at = "idle" /\ NoFetch.events = {}
  BY FetchTypes
<1>4. TypeOK'
  BY <1>1, <1>3 DEF TypeOK
<1>5. (LogContiguous /\ LogStarted)'
  BY <1>1, LimitAssumption DEF LogContiguous, LogStarted
<1>6. Bounded' /\ ResponsesComplete'
  BY <1>1, <1>2, <1>3, BoundsAssumption DEF Bounded, ResponsesComplete
<1>7. restarts' # 0
  BY <1>1
<1>8. QED
  BY <1>4, <1>5, <1>6, <1>7

(* A response reaches every event its request was counted on for.         *)
LEMMA AnswerInv == ASSUME IInv, NEW p \in Poll, Answer(p) PROVE IInv'
<1> USE DEF IInv
<1> DEFINE f == Snapshot(poll[p].since)
<1>1. /\ poll[p].at = "asked" /\ poll' = [poll EXCEPT ![p] = f]
      /\ seq' = seq /\ items' = items /\ restarts' = restarts
      /\ store' = store /\ shown' = shown /\ told' = told
      /\ unsaid' = unsaid /\ reconnects' = reconnects
  BY DEF Answer, server, page
<1>2. poll \in [Poll -> Fetch] /\ poll[p].since \in Nat /\ EventsInv
  BY DEF TypeOK, Fetch, EventsInv, LogInv
<1>3. /\ f \in Fetch /\ Complete(f) /\ (\A e \in f.events : e.seq <= seq)
      /\ \A n \in 1 .. seq : poll[p].since < n => Reaches(f, n)
  BY <1>2, SnapshotComplete
<1>4. f.since = poll[p].since
  BY DEF Snapshot
<1> HIDE DEF f
<1>5. /\ poll'[p] = f /\ \A q \in Poll : q # p => poll'[q] = poll[q]
  BY <1>1, <1>2
<1>6. TypeOK' /\ LogContiguous' /\ LogStarted'
  BY <1>1, <1>2, <1>3 DEF TypeOK, LogContiguous, LogStarted
<1>7. Bounded'
  <2>1. \A e \in f.events : e.seq \in Nat /\ e.seq <= MaxSeq
    BY <1>3, BoundsAssumption DEF TypeOK, Bounded, Fetch, Event
  <2>2. QED
    BY <1>1, <1>5, <2>1 DEF Bounded
<1>8. ResponsesComplete'
  BY <1>3, <1>5 DEF ResponsesComplete
<1>9. NotAhead => NotAhead'
  BY <1>1, <1>3, <1>4, <1>5 DEF NotAhead
<1>10. ASSUME NotAhead, NEW m \in Nat, m <= seq, AccountedUpTo(m) PROVE AccountedUpTo(m)'
  <2> SUFFICES ASSUME NEW n \in 1 .. m PROVE Accounted(n)'
    BY DEF AccountedUpTo
  <2>1. Accounted(n) /\ n \in 1 .. seq
    BY <1>10 DEF AccountedUpTo, TypeOK
  <2>2. CASE n \in shown \/ n < told \/ n < unsaid
    BY <1>1, <2>2 DEF Accounted
  <2>3. ASSUME NEW q \in Poll, Reaches(poll[q], n) PROVE Accounted(n)'
    <3>1. CASE q = p
      BY <1>3, <1>5, <2>1, <2>3, <3>1 DEF Accounted, Reaches
    <3>2. CASE q # p
      BY <1>5, <2>3, <3>2 DEF Accounted, Reaches
    <3>3. QED
      BY <3>1, <3>2
  <2>4. QED
    BY <2>1, <2>2, <2>3 DEF Accounted
<1>11. NotAhead /\ NothingHidden => NothingHidden'
  <2> SUFFICES ASSUME NotAhead, NothingHidden PROVE NothingHidden'
    OBVIOUS
  <2>1. \A e \in store : AccountedUpTo(e.seq)'
    BY <1>10 DEF NotAhead, NothingHidden, TypeOK, Event
  <2>2. \A q \in Poll, m \in Nat : m = poll[q].since => AccountedUpTo(m)'
    BY <1>10 DEF NotAhead, NothingHidden, Fetch
  <2>3. \A q \in Poll : poll'[q].since = poll[q].since /\ poll[q].since \in Nat
    BY <1>2, <1>4, <1>5 DEF Fetch
  <2>4. QED
    BY <1>1, <2>1, <2>2, <2>3 DEF NothingHidden
<1>12. QED
  BY <1>1, <1>6, <1>7, <1>8, <1>9, <1>11

(* The cursor of a new fetch is the number of a copy.                     *)
LEMMA SendInv == ASSUME IInv, NEW p \in Poll, Send(p) PROVE IInv'
<1> USE DEF IInv
<1> DEFINE c == Cursor(store)
<1>1. /\ poll[p].at = "idle" /\ poll' = [poll EXCEPT ![p] = Asked(c)]
      /\ seq' = seq /\ items' = items /\ restarts' = restarts
      /\ store' = store /\ shown' = shown /\ told' = told
      /\ unsaid' = unsaid /\ reconnects' = reconnects
  BY DEF Send, server, page
<1>2. c = 0 \/ \E e \in store : c = e.seq
  BY BoundsAssumption, CursorOfCopy DEF TypeOK, Bounded
<1>3. c \in Nat
  BY <1>2 DEF TypeOK, Event
<1> HIDE DEF c
<1>4. /\ Asked(c) \in Fetch /\ Asked(c).at = "asked" /\ Asked(c).since = c
      /\ Asked(c).events = {}
  BY <1>3, FetchTypes
<1>5. /\ poll \in [Poll -> Fetch] /\ poll'[p] = Asked(c)
      /\ \A q \in Poll : q # p => poll'[q] = poll[q]
  BY <1>1 DEF TypeOK
<1>6. TypeOK' /\ LogContiguous' /\ LogStarted'
  BY <1>1, <1>4, <1>5 DEF TypeOK, LogContiguous, LogStarted
<1>7. Bounded' /\ ResponsesComplete'
  BY <1>1, <1>4, <1>5 DEF Bounded, ResponsesComplete
<1>8. NotAhead => NotAhead'
  BY <1>1, <1>2, <1>4, <1>5 DEF NotAhead, TypeOK
<1>9. ASSUME NEW m \in Nat, AccountedUpTo(m) PROVE AccountedUpTo(m)'
  <2> SUFFICES ASSUME NEW n \in 1 .. m PROVE Accounted(n)'
    BY DEF AccountedUpTo
  <2>1. Accounted(n)
    BY <1>9 DEF AccountedUpTo
  <2>2. QED
    BY <1>1, <1>5, <2>1 DEF Accounted, Reaches
<1>10. NothingHidden => NothingHidden'
  <2> SUFFICES ASSUME NothingHidden PROVE NothingHidden'
    OBVIOUS
  <2>1. \A e \in store : AccountedUpTo(e.seq)'
    BY <1>9 DEF NothingHidden, TypeOK, Event
  <2>2. \A q \in Poll, m \in Nat : m = poll[q].since => AccountedUpTo(m)'
    BY <1>9 DEF NothingHidden
  <2>3. \A q \in Poll : q # p => poll'[q].since = poll[q].since /\ poll[q].since \in Nat
    BY <1>5 DEF Fetch
  <2>4. AccountedUpTo(0)'
    BY DEF AccountedUpTo
  <2>5. \A m \in Nat : m = c => AccountedUpTo(m)'
    BY <1>2, <2>1, <2>4
  <2>6. poll'[p].since = c
    BY <1>4, <1>5
  <2>7. QED
    BY <1>1, <1>3, <2>1, <2>2, <2>3, <2>5, <2>6 DEF NothingHidden
<1>11. QED
  BY <1>1, <1>6, <1>7, <1>8, <1>10

(* A fetch from the beginning reaches everything.                         *)
LEMMA ReconnectInv == ASSUME IInv, NEW p \in Poll, Reconnect(p) PROVE IInv'
<1> USE DEF IInv
<1>1. /\ poll' = [poll EXCEPT ![p] = Asked(0)]
      /\ seq' = seq /\ items' = items /\ restarts' = restarts
      /\ store' = {} /\ shown' = {} /\ told' = 0
      /\ unsaid' = 0 /\ reconnects' = reconnects + 1
  BY DEF Reconnect, server
<1>2. /\ Asked(0) \in Fetch /\ Asked(0).at = "asked" /\ Asked(0).since = 0
      /\ Asked(0).events = {}
  BY FetchTypes
<1>3. /\ poll \in [Poll -> Fetch] /\ poll'[p] = Asked(0)
      /\ \A q \in Poll : q # p => poll'[q] = poll[q]
  BY <1>1 DEF TypeOK
<1>4. TypeOK' /\ LogContiguous' /\ LogStarted'
  BY <1>1, <1>2, <1>3 DEF TypeOK, LogContiguous, LogStarted
<1>5. Bounded' /\ ResponsesComplete'
  BY <1>1, <1>2, <1>3 DEF Bounded, ResponsesComplete
<1>6. NotAhead => NotAhead'
  BY <1>1, <1>2, <1>3 DEF NotAhead, TypeOK
<1>7. \A n \in Nat : 0 < n => Accounted(n)'
  BY <1>2, <1>3 DEF Accounted, Reaches
<1>8. \A m \in Nat : AccountedUpTo(m)'
  BY <1>7 DEF AccountedUpTo
<1>9. \A q \in Poll : poll'[q].since \in Nat
  BY <1>4 DEF TypeOK, Fetch
<1>10. NothingHidden'
  <2>1. \A q \in Poll, m \in Nat : m = poll'[q].since => AccountedUpTo(m)'
    BY <1>8
  <2>2. QED
    BY <1>1, <1>9, <2>1 DEF NothingHidden
<1>11. QED
  BY <1>1, <1>4, <1>5, <1>6, <1>10

(* What a rendered response was counted on for is shown or told.          *)
LEMMA RenderInv == ASSUME IInv, NEW p \in Poll, Render(p) PROVE IInv'
<1> USE DEF IInv
<1>1. /\ poll[p].at = "answered" /\ poll' = [poll EXCEPT ![p] = NoFetch]
      /\ seq' = seq /\ items' = items /\ restarts' = restarts /\ reconnects' = reconnects
      /\ store' = Merged(store, poll[p].events)
      /\ shown' = shown \cup Seqs(poll[p].events)
      /\ told' = IF Announced(poll[p]) THEN Later(poll[p].oldest, told) ELSE told
      /\ unsaid' = IF FromTheBeginning(poll[p]) THEN Later(poll[p].oldest, unsaid) ELSE unsaid
  BY DEF Render, server
<1>2. NoFetch \in Fetch /\ NoFetch.at = "idle" /\ NoFetch.since = 0 /\ NoFetch.events = {}
  BY FetchTypes
<1>3. /\ poll \in [Poll -> Fetch] /\ poll'[p] = NoFetch
      /\ \A q \in Poll : q # p => poll'[q] = poll[q]
  BY <1>1 DEF TypeOK
<1>4. /\ poll[p].events \in SUBSET Event /\ poll[p].oldest \in Nat /\ poll[p].since \in Nat
      /\ told \in Nat /\ unsaid \in Nat
  BY <1>3 DEF Fetch, TypeOK
<1>5. store' \subseteq store \cup poll[p].events
  BY <1>1 DEF Merged, Newest
<1>6. /\ told' \in Nat /\ told <= told' /\ unsaid' \in Nat /\ unsaid <= unsaid'
      /\ Says(poll[p]) => poll[p].oldest <= told' \/ poll[p].oldest <= unsaid'
  BY <1>1, <1>4 DEF Says, Later
<1>7. TypeOK' /\ LogContiguous' /\ LogStarted'
  <2>1. shown' \in SUBSET Nat
    BY <1>1, <1>4 DEF Seqs, Event, TypeOK
  <2>2. QED
    BY <1>1, <1>2, <1>3, <1>4, <1>5, <1>6, <2>1 DEF TypeOK, LogContiguous, LogStarted
<1>8. Bounded' /\ ResponsesComplete'
  BY <1>1, <1>2, <1>3, <1>5 DEF Bounded, ResponsesComplete
<1>9. NotAhead => NotAhead'
  BY <1>1, <1>2, <1>3, <1>5 DEF NotAhead, TypeOK
<1>10. ASSUME NEW n \in Nat, n >= 1, Accounted(n) PROVE Accounted(n)'
  <2>1. CASE n \in shown
    BY <1>1, <2>1 DEF Accounted
  <2>2. CASE n < told \/ n < unsaid
    BY <1>4, <1>6, <2>2 DEF Accounted
  <2>3. CASE Reaches(poll[p], n)
    <3>1. n \in Seqs(poll[p].events) \/ (Says(poll[p]) /\ n < poll[p].oldest)
      BY <1>1, <2>3 DEF Reaches, ResponsesComplete, Complete
    <3>2. QED
      BY <1>1, <1>4, <1>6, <3>1 DEF Accounted
  <2>4. ASSUME NEW q \in Poll, q # p, Reaches(poll[q], n) PROVE Accounted(n)'
    BY <1>3, <2>4 DEF Accounted, Reaches
  <2>5. QED
    BY <1>10, <2>1, <2>2, <2>3, <2>4 DEF Accounted
<1>11. ASSUME NEW m \in Nat, AccountedUpTo(m) PROVE AccountedUpTo(m)'
  BY <1>10, <1>11 DEF AccountedUpTo
<1>12. ASSUME NothingHidden, NEW e \in poll[p].events PROVE AccountedUpTo(e.seq)'
  <2>1. e.seq \in Nat
    BY <1>4 DEF Event
  <2>2. ASSUME NEW n \in 1 .. e.seq PROVE Accounted(n)
    <3>1. CASE n <= poll[p].since
      BY <1>4, <1>12, <2>1, <3>1 DEF NothingHidden, AccountedUpTo
    <3>2. CASE poll[p].since < n
      BY <1>1, <2>1, <3>2 DEF Accounted, Reaches
    <3>3. QED
      BY <1>4, <2>1, <3>1, <3>2
  <2>3. AccountedUpTo(e.seq)
    BY <2>2 DEF AccountedUpTo
  <2>4. QED
    BY <1>11, <2>1, <2>3
<1>13. NothingHidden => NothingHidden'
  <2> SUFFICES ASSUME NothingHidden PROVE NothingHidden'
    OBVIOUS
  <2>1. \A e \in store : AccountedUpTo(e.seq)'
    BY <1>11 DEF NothingHidden, TypeOK, Event
  <2>2. \A q \in Poll, m \in Nat : m = poll[q].since => AccountedUpTo(m)'
    BY <1>11 DEF NothingHidden
  <2>3. \A q \in Poll : q # p => poll'[q].since = poll[q].since /\ poll[q].since \in Nat
    BY <1>3 DEF Fetch
  <2>4. poll'[p].since = 0 /\ AccountedUpTo(0)'
    BY <1>2, <1>3 DEF AccountedUpTo
  <2>5. \A m \in Nat : m = 0 => AccountedUpTo(m)'
    BY <2>4
  <2>6. QED
    BY <1>5, <1>12, <2>1, <2>2, <2>3, <2>4, <2>5 DEF NothingHidden
<1>14. QED
  BY <1>1, <1>7, <1>8, <1>9, <1>13

(* Every step preserves the invariant.                                     *)
LEMMA StepInv == IInv /\ [Next]_vars => IInv'
<1> SUFFICES ASSUME IInv, [Next]_vars PROVE IInv'
  OBVIOUS
<1>1. CASE UNCHANGED vars
  <2>1. UNCHANGED <<page, poll>>
    BY <1>1 DEF vars, page
  <2>2. NothingHidden => NothingHidden'
    BY <1>1, <2>1, AccountedStays DEF vars, NothingHidden
  <2>3. (TypeOK /\ LogContiguous /\ LogStarted)'
    BY <1>1 DEF vars, IInv, TypeOK, LogContiguous, LogStarted
  <2>4. (Bounded /\ ResponsesComplete)' /\ (NotAhead => NotAhead')
    BY <1>1 DEF vars, IInv, Bounded, ResponsesComplete, NotAhead
  <2>5. restarts' = restarts
    BY <1>1 DEF vars
  <2>6. QED
    BY <2>2, <2>3, <2>4, <2>5 DEF IInv
<1>2. QED
  BY <1>1, AddEventInv, SettleInv, RestartInv, AnswerInv, SendInv, RenderInv, ReconnectInv
  DEF Next

-----------------------------------------------------------------------------
(* In every reachable state the invariant holds.                           *)
THEOREM Invariant == Spec => []IInv
<1>1. QED
  BY InitInv, StepInv, PTL DEF Spec

(* The log, the page and the polls keep their types.                       *)
THEOREM Types == Spec => []TypeOK
<1>1. IInv => TypeOK
  BY DEF IInv
<1>2. QED
  BY <1>1, Invariant, PTL

(* The log (events.go) holds the newest events without a gap, whatever its *)
(* limit.                                                                  *)
THEOREM LogHasNewest == Spec => []LogContiguous
<1>1. IInv => LogContiguous
  BY DEF IInv
<1>2. QED
  BY <1>1, Invariant, PTL

(* While one gateway process runs, an event up to the cursor is hidden     *)
(* only if it was dropped before a poll from the beginning was answered:   *)
(* any other was shown, announced as gone or is being asked for, however   *)
(* many polls overlap and in whatever order they return (usageCursor and   *)
(* mergeEvents of dashboard.js, Snapshot of events.go).                    *)
THEOREM CursorHidesNothing == Spec => []CursorCoversOneProcess
<1>1. IInv => CursorCoversOneProcess
  <2> SUFFICES ASSUME IInv, restarts = 0, NEW n \in 1 .. seq, n <= Cursor(store)
               PROVE  Covered(n) \/ DroppedUnsaid(n)
    BY DEF CursorCoversOneProcess
  <2> USE DEF IInv
  <2>1. Cursor(store) = 0 \/ \E e \in store : Cursor(store) = e.seq
    BY BoundsAssumption, CursorOfCopy DEF TypeOK, Bounded
  <2>2. PICK e \in store : Cursor(store) = e.seq
    BY <2>1 DEF TypeOK
  <2>3. n \in 1 .. e.seq
    BY <2>2 DEF TypeOK, Event
  <2>4. Accounted(n)
    BY <2>3 DEF NothingHidden, AccountedUpTo
  <2>5. QED
    BY <2>4 DEF Accounted, Reaches, Covered, InFlight, DroppedUnsaid
<1>2. QED
  BY <1>1, Invariant, PTL

=============================================================================
