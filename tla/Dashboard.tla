------------------------------ MODULE Dashboard ------------------------------
(***************************************************************************)
(* The dashboard page (internal/proxy/assets/dashboard.js) polling the     *)
(* event log through handleDashboardEvents (internal/proxy/dashboard.go).  *)
(*                                                                         *)
(* The page keeps a copy of every event it was sent and asks for events    *)
(* newer than a cursor: the last of the settled events at the head of its  *)
(* copies, so that an event whose response is still streaming is asked for *)
(* again.  The timer does not wait for the previous fetch, so polls        *)
(* overlap and their responses arrive in any order.  The gateway may be    *)
(* restarted under a page that stays open; the page can be told to         *)
(* reconnect, which empties it.                                            *)
(*                                                                         *)
(* `since' of the page is always usageCursor(store): render and reconnect  *)
(* assign both in one task of the event loop.                              *)
(***************************************************************************)
EXTENDS EventLog, FiniteSets

CONSTANTS
  Poll,           \* slots for fetches that may be in flight together
  StoreMax,       \* MAX_STORE of the page
  MaxSeq,         \* bound: events per gateway process
  MaxUpsets       \* bound: restarts of the gateway and reconnects of the page

ASSUME StoreAssumption == StoreMax \in Nat /\ StoreMax >= Limit
ASSUME BoundsAssumption == MaxSeq \in Nat /\ MaxUpsets \in Nat

VARIABLES
  store,      \* the page's copies of events
  poll,       \* slot -> its fetch
  restarts,   \* restarts of the gateway so far
  reconnects, \* reconnects of the page so far
  shown,      \* history: events of this process on the page since it was last empty
  told,       \* history: the page was told that events before this are gone
  unsaid      \* history: events before this were gone when it was answered, and it was not told

server  == <<seq, items, restarts>>
page    == <<store, shown, told, unsaid>>
vars    == <<seq, items, store, poll, restarts, reconnects, shown, told, unsaid>>

Event == [seq : Nat, settled : BOOLEAN]

(* A fetch: not sent, sent with a cursor, or answered and on its way back. *)
Fetch == [at : {"idle", "asked", "answered"}, since : Nat, events : SUBSET Event,
          oldest : Nat, truncated : BOOLEAN]

NoFetch == [at |-> "idle", since |-> 0, events |-> {}, oldest |-> 0, truncated |-> FALSE]

Asked(since) == [NoFetch EXCEPT !.at = "asked", !.since = since]

Init ==
  /\ LogInit
  /\ store = {}
  /\ poll = [p \in Poll |-> NoFetch]
  /\ restarts = 0
  /\ reconnects = 0
  /\ shown = {}
  /\ told = 0
  /\ unsaid = 0

-----------------------------------------------------------------------------
(* The gateway                                                             *)

(* A request is forwarded, or answered here: its event is added.           *)
AddEvent ==
  /\ seq < MaxSeq
  /\ LogAdd
  /\ UNCHANGED <<page, poll, restarts, reconnects>>

(* Its response ends, with usage or without.                               *)
Settle(n) ==
  /\ LogSettle(n)
  /\ UNCHANGED <<page, poll, restarts, reconnects>>

(* A new process on the same port starts with an empty log and numbers its *)
(* events from 1; a fetch it has not answered fails.  The page keeps what  *)
(* it has; the histories restart, for they are about this process's events.*)
Restart ==
  /\ restarts + reconnects < MaxUpsets
  /\ restarts' = restarts + 1
  /\ seq' = 0
  /\ items' = << >>
  /\ poll' = [p \in Poll |-> IF poll[p].at = "asked" THEN NoFetch ELSE poll[p]]
  /\ shown' = {}
  /\ told' = 0
  /\ unsaid' = 0
  /\ UNCHANGED <<store, reconnects>>

(* handleDashboardEvents: one Snapshot of the log.                         *)
Snapshot(since) ==
  [at |-> "answered", since |-> since, events |-> NewerThan(since),
   oldest |-> Oldest, truncated |-> Truncated(since)]

Answer(p) ==
  /\ poll[p].at = "asked"
  /\ poll' = [poll EXCEPT ![p] = Snapshot(poll[p].since)]
  /\ UNCHANGED <<server, page, reconnects>>

-----------------------------------------------------------------------------
(* The page                                                                *)

Seqs(events) == {e.seq : e \in events}

SettledUpTo(events, n) == \A e \in events : e.seq <= n => e.settled

(* Slip: the cursor is the newest event, settled or not.                  *)
CursorAtNewest(events) ==
  IF events = {} THEN 0
  ELSE CHOOSE n \in Seqs(events) : \A m \in Seqs(events) : m <= n

(* usageCursor: walk the copies in order up to the first unsettled one.    *)
Cursor(events) ==
  LET head == {n \in Seqs(events) : SettledUpTo(events, n)}
  IN  IF head = {} THEN 0 ELSE CHOOSE n \in head : \A m \in head : m <= n

(* mergeEvents: a sent event replaces the copy, and the oldest copies go.  *)
Newest(events) == {e \in events : Cardinality({f \in events : f.seq > e.seq}) < StoreMax}

Merged(events, incoming) ==
  Newest({e \in events : e.seq \notin Seqs(incoming)} \cup incoming)

(* The timer fires, whether or not an earlier fetch is still out.          *)
Send(p) ==
  /\ poll[p].at = "idle"
  /\ poll' = [poll EXCEPT ![p] = Asked(Cursor(store))]
  /\ UNCHANGED <<server, page, reconnects>>

(* The page says that history is cut only when the response does.          *)
Announced(f) == f.truncated

(* A response to a poll from the beginning never says so (Truncated), even *)
(* when the page holds copies older than the first event it brings.        *)
FromTheBeginning(f) == f.since = 0

Later(n, m) == IF n > m THEN n ELSE m

(* render: the response is merged, whichever response came before it.      *)
Render(p) ==
  /\ poll[p].at = "answered"
  /\ store' = Merged(store, poll[p].events)
  /\ shown' = shown \cup Seqs(poll[p].events)
  /\ told' = IF Announced(poll[p]) THEN Later(poll[p].oldest, told) ELSE told
  /\ unsaid' = IF FromTheBeginning(poll[p]) THEN Later(poll[p].oldest, unsaid) ELSE unsaid
  /\ poll' = [poll EXCEPT ![p] = NoFetch]
  /\ UNCHANGED <<server, reconnects>>

(* reconnect: the page is emptied and asks from the beginning at once.     *)
Reconnect(p) ==
  /\ restarts + reconnects < MaxUpsets
  /\ poll[p].at = "idle"
  /\ reconnects' = reconnects + 1
  /\ store' = {}
  /\ shown' = {}
  /\ told' = 0
  /\ unsaid' = 0
  /\ poll' = [poll EXCEPT ![p] = Asked(0)]
  /\ UNCHANGED server

-----------------------------------------------------------------------------
Next ==
  \/ AddEvent
  \/ \E n \in 1 .. MaxSeq : Settle(n)
  \/ Restart
  \/ \E p \in Poll : Answer(p)
  \/ \E p \in Poll : Send(p)
  \/ \E p \in Poll : Render(p)
  \/ \E p \in Poll : Reconnect(p)

Spec == Init /\ [][Next]_vars

(* The timer keeps firing, the handler only takes locks that are released  *)
(* at once, and a fetch on the loopback interface returns.                 *)
Fairness == \A p \in Poll : WF_vars(Send(p)) /\ WF_vars(Answer(p)) /\ WF_vars(Render(p))

FairSpec == Spec /\ Fairness

-----------------------------------------------------------------------------
(* Properties                                                              *)

(* Every variable has its type.                                            *)
TypeOK ==
  /\ seq \in Nat
  /\ items \in Seq(Event)
  /\ store \in SUBSET Event
  /\ poll \in [Poll -> Fetch]
  /\ restarts \in Nat
  /\ reconnects \in Nat
  /\ shown \in SUBSET Nat
  /\ told \in Nat
  /\ unsaid \in Nat

InFlight(p) == poll[p].at # "idle"

(* Nothing is hidden about event n: the page showed it, was told that it   *)
(* is gone, or a fetch that asks for it is on its way.                     *)
Covered(n) ==
  \/ n \in shown
  \/ n < told
  \/ \E p \in Poll : InFlight(p) /\ poll[p].since < n

(* Event n was gone when a poll from the beginning was answered.           *)
DroppedUnsaid(n) == n < unsaid

(* What docs/requirements/jevrouter-dashboard.md asks of the page (gaps    *)
(* and restarts are shown): every event of this process that the page will *)
(* not ask for again is covered.  The code does not: a restart breaks it,  *)
(* and so does the case that the next property excepts.                    *)
CursorCovers ==
  \A n \in 1 .. seq : n <= Cursor(store) => Covered(n)

(* What the code does keep.  As long as the gateway has not been restarted *)
(* the page hides an event below its cursor in one case only: the event    *)
(* was dropped before a poll from the beginning was answered.  Snapshot    *)
(* (events.go 207) does not tell of a gap then, although the page may hold *)
(* older copies: its cursor stays 0 while the oldest of them is unsettled. *)
(* Every other event is shown, announced as gone or asked for, however     *)
(* polls overlap, events are dropped and the page reconnects.              *)
CursorCoversOneProcess ==
  restarts = 0 =>
    \A n \in 1 .. seq : n <= Cursor(store) => Covered(n) \/ DroppedUnsaid(n)

(* When traffic stops, the page shows every event the log retains as it    *)
(* ended: a response that overtook another and put an unfinished copy back *)
(* is repaired by a later poll.                                            *)
UpToDate == \A i \in DOMAIN items : items[i].settled => items[i] \in store

PageCatchesUp == <>[](restarts = 0 => UpToDate)

=============================================================================
