------------------------------ MODULE EventLog ------------------------------
(***************************************************************************)
(* The bounded event log of internal/proxy/events.go.  Events are numbered *)
(* from 1 within one process, the log keeps the newest Limit of them, and  *)
(* a later change of an event that was dropped is lost without notice.     *)
(* The log's mutex makes each operation one step.  What an event carries   *)
(* beside its number is up to the module that extends this one.            *)
(***************************************************************************)
EXTENDS Naturals, Sequences

CONSTANT
  Limit       \* eventLimit

ASSUME LimitAssumption == Limit \in Nat \ {0}

VARIABLES
  seq,        \* number of the newest event, 0 before the first
  items       \* the retained events, oldest first

log == <<seq, items>>

LogInit ==
  /\ seq = 0
  /\ items = << >>

-----------------------------------------------------------------------------
(* Slip: an event is dropped only once there are two too many.            *)
KeptOneTooMany == IF Len(items) > Limit THEN Tail(items) ELSE items

(* What is left of a full log to make room for one more event.             *)
Kept == IF Len(items) >= Limit THEN Tail(items) ELSE items

(* Add: the event is numbered and appended.                                *)
Add(e) ==
  /\ seq' = seq + 1
  /\ items' = Append(Kept, [e EXCEPT !.seq = seq + 1])

(* Update: the event with this number, if it is retained, becomes f(event);*)
(* the caller passes the changed event as a function of its position.      *)
Update(n, changed) ==
  /\ seq' = seq
  /\ items' = [i \in DOMAIN items |-> IF items[i].seq = n THEN changed[i] ELSE items[i]]

(* Slip: an empty log has its oldest event before the first.              *)
OldestOrMinusOne == IF items = << >> THEN 0 - 1 ELSE items[1].seq

Oldest == IF items = << >> THEN 0 ELSE items[1].seq

(* Slip: the event right after the cursor is taken for seen.              *)
NewerThanNext(since) == {e \in {items[i] : i \in DOMAIN items} : e.seq > since + 1}

(* Snapshot(since): the newer events, and whether some were dropped.       *)
NewerThan(since) == {e \in {items[i] : i \in DOMAIN items} : e.seq > since}

Truncated(since) == since > 0 /\ items # << >> /\ since < Oldest

-----------------------------------------------------------------------------
(* The life of an event as every reader of the log may rely on it: it is   *)
(* added before the response exists and marked as settled (upstreamFinish) *)
(* once.  An event that was dropped has nothing left to settle.            *)
Unsettled(n) == \E i \in DOMAIN items : items[i].seq = n /\ ~items[i].settled

LogAdd == Add([seq |-> 0, settled |-> FALSE])

LogSettle(n) ==
  /\ Unsettled(n)
  /\ Update(n, [i \in DOMAIN items |-> [items[i] EXCEPT !.settled = TRUE]])

LogNext == LogAdd \/ \E n \in 1 .. seq : LogSettle(n)

LogSpec == LogInit /\ [][LogNext]_log

(* The retained events are the newest ones, in order and without a gap, at *)
(* most Limit of them.                                                     *)
LogContiguous ==
  /\ Len(items) <= Limit
  /\ Len(items) <= seq
  /\ \A i \in DOMAIN items : items[i].seq = seq - Len(items) + i

=============================================================================
