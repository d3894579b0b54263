--------------------------- MODULE Gateway_proofs ---------------------------
(***************************************************************************)
(* Proofs about Gateway, for any number of request goroutines and every    *)
(* size of the log.  A handler that has added its event and not settled it *)
(* owns the event: no other handler has its number, and it is unsettled    *)
(* for as long as it is retained.  From this every event that is open has  *)
(* a handler that will settle it, an event speaks of the body delivered,   *)
(* and the handlers do to the log what LogSpec tells its readers.          *)
(***************************************************************************)
EXTENDS Gateway, EventLog_proofs, FiniteSetTheorems, WellFoundedInduction

(* Where a handler has added its event and has yet to settle it.           *)
Places == {"answering", "upstream", "resent", "body"}

Owns(r) == pc[r] \in Places

(* A handler's number is one the log gave.                                 *)
NumbersKnown == \A r \in Req : event[r] <= seq /\ (Owns(r) => event[r] >= 1)

OneOwner == \A r, q \in Req : Owns(r) /\ Owns(q) /\ event[r] = event[q] => r = q

OwnedUnsettled ==
  \A r \in Req, i \in DOMAIN items : Owns(r) /\ items[i].seq = event[r] => ~items[i].settled

(* The event names the body upstream has, except right after a resend.     *)
EventSaysBody ==
  \A r \in Req, i \in DOMAIN items :
    pc[r] \in {"upstream", "body"} /\ items[i].seq = event[r] =>
      (items[i].steered <=> sent[r] = "steered")

ResentIsOriginal == \A r \in Req : pc[r] = "resent" => sent[r] = "original"

Owners ==
  /\ LogInv(Event)
  /\ NumbersKnown
  /\ OneOwner
  /\ OwnedUnsettled
  /\ OpenEventHasOwner
  /\ EventSaysBody
  /\ ResentIsOriginal

IInv == TypeOK /\ Owners

-----------------------------------------------------------------------------
(* A new event belongs to the request that adds it.                        *)
LEMMA AddOwners ==
  ASSUME IInv, NEW r \in Req, ~Owns(r), NEW n \in Nat, NEW s \in BOOLEAN,
         Add(NewEvent(n, s)), event' = [event EXCEPT ![r] = seq + 1],
         NEW place \in {"answering", "upstream"}, pc' = [pc EXCEPT ![r] = place],
         s <=> sent'[r] = "steered", \A q \in Req : q # r => sent'[q] = sent[q]
  PROVE  Owners'
<1> USE DEF IInv, Owners
<1> DEFINE e == NewEvent(n, s)
           new == [e EXCEPT !.seq = seq + 1]
<1>1. e \in Event /\ ~e.settled /\ (e.steered <=> s) /\ seq \in Nat
  BY DEF NewEvent, Event, TypeOK
<1> HIDE DEF e
<1>2. /\ new \in Event /\ new.seq = seq + 1 /\ ~new.settled /\ (new.steered <=> s)
  BY <1>1 DEF Event
<1>3. Add(e)
  BY DEF e
<1>4. /\ LogInv(Event)' /\ seq' = seq + 1
      /\ DOMAIN items' = 1 .. Len(items') /\ Len(items') \in Nat \ {0}
      /\ items'[Len(items')] = new
      /\ \A i \in 1 .. Len(items') :
           i # Len(items') => \E j \in DOMAIN items : items'[i] = items[j]
  BY <1>2, <1>3, AddKeepsLog
<1> HIDE DEF new
<1>5. /\ event \in [Req -> Nat] /\ event'[r] = seq + 1 /\ pc'[r] = place
      /\ \A q \in Req : q # r => event'[q] = event[q] /\ pc'[q] = pc[q]
      /\ Owns(r)' /\ \A q \in Req : q # r => (Owns(q)' <=> Owns(q))
  BY DEF TypeOK, Owns, Places
<1>6. \A q \in Req : event[q] \in Nat /\ event[q] <= seq
  BY <1>5 DEF NumbersKnown
<1>7. \A j \in DOMAIN items : items[j].seq \in Nat /\ items[j].seq <= seq
  <2>1. \A j \in 1 .. Len(items) : items[j].seq = seq - Len(items) + j
    BY DEF LogInv, LogContiguous
  <2>2. Len(items) \in Nat /\ Len(items) <= seq /\ DOMAIN items = 1 .. Len(items)
    BY DEF LogInv, LogContiguous
  <2>3. \A j \in 1 .. Len(items) :
          seq - Len(items) + j \in Nat /\ seq - Len(items) + j <= seq
    BY <1>1, <2>2
  <2>4. QED
    BY <2>1, <2>2, <2>3
<1>8. NumbersKnown'
  <2> SUFFICES ASSUME NEW q \in Req
               PROVE  event'[q] <= seq' /\ (Owns(q)' => event'[q] >= 1)
    BY DEF NumbersKnown
  <2> seq \in Nat /\ seq' = seq + 1
    BY <1>1, <1>4
  <2>1. CASE q = r
    <3>1. event'[q] = seq + 1
      BY <1>5, <2>1
    <3>2. QED
      BY <3>1
  <2>2. CASE q # r
    <3>1. event'[q] = event[q] /\ (Owns(q)' <=> Owns(q))
      BY <1>5, <2>2
    <3>2. event[q] \in Nat /\ event[q] <= seq /\ (Owns(q) => event[q] >= 1)
      BY <1>6 DEF NumbersKnown
    <3>3. QED
      BY <3>1, <3>2
  <2>3. QED
    BY <2>1, <2>2
<1>9. OneOwner'
  BY <1>1, <1>5, <1>6 DEF OneOwner
<1>10. ASSUME NEW i \in DOMAIN items'
       PROVE  \/ items'[i] = new
              \/ \E j \in DOMAIN items : items'[i] = items[j]
  BY <1>4
<1>11. OwnedUnsettled'
  BY <1>1, <1>2, <1>5, <1>6, <1>7, <1>10 DEF OwnedUnsettled
<1>12. OpenEventHasOwner'
  <2> SUFFICES ASSUME NEW i \in DOMAIN items', ~items'[i].settled
               PROVE  \E q \in Req : event'[q] = items'[i].seq /\ pc'[q] \in Places
    BY DEF OpenEventHasOwner, Places
  <2>1. CASE items'[i] = new
    BY <1>2, <1>5, <2>1 DEF Places
  <2>2. CASE \E j \in DOMAIN items : items'[i] = items[j]
    <3>1. PICK j \in DOMAIN items : items'[i] = items[j]
      BY <2>2
    <3>2. PICK q \in Req : event[q] = items[j].seq /\ pc[q] \in Places
      BY <3>1 DEF OpenEventHasOwner, Places
    <3>3. q # r
      BY <3>2 DEF Owns
    <3>4. QED
      BY <1>5, <3>1, <3>2, <3>3
  <2>3. QED
    BY <1>10, <2>1, <2>2
<1>13. EventSaysBody'
  BY <1>1, <1>2, <1>5, <1>6, <1>7, <1>10 DEF EventSaysBody
<1>14. ResentIsOriginal'
  BY <1>5 DEF ResentIsOriginal
<1>15. QED
  BY <1>4, <1>8, <1>9, <1>11, <1>12, <1>13, <1>14

(* The owner settles its event and is done with it.                        *)
LEMMA SettleOwners ==
  ASSUME IInv, NEW r \in Req, Owns(r), SettleEvent(r),
         pc' = [pc EXCEPT ![r] = "idle"], event' = event, sent' = sent
  PROVE  Owners'
<1> USE DEF IInv, Owners
<1> DEFINE changed == [i \in DOMAIN items |-> [items[i] EXCEPT !.settled = TRUE]]
<1>1. \A i \in DOMAIN items : items[i] \in Event
  BY DEF LogInv
<1>2. \A i \in DOMAIN items : /\ changed[i] \in Event /\ changed[i].seq = items[i].seq
                              /\ changed[i].settled
  BY <1>1 DEF Event
<1>3. Update(event[r], changed)
  BY DEF SettleEvent
<1> HIDE DEF changed
<1>4. /\ LogInv(Event)' /\ seq' = seq /\ DOMAIN items' = DOMAIN items
      /\ \A i \in DOMAIN items :
           items'[i] = IF items[i].seq = event[r] THEN changed[i] ELSE items[i]
  BY <1>2, <1>3, UpdateKeepsLog
<1>5. \A i \in DOMAIN items :
        /\ items'[i].seq = items[i].seq
        /\ items[i].seq = event[r] => items'[i].settled
        /\ items[i].seq # event[r] => items'[i] = items[i]
  BY <1>2, <1>4
<1>6. /\ pc'[r] = "idle" /\ ~Owns(r)'
      /\ \A q \in Req : q # r => pc'[q] = pc[q] /\ (Owns(q)' <=> Owns(q))
  BY DEF TypeOK, Owns, Places
<1>7. NumbersKnown' /\ OneOwner'
  BY <1>4, <1>6 DEF NumbersKnown, OneOwner
<1>8. OwnedUnsettled'
  BY <1>4, <1>5, <1>6 DEF OwnedUnsettled, OneOwner
<1>9. OpenEventHasOwner'
  <2> SUFFICES ASSUME NEW i \in DOMAIN items', ~items'[i].settled
               PROVE  \E q \in Req : event'[q] = items'[i].seq /\ pc'[q] \in Places
    BY DEF OpenEventHasOwner, Places
  <2>1. i \in DOMAIN items /\ items[i].seq # event[r] /\ items'[i] = items[i]
    BY <1>4, <1>5
  <2>2. PICK q \in Req : event[q] = items[i].seq /\ pc[q] \in Places
    BY <2>1 DEF OpenEventHasOwner, Places
  <2>3. QED
    BY <1>6, <2>1, <2>2
<1>10. EventSaysBody'
  <2> SUFFICES ASSUME NEW q \in Req, NEW i \in DOMAIN items',
                      pc'[q] \in {"upstream", "body"}, items'[i].seq = event'[q]
               PROVE  items'[i].steered <=> sent'[q] = "steered"
    BY DEF EventSaysBody
  <2>1. q # r /\ pc'[q] = pc[q] /\ Owns(q) /\ i \in DOMAIN items /\ items[i].seq = event[q]
    BY <1>4, <1>5, <1>6 DEF Owns, Places
  <2>2. event[q] # event[r]
    BY <2>1 DEF OneOwner
  <2>3. QED
    BY <1>5, <2>1, <2>2 DEF EventSaysBody
<1>11. ResentIsOriginal'
  BY <1>6 DEF ResentIsOriginal
<1>12. QED
  BY <1>4, <1>7, <1>8, <1>9, <1>10, <1>11

(* An update that settles nothing, of an event whose body it keeps or, by  *)
(* the owner after a resend, corrects.                                     *)
LEMMA NoteOwners ==
  ASSUME IInv, NEW r \in Req, NEW changed, Update(event[r], changed),
         \A i \in DOMAIN items : /\ changed[i] \in Event /\ changed[i].seq = items[i].seq
                                 /\ changed[i].settled <=> items[i].settled,
         event' = event, sent' = sent,
         \/ pc' = pc /\ \A i \in DOMAIN items : changed[i].steered <=> items[i].steered
         \/ /\ pc[r] = "resent" /\ pc' = [pc EXCEPT ![r] = "body"]
            /\ \A i \in DOMAIN items : ~changed[i].steered
  PROVE  Owners'
<1> USE DEF IInv, Owners
<1>1. /\ LogInv(Event)' /\ seq' = seq /\ DOMAIN items' = DOMAIN items
      /\ \A i \in DOMAIN items :
           items'[i] = IF items[i].seq = event[r] THEN changed[i] ELSE items[i]
  BY UpdateKeepsLog
<1>2. \A i \in DOMAIN items :
        /\ items'[i].seq = items[i].seq /\ items'[i].settled <=> items[i].settled
        /\ items[i].seq # event[r] => items'[i] = items[i]
        /\ items[i].seq = event[r] => items'[i] = changed[i]
  BY <1>1
<1>3. /\ \A q \in Req : Owns(q)' <=> Owns(q)
      /\ \A q \in Req : q # r => pc'[q] = pc[q]
      /\ pc' = pc \/ (pc[r] = "resent" /\ pc'[r] = "body")
  BY DEF TypeOK, Owns, Places
<1>4. NumbersKnown' /\ OneOwner' /\ OwnedUnsettled'
  BY <1>1, <1>2, <1>3 DEF NumbersKnown, OneOwner, OwnedUnsettled
<1>5. OpenEventHasOwner'
  <2> SUFFICES ASSUME NEW i \in DOMAIN items', ~items'[i].settled
               PROVE  \E q \in Req : event'[q] = items'[i].seq /\ pc'[q] \in Places
    BY DEF OpenEventHasOwner, Places
  <2>1. i \in DOMAIN items /\ ~items[i].settled /\ items'[i].seq = items[i].seq
    BY <1>1, <1>2
  <2>2. PICK q \in Req : event[q] = items[i].seq /\ pc[q] \in Places
    BY <2>1 DEF OpenEventHasOwner, Places
  <2>3. QED
    BY <1>3, <2>1, <2>2 DEF Owns
<1>6. EventSaysBody'
  <2> SUFFICES ASSUME NEW q \in Req, NEW i \in DOMAIN items',
                      pc'[q] \in {"upstream", "body"}, items'[i].seq = event'[q]
               PROVE  items'[i].steered <=> sent'[q] = "steered"
    BY DEF EventSaysBody
  <2>1. i \in DOMAIN items /\ items[i].seq = event[q] /\ Owns(q)
    BY <1>1, <1>2, <1>3 DEF Owns, Places
  <2>2. CASE pc' = pc /\ \A j \in DOMAIN items : changed[j].steered <=> items[j].steered
    BY <1>2, <2>1, <2>2 DEF EventSaysBody
  <2>3. CASE pc[r] = "resent" /\ \A j \in DOMAIN items : ~changed[j].steered
    <3>1. CASE q = r
      BY <1>2, <2>1, <2>3, <3>1 DEF ResentIsOriginal
    <3>2. CASE q # r
      <4>1. event[q] # event[r]
        BY <2>1, <2>3, <3>2 DEF OneOwner, Owns, Places
      <4>2. QED
        BY <1>2, <1>3, <2>1, <3>2, <4>1 DEF EventSaysBody
    <3>3. QED
      BY <3>1, <3>2
  <2>4. QED
    BY <2>2, <2>3
<1>7. ResentIsOriginal'
  BY <1>3 DEF ResentIsOriginal
<1>8. QED
  BY <1>1, <1>4, <1>5, <1>6, <1>7

(* A step that leaves the log alone and moves at most one handler.         *)
LEMMA QuietOwners ==
  ASSUME IInv, NEW r \in Req, seq' = seq, items' = items, event' = event,
         \A q \in Req : q # r => pc'[q] = pc[q] /\ sent'[q] = sent[q],
         Owns(r)' <=> Owns(r),
         pc'[r] \in {"upstream", "body"} => pc[r] \in {"upstream", "body"} /\ sent'[r] = sent[r],
         pc'[r] = "resent" => sent'[r] = "original" \/ (pc[r] = "resent" /\ sent'[r] = sent[r])
  PROVE  Owners'
<1> USE DEF IInv, Owners
<1>1. \A q \in Req : Owns(q)' <=> Owns(q)
  BY DEF Owns
<1>2. LogInv(Event)'
  BY DEF LogInv, LogContiguous, LogStarted
<1>3. NumbersKnown' /\ OneOwner' /\ OwnedUnsettled'
  BY <1>1 DEF NumbersKnown, OneOwner, OwnedUnsettled
<1>4. OpenEventHasOwner'
  BY <1>1 DEF OpenEventHasOwner, Owns, Places
<1>5. EventSaysBody' /\ ResentIsOriginal'
  BY DEF EventSaysBody, ResentIsOriginal
<1>6. QED
  BY <1>2, <1>3, <1>4, <1>5

-----------------------------------------------------------------------------
(* Every step keeps the types, given those of the log.                     *)
LEMMA StepTypes == IInv /\ Next /\ Owners' => TypeOK'
<1> SUFFICES ASSUME IInv, Next, Owners' PROVE TypeOK'
  OBVIOUS
<1> USE DEF IInv, TypeOK
<1>1. seq' \in Nat /\ items' \in Seq(Event)
  BY DEF Owners, LogInv
<1>2. \A n \in 0 .. MaxCalls : n \in Nat
  BY BoundsAssumption
<1>3. /\ served + 1 \in Nat /\ requests + 1 \in Nat /\ passthrough + 1 \in Nat
      /\ rewritten + 1 \in Nat /\ jevHTTP + 1 \in Nat /\ seq + 1 \in Nat
      /\ passthrough > 0 => passthrough - 1 \in Nat
      /\ \A r \in Req : frames[r] + 1 \in Nat
  OBVIOUS
<1>4. QED
  <2>1. ASSUME NEW r \in Req, ArriveInference(r) PROVE TypeOK'
    BY <1>1, <1>3, <2>1 DEF ArriveInference, Arrive, Goto
  <2>2. ASSUME NEW r \in Req, ArriveControl(r) PROVE TypeOK'
    BY <1>1, <1>3, <2>2 DEF ArriveControl, Arrive, Goto, counters
  <2>3. ASSUME NEW r \in Req, ArriveDevin(r) PROVE TypeOK'
    BY <1>1, <1>3, <2>3 DEF ArriveDevin, Arrive, Goto
  <2>4. ASSUME NEW r \in Req, BodyUnread(r) PROVE TypeOK'
    BY <1>1, <1>3, <2>4 DEF BodyUnread, Goto, stream, counters
  <2>5. ASSUME NEW r \in Req, NotJSON(r) PROVE TypeOK'
    BY <1>1, <1>3, <2>5 DEF NotJSON, Goto, stream
  <2>6. ASSUME NEW r \in Req, NotObject(r) PROVE TypeOK'
    BY <1>1, <1>3, <2>6 DEF NotObject, Goto, stream, counters
  <2>7. ASSUME NEW r \in Req, AddNative(r) PROVE TypeOK'
    BY <1>1, <1>3, <2>7 DEF AddNative, AddFor, Goto, stream, counters
  <2>8. ASSUME NEW r \in Req, AddForwarded(r) PROVE TypeOK'
    BY <1>1, <1>3, <2>8 DEF AddForwarded, AddFor, Goto, stream, counters
  <2>9. ASSUME NEW r \in Req, AddDirect(r) PROVE TypeOK'
    BY <1>1, <1>3, <2>9 DEF AddDirect, AddFor, Goto, stream, counters
  <2>10. ASSUME NEW r \in Req, AddStream(r) PROVE TypeOK'
    BY <1>1, <1>3, <2>10 DEF AddStream, AddFor, Goto, counters
  <2>11. ASSUME NEW r \in Req, StreamCall(r) PROVE TypeOK'
    BY <1>1, <1>3, <2>11 DEF StreamCall
  <2>12. ASSUME NEW r \in Req, StreamEnds(r) PROVE TypeOK'
    BY <1>1, <1>3, <2>12 DEF StreamEnds, counters
  <2>13. ASSUME NEW r \in Req, StreamRewrite(r) PROVE TypeOK'
    BY <1>1, <1>3, <2>13 DEF StreamRewrite
  <2>14. ASSUME NEW r \in Req, RecordStreamCall(r) PROVE TypeOK'
    BY <1>1, <1>3, <2>14 DEF RecordStreamCall, counters
  <2>15. ASSUME NEW r \in Req, Respond(r) PROVE TypeOK'
    BY <1>1, <1>3, <2>15 DEF Respond, Goto, stream, counters
  <2>16. ASSUME NEW r \in Req, Resend(r) PROVE TypeOK'
    BY <1>1, <1>3, <2>16 DEF Resend, Goto, stream, counters
  <2>17. ASSUME NEW r \in Req, RecordResend(r) PROVE TypeOK'
    BY <1>1, <1>3, <2>17 DEF RecordResend, Goto, stream, counters
  <2>18. ASSUME NEW r \in Req, NoResponse(r) PROVE TypeOK'
    BY <1>1, <1>3, <2>18 DEF NoResponse, Goto, stream, counters
  <2>19. ASSUME NEW r \in Req, BodyEnds(r) PROVE TypeOK'
    BY <1>1, <1>3, <2>19 DEF BodyEnds, Goto, stream, counters
  <2>20. ASSUME NEW r \in Req, AnswerHere(r) PROVE TypeOK'
    BY <1>1, <1>3, <2>20 DEF AnswerHere, Goto, stream, counters
  <2>21. ASSUME NEW r \in Req, NEW n \in 0 .. MaxCalls, Native(r, n) PROVE TypeOK'
    <3>1. n \in Nat /\ calls[r] + n \in Nat /\ jevHTTP + n \in Nat
          /\ jevHTTP + calls[r] + n \in Nat
      BY <1>2
    <3>2. QED
      BY <1>1, <1>3, <2>21, <3>1 DEF Native, Goto, stream
  <2>22. ASSUME NEW r \in Req, NEW n \in 0 .. MaxCalls, FoldCalls(r, n) PROVE TypeOK'
    <3>1. n \in Nat /\ calls[r] + n \in Nat /\ jevHTTP + n \in Nat
          /\ jevHTTP + calls[r] + n \in Nat
      BY <1>2
    <3>2. QED
      BY <1>1, <1>3, <2>22, <3>1 DEF FoldCalls, Goto, stream
  <2>23. ASSUME NEW r \in Req, NEW n \in 0 .. MaxCalls, NEW changed \in BOOLEAN,
               NEW body \in {"original", "steered"}, Rewrite(r, n, changed, body)
        PROVE  TypeOK'
    BY <1>1, <1>2, <1>3, <2>23 DEF Rewrite, Goto, stream
  <2>24. QED
    BY <2>1, <2>2, <2>3, <2>4, <2>5, <2>6, <2>7, <2>8, <2>9, <2>10, <2>11, <2>12,
        <2>13, <2>14, <2>15, <2>16, <2>17, <2>18, <2>19, <2>20, <2>21, <2>22, <2>23 DEF Next

(* Every step leaves events and handlers in step.                          *)
LEMMA StepOwners == IInv /\ Next => Owners'
<1> SUFFICES ASSUME IInv, Next PROVE Owners'
  OBVIOUS
<1>t. /\ pc \in [Req -> {"idle", "reading", "native", "counted", "folded", "built", "stream",
                         "answering", "upstream", "resent", "body"}]
      /\ calls \in [Req -> Nat] /\ sent \in [Req -> {"original", "steered"}]
  BY DEF IInv, TypeOK
<1>i. \A i \in DOMAIN items : items[i] \in Event
  BY DEF IInv, TypeOK
<1>1. ASSUME NEW r \in Req, ArriveInference(r) PROVE Owners'
  BY <1>1, <1>t, QuietOwners DEF ArriveInference, Arrive, Idle, Goto, log, Owns, Places
<1>2. ASSUME NEW r \in Req, ArriveDevin(r) PROVE Owners'
  BY <1>2, <1>t, QuietOwners DEF ArriveDevin, Arrive, Idle, Goto, log, Owns, Places
<1>3. ASSUME NEW r \in Req, BodyUnread(r) PROVE Owners'
  BY <1>3, <1>t, QuietOwners DEF BodyUnread, Goto, log, Owns, Places
<1>4. ASSUME NEW r \in Req, NotJSON(r) PROVE Owners'
  BY <1>4, <1>t, QuietOwners DEF NotJSON, Goto, log, Owns, Places
<1>5. ASSUME NEW r \in Req, NotObject(r) PROVE Owners'
  BY <1>5, <1>t, QuietOwners DEF NotObject, Goto, log, Owns, Places
<1>6. ASSUME NEW r \in Req, Respond(r) PROVE Owners'
  BY <1>6, <1>t, QuietOwners DEF Respond, Goto, log, Owns, Places
<1>7. ASSUME NEW r \in Req, Resend(r) PROVE Owners'
  BY <1>7, <1>t, QuietOwners DEF Resend, Goto, log, Owns, Places
<1>8. ASSUME NEW r \in Req, StreamCall(r) PROVE Owners'
  BY <1>8, <1>t, QuietOwners DEF StreamCall, log, Owns, Places
<1>9. ASSUME NEW r \in Req, StreamRewrite(r) PROVE Owners'
  BY <1>9, <1>t, QuietOwners DEF StreamRewrite, log, Owns, Places
<1>10. ASSUME NEW r \in Req, StreamEnds(r) PROVE Owners'
  BY <1>10, <1>t, QuietOwners DEF StreamEnds, log, Owns, Places
<1>11. ASSUME NEW r \in Req, NEW n \in 0 .. MaxCalls, Native(r, n)
      PROVE  Owners'
  BY <1>11, <1>t, QuietOwners DEF Native, Goto, log, Owns, Places
<1>12. ASSUME NEW r \in Req, NEW n \in 0 .. MaxCalls, FoldCalls(r, n)
      PROVE  Owners'
  BY <1>12, <1>t, QuietOwners DEF FoldCalls, Goto, log, Owns, Places
<1>13. ASSUME NEW r \in Req, NEW n \in 0 .. MaxCalls, NEW changed \in BOOLEAN,
              NEW body \in {"original", "steered"}, Rewrite(r, n, changed, body)
      PROVE  Owners'
  BY <1>13, <1>t, QuietOwners DEF Rewrite, Goto, log, Owns, Places
<1>14. ASSUME NEW r \in Req, AddNative(r) PROVE Owners'
  <2>1. ~Owns(r) /\ calls[r] \in Nat /\ (sent[r] = "steered") \in BOOLEAN
    BY <1>14, <1>t DEF AddNative, Owns, Places
  <2>2. PICK place \in {"answering", "upstream"} : AddFor(r, place) /\ sent' = sent
    BY <1>14 DEF AddNative
  <2>3. QED
    BY <2>1, <2>2, AddOwners DEF AddFor, Goto
<1>15. ASSUME NEW r \in Req, AddForwarded(r) PROVE Owners'
  <2>1. ~Owns(r) /\ calls[r] \in Nat /\ (sent[r] = "steered") \in BOOLEAN
    BY <1>15, <1>t DEF AddForwarded, Owns, Places
  <2>2. PICK place \in {"answering", "upstream"} : AddFor(r, place) /\ sent' = sent
    BY <1>15 DEF AddForwarded
  <2>3. QED
    BY <2>1, <2>2, AddOwners DEF AddFor, Goto
<1>16. ASSUME NEW r \in Req, AddDirect(r) PROVE Owners'
  <2>1. ~Owns(r) /\ calls[r] \in Nat /\ (sent[r] = "steered") \in BOOLEAN
    BY <1>16, <1>t DEF AddDirect, Owns, Places
  <2>2. PICK place \in {"answering", "upstream"} : AddFor(r, place) /\ sent' = sent
    BY <1>16 DEF AddDirect
  <2>3. QED
    BY <2>1, <2>2, AddOwners DEF AddFor, Goto
<1>17. ASSUME NEW r \in Req, AddStream(r) PROVE Owners'
  <2>1. ~Owns(r) /\ calls[r] \in Nat /\ (sent[r] = "steered") \in BOOLEAN
    BY <1>17, <1>t DEF AddStream, Owns, Places
  <2>2. PICK place \in {"answering", "upstream"} : AddFor(r, place) /\ sent' = sent
    BY <1>17 DEF AddStream
  <2>3. QED
    BY <2>1, <2>2, AddOwners DEF AddFor, Goto
<1>18. ASSUME NEW r \in Req, ArriveControl(r) PROVE Owners'
  <2>1. ~Owns(r) /\ sent' = [sent EXCEPT ![r] = "original"]
    BY <1>18, <1>t DEF ArriveControl, Arrive, Idle, Owns, Places
  <2>2. /\ Add(NewEvent(0, FALSE)) /\ event' = [event EXCEPT ![r] = seq + 1]
        /\ pc' = [pc EXCEPT ![r] = "upstream"]
    BY <1>18 DEF ArriveControl, Goto
  <2>3. (FALSE <=> sent'[r] = "steered") /\ \A q \in Req : q # r => sent'[q] = sent[q]
    BY <1>t, <2>1
  <2>4. QED
    BY <2>1, <2>2, <2>3, AddOwners
<1>19. ASSUME NEW r \in Req, AnswerHere(r) PROVE Owners'
  BY <1>19, SettleOwners DEF AnswerHere, Goto, Owns, Places
<1>20. ASSUME NEW r \in Req, NoResponse(r) PROVE Owners'
  BY <1>20, SettleOwners DEF NoResponse, Goto, Owns, Places
<1>21. ASSUME NEW r \in Req, BodyEnds(r) PROVE Owners'
  BY <1>21, SettleOwners DEF BodyEnds, Goto, Owns, Places
<1>22. ASSUME NEW r \in Req, RecordStreamCall(r) PROVE Owners'
  <2> DEFINE changed == [i \in DOMAIN items |-> [items[i] EXCEPT !.calls = @ + 1]]
  <2>1. \A i \in DOMAIN items :
          /\ changed[i] \in Event /\ changed[i].seq = items[i].seq
          /\ changed[i].settled <=> items[i].settled
          /\ changed[i].steered <=> items[i].steered
    BY <1>i DEF Event
  <2>2. Update(event[r], changed) /\ event' = event /\ sent' = sent /\ pc' = pc
    BY <1>22 DEF RecordStreamCall
  <2> HIDE DEF changed
  <2>3. QED
    BY <2>1, <2>2, NoteOwners
<1>23. ASSUME NEW r \in Req, RecordResend(r) PROVE Owners'
  <2> DEFINE changed == [i \in DOMAIN items |-> [items[i] EXCEPT !.steered = FALSE]]
  <2>1. \A i \in DOMAIN items :
          /\ changed[i] \in Event /\ changed[i].seq = items[i].seq
          /\ changed[i].settled <=> items[i].settled
          /\ ~changed[i].steered
    BY <1>i DEF Event
  <2>2. /\ Update(event[r], changed) /\ event' = event /\ sent' = sent
        /\ pc[r] = "resent" /\ pc' = [pc EXCEPT ![r] = "body"]
    BY <1>23 DEF RecordResend, Goto
  <2> HIDE DEF changed
  <2>3. QED
    BY <2>1, <2>2, NoteOwners
<1>24. QED
  BY <1>1, <1>2, <1>3, <1>4, <1>5, <1>6, <1>7, <1>8, <1>9, <1>10, <1>11, <1>12,
     <1>13, <1>14, <1>15, <1>16, <1>17, <1>18, <1>19, <1>20, <1>21, <1>22, <1>23 DEF Next

(* Init establishes the invariant.                                         *)
LEMMA InitInv == Init => IInv
<1> SUFFICES ASSUME Init PROVE IInv
  OBVIOUS
<1>1. seq = 0 /\ items = << >> /\ \A r \in Req : event[r] = 0 /\ ~Owns(r) /\ pc[r] = "idle"
  BY DEF Init, LogInit, Owns, Places
<1>2. TypeOK
  BY <1>1 DEF Init, TypeOK
<1>3. LogInv(Event)
  BY <1>1, LimitAssumption DEF LogInv, LogContiguous, LogStarted
<1>4. NumbersKnown /\ OneOwner /\ OwnedUnsettled /\ OpenEventHasOwner
  BY <1>1 DEF NumbersKnown, OneOwner, OwnedUnsettled, OpenEventHasOwner
<1>5. EventSaysBody /\ ResentIsOriginal
  BY <1>1 DEF EventSaysBody, ResentIsOriginal
<1>6. QED
  BY <1>2, <1>3, <1>4, <1>5 DEF IInv, Owners

(* Every step preserves the invariant.                                     *)
LEMMA StepInv == IInv /\ [Next]_vars => IInv'
<1>1. IInv /\ Next => IInv'
  BY StepOwners, StepTypes DEF IInv
<1>2. IInv /\ UNCHANGED vars => IInv'
  BY DEF vars, stream, counters, IInv, TypeOK, Owners, LogInv, LogContiguous, LogStarted,
         NumbersKnown, OneOwner, OwnedUnsettled, OpenEventHasOwner, EventSaysBody,
         ResentIsOriginal, Owns
<1>3. QED
  BY <1>1, <1>2

-----------------------------------------------------------------------------
(* In every reachable state the invariant holds.                           *)
THEOREM Invariant == Spec => []IInv
<1>1. QED
  BY InitInv, StepInv, PTL DEF Spec

(* Handlers, counters and log keep their types; no counter goes below 0.   *)
THEOREM Types == Spec => []TypeOK
<1>1. IInv => TypeOK
  BY DEF IInv
<1>2. QED
  BY <1>1, Invariant, PTL

(* An open event in the log has a handler that is going to settle it, on   *)
(* every path through the handler, ModifyResponse, ErrorHandler and the    *)
(* usage callback (proxy.go).                                              *)
THEOREM OpenEventsOwned == Spec => []OpenEventHasOwner
<1>1. IInv => OpenEventHasOwner
  BY DEF IInv, Owners
<1>2. QED
  BY <1>1, Invariant, PTL

(* While a response is delivered its event says which body it answers, the *)
(* steered one or the original that was sent again.                        *)
THEOREM EventsMatchDelivery == Spec => []EventMatchesDelivery
<1>1. IInv => EventMatchesDelivery
  BY DEF IInv, Owners, EventSaysBody, EventMatchesDelivery
<1>2. QED
  BY <1>1, Invariant, PTL

-----------------------------------------------------------------------------
(* The log as its readers see it                                           *)

Entry == [seq : Nat, settled : BOOLEAN]

ViewOf(s) == [i \in DOMAIN s |-> [seq |-> s[i].seq, settled |-> s[i].settled]]

View == ViewOf(items)

(* The view of a log has its length, its numbers and what is settled.      *)
LEMMA ViewOfLog ==
  ASSUME NEW s \in Seq(Event)
  PROVE  /\ ViewOf(s) \in Seq(Entry) /\ Len(ViewOf(s)) = Len(s) /\ DOMAIN ViewOf(s) = DOMAIN s
         /\ DOMAIN s = 1 .. Len(s) /\ Len(s) \in Nat
         /\ \A i \in 1 .. Len(s) : /\ ViewOf(s)[i] \in Entry
                                   /\ ViewOf(s)[i].seq = s[i].seq
                                   /\ ViewOf(s)[i].settled = s[i].settled
<1> DEFINE v == ViewOf(s)
<1>1. DOMAIN s = 1 .. Len(s) /\ Len(s) \in Nat /\ \A i \in 1 .. Len(s) : s[i] \in Event
  OBVIOUS
<1>2. v = [i \in 1 .. Len(s) |-> [seq |-> s[i].seq, settled |-> s[i].settled]]
  BY <1>1 DEF ViewOf
<1> HIDE DEF v
<1>3. \A i \in 1 .. Len(s) : v[i] \in Entry /\ v[i].seq = s[i].seq /\ v[i].settled = s[i].settled
  BY <1>1, <1>2 DEF Entry, Event
<1>4. v \in Seq(Entry) /\ Len(v) = Len(s) /\ DOMAIN v = DOMAIN s
  BY <1>1, <1>2, <1>3
<1>5. QED
  BY <1>1, <1>3, <1>4 DEF v

(* Events with the same number, both settled or not, are the same there.   *)
LEMMA SameEntry ==
  ASSUME NEW e \in Entry, NEW f \in Entry, e.seq = f.seq, e.settled = f.settled
  PROVE  e = f
BY DEF Entry

(* A new event of whatever content is a new event there.                   *)
LEMMA AddView ==
  ASSUME IInv, NEW n \in Nat, NEW s \in BOOLEAN, Add(NewEvent(n, s)), IInv'
  PROVE  Log!LogAdd
<1> DEFINE e == NewEvent(n, s)
           new == [e EXCEPT !.seq = seq + 1]
           blank == [seq |-> 0, settled |-> FALSE]
           fresh == [blank EXCEPT !.seq = seq + 1]
<1>1. seq \in Nat /\ items \in Seq(Event) /\ items' \in Seq(Event)
  BY DEF IInv, TypeOK
<1>2. e \in Event /\ ~e.settled /\ blank \in Entry /\ ~blank.settled
  BY DEF NewEvent, Event, Entry
<1>3. seq' = seq + 1 /\ items' = Append(Kept, new)
  BY DEF Add
<1> HIDE DEF e, blank
<1>4. /\ new \in Event /\ new.seq = seq + 1 /\ ~new.settled
      /\ fresh \in Entry /\ fresh.seq = seq + 1 /\ ~fresh.settled
  <2>1. seq + 1 \in Nat
    BY <1>1
  <2>2. new \in Event /\ new.seq = seq + 1 /\ ~new.settled
    BY ONLY <1>2, <2>1 DEF Event
  <2>3. fresh \in Entry /\ fresh.seq = seq + 1 /\ ~fresh.settled
    BY ONLY <1>2, <2>1 DEF Entry
  <2>4. QED
    BY <2>2, <2>3
<1> HIDE DEF new
<1> DEFINE KeptView == IF Len(View) >= Limit THEN Tail(View) ELSE View
<1>5. /\ View \in Seq(Entry) /\ Len(View) = Len(items) /\ Len(items) \in Nat
      /\ \A i \in 1 .. Len(items) : /\ View[i] \in Entry /\ View[i].seq = items[i].seq
                                    /\ View[i].settled = items[i].settled
  BY <1>1, ViewOfLog DEF View
<1>6. /\ View' \in Seq(Entry) /\ Len(View') = Len(items')
      /\ \A i \in 1 .. Len(items') : /\ View'[i] \in Entry /\ View'[i].seq = items'[i].seq
                                     /\ View'[i].settled = items'[i].settled
  BY <1>1, ViewOfLog DEF View
<1>7. /\ Kept \in Seq(Event) /\ KeptView \in Seq(Entry) /\ Len(Kept) = Len(KeptView)
      /\ Len(Kept) \in Nat
      /\ \A i \in 1 .. Len(Kept) : /\ KeptView[i] \in Entry /\ KeptView[i].seq = Kept[i].seq
                                   /\ KeptView[i].settled = Kept[i].settled
  <2>1. CASE Len(items) >= Limit
    <3>1. items # << >> /\ View # << >> /\ Kept = Tail(items) /\ KeptView = Tail(View)
      BY <1>1, <1>5, <2>1, LimitAssumption DEF Kept
    <3> HIDE DEF KeptView
    <3>2. /\ Kept \in Seq(Event) /\ KeptView \in Seq(Entry)
          /\ Len(Kept) = Len(items) - 1 /\ Len(KeptView) = Len(items) - 1
      BY <1>1, <1>5, <3>1
    <3>3. \A i \in 1 .. Len(items) - 1 :
            Kept[i] = items[i + 1] /\ KeptView[i] = View[i + 1] /\ i + 1 \in 1 .. Len(items)
      BY <1>1, <1>5, <3>1
    <3>4. QED
      BY <1>5, <3>1, <3>2, <3>3
  <2>2. CASE ~(Len(items) >= Limit)
    BY <1>1, <1>5, <2>2 DEF Kept
  <2>3. QED
    BY <2>1, <2>2
<1> HIDE DEF KeptView, fresh
<1>8. View' = Append(KeptView, fresh)
  <2>1. /\ Len(items') = Len(Kept) + 1 /\ items'[Len(Kept) + 1] = new
        /\ \A i \in 1 .. Len(Kept) : items'[i] = Kept[i]
    BY <1>3, <1>4, <1>7
  <2>2. /\ Append(KeptView, fresh) \in Seq(Entry)
        /\ Len(Append(KeptView, fresh)) = Len(Kept) + 1
        /\ Append(KeptView, fresh)[Len(Kept) + 1] = fresh
        /\ \A i \in 1 .. Len(Kept) : Append(KeptView, fresh)[i] = KeptView[i]
    BY <1>4, <1>7
  <2>3. ASSUME NEW i \in 1 .. Len(Kept) + 1 PROVE View'[i] = Append(KeptView, fresh)[i]
    <3>1. CASE i \in 1 .. Len(Kept)
      <4>1. i \in 1 .. Len(items') /\ items'[i] = Kept[i]
        BY <1>7, <2>1, <3>1
      <4>2. /\ View'[i] \in Entry /\ View'[i].seq = Kept[i].seq
            /\ View'[i].settled = Kept[i].settled
        BY <1>6, <4>1
      <4>3. /\ KeptView[i] \in Entry /\ KeptView[i].seq = Kept[i].seq
            /\ KeptView[i].settled = Kept[i].settled
        BY <1>7, <3>1
      <4>4. View'[i] = KeptView[i]
        BY <4>2, <4>3, SameEntry
      <4>5. QED
        BY <2>2, <3>1, <4>4
    <3>2. CASE i = Len(Kept) + 1
      <4>1. i \in 1 .. Len(items') /\ items'[i] = new
        BY <1>7, <2>1, <3>2
      <4>2. new.settled = fresh.settled
        BY <1>4 DEF Event, Entry
      <4>3. /\ View'[i] \in Entry /\ View'[i].seq = fresh.seq
            /\ View'[i].settled = fresh.settled
        BY <1>4, <1>6, <4>1, <4>2
      <4>4. View'[i] = fresh
        BY <1>4, <4>3, SameEntry
      <4>5. QED
        BY <2>2, <3>2, <4>4
    <3>3. QED
      BY <1>7, <3>1, <3>2
  <2>4. QED
    BY <1>6, <1>7, <2>1, <2>2, <2>3
<1>9. Log!Kept = KeptView
  BY DEF Log!Kept, KeptView, View, ViewOf
<1>10. QED
  BY <1>3, <1>8, <1>9 DEF Log!LogAdd, Log!Add, View, ViewOf, fresh, blank

(* An update that settles no event does not show there.                    *)
LEMMA NoteView ==
  ASSUME IInv, NEW n, NEW changed, Update(n, changed),
         \A i \in DOMAIN items : /\ changed[i] \in Event /\ changed[i].seq = items[i].seq
                                 /\ changed[i].settled = items[i].settled
  PROVE  View' = View /\ seq' = seq
<1>1. items \in Seq(Event) /\ LogInv(Event)
  BY DEF IInv, TypeOK, Owners
<1>2. /\ LogInv(Event)' /\ seq' = seq /\ DOMAIN items' = DOMAIN items /\ Len(items') = Len(items)
      /\ \A i \in DOMAIN items :
           items'[i] = IF items[i].seq = n THEN changed[i] ELSE items[i]
  BY <1>1, UpdateKeepsLog
<1>3. items' \in Seq(Event)
  BY <1>2 DEF LogInv
<1>4. \A i \in DOMAIN items : items'[i].seq = items[i].seq /\ items'[i].settled = items[i].settled
  BY <1>2
<1>5. View' = View
  BY <1>2, <1>4 DEF View, ViewOf
<1>6. QED
  BY <1>2, <1>5

(* A handler settles its event there, or the log has dropped the event.    *)
LEMMA SettleView ==
  ASSUME IInv, NEW r \in Req, Owns(r), SettleEvent(r)
  PROVE  (\E n \in 1 .. seq : Log!LogSettle(n)) \/ (View' = View /\ seq' = seq)
<1> DEFINE changed == [i \in DOMAIN items |-> [items[i] EXCEPT !.settled = TRUE]]
<1>0. PICK n \in 1 .. seq : n = event[r]
  BY DEF IInv, TypeOK, Owners, NumbersKnown
<1>1. items \in Seq(Event) /\ LogInv(Event)
  BY DEF IInv, TypeOK, Owners
<1>2. \A i \in DOMAIN items : items[i] \in Event
  BY <1>1
<1>3. \A i \in DOMAIN items : changed[i] \in Event /\ changed[i].seq = items[i].seq
                              /\ changed[i].settled = TRUE
  BY <1>2 DEF Event
<1>4. Update(n, changed)
  BY <1>0 DEF SettleEvent, Update
<1> HIDE DEF changed
<1>5. /\ LogInv(Event)' /\ seq' = seq /\ DOMAIN items' = DOMAIN items
      /\ \A i \in DOMAIN items : items'[i] = IF items[i].seq = n THEN changed[i] ELSE items[i]
  BY <1>1, <1>3, <1>4, UpdateKeepsLog
<1>6. CASE \E i \in DOMAIN items : items[i].seq = n
  <2> DEFINE settledView == [i \in DOMAIN View |-> [View[i] EXCEPT !.settled = TRUE]]
  <2>1. PICK i \in DOMAIN items : items[i].seq = n
    BY <1>6
  <2>2. ~items[i].settled
    BY <1>0, <2>1 DEF IInv, Owners, OwnedUnsettled
  <2>3. /\ DOMAIN View = DOMAIN items
        /\ \A j \in DOMAIN items : /\ View[j] \in Entry /\ View[j].seq = items[j].seq
                                   /\ View[j].settled = items[j].settled
    BY <1>1, ViewOfLog DEF View
  <2>4. Log!Unsettled(n)
    BY <2>1, <2>2, <2>3 DEF Log!Unsettled, View, ViewOf
  <2>5. /\ DOMAIN View' = DOMAIN items
        /\ \A j \in DOMAIN items : /\ View'[j] \in Entry /\ View'[j].seq = items'[j].seq
                                   /\ View'[j].settled = items'[j].settled
    <3>1. items' \in Seq(Event)
      BY <1>5 DEF LogInv
    <3>2. QED
      BY <1>5, <3>1, ViewOfLog DEF View
  <2>6. \A j \in DOMAIN items : /\ settledView[j] \in Entry
                                /\ settledView[j].seq = View[j].seq
                                /\ settledView[j].settled = TRUE
    BY <2>3 DEF Entry
  <2> HIDE DEF settledView
  <2>7. ASSUME NEW j \in DOMAIN items
        PROVE  View'[j] = IF View[j].seq = n THEN settledView[j] ELSE View[j]
    <3>1. CASE items[j].seq = n
      <4>1. View'[j].seq = settledView[j].seq /\ View'[j].settled = settledView[j].settled
        <5>1. items'[j] = changed[j]
          BY <1>5, <3>1
        <5>2. items'[j].seq = items[j].seq /\ items'[j].settled = TRUE
          BY <1>3, <5>1
        <5>3. QED
          BY <2>3, <2>5, <2>6, <5>2
      <4>2. View'[j] = settledView[j]
        BY <2>5, <2>6, <4>1, SameEntry
      <4>3. QED
        BY <2>3, <3>1, <4>2
    <3>2. CASE items[j].seq # n
      <4>1. View'[j].seq = View[j].seq /\ View'[j].settled = View[j].settled
        BY <1>5, <2>3, <2>5, <3>2
      <4>2. View'[j] = View[j]
        BY <2>3, <2>5, <4>1, SameEntry
      <4>3. QED
        BY <2>3, <3>2, <4>2
    <3>3. QED
      BY <3>1, <3>2
  <2>8. View' = [j \in DOMAIN View |-> IF View[j].seq = n THEN settledView[j] ELSE View[j]]
    <3>1. View' = [j \in DOMAIN View' |-> View'[j]]
      BY DEF View, ViewOf
    <3>2. QED
      BY <2>3, <2>5, <2>7, <3>1
  <2>9. Log!LogSettle(n)
    BY <1>5, <2>4, <2>8 DEF Log!LogSettle, Log!Update, settledView, View, ViewOf
  <2>10. QED
    BY <2>9
<1>7. CASE ~ \E i \in DOMAIN items : items[i].seq = n
  <2>1. \A i \in DOMAIN items : items'[i] = items[i]
    BY <1>5, <1>7
  <2>2. View' = View
    BY <1>5, <2>1 DEF View, ViewOf
  <2>3. QED
    BY <1>5, <2>2
<1>8. QED
  BY <1>6, <1>7

(* Every step of a handler is a step of the log as its readers see it.     *)
LEMMA StepView == IInv /\ IInv' /\ Next => Log!LogNext \/ (View' = View /\ seq' = seq)
<1> SUFFICES ASSUME IInv, IInv', Next PROVE Log!LogNext \/ (View' = View /\ seq' = seq)
  OBVIOUS
<1>1. UNCHANGED log => View' = View /\ seq' = seq
  BY DEF log, View, ViewOf
<1>2. ASSUME NEW r \in Req,
             \/ ArriveInference(r) \/ ArriveDevin(r) \/ BodyUnread(r) \/ NotJSON(r)
             \/ NotObject(r) \/ Respond(r) \/ Resend(r)
             \/ StreamCall(r) \/ StreamRewrite(r) \/ StreamEnds(r)
             \/ \E n \in 0 .. MaxCalls : Native(r, n) \/ FoldCalls(r, n)
             \/ \E n \in 0 .. MaxCalls, changed \in BOOLEAN, body \in {"original", "steered"} :
                  Rewrite(r, n, changed, body)
      PROVE  UNCHANGED log
  BY <1>2 DEF ArriveInference, ArriveDevin, Arrive, BodyUnread, NotJSON, NotObject, Respond,
              Resend, StreamCall, StreamRewrite, StreamEnds, Native, FoldCalls, Rewrite
<1>3. ASSUME NEW r \in Req, AddNative(r) \/ AddForwarded(r) \/ AddDirect(r) \/ AddStream(r)
      PROVE  Log!LogAdd
  <2>1. Add(NewEvent(calls[r], sent[r] = "steered"))
    BY <1>3 DEF AddNative, AddForwarded, AddDirect, AddStream, AddFor
  <2>2. calls[r] \in Nat /\ (sent[r] = "steered") \in BOOLEAN
    BY DEF IInv, TypeOK
  <2>3. QED
    BY <2>1, <2>2, AddView
<1>4. ASSUME NEW r \in Req, ArriveControl(r)
      PROVE  Log!LogAdd
  BY <1>4, AddView DEF ArriveControl
<1>5. ASSUME NEW r \in Req, AnswerHere(r) \/ NoResponse(r) \/ BodyEnds(r)
      PROVE  (\E n \in 1 .. seq : Log!LogSettle(n)) \/ (View' = View /\ seq' = seq)
  BY <1>5, SettleView DEF AnswerHere, NoResponse, BodyEnds, Owns, Places
<1>6. \A i \in DOMAIN items : items[i] \in Event
  BY DEF IInv, TypeOK
<1>7. ASSUME NEW r \in Req, RecordStreamCall(r)
      PROVE  View' = View /\ seq' = seq
  <2> DEFINE changed == [i \in DOMAIN items |-> [items[i] EXCEPT !.calls = @ + 1]]
  <2>1. \A i \in DOMAIN items : /\ changed[i] \in Event /\ changed[i].seq = items[i].seq
                                /\ changed[i].settled = items[i].settled
    BY <1>6 DEF Event
  <2>2. Update(event[r], changed)
    BY <1>7 DEF RecordStreamCall
  <2> HIDE DEF changed
  <2>3. QED
    BY <2>1, <2>2, NoteView
<1>8. ASSUME NEW r \in Req, RecordResend(r)
      PROVE  View' = View /\ seq' = seq
  <2> DEFINE changed == [i \in DOMAIN items |-> [items[i] EXCEPT !.steered = FALSE]]
  <2>1. \A i \in DOMAIN items : /\ changed[i] \in Event /\ changed[i].seq = items[i].seq
                                /\ changed[i].settled = items[i].settled
    BY <1>6 DEF Event
  <2>2. Update(event[r], changed)
    BY <1>8 DEF RecordResend
  <2> HIDE DEF changed
  <2>3. QED
    BY <2>1, <2>2, NoteView
<1>9. Log!LogAdd \/ (\E n \in 1 .. seq : Log!LogSettle(n)) \/ (View' = View /\ seq' = seq)
  BY <1>1, <1>2, <1>3, <1>4, <1>5, <1>7, <1>8 DEF Next
<1>10. QED
  BY <1>9 DEF Log!LogNext

(* The handlers do to the log what its readers rely on (events.go): events *)
(* are added unsettled and settled once, and nothing else shows.           *)
THEOREM HandlersImplementLog == Spec => ImplementsLog
<1>1. Init => Log!LogInit
  BY DEF Init, LogInit, Log!LogInit
<1>2. IInv /\ IInv' /\ [Next]_vars => [Log!LogNext]_(Log!log)
  <2> SUFFICES ASSUME IInv, IInv', [Next]_vars PROVE [Log!LogNext]_(Log!log)
    OBVIOUS
  <2>1. View' = View /\ seq' = seq => UNCHANGED Log!log
    BY DEF Log!log, View, ViewOf
  <2>2. CASE Next
    BY <2>1, <2>2, StepView
  <2>3. CASE UNCHANGED vars
    <3>1. View' = View /\ seq' = seq
      BY <2>3 DEF vars, View, ViewOf
    <3>2. QED
      BY <2>1, <3>1
  <2>4. QED
    BY <2>2, <2>3
<1>3. QED
  BY <1>1, <1>2, Invariant, PTL DEF Spec, ImplementsLog, Log!LogSpec

-----------------------------------------------------------------------------
(* Sums over finite sets                                                   *)

(* As many tokens for each d of D as h[d] says: a sum is their number.     *)
Tok(D, h) == {p \in D \X Nat : p[2] < h[p[1]]}

TokOf(d, n) == {d} \X (0 .. n - 1)

LEMMA TokOfCard ==
  ASSUME NEW d, NEW n \in Nat
  PROVE  IsFiniteSet(TokOf(d, n)) /\ Cardinality(TokOf(d, n)) = n
<1>1. IsFiniteSet({d}) /\ Cardinality({d}) = 1
  BY FS_Singleton
<1>2. IsFiniteSet(0 .. n - 1) /\ Cardinality(0 .. n - 1) = n
  BY FS_Interval
<1> DEFINE T == 0 .. n - 1
<1> HIDE DEF T
<1>3. IsFiniteSet({d} \X T) /\ Cardinality({d} \X T) = Cardinality({d}) * Cardinality(T)
  BY <1>1, <1>2, FS_Product DEF T
<1>4. 1 * n = n
  OBVIOUS
<1>5. QED
  BY <1>1, <1>2, <1>3, <1>4 DEF T, TokOf

(* The tokens of D are those of one of its elements and those of the rest. *)
LEMMA TokSplit ==
  ASSUME NEW D, NEW h \in [D -> Nat], NEW d \in D, IsFiniteSet(Tok(D \ {d}, h))
  PROVE  /\ IsFiniteSet(Tok(D, h))
         /\ Cardinality(Tok(D, h)) = Cardinality(Tok(D \ {d}, h)) + h[d]
         /\ Cardinality(Tok(D \ {d}, h)) \in Nat
<1> DEFINE rest == Tok(D \ {d}, h)
<1>1. h[d] \in Nat /\ IsFiniteSet(TokOf(d, h[d])) /\ Cardinality(TokOf(d, h[d])) = h[d]
  BY TokOfCard
<1>2. Tok(D, h) = rest \cup TokOf(d, h[d]) /\ rest \cap TokOf(d, h[d]) = {}
  BY DEF Tok, TokOf
<1>3. IsFiniteSet(rest) /\ Cardinality(rest) \in Nat
  BY FS_CardinalityType
<1> HIDE DEF rest
<1>4. /\ IsFiniteSet(rest \cup TokOf(d, h[d]))
      /\ Cardinality(rest \cup TokOf(d, h[d]))
           = Cardinality(rest) + Cardinality(TokOf(d, h[d]))
               - Cardinality(rest \cap TokOf(d, h[d]))
  BY <1>1, <1>3, FS_Union
<1>5. Cardinality(rest \cap TokOf(d, h[d])) = 0
  BY <1>2, FS_EmptySet
<1>6. QED
  BY <1>1, <1>2, <1>3, <1>4, <1>5 DEF rest

(* A sum changes by as much as its one term that changes.                  *)
LEMMA TokPoint ==
  ASSUME NEW D, NEW h \in [D -> Nat], NEW g \in [D -> Nat], NEW d \in D,
         \A e \in D : e # d => g[e] = h[e], IsFiniteSet(Tok(D, h))
  PROVE  /\ IsFiniteSet(Tok(D, g))
         /\ Cardinality(Tok(D, h)) \in Nat /\ Cardinality(Tok(D, g)) \in Nat
         /\ Cardinality(Tok(D, g)) + h[d] = Cardinality(Tok(D, h)) + g[d]
<1>1. Tok(D \ {d}, h) \in SUBSET Tok(D, h) /\ Tok(D \ {d}, g) = Tok(D \ {d}, h)
  BY DEF Tok
<1>2. IsFiniteSet(Tok(D \ {d}, h)) /\ IsFiniteSet(Tok(D \ {d}, g))
  BY <1>1, FS_Subset
<1>3. /\ Cardinality(Tok(D, h)) = Cardinality(Tok(D \ {d}, h)) + h[d]
      /\ Cardinality(Tok(D \ {d}, h)) \in Nat
  BY <1>2, TokSplit
<1>4. /\ IsFiniteSet(Tok(D, g))
      /\ Cardinality(Tok(D, g)) = Cardinality(Tok(D \ {d}, g)) + g[d]
  BY <1>2, TokSplit
<1>5. QED
  BY <1>1, <1>3, <1>4

(* A set of numbers has a least one.                                       *)
LEMMA LeastExists ==
  ASSUME NEW S \in SUBSET Nat, S # {}
  PROVE  \E n \in S : \A m \in S : n <= m
<1> DEFINE Below == OpToRel(<, Nat)
<1>1. IsWellFoundedOn(Below, Nat)
  BY NatLessThanWellFounded
<1>2. \A x, y \in Nat : <<x, y>> \in Below <=> x < y
  BY DEF OpToRel
<1> HIDE DEF Below
<1>3. PICK x \in S : \A y \in S : <<y, x>> \notin Below
  BY <1>1, WFMin
<1>4. ASSUME NEW y \in S PROVE x <= y
  <2>1. x \in Nat /\ y \in Nat /\ ~ (y < x)
    BY <1>2, <1>3
  <2>2. QED
    BY <2>1
<1>5. QED
  BY <1>4

(* What the sum of the community modules counts: choose an element, add    *)
(* its term to the sum of the others.                                      *)
Adds(iter, S, f) ==
  iter = [s \in SUBSET S |-> IF s = {} THEN 0
                             ELSE LET x == CHOOSE y \in s : TRUE IN f[x] + iter[s \ {x}]]

(* The subsets of a finite set have finitely many tokens.                  *)
LEMMA TokFinite ==
  ASSUME NEW S, IsFiniteSet(S), NEW f \in [S -> Nat]
  PROVE  \A s \in SUBSET S : IsFiniteSet(Tok(s, f))
<1> DEFINE bad == {s \in SUBSET S : ~IsFiniteSet(Tok(s, f))}
           sizes == {Cardinality(s) : s \in bad}
<1>1. \A s \in SUBSET S : IsFiniteSet(s) /\ Cardinality(s) \in Nat
  BY FS_Subset, FS_CardinalityType
<1> SUFFICES ASSUME bad # {} PROVE FALSE
  OBVIOUS
<1>2. sizes \in SUBSET Nat /\ sizes # {}
  BY <1>1
<1>3. PICK n \in sizes : \A m \in sizes : n <= m
  BY <1>2, LeastExists
<1>4. PICK s \in bad : n = Cardinality(s)
  BY <1>3
<1>5. s # {}
  <2>1. Tok({}, f) = {}
    BY DEF Tok
  <2>2. QED
    BY <1>4, <2>1, FS_EmptySet
<1>6. PICK x \in s : TRUE
  BY <1>5
<1>7. s \ {x} \in SUBSET S /\ Cardinality(s \ {x}) = Cardinality(s) - 1
  BY <1>1, <1>4, <1>6, FS_RemoveElement
<1>8. s \ {x} \notin bad
  <2>1. SUFFICES ASSUME s \ {x} \in bad PROVE FALSE
    OBVIOUS
  <2>2. Cardinality(s \ {x}) \in sizes
    BY <2>1
  <2>3. n <= Cardinality(s \ {x})
    BY <1>3, <2>2
  <2>4. QED
    BY <1>1, <1>4, <1>7, <2>3
<1>9. IsFiniteSet(Tok(s \ {x}, f))
  BY <1>7, <1>8
<1>10. Tok(s, f) = Tok(s \ {x}, f) \cup TokOf(x, f[x])
  BY <1>4, <1>6 DEF Tok, TokOf
<1>11. IsFiniteSet(Tok(s, f))
  <2>1. f[x] \in Nat
    BY <1>4, <1>6
  <2>2. IsFiniteSet(TokOf(x, f[x]))
    BY <2>1, TokOfCard
  <2>3. IsFiniteSet(Tok(s \ {x}, f) \cup TokOf(x, f[x]))
    BY <1>9, <2>2, FS_Union
  <2>4. QED
    BY <1>10, <2>3
<1>12. QED
  BY <1>4, <1>11

(* Taking one element away takes its tokens away.                          *)
LEMMA TokRemove ==
  ASSUME NEW S, IsFiniteSet(S), NEW f \in [S -> Nat], NEW s \in SUBSET S, NEW x \in s
  PROVE  Cardinality(Tok(s, f)) = f[x] + Cardinality(Tok(s \ {x}, f))
<1> DEFINE g == [y \in s |-> f[y]]
<1>1. g \in [s -> Nat] /\ Tok(s, f) = Tok(s, g) /\ Tok(s \ {x}, f) = Tok(s \ {x}, g)
      /\ g[x] = f[x] /\ f[x] \in Nat
  BY DEF Tok
<1> HIDE DEF g
<1>2. IsFiniteSet(Tok(s \ {x}, g))
  BY <1>1, TokFinite
<1>3. QED
  BY <1>1, <1>2, TokSplit

(* There is such a sum, and it is the number of tokens.                    *)
LEMMA SumIsTok ==
  ASSUME NEW S, IsFiniteSet(S), NEW f \in [S -> Nat]
  PROVE  /\ \E iter : Adds(iter, S, f)
         /\ \A iter : Adds(iter, S, f) => iter[S] = Cardinality(Tok(S, f))
<1>1. \A s \in SUBSET S : IsFiniteSet(s) /\ Cardinality(s) \in Nat
  BY FS_Subset, FS_CardinalityType
<1>2. Tok({}, f) = {} /\ Cardinality({}) = 0
  BY FS_EmptySet DEF Tok
<1>3. \A s \in SUBSET S : s # {} =>
        /\ (CHOOSE y \in s : TRUE) \in s
        /\ s \ {CHOOSE y \in s : TRUE} \in SUBSET S
        /\ Cardinality(Tok(s, f))
             = f[CHOOSE y \in s : TRUE] + Cardinality(Tok(s \ {CHOOSE y \in s : TRUE}, f))
  BY TokRemove
<1>4. \E iter : Adds(iter, S, f)
  <2> DEFINE count == [s \in SUBSET S |-> Cardinality(Tok(s, f))]
  <2>1. ASSUME NEW s \in SUBSET S
        PROVE  count[s] = IF s = {} THEN 0
                          ELSE f[CHOOSE y \in s : TRUE] + count[s \ {CHOOSE y \in s : TRUE}]
    BY <1>2, <1>3
  <2>2. count = [s \in SUBSET S |-> count[s]]
    OBVIOUS
  <2> HIDE DEF count
  <2>3. Adds(count, S, f)
    BY <2>1, <2>2 DEF Adds
  <2>4. QED
    BY <2>3
<1>5. ASSUME NEW iter, Adds(iter, S, f) PROVE iter[S] = Cardinality(Tok(S, f))
  <2> DEFINE bad == {s \in SUBSET S : iter[s] # Cardinality(Tok(s, f))}
             sizes == {Cardinality(s) : s \in bad}
  <2>1. \A s \in SUBSET S :
          iter[s] = IF s = {} THEN 0
                    ELSE f[CHOOSE y \in s : TRUE] + iter[s \ {CHOOSE y \in s : TRUE}]
    BY <1>5 DEF Adds
  <2> SUFFICES ASSUME bad # {} PROVE FALSE
    OBVIOUS
  <2>2. sizes \in SUBSET Nat /\ sizes # {}
    BY <1>1
  <2>3. PICK n \in sizes : \A m \in sizes : n <= m
    BY <2>2, LeastExists
  <2>4. PICK s \in bad : n = Cardinality(s)
    BY <2>3
  <2>5. s # {}
    BY <1>2, <2>1, <2>4
  <2> DEFINE x == CHOOSE y \in s : TRUE
  <2>6. x \in s /\ s \ {x} \in SUBSET S /\ Cardinality(s \ {x}) = Cardinality(s) - 1
    BY <1>1, <2>4, <2>5, FS_RemoveElement
  <2>7. s \ {x} \notin bad
    <3>1. SUFFICES ASSUME s \ {x} \in bad PROVE FALSE
      OBVIOUS
    <3>2. Cardinality(s \ {x}) \in sizes
      BY <3>1
    <3>3. n <= Cardinality(s \ {x})
      BY <2>3, <3>2
    <3>4. QED
      BY <1>1, <2>4, <2>6, <3>3
  <2>8. iter[s \ {x}] = Cardinality(Tok(s \ {x}, f))
    BY <2>6, <2>7
  <2>9. iter[s] = Cardinality(Tok(s, f))
    BY <1>3, <2>1, <2>4, <2>5, <2>8
  <2>10. QED
    BY <2>4, <2>9
<1>6. QED
  BY <1>4, <1>5

-----------------------------------------------------------------------------
(* The dashboard's totals                                                  *)

(* The calls that the event with a number carries, 0 if it is not retained.*)
CallsIn(s) == [n \in Nat |-> IF \E i \in DOMAIN s : s[i].seq = n
                               THEN s[CHOOSE i \in DOMAIN s : s[i].seq = n].calls
                               ELSE 0]

LogCalls == CallsIn(items)

(* s holds the events up to number q, without a gap.                       *)
UpTo(q, s) ==
  /\ q \in Nat /\ s \in Seq(Event) /\ Len(s) <= q
  /\ \A i \in DOMAIN s : s[i].seq = q - Len(s) + i

Early == {"reading", "native", "counted", "folded", "built", "stream"}

(* The calls of a request that are in the total and not yet in an event.   *)
Owed == [r \in Req |-> (IF pc[r] \in {"native", "folded"} THEN calls[r] ELSE 0)
                       + (IF writer[r] = "called" THEN 1 ELSE 0)]

CallsInOrder == \A r \in Req :
  /\ pc[r] \in {"reading", "built", "stream"} => calls[r] = 0
  /\ pc[r] \in Early => writer[r] = "off"
  /\ writer[r] # "off" => event[r] >= 1

(* The total is what the events carry and the requests owe them, and what  *)
(* went with the events that the log dropped.                              *)
Balanced ==
  /\ IsFiniteSet(Tok(Nat, LogCalls)) /\ IsFiniteSet(Tok(Req, Owed))
  /\ Cardinality(Tok(Nat, LogCalls)) + Cardinality(Tok(Req, Owed)) <= jevHTTP
  /\ Len(items) = seq =>
       Cardinality(Tok(Nat, LogCalls)) + Cardinality(Tok(Req, Owed)) = jevHTTP

CInv == CallsInOrder /\ Balanced

(* Each retained event has the number of its place, and no other has it.   *)
LEMMA Numbered ==
  ASSUME NEW q, NEW s, UpTo(q, s)
  PROVE  /\ q \in Nat /\ Len(s) \in Nat /\ DOMAIN s = 1 .. Len(s)
         /\ CallsIn(s) \in [Nat -> Nat]
         /\ \A i \in DOMAIN s : /\ s[i] \in Event /\ s[i].seq \in Nat /\ s[i].calls \in Nat
                                /\ s[i].seq > q - Len(s) /\ s[i].seq <= q
                                /\ CallsIn(s)[s[i].seq] = s[i].calls
         /\ \A n \in Nat : (\E i \in DOMAIN s : s[i].seq = n) \/ CallsIn(s)[n] = 0
         /\ \A i, j \in DOMAIN s : s[i].seq = s[j].seq => i = j
         /\ \A n \in 1 .. q : n > q - Len(s) => \E i \in DOMAIN s : s[i].seq = n
<1>1. /\ q \in Nat /\ Len(s) \in Nat /\ DOMAIN s = 1 .. Len(s)
      /\ Len(s) <= q /\ \A i \in DOMAIN s : s[i] \in Event
      /\ \A i \in 1 .. Len(s) : s[i].seq = q - Len(s) + i
  BY DEF UpTo
<1>2. \A i \in DOMAIN s :
        /\ s[i].seq \in Nat /\ s[i].calls \in Nat
        /\ s[i].seq > q - Len(s) /\ s[i].seq <= q
  BY <1>1 DEF Event
<1>3. \A i, j \in DOMAIN s : s[i].seq = s[j].seq => i = j
  BY <1>1
<1>4. \A i \in DOMAIN s : CallsIn(s)[s[i].seq] = s[i].calls
  <2> SUFFICES ASSUME NEW i \in DOMAIN s PROVE CallsIn(s)[s[i].seq] = s[i].calls
    OBVIOUS
  <2>1. (CHOOSE j \in DOMAIN s : s[j].seq = s[i].seq) = i
    BY <1>3
  <2>2. QED
    BY <1>2, <2>1 DEF CallsIn
<1>5. \A n \in Nat : (\E i \in DOMAIN s : s[i].seq = n) \/ CallsIn(s)[n] = 0
  BY DEF CallsIn
<1>6. CallsIn(s) \in [Nat -> Nat]
  <2>1. \A n \in Nat : CallsIn(s)[n] \in Nat
    BY <1>2, <1>4, <1>5
  <2>2. CallsIn(s) = [n \in Nat |-> CallsIn(s)[n]]
    BY DEF CallsIn
  <2>3. QED
    BY <2>1, <2>2
<1>7. ASSUME NEW n \in 1 .. q, n > q - Len(s)
      PROVE  \E i \in DOMAIN s : s[i].seq = n
  <2>1. n - (q - Len(s)) \in 1 .. Len(s)
    BY <1>1, <1>7
  <2>2. q - Len(s) + (n - (q - Len(s))) = n
    BY <1>1
  <2>3. QED
    BY <1>1, <2>1, <2>2
<1>8. QED
  BY <1>1, <1>2, <1>3, <1>4, <1>5, <1>6, <1>7

(* A number without a retained event carries nothing.                      *)
LEMMA NoCalls ==
  ASSUME NEW s, NEW m \in Nat, ~ \E i \in DOMAIN s : s[i].seq = m
  PROVE  CallsIn(s)[m] = 0
BY DEF CallsIn

(* The newest numbers have their event.                                    *)
LEMMA Retained ==
  ASSUME NEW q, NEW s, UpTo(q, s), NEW m \in 1 .. q, m > q - Len(s)
  PROVE  \E i \in DOMAIN s : s[i].seq = m
<1>1. \A n \in 1 .. q : n > q - Len(s) => \E i \in DOMAIN s : s[i].seq = n
  BY Numbered
<1>2. QED
  BY <1>1

(* What the dashboard sums up is what the events carry.                    *)
LEMMA EventCallsAreLogged ==
  ASSUME LogInv(Event)
  PROVE  IsFiniteSet(Tok(Nat, LogCalls)) /\ EventCalls = Cardinality(Tok(Nat, LogCalls))
<1> DEFINE S == DOMAIN items
           f == [i \in S |-> items[i].calls]
<1>0. UpTo(seq, items)
  BY DEF LogInv, LogContiguous, UpTo
<1>1. IsFiniteSet(S) /\ f \in [S -> Nat] /\ \A i \in S : f[i] = items[i].calls
  <2>1. S = 1 .. Len(items) /\ Len(items) \in Nat
    BY <1>0, Numbered
  <2>2. IsFiniteSet(S)
    BY <2>1, FS_Interval
  <2>3. QED
    BY <1>0, <2>2, Numbered
<1>n. /\ \A i \in S : items[i].seq \in Nat /\ LogCalls[items[i].seq] = f[i]
      /\ \A n \in Nat : (\E i \in S : items[i].seq = n) \/ LogCalls[n] = 0
      /\ \A i, j \in S : items[i].seq = items[j].seq => i = j
  BY <1>0, <1>1, Numbered DEF LogCalls
<1>2. EventCalls = Cardinality(Tok(S, f))
  <2> DEFINE iter == CHOOSE iter : Adds(iter, S, f)
  <2>1. EventCalls = iter[S]
    BY DEF EventCalls, MapThenSumSet, MapThenFoldSet, Adds
  <2>2. QED
    BY <1>1, <2>1, SumIsTok
<1> HIDE DEF f, S
<1> DEFINE g == [p \in Tok(S, f) |-> <<items[p[1]].seq, p[2]>>]
<1>3. IsFiniteSet(Tok(S, f))
  BY <1>1, TokFinite
<1>4. g \in Bijection(Tok(S, f), Tok(Nat, LogCalls))
  <2>1. ASSUME NEW p \in Tok(S, f) PROVE g[p] \in Tok(Nat, LogCalls)
    <3>1. p[1] \in S /\ p[2] \in Nat /\ p[2] < f[p[1]] /\ g[p] = <<items[p[1]].seq, p[2]>>
      BY DEF Tok
    <3>2. items[p[1]].seq \in Nat /\ LogCalls[items[p[1]].seq] = f[p[1]]
      BY <1>n, <3>1
    <3>3. QED
      BY <3>1, <3>2 DEF Tok
  <2>2. ASSUME NEW p \in Tok(S, f), NEW q \in Tok(S, f), g[p] = g[q] PROVE p = q
    <3>1. /\ p[1] \in S /\ q[1] \in S /\ p = <<p[1], p[2]>> /\ q = <<q[1], q[2]>>
          /\ items[p[1]].seq = items[q[1]].seq /\ p[2] = q[2]
      BY <2>2 DEF Tok
    <3>2. p[1] = q[1]
      BY <1>n, <3>1
    <3>3. QED
      BY <3>1, <3>2
  <2>3. ASSUME NEW t \in Tok(Nat, LogCalls) PROVE \E p \in Tok(S, f) : g[p] = t
    <3>1. t[1] \in Nat /\ t[2] \in Nat /\ t[2] < LogCalls[t[1]] /\ t = <<t[1], t[2]>>
      BY DEF Tok
    <3>0. LogCalls[t[1]] # 0
      BY <3>1
    <3>2. PICK i \in S : items[i].seq = t[1]
      BY <1>n, <3>0, <3>1
    <3>3. LogCalls[t[1]] = f[i]
      BY <1>n, <3>2
    <3>4. <<i, t[2]>> \in Tok(S, f)
      BY <3>1, <3>3 DEF Tok
    <3>5. g[<<i, t[2]>>] = t
      BY <3>1, <3>2, <3>4
    <3>6. QED
      BY <3>4, <3>5
  <2>4. g \in [Tok(S, f) -> Tok(Nat, LogCalls)]
    BY <2>1
  <2> HIDE DEF g
  <2>5. QED
    BY <2>2, <2>3, <2>4 DEF Bijection, Injection, Surjection, IsInjective
<1> HIDE DEF g
<1>5. ExistsBijection(Tok(S, f), Tok(Nat, LogCalls))
  BY <1>4 DEF ExistsBijection
<1>6. QED
  BY <1>2, <1>3, <1>5, FS_Bijection

(* Every handler owes a number of calls.                                   *)
LEMMA OwedType == TypeOK => Owed \in [Req -> Nat]
BY DEF TypeOK, Owed

(* What one handler owes more, all of them owe more.                       *)
OweSums(r) ==
  /\ IsFiniteSet(Tok(Req, Owed)') /\ jevHTTP \in Nat /\ jevHTTP' \in Nat
  /\ Cardinality(Tok(Req, Owed)) \in Nat /\ Cardinality(Tok(Req, Owed)') \in Nat
  /\ Owed[r] \in Nat /\ Owed'[r] \in Nat
  /\ Cardinality(Tok(Req, Owed)') + Owed[r] = Cardinality(Tok(Req, Owed)) + Owed'[r]

LEMMA OweStep ==
  ASSUME IInv, IInv', Balanced, NEW r \in Req, \A q \in Req : q # r => Owed'[q] = Owed[q]
  PROVE  OweSums(r)
<1>1. Owed \in [Req -> Nat] /\ Owed' \in [Req -> Nat] /\ jevHTTP \in Nat /\ jevHTTP' \in Nat
  <2>1. (TypeOK => Owed \in [Req -> Nat])'
    BY OwedType, PTL
  <2>2. QED
    BY <2>1, OwedType DEF IInv, TypeOK
<1>2. IsFiniteSet(Tok(Req, Owed))
  BY DEF Balanced
<1>3. /\ IsFiniteSet(Tok(Req, Owed'))
      /\ Cardinality(Tok(Req, Owed)) \in Nat /\ Cardinality(Tok(Req, Owed')) \in Nat
      /\ Cardinality(Tok(Req, Owed')) + Owed[r] = Cardinality(Tok(Req, Owed)) + Owed'[r]
  BY <1>1, <1>2, TokPoint
<1>4. Tok(Req, Owed)' = Tok(Req, Owed')
  BY DEF Tok
<1>5. QED
  BY <1>1, <1>3, <1>4 DEF OweSums

(* What moves from one side of a sum to the other leaves it as it is.      *)
LEMMA SumMoves ==
  ASSUME NEW l \in Nat, NEW k \in Nat, NEW o \in Nat, NEW p \in Nat, NEW a \in Nat, NEW b \in Nat,
         NEW j \in Nat, NEW h \in Nat, p + a = o + b
  PROVE  /\ k + b + j <= l + a + h /\ l + o <= j => k + p <= h
         /\ k + b + j = l + a + h /\ l + o = j => k + p = h
OBVIOUS

(* What a step moves into the log, out of it, or into the total, it moves  *)
(* out of what one handler owes or into it.                                *)
LEMMA Rebalance ==
  ASSUME IInv, IInv', Balanced, NEW r \in Req, \A q \in Req : q # r => Owed'[q] = Owed[q],
         IsFiniteSet(Tok(Nat, LogCalls)'),
         Cardinality(Tok(Nat, LogCalls)') + Owed'[r] + jevHTTP
           <= Cardinality(Tok(Nat, LogCalls)) + Owed[r] + jevHTTP',
         Len(items') = seq' =>
           /\ Len(items) = seq
           /\ Cardinality(Tok(Nat, LogCalls)') + Owed'[r] + jevHTTP
                = Cardinality(Tok(Nat, LogCalls)) + Owed[r] + jevHTTP'
  PROVE  Balanced'
<1> DEFINE o == Cardinality(Tok(Req, Owed))
           p == Cardinality(Tok(Req, Owed)')
           l == Cardinality(Tok(Nat, LogCalls))
           k == Cardinality(Tok(Nat, LogCalls)')
           a == Owed[r]
           b == Owed'[r]
<1>1. OweSums(r)
  BY OweStep
<1>2. /\ o \in Nat /\ p \in Nat /\ a \in Nat /\ b \in Nat
      /\ jevHTTP \in Nat /\ jevHTTP' \in Nat /\ p + a = o + b
  BY <1>1 DEF OweSums
<1>3. l \in Nat /\ k \in Nat
  BY FS_CardinalityType DEF Balanced
<1>4. /\ k + b + jevHTTP <= l + a + jevHTTP' /\ l + o <= jevHTTP => k + p <= jevHTTP'
      /\ k + b + jevHTTP = l + a + jevHTTP' /\ l + o = jevHTTP => k + p = jevHTTP'
  <2> HIDE DEF o, p, l, k, a, b
  <2> DEFINE j == jevHTTP
             h == jevHTTP'
  <2>1. j \in Nat /\ h \in Nat
    BY <1>2
  <2> HIDE DEF j, h
  <2>2. /\ k + b + j <= l + a + h /\ l + o <= j => k + p <= h
        /\ k + b + j = l + a + h /\ l + o = j => k + p = h
    BY ONLY <1>2, <1>3, <2>1, SumMoves
  <2>3. QED
    BY <2>2 DEF j, h
<1>5. l + o <= jevHTTP /\ (Len(items) = seq => l + o = jevHTTP)
  BY DEF Balanced
<1>6. k + p <= jevHTTP' /\ (Len(items') = seq' => k + p = jevHTTP')
  BY <1>4, <1>5
<1>7. IsFiniteSet(Tok(Req, Owed)')
  BY <1>1 DEF OweSums
<1>8. QED
  BY <1>6, <1>7 DEF Balanced

(* A step that leaves the calls in the log alone and counts in the total   *)
(* what it lets one handler owe.                                           *)
LEMMA OweBalance ==
  ASSUME IInv, IInv', Balanced, LogCalls' = LogCalls, seq' = seq, Len(items') = Len(items),
         NEW r \in Req, \A q \in Req : q # r => Owed'[q] = Owed[q],
         Owed'[r] + jevHTTP = Owed[r] + jevHTTP'
  PROVE  Balanced'
<1>1. OweSums(r)
  BY OweStep
<1>2. Tok(Nat, LogCalls)' = Tok(Nat, LogCalls)
  BY DEF Tok
<1>3. IsFiniteSet(Tok(Nat, LogCalls)) /\ Cardinality(Tok(Nat, LogCalls)) \in Nat
  BY FS_CardinalityType DEF Balanced
<1>4. /\ jevHTTP \in Nat /\ jevHTTP' \in Nat /\ Owed[r] \in Nat /\ Owed'[r] \in Nat
  BY <1>1 DEF OweSums
<1> DEFINE l == Cardinality(Tok(Nat, LogCalls))
           a == Owed[r]
           b == Owed'[r]
<1>5. l + b + jevHTTP = l + a + jevHTTP' /\ l + b + jevHTTP <= l + a + jevHTTP'
  <2>1. l \in Nat /\ a \in Nat /\ b \in Nat /\ b + jevHTTP = a + jevHTTP'
    BY <1>3, <1>4
  <2> HIDE DEF l, a, b
  <2>2. l + b + jevHTTP = l + (b + jevHTTP) /\ l + a + jevHTTP' = l + (a + jevHTTP')
    BY <1>4, <2>1
  <2>3. l + b + jevHTTP \in Nat
    BY <1>4, <2>1
  <2>4. QED
    BY <2>1, <2>2, <2>3
<1>6. QED
  BY <1>2, <1>3, <1>5, Rebalance

(* t is the log s with one more event, of n calls, and what is kept of s.  *)
Grown(q, s, t, n) ==
  /\ q \in Nat /\ n \in Nat /\ UpTo(q, s) /\ UpTo(q + 1, t)
  /\ Len(t) <= Len(s) + 1 /\ Len(t) >= 1
  /\ t[Len(t)].seq = q + 1 /\ t[Len(t)].calls = n
  /\ \A i \in DOMAIN t : i # Len(t) => \E j \in DOMAIN s : t[i] = s[j]

(* The sum over a log to which an event was added, with room made for it   *)
(* or not.                                                                 *)
LEMMA AddSums ==
  ASSUME NEW q, NEW s, NEW t, NEW n, Grown(q, s, t, n), IsFiniteSet(Tok(Nat, CallsIn(s)))
  PROVE  /\ IsFiniteSet(Tok(Nat, CallsIn(t)))
         /\ Cardinality(Tok(Nat, CallsIn(t))) <= Cardinality(Tok(Nat, CallsIn(s))) + n
         /\ Len(t) = q + 1 =>
              /\ Len(s) = q
              /\ Cardinality(Tok(Nat, CallsIn(t))) = Cardinality(Tok(Nat, CallsIn(s))) + n
<1> DEFINE W == CallsIn(s)
           V == CallsIn(t)
           X == [W EXCEPT ![q + 1] = n]
<1>q. q \in Nat /\ n \in Nat /\ q + 1 \in Nat /\ UpTo(q, s) /\ UpTo(q + 1, t)
  BY DEF Grown
<1>t. W \in [Nat -> Nat] /\ V \in [Nat -> Nat]
  BY <1>q, Numbered
<1>3. X \in [Nat -> Nat] /\ X[q + 1] = n /\ \A m \in Nat : m # q + 1 => X[m] = W[m]
  <2> HIDE DEF W
  <2>1. QED
    BY <1>q, <1>t
<1>o. ASSUME NEW m \in Nat, m = 0 \/ m > q PROVE W[m] = 0
  <2>1. \A j \in DOMAIN s : s[j].seq # m
    <3>1. \A j \in DOMAIN s : s[j].seq \in Nat /\ s[j].seq > q - Len(s) /\ s[j].seq <= q
      BY <1>q, Numbered
    <3>2. Len(s) \in Nat /\ Len(s) <= q
      BY <1>q, Numbered DEF UpTo
    <3>3. QED
      BY <1>o, <1>q, <3>1, <3>2
  <2>2. QED
    BY <2>1, NoCalls
<1>4. W[q + 1] = 0
  BY <1>o, <1>q
<1>5. V[q + 1] = n
  <2>1. Len(t) \in DOMAIN t
    BY <1>q, Numbered DEF Grown
  <2>2. V[t[Len(t)].seq] = t[Len(t)].calls
    BY <1>q, <2>1, Numbered
  <2>3. QED
    BY <2>2 DEF Grown
<1>6. ASSUME NEW i \in DOMAIN t, t[i].seq # q + 1
      PROVE  V[t[i].seq] = W[t[i].seq]
  <2>1. i # Len(t)
    BY <1>6 DEF Grown
  <2>2. PICK j \in DOMAIN s : t[i] = s[j]
    BY <2>1 DEF Grown
  <2>3. V[t[i].seq] = t[i].calls
    BY <1>q, Numbered
  <2>4. W[s[j].seq] = s[j].calls
    BY <1>q, Numbered
  <2>5. QED
    BY <2>2, <2>3, <2>4
<1>7. ASSUME NEW m \in Nat, m # q + 1 PROVE V[m] = W[m] \/ V[m] = 0
  <2>1. CASE \E i \in DOMAIN t : t[i].seq = m
    BY <1>6, <1>7, <2>1
  <2>2. CASE ~ \E i \in DOMAIN t : t[i].seq = m
    BY <2>2, NoCalls
  <2>3. QED
    BY <2>1, <2>2
<1>8. ASSUME Len(t) = q + 1 PROVE V = X /\ Len(s) = q
  <2>1. Len(s) = q
    <3>1. Len(s) \in Nat /\ Len(s) <= q /\ Len(t) <= Len(s) + 1
      BY <1>q, Numbered DEF Grown, UpTo
    <3>2. QED
      BY <1>8, <1>q, <3>1
  <2>2. ASSUME NEW m \in Nat, m # q + 1 PROVE V[m] = W[m]
    <3>1. CASE m \in 1 .. q
      <4>1. m \in 1 .. q + 1 /\ m > q + 1 - Len(t)
        BY <1>8, <1>q, <3>1
      <4>2. PICK i \in DOMAIN t : t[i].seq = m
        BY <1>q, <4>1, Retained
      <4>3. QED
        BY <1>6, <2>2, <4>2
    <3>2. CASE m = 0 \/ m > q
      BY <1>7, <1>o, <2>2, <3>2
    <3>3. QED
      BY <1>q, <3>1, <3>2
  <2>3. \A m \in Nat : V[m] = X[m]
    BY <1>3, <1>5, <2>2
  <2> HIDE DEF W, V, X
  <2>4. V = X
    BY <1>t, <1>3, <2>3
  <2>5. QED
    BY <2>1, <2>4
<1> HIDE DEF W, V, X
<1>9. /\ IsFiniteSet(Tok(Nat, X)) /\ Cardinality(Tok(Nat, X)) \in Nat
      /\ Cardinality(Tok(Nat, W)) \in Nat
      /\ Cardinality(Tok(Nat, X)) + W[q + 1] = Cardinality(Tok(Nat, W)) + X[q + 1]
  <2>1. IsFiniteSet(Tok(Nat, W)) /\ q + 1 \in Nat
    BY <1>q DEF W
  <2>2. QED
    BY <1>t, <1>3, <2>1, TokPoint
<1>10. Tok(Nat, V) \in SUBSET Tok(Nat, X)
  <2>1. ASSUME NEW p \in Tok(Nat, V) PROVE p \in Tok(Nat, X)
    <3>1. p \in Nat \X Nat /\ p[1] \in Nat /\ p[2] \in Nat /\ p[2] < V[p[1]]
      BY DEF Tok
    <3>2. V[p[1]] # 0
      BY <3>1
    <3>3. V[p[1]] = X[p[1]]
      BY <1>3, <1>5, <1>7, <3>1, <3>2
    <3>4. QED
      BY <3>1, <3>3 DEF Tok
  <2>2. QED
    BY <2>1
<1>11. /\ IsFiniteSet(Tok(Nat, V)) /\ Cardinality(Tok(Nat, V)) \in Nat
       /\ Cardinality(Tok(Nat, V)) <= Cardinality(Tok(Nat, X))
  BY <1>9, <1>10, FS_Subset, FS_CardinalityType
<1>12. Cardinality(Tok(Nat, X)) = Cardinality(Tok(Nat, W)) + n
  BY <1>3, <1>4, <1>9
<1>13. QED
  BY <1>q, <1>8, <1>9, <1>11, <1>12 DEF W, V

(* t is the log s in which the event with number k has one call more.      *)
Called(q, s, t, k) ==
  /\ q \in Nat /\ UpTo(q, s) /\ UpTo(q, t) /\ DOMAIN t = DOMAIN s /\ k \in 1 .. q
  /\ \A i \in DOMAIN s :
       /\ t[i].seq = s[i].seq
       /\ t[i].calls = IF s[i].seq = k THEN s[i].calls + 1 ELSE s[i].calls

(* The sum over a log after a call was recorded, if there is its event.    *)
LEMMA RecordSums ==
  ASSUME NEW q, NEW s, NEW t, NEW k, Called(q, s, t, k), IsFiniteSet(Tok(Nat, CallsIn(s)))
  PROVE  /\ IsFiniteSet(Tok(Nat, CallsIn(t)))
         /\ Cardinality(Tok(Nat, CallsIn(t))) <= Cardinality(Tok(Nat, CallsIn(s))) + 1
         /\ Len(s) = q =>
              Cardinality(Tok(Nat, CallsIn(t))) = Cardinality(Tok(Nat, CallsIn(s))) + 1
<1> DEFINE W == CallsIn(s)
           V == CallsIn(t)
<1>q. q \in Nat /\ k \in Nat /\ k \in 1 .. q /\ UpTo(q, s) /\ UpTo(q, t) /\ DOMAIN t = DOMAIN s
  BY DEF Called
<1>t. W \in [Nat -> Nat] /\ V \in [Nat -> Nat]
  BY <1>q, Numbered
<1>1. ASSUME NEW i \in DOMAIN s
      PROVE  V[s[i].seq] = IF s[i].seq = k THEN W[s[i].seq] + 1 ELSE W[s[i].seq]
  <2>1. V[t[i].seq] = t[i].calls /\ W[s[i].seq] = s[i].calls
    BY <1>q, Numbered
  <2>2. t[i].seq = s[i].seq /\ t[i].calls = IF s[i].seq = k THEN s[i].calls + 1 ELSE s[i].calls
    BY DEF Called
  <2>3. QED
    BY <2>1, <2>2
<1>2. ASSUME NEW m \in Nat, ~ \E i \in DOMAIN s : s[i].seq = m
      PROVE  V[m] = 0 /\ W[m] = 0
  <2>1. ~ \E i \in DOMAIN t : t[i].seq = m
    BY <1>2 DEF Called
  <2>2. QED
    BY <1>2, <2>1, NoCalls
<1>3. ASSUME NEW m \in Nat, m # k PROVE V[m] = W[m]
  BY <1>1, <1>2, <1>3
<1>4. V[k] = W[k] + 1 \/ (V[k] = W[k] /\ Len(s) # q)
  <2>1. CASE \E j \in DOMAIN s : s[j].seq = k
    BY <1>1, <2>1
  <2>2. CASE ~ \E j \in DOMAIN s : s[j].seq = k
    <3>1. V[k] = W[k]
      BY <1>q, <1>2, <2>2
    <3>2. ~ (k > q - Len(s))
      BY <1>q, <2>2, Retained
    <3>3. Len(s) \in Nat
      BY <1>q, Numbered
    <3>4. Len(s) # q
      BY <1>q, <3>2, <3>3
    <3>5. QED
      BY <3>1, <3>4
  <2>3. QED
    BY <2>1, <2>2
<1> HIDE DEF W, V
<1>5. /\ IsFiniteSet(Tok(Nat, V)) /\ Cardinality(Tok(Nat, V)) \in Nat
      /\ Cardinality(Tok(Nat, W)) \in Nat
      /\ Cardinality(Tok(Nat, V)) + W[k] = Cardinality(Tok(Nat, W)) + V[k]
  <2>1. IsFiniteSet(Tok(Nat, W))
    BY DEF W
  <2>2. \A m \in Nat : m # k => V[m] = W[m]
    BY <1>3
  <2>3. QED
    BY <1>q, <1>t, <2>1, <2>2, TokPoint, SMTT(30)
<1>6. W[k] \in Nat
  BY <1>q, <1>t
<1>7. QED
  BY <1>4, <1>5, <1>6 DEF W, V

(* A new event carries what its request owed; what the log drops for it    *)
(* leaves the sum and not the total.                                       *)
LEMMA AddBalance ==
  ASSUME IInv, IInv', Balanced, NEW r \in Req, NEW n \in Nat, NEW b \in BOOLEAN,
         Add(NewEvent(n, b)), jevHTTP' = jevHTTP, Owed[r] = n, Owed'[r] = 0,
         \A q \in Req : q # r => Owed'[q] = Owed[q]
  PROVE  Balanced'
<1> DEFINE e == NewEvent(n, b)
           new == [e EXCEPT !.seq = seq + 1]
<1>1. UpTo(seq, items) /\ UpTo(seq', items') /\ LogInv(Event) /\ seq \in Nat
  BY DEF IInv, Owners, LogInv, LogContiguous, UpTo
<1>2. e \in Event /\ e.calls = n
  BY DEF NewEvent, Event
<1>3. Add(e)
  OBVIOUS
<1> HIDE DEF e
<1>4. new \in Event /\ new.seq = seq + 1 /\ new.calls = n
  BY <1>1, <1>2 DEF Event
<1>5. /\ seq' = seq + 1 /\ DOMAIN items' = 1 .. Len(items') /\ Len(items') \in Nat \ {0}
      /\ items'[Len(items')] = new
      /\ \A i \in 1 .. Len(items') :
           i # Len(items') => \E j \in DOMAIN items : items'[i] = items[j]
  BY <1>1, <1>3, <1>4, AddKeepsLog
<1>6. Len(items') <= Len(items) + 1
  <2>1. items' = Append(Kept, new) /\ items \in Seq(Event)
    BY <1>3 DEF Add, IInv, TypeOK
  <2> HIDE DEF new
  <2>2. Kept \in Seq(Event) /\ Len(Kept) <= Len(items)
    BY <2>1, LimitAssumption DEF Kept
  <2>3. QED
    BY <1>4, <2>1, <2>2
<1> HIDE DEF new
<1>7. IsFiniteSet(Tok(Nat, CallsIn(items)))
  BY DEF Balanced, LogCalls
<1>8. /\ IsFiniteSet(Tok(Nat, CallsIn(items')))
      /\ Cardinality(Tok(Nat, CallsIn(items'))) <= Cardinality(Tok(Nat, CallsIn(items))) + n
      /\ Len(items') = seq + 1 =>
           /\ Len(items) = seq
           /\ Cardinality(Tok(Nat, CallsIn(items'))) = Cardinality(Tok(Nat, CallsIn(items))) + n
  <2>1. Grown(seq, items, items', n)
    BY <1>1, <1>4, <1>5, <1>6 DEF Grown
  <2>2. QED
    BY <1>7, <2>1, AddSums
<1>9. /\ Cardinality(Tok(Nat, CallsIn(items'))) \in Nat
      /\ Cardinality(Tok(Nat, CallsIn(items))) \in Nat
  BY <1>7, <1>8, FS_CardinalityType
<1>10. LogCalls' = CallsIn(items') /\ LogCalls = CallsIn(items)
  BY DEF LogCalls
<1>11. Tok(Nat, LogCalls)' = Tok(Nat, CallsIn(items'))
  BY <1>10 DEF Tok
<1>12. jevHTTP \in Nat
  BY DEF IInv, TypeOK
<1> DEFINE l == Cardinality(Tok(Nat, LogCalls))
           k == Cardinality(Tok(Nat, LogCalls)')
<1>13. /\ k + 0 + jevHTTP <= l + n + jevHTTP
       /\ Len(items') = seq' => Len(items) = seq /\ k + 0 + jevHTTP = l + n + jevHTTP
  <2>1. /\ k \in Nat /\ l \in Nat /\ k <= l + n
        /\ Len(items') = seq + 1 => Len(items) = seq /\ k = l + n
    BY <1>8, <1>9, <1>10, <1>11
  <2> HIDE DEF k, l
  <2>2. k + 0 + jevHTTP <= l + n + jevHTTP
    BY <1>12, <2>1
  <2>3. Len(items') = seq' => Len(items) = seq /\ k + 0 + jevHTTP = l + n + jevHTTP
    BY <1>5, <1>12, <2>1
  <2>4. QED
    BY <2>2, <2>3
<1>14. QED
  BY <1>8, <1>11, <1>13, Rebalance

(* A call of a stream moves from what its request owes to its event, or    *)
(* nowhere if the log dropped the event.                                   *)
LEMMA RecordBalance ==
  ASSUME IInv, IInv', Balanced, NEW r \in Req, event[r] >= 1, jevHTTP' = jevHTTP,
         NEW changed, Update(event[r], changed),
         \A i \in DOMAIN items :
           /\ changed[i] \in Event /\ changed[i].seq = items[i].seq
           /\ changed[i].calls = items[i].calls + 1,
         Owed[r] = 1, Owed'[r] = 0, \A q \in Req : q # r => Owed'[q] = Owed[q]
  PROVE  Balanced'
<1>1. /\ UpTo(seq, items) /\ UpTo(seq', items') /\ LogInv(Event) /\ seq \in Nat
      /\ event[r] \in 1 .. seq
  BY DEF IInv, TypeOK, Owners, LogInv, LogContiguous, UpTo, NumbersKnown
<1>2. /\ seq' = seq /\ DOMAIN items' = DOMAIN items /\ Len(items') = Len(items)
      /\ \A i \in DOMAIN items :
           items'[i] = IF items[i].seq = event[r] THEN changed[i] ELSE items[i]
  BY <1>1, UpdateKeepsLog
<1>3. \A i \in DOMAIN items :
        /\ items'[i].seq = items[i].seq
        /\ items'[i].calls = IF items[i].seq = event[r] THEN items[i].calls + 1
                                                        ELSE items[i].calls
  BY <1>2
<1>4. IsFiniteSet(Tok(Nat, CallsIn(items)))
  BY DEF Balanced, LogCalls
<1>5. /\ IsFiniteSet(Tok(Nat, CallsIn(items')))
      /\ Cardinality(Tok(Nat, CallsIn(items'))) <= Cardinality(Tok(Nat, CallsIn(items))) + 1
      /\ Len(items) = seq =>
           Cardinality(Tok(Nat, CallsIn(items'))) = Cardinality(Tok(Nat, CallsIn(items))) + 1
  <2>1. Called(seq, items, items', event[r])
    BY <1>1, <1>2, <1>3 DEF Called
  <2>2. QED
    BY <1>4, <2>1, RecordSums
<1>6. /\ Cardinality(Tok(Nat, CallsIn(items'))) \in Nat
      /\ Cardinality(Tok(Nat, CallsIn(items))) \in Nat
  BY <1>4, <1>5, FS_CardinalityType
<1>7. LogCalls' = CallsIn(items') /\ LogCalls = CallsIn(items)
  BY DEF LogCalls
<1>8. Tok(Nat, LogCalls)' = Tok(Nat, CallsIn(items'))
  BY <1>7 DEF Tok
<1>9. jevHTTP \in Nat
  BY DEF IInv, TypeOK
<1> DEFINE l == Cardinality(Tok(Nat, LogCalls))
           k == Cardinality(Tok(Nat, LogCalls)')
<1>10. /\ k + 0 + jevHTTP <= l + 1 + jevHTTP
       /\ Len(items') = seq' => Len(items) = seq /\ k + 0 + jevHTTP = l + 1 + jevHTTP
  <2>1. /\ k \in Nat /\ l \in Nat /\ k <= l + 1
        /\ Len(items) = seq => k = l + 1
    BY <1>5, <1>6, <1>7, <1>8
  <2> HIDE DEF k, l
  <2>2. QED
    BY <1>2, <1>9, <2>1
<1>11. QED
  BY <1>5, <1>8, <1>10, Rebalance

OwedBy(place, n, w) ==
  (IF place \in {"native", "folded"} THEN n ELSE 0) + (IF w = "called" THEN 1 ELSE 0)

(* A retained event is found by its number.                                *)
LEMMA CallsOf ==
  ASSUME NEW q, NEW s, UpTo(q, s), NEW i \in DOMAIN s
  PROVE  CallsIn(s)[s[i].seq] = s[i].calls
BY Numbered

(* What is owed before and after a step that moves one handler.            *)
LEMMA OwedOfOne ==
  ASSUME NEW r \in Req,
         \A q \in Req : q # r => pc'[q] = pc[q] /\ calls'[q] = calls[q] /\ writer'[q] = writer[q]
  PROVE  /\ Owed[r] = OwedBy(pc[r], calls[r], writer[r])
         /\ Owed'[r] = OwedBy(pc'[r], calls'[r], writer'[r])
         /\ \A q \in Req : q # r => Owed'[q] = Owed[q]
BY DEF Owed, OwedBy

(* A step that leaves the log alone.                                       *)
LEMMA QuietBalance ==
  ASSUME IInv, IInv', Balanced, UNCHANGED log, NEW r \in Req,
         \A q \in Req : q # r => pc'[q] = pc[q] /\ calls'[q] = calls[q] /\ writer'[q] = writer[q],
         OwedBy(pc'[r], calls'[r], writer'[r]) + jevHTTP
           = OwedBy(pc[r], calls[r], writer[r]) + jevHTTP'
  PROVE  Balanced'
<1>1. seq' = seq /\ items' = items
  BY DEF log
<1>2. LogCalls' = LogCalls /\ Len(items') = Len(items)
  BY <1>1 DEF LogCalls
<1>3. QED
  BY <1>1, <1>2, OwedOfOne, OweBalance

(* A step that changes an event and not its calls.                         *)
LEMMA NoteBalance ==
  ASSUME IInv, IInv', Balanced, NEW r \in Req, NEW changed, Update(event[r], changed),
         \A i \in DOMAIN items : /\ changed[i] \in Event /\ changed[i].seq = items[i].seq
                                 /\ changed[i].calls = items[i].calls,
         NEW place \in {"idle", "body"}, pc' = [pc EXCEPT ![r] = place],
         pc[r] \in Places, calls' = calls, writer' = writer, jevHTTP' = jevHTTP
  PROVE  Balanced'
<1>1. /\ UpTo(seq, items) /\ UpTo(seq', items') /\ LogInv(Event)
  BY DEF IInv, Owners, LogInv, LogContiguous, UpTo
<1>2. /\ seq' = seq /\ DOMAIN items' = DOMAIN items /\ Len(items') = Len(items)
      /\ \A i \in DOMAIN items :
           items'[i] = IF items[i].seq = event[r] THEN changed[i] ELSE items[i]
  BY <1>1, UpdateKeepsLog
<1>3. \A i \in DOMAIN items : items'[i].seq = items[i].seq /\ items'[i].calls = items[i].calls
  BY <1>2
<1> DEFINE W == CallsIn(items)
           V == CallsIn(items')
<1>4. W \in [Nat -> Nat] /\ V \in [Nat -> Nat]
  BY <1>1, Numbered
<1>5. ASSUME NEW m \in Nat PROVE V[m] = W[m]
  <2>1. CASE \E i \in DOMAIN items : items[i].seq = m
    <3>1. PICK i \in DOMAIN items : items[i].seq = m
      BY <2>1
    <3>2. i \in DOMAIN items' /\ items'[i].seq = m /\ items'[i].calls = items[i].calls
      BY <1>2, <1>3, <3>1
    <3>3. W[items[i].seq] = items[i].calls
      BY <1>1, Numbered
    <3>4. V[items'[i].seq] = items'[i].calls
      BY <1>1, <3>2, CallsOf
    <3>5. QED
      BY <3>1, <3>2, <3>3, <3>4
  <2>2. CASE ~ \E i \in DOMAIN items : items[i].seq = m
    <3>1. ~ \E i \in DOMAIN items' : items'[i].seq = m
      BY <1>2, <1>3, <2>2
    <3>2. QED
      BY <2>2, <3>1, NoCalls
  <2>3. QED
    BY <2>1, <2>2
<1> HIDE DEF W, V
<1>6. V = W
  BY <1>4, <1>5
<1>7. LogCalls' = LogCalls
  BY <1>6 DEF LogCalls, W, V
<1>8. /\ pc'[r] = place /\ \A q \in Req : q # r => pc'[q] = pc[q]
  BY DEF IInv, TypeOK
<1>9. OwedBy(pc'[r], calls'[r], writer'[r]) = OwedBy(pc[r], calls[r], writer[r])
  BY <1>8 DEF OwedBy, Places
<1>10. Owed'[r] = Owed[r] /\ \A q \in Req : q # r => Owed'[q] = Owed[q]
  BY <1>8, <1>9, OwedOfOne
<1>11. QED
  BY <1>2, <1>7, <1>10, OweBalance

(* A handler adds its event.                                               *)
LEMMA AddForBalance ==
  ASSUME IInv, IInv', CInv, NEW r \in Req, NEW b \in BOOLEAN, NEW n \in Nat,
         Add(NewEvent(n, b)), OwedBy(pc[r], calls[r], writer[r]) = n,
         pc'[r] \in Places, writer'[r] # "called", jevHTTP' = jevHTTP,
         \A q \in Req : q # r => pc'[q] = pc[q] /\ calls'[q] = calls[q] /\ writer'[q] = writer[q]
  PROVE  Balanced'
<1>1. /\ Owed[r] = n /\ Owed'[r] = OwedBy(pc'[r], calls'[r], writer'[r])
      /\ \A q \in Req : q # r => Owed'[q] = Owed[q]
  BY OwedOfOne
<1>2. OwedBy(pc'[r], calls'[r], writer'[r]) = 0
  BY DEF OwedBy, Places
<1>3. QED
  BY <1>1, <1>2, AddBalance DEF CInv

(* Every step keeps the calls where they belong.                           *)
LEMMA StepCallsInOrder == IInv /\ CallsInOrder /\ Next => CallsInOrder'
<1> SUFFICES ASSUME IInv, CallsInOrder, Next PROVE CallsInOrder'
  OBVIOUS
<1> USE DEF CallsInOrder, Early
<1>t. /\ pc \in [Req -> {"idle", "reading", "native", "counted", "folded", "built", "stream",
                         "answering", "upstream", "resent", "body"}]
      /\ calls \in [Req -> Nat] /\ writer \in [Req -> {"off", "reading", "called"}]
      /\ event \in [Req -> Nat] /\ seq \in Nat /\ seq + 1 >= 1
  BY DEF IInv, TypeOK
<1>1. ASSUME NEW r \in Req, ArriveInference(r) PROVE CallsInOrder'
  BY <1>1, <1>t DEF ArriveInference, Arrive, Idle, Goto
<1>2. ASSUME NEW r \in Req, ArriveDevin(r) PROVE CallsInOrder'
  BY <1>2, <1>t DEF ArriveDevin, Arrive, Idle, Goto
<1>3. ASSUME NEW r \in Req, BodyUnread(r) PROVE CallsInOrder'
  BY <1>3, <1>t DEF BodyUnread, Goto, stream
<1>4. ASSUME NEW r \in Req, NotJSON(r) PROVE CallsInOrder'
  BY <1>4, <1>t DEF NotJSON, Goto, stream
<1>5. ASSUME NEW r \in Req, NotObject(r) PROVE CallsInOrder'
  BY <1>5, <1>t DEF NotObject, Goto, stream
<1>6. ASSUME NEW r \in Req, Respond(r) PROVE CallsInOrder'
  BY <1>6, <1>t DEF Respond, Goto, stream
<1>7. ASSUME NEW r \in Req, Resend(r) PROVE CallsInOrder'
  BY <1>7, <1>t DEF Resend, Goto, stream
<1>8. ASSUME NEW r \in Req, StreamCall(r) PROVE CallsInOrder'
  BY <1>8, <1>t DEF StreamCall
<1>9. ASSUME NEW r \in Req, StreamRewrite(r) PROVE CallsInOrder'
  BY <1>9, <1>t DEF StreamRewrite
<1>10. ASSUME NEW r \in Req, StreamEnds(r) PROVE CallsInOrder'
  BY <1>10, <1>t DEF StreamEnds
<1>11. ASSUME NEW r \in Req, NEW n \in 0 .. MaxCalls, Native(r, n) PROVE CallsInOrder'
  BY <1>11, <1>t DEF Native, Goto, stream
<1>12. ASSUME NEW r \in Req, NEW n \in 0 .. MaxCalls, FoldCalls(r, n) PROVE CallsInOrder'
  BY <1>12, <1>t DEF FoldCalls, Goto, stream
<1>13. ASSUME NEW r \in Req, NEW n \in 0 .. MaxCalls, NEW changed \in BOOLEAN,
              NEW body \in {"original", "steered"}, Rewrite(r, n, changed, body)
       PROVE  CallsInOrder'
  BY <1>13, <1>t DEF Rewrite, Goto, stream
<1>14. ASSUME NEW r \in Req, AddNative(r) PROVE CallsInOrder'
  BY <1>14, <1>t DEF AddNative, AddFor, Goto, stream
<1>15. ASSUME NEW r \in Req, AddForwarded(r) PROVE CallsInOrder'
  BY <1>15, <1>t DEF AddForwarded, AddFor, Goto, stream
<1>16. ASSUME NEW r \in Req, AddDirect(r) PROVE CallsInOrder'
  BY <1>16, <1>t DEF AddDirect, AddFor, Goto, stream
<1>17. ASSUME NEW r \in Req, AddStream(r) PROVE CallsInOrder'
  BY <1>17, <1>t DEF AddStream, AddFor, Goto
<1>18. ASSUME NEW r \in Req, ArriveControl(r) PROVE CallsInOrder'
  BY <1>18, <1>t DEF ArriveControl, Arrive, Idle, Goto
<1>19. ASSUME NEW r \in Req, AnswerHere(r) \/ NoResponse(r) \/ BodyEnds(r) \/ RecordResend(r)
       PROVE  CallsInOrder'
  <2>1. /\ calls' = calls /\ writer' = writer /\ event' = event
        /\ \E place \in {"idle", "body"} : pc' = [pc EXCEPT ![r] = place]
    BY <1>19 DEF AnswerHere, NoResponse, BodyEnds, RecordResend, Goto, stream
  <2>2. QED
    BY <1>t, <2>1
<1>20. ASSUME NEW r \in Req, RecordStreamCall(r) PROVE CallsInOrder'
  BY <1>20, <1>t DEF RecordStreamCall
<1>21. QED
  BY <1>1, <1>2, <1>3, <1>4, <1>5, <1>6, <1>7, <1>8, <1>9, <1>10, <1>11, <1>12, <1>13, <1>14,
     <1>15, <1>16, <1>17, <1>18, <1>19, <1>20 DEF Next

(* Every step keeps the total and the events in balance.                   *)
LEMMA StepBalanced == IInv /\ IInv' /\ CInv /\ Next => Balanced'
<1> SUFFICES ASSUME IInv, IInv', CInv, Next PROVE Balanced'
  OBVIOUS
<1> USE DEF CInv
<1>t. /\ pc \in [Req -> {"idle", "reading", "native", "counted", "folded", "built", "stream",
                         "answering", "upstream", "resent", "body"}]
      /\ calls \in [Req -> Nat] /\ writer \in [Req -> {"off", "reading", "called"}]
      /\ jevHTTP \in Nat
  BY DEF IInv, TypeOK
<1>o. \A r \in Req :
        /\ pc[r] \in {"reading", "built", "stream"} => calls[r] = 0
        /\ pc[r] \in Early => writer[r] = "off"
        /\ writer[r] # "off" => event[r] >= 1
  BY DEF CallsInOrder
<1>1. ASSUME NEW r \in Req, ArriveInference(r) PROVE Balanced'
  BY <1>1, <1>t, QuietBalance DEF ArriveInference, Arrive, Idle, Goto, OwedBy
<1>2. ASSUME NEW r \in Req, ArriveDevin(r) PROVE Balanced'
  BY <1>2, <1>t, QuietBalance DEF ArriveDevin, Arrive, Idle, Goto, OwedBy
<1>3. ASSUME NEW r \in Req, BodyUnread(r) PROVE Balanced'
  BY <1>3, <1>t, QuietBalance DEF BodyUnread, Goto, stream, counters, OwedBy
<1>4. ASSUME NEW r \in Req, NotJSON(r) PROVE Balanced'
  BY <1>4, <1>t, QuietBalance DEF NotJSON, Goto, stream, OwedBy
<1>5. ASSUME NEW r \in Req, NotObject(r) PROVE Balanced'
  BY <1>5, <1>t, QuietBalance DEF NotObject, Goto, stream, counters, OwedBy
<1>6. ASSUME NEW r \in Req, Respond(r) PROVE Balanced'
  BY <1>6, <1>t, QuietBalance DEF Respond, Goto, stream, counters, OwedBy
<1>7. ASSUME NEW r \in Req, Resend(r) PROVE Balanced'
  BY <1>7, <1>t, QuietBalance DEF Resend, Goto, stream, counters, OwedBy
<1>8. ASSUME NEW r \in Req, StreamCall(r) PROVE Balanced'
  <2>1. OwedBy(pc'[r], calls'[r], writer'[r]) = OwedBy(pc[r], calls[r], writer[r]) + 1
    BY <1>8, <1>t DEF StreamCall, OwedBy
  <2>2. OwedBy(pc[r], calls[r], writer[r]) \in Nat
    BY <1>t DEF OwedBy
  <2>3. OwedBy(pc'[r], calls'[r], writer'[r]) + jevHTTP
          = OwedBy(pc[r], calls[r], writer[r]) + jevHTTP'
    BY <1>8, <1>t, <2>1, <2>2 DEF StreamCall
  <2>4. QED
    BY <1>8, <1>t, <2>3, QuietBalance DEF StreamCall
<1>9. ASSUME NEW r \in Req, StreamRewrite(r) PROVE Balanced'
  BY <1>9, <1>t, QuietBalance DEF StreamRewrite
<1>10. ASSUME NEW r \in Req, StreamEnds(r) PROVE Balanced'
  BY <1>10, <1>t, QuietBalance DEF StreamEnds, counters, OwedBy
<1>11. ASSUME NEW r \in Req, NEW n \in 0 .. MaxCalls, Native(r, n) PROVE Balanced'
  <2>1. n \in Nat
    BY BoundsAssumption
  <2>2. OwedBy(pc'[r], calls'[r], writer'[r]) = n /\ OwedBy(pc[r], calls[r], writer[r]) = 0
    BY <1>11, <1>t, <1>o, <2>1 DEF Native, Goto, stream, Early, OwedBy
  <2>3. jevHTTP' = jevHTTP + n
    BY <1>11 DEF Native
  <2>4. n + jevHTTP = 0 + jevHTTP'
    BY <1>t, <2>1, <2>3
  <2>5. QED
    BY <1>11, <1>t, <2>2, <2>4, QuietBalance DEF Native, Goto, stream
<1>12. ASSUME NEW r \in Req, NEW n \in 0 .. MaxCalls, FoldCalls(r, n) PROVE Balanced'
  <2>1. n \in Nat /\ calls[r] \in Nat
    BY <1>t, BoundsAssumption
  <2>2. OwedBy(pc'[r], calls'[r], writer'[r]) = calls[r] + n
        /\ OwedBy(pc[r], calls[r], writer[r]) = 0
    BY <1>12, <1>t, <1>o, <2>1 DEF FoldCalls, Goto, stream, Early, OwedBy
  <2>3. jevHTTP' = jevHTTP + calls[r] + n
    BY <1>12 DEF FoldCalls
  <2>4. calls[r] + n + jevHTTP = 0 + jevHTTP'
    BY <1>t, <2>1, <2>3
  <2>5. QED
    BY <1>12, <1>t, <2>2, <2>4, QuietBalance DEF FoldCalls, Goto, stream
<1>13. ASSUME NEW r \in Req, NEW n \in 0 .. MaxCalls, NEW changed \in BOOLEAN,
              NEW body \in {"original", "steered"}, Rewrite(r, n, changed, body)
       PROVE  Balanced'
  BY <1>13, <1>t, QuietBalance DEF Rewrite, Goto, stream, OwedBy
<1>14. ASSUME NEW r \in Req, AddNative(r) \/ AddForwarded(r) \/ AddDirect(r) \/ AddStream(r)
       PROVE  Balanced'
  <2>1. PICK place \in {"answering", "upstream"} : AddFor(r, place)
    BY <1>14 DEF AddNative, AddForwarded, AddDirect, AddStream
  <2>2. /\ pc[r] \in {"native", "built", "folded", "stream"} /\ calls' = calls
        /\ jevHTTP' = jevHTTP /\ pc' = [pc EXCEPT ![r] = place]
        /\ writer' = writer \/ writer' = [writer EXCEPT ![r] = "reading"]
    BY <1>14, <2>1 DEF AddNative, AddForwarded, AddDirect, AddStream, AddFor, Goto, stream,
                       counters
  <2>3. /\ pc'[r] \in Places /\ writer'[r] # "called"
        /\ \A q \in Req : q # r => pc'[q] = pc[q] /\ calls'[q] = calls[q] /\ writer'[q] = writer[q]
    BY <1>t, <1>o, <2>2 DEF Places, Early
  <2>4. calls[r] \in Nat /\ OwedBy(pc[r], calls[r], writer[r]) = calls[r]
    BY <1>t, <1>o, <2>2 DEF OwedBy, Early
  <2>5. Add(NewEvent(calls[r], sent[r] = "steered")) /\ (sent[r] = "steered") \in BOOLEAN
    BY <2>1 DEF AddFor
  <2>6. QED
    BY <2>2, <2>3, <2>4, <2>5, AddForBalance
<1>15. ASSUME NEW r \in Req, ArriveControl(r) PROVE Balanced'
  <2>1. /\ pc[r] = "idle" /\ writer[r] = "off" /\ calls' = [calls EXCEPT ![r] = 0]
        /\ pc' = [pc EXCEPT ![r] = "upstream"] /\ writer' = writer /\ jevHTTP' = jevHTTP
    BY <1>15 DEF ArriveControl, Arrive, Idle, Goto, counters
  <2>2. /\ pc'[r] \in Places /\ writer'[r] # "called"
        /\ \A q \in Req : q # r => pc'[q] = pc[q] /\ calls'[q] = calls[q] /\ writer'[q] = writer[q]
    BY <1>t, <2>1 DEF Places
  <2>3. OwedBy(pc[r], calls[r], writer[r]) = 0
    BY <2>1 DEF OwedBy
  <2>4. Add(NewEvent(0, FALSE))
    BY <1>15 DEF ArriveControl
  <2>5. OwedBy(pc[r], calls[r], writer[r]) = 0 /\ jevHTTP' = jevHTTP
    BY <2>1, <2>3
  <2>6. 0 \in Nat /\ FALSE \in BOOLEAN
    OBVIOUS
  <2>7. QED
    BY ONLY IInv, IInv', CInv, <2>2, <2>4, <2>5, <2>6, AddForBalance
<1>i. \A i \in DOMAIN items : items[i] \in Event
  BY DEF IInv, TypeOK
<1>16. ASSUME NEW r \in Req, AnswerHere(r) \/ NoResponse(r) \/ BodyEnds(r) PROVE Balanced'
  <2> DEFINE changed == [i \in DOMAIN items |-> [items[i] EXCEPT !.settled = TRUE]]
  <2>1. \A i \in DOMAIN items : /\ changed[i] \in Event /\ changed[i].seq = items[i].seq
                                /\ changed[i].calls = items[i].calls
    BY <1>i DEF Event
  <2>2. /\ Update(event[r], changed) /\ pc[r] \in Places /\ pc' = [pc EXCEPT ![r] = "idle"]
        /\ calls' = calls /\ writer' = writer /\ jevHTTP' = jevHTTP
    BY <1>16 DEF AnswerHere, NoResponse, BodyEnds, SettleEvent, Goto, stream, counters, Places
  <2> HIDE DEF changed
  <2>3. QED
    BY <2>1, <2>2, NoteBalance
<1>17. ASSUME NEW r \in Req, RecordResend(r) PROVE Balanced'
  <2> DEFINE changed == [i \in DOMAIN items |-> [items[i] EXCEPT !.steered = FALSE]]
  <2>1. \A i \in DOMAIN items : /\ changed[i] \in Event /\ changed[i].seq = items[i].seq
                                /\ changed[i].calls = items[i].calls
    BY <1>i DEF Event
  <2>2. /\ Update(event[r], changed) /\ pc[r] \in Places /\ pc' = [pc EXCEPT ![r] = "body"]
        /\ calls' = calls /\ writer' = writer /\ jevHTTP' = jevHTTP
    BY <1>17 DEF RecordResend, Goto, stream, counters, Places
  <2> HIDE DEF changed
  <2>3. QED
    BY <2>1, <2>2, NoteBalance
<1>18. ASSUME NEW r \in Req, RecordStreamCall(r) PROVE Balanced'
  <2> DEFINE changed == [i \in DOMAIN items |-> [items[i] EXCEPT !.calls = @ + 1]]
  <2>1. \A i \in DOMAIN items : /\ changed[i] \in Event /\ changed[i].seq = items[i].seq
                                /\ changed[i].calls = items[i].calls + 1
    BY <1>i DEF Event
  <2>2. /\ Update(event[r], changed) /\ writer[r] = "called"
        /\ writer' = [writer EXCEPT ![r] = "reading"]
        /\ pc' = pc /\ calls' = calls /\ jevHTTP' = jevHTTP
    BY <1>18 DEF RecordStreamCall, counters
  <2> HIDE DEF changed
  <2>3. event[r] >= 1 /\ pc[r] \notin Early
    BY <1>o, <2>2
  <2>4. /\ writer'[r] = "reading"
        /\ \A q \in Req : q # r => pc'[q] = pc[q] /\ calls'[q] = calls[q] /\ writer'[q] = writer[q]
    BY <1>t, <2>2
  <2>5. OwedBy(pc[r], calls[r], writer[r]) = 1 /\ OwedBy(pc'[r], calls'[r], writer'[r]) = 0
    BY <2>2, <2>3, <2>4 DEF OwedBy, Early
  <2>6. Owed[r] = 1 /\ Owed'[r] = 0 /\ \A q \in Req : q # r => Owed'[q] = Owed[q]
    BY <2>4, <2>5, OwedOfOne
  <2>7. QED
    BY <2>1, <2>2, <2>3, <2>6, RecordBalance
<1>19. QED
  BY <1>1, <1>2, <1>3, <1>4, <1>5, <1>6, <1>7, <1>8, <1>9, <1>10, <1>11, <1>12, <1>13, <1>14,
     <1>15, <1>16, <1>17, <1>18 DEF Next

(* Nothing has been asked yet.                                             *)
LEMMA InitBalanced == Init => CInv
<1> SUFFICES ASSUME Init PROVE CInv
  OBVIOUS
<1>1. CallsInOrder
  BY DEF Init, CallsInOrder, Early
<1>2. Tok(Nat, LogCalls) = {} /\ Tok(Req, Owed) = {}
  <2>1. \A m \in Nat : LogCalls[m] = 0
    BY DEF Init, LogInit, LogCalls, CallsIn
  <2>2. \A r \in Req : Owed[r] = 0
    BY DEF Init, Owed
  <2>3. QED
    BY <2>1, <2>2 DEF Tok
<1>3. jevHTTP = 0
  BY DEF Init
<1>4. QED
  BY <1>1, <1>2, <1>3, FS_EmptySet DEF CInv, Balanced

(* The calls in the events and what is owed make up the total.             *)
LEMMA StepCInv == IInv /\ IInv' /\ CInv /\ [Next]_vars => CInv'
<1>1. IInv /\ IInv' /\ CInv /\ Next => CInv'
  BY StepCallsInOrder, StepBalanced DEF CInv
<1>2. CInv /\ UNCHANGED vars => CInv'
  <2> SUFFICES ASSUME CInv, UNCHANGED vars PROVE CInv'
    OBVIOUS
  <2>1. /\ seq' = seq /\ items' = items /\ pc' = pc /\ calls' = calls /\ event' = event
        /\ writer' = writer /\ jevHTTP' = jevHTTP
    BY DEF vars, stream, counters
  <2>2. LogCalls' = LogCalls /\ Owed' = Owed
    BY <2>1 DEF LogCalls, Owed
  <2>3. CallsInOrder'
    BY <2>1 DEF CInv, CallsInOrder
  <2>4. Tok(Nat, LogCalls)' = Tok(Nat, LogCalls) /\ Tok(Req, Owed)' = Tok(Req, Owed)
    BY <2>2 DEF Tok
  <2>5. QED
    BY <2>1, <2>3, <2>4 DEF CInv, Balanced
<1>3. QED
  BY <1>1, <1>2

(* Whatever is in flight and whatever the log dropped, the events carry no *)
(* more calls than the dashboard's total, and when nothing is in flight    *)
(* and no event was dropped exactly as many.                               *)
THEOREM JevTotalsAlwaysAgree == Spec => []JevTotalsAgree
<1>1. IInv /\ CInv => JevTotalsAgree
  <2> SUFFICES ASSUME IInv, CInv PROVE JevTotalsAgree
    OBVIOUS
  <2>1. /\ EventCalls = Cardinality(Tok(Nat, LogCalls)) /\ IsFiniteSet(Tok(Nat, LogCalls))
    BY EventCallsAreLogged DEF IInv, Owners
  <2> DEFINE l == Cardinality(Tok(Nat, LogCalls))
             o == Cardinality(Tok(Req, Owed))
  <2>2. l \in Nat /\ o \in Nat /\ jevHTTP \in Nat
    BY FS_CardinalityType DEF CInv, Balanced, IInv, TypeOK
  <2>3. l + o <= jevHTTP /\ (Len(items) = seq => l + o = jevHTTP)
    BY DEF CInv, Balanced
  <2>4. Quiescent => o = 0
    <3> SUFFICES ASSUME Quiescent PROVE o = 0
      OBVIOUS
    <3>1. \A r \in Req : Owed[r] = 0
      BY DEF Quiescent, Idle, Owed
    <3>2. Tok(Req, Owed) = {}
      BY <3>1 DEF Tok
    <3>3. QED
      BY <3>2, FS_EmptySet
  <2>5. EventCalls = l
    BY <2>1
  <2> HIDE DEF l, o
  <2>6. l <= jevHTTP
    BY <2>2, <2>3
  <2>7. o = 0 /\ Len(items) = seq => l = jevHTTP
    BY <2>2, <2>3
  <2>8. QED
    BY <2>4, <2>5, <2>6, <2>7 DEF JevTotalsAgree
<1>2. Spec => []CInv
  BY InitBalanced, StepCInv, Invariant, PTL DEF Spec
<1>3. QED
  BY <1>1, <1>2, Invariant, PTL
-----------------------------------------------------------------------------
(* Statistics without control requests.  Every event is one of a request   *)
(* that was counted when it arrived, and a handler that is still on its    *)
(* way to its event has counted a request that has none yet.               *)

Waiting == {r \in Req : pc[r] \in Early}

EventsAreCounted ==
  /\ IsFiniteSet(Waiting)
  /\ seq + Cardinality(Waiting) <= requests

(* What one step does to the handlers on their way to an event.            *)
LEMMA Leaves ==
  ASSUME TypeOK, EventsAreCounted, NEW r \in Req, pc[r] \in Early,
         NEW place \in Places \cup {"idle"}, Goto(r, place),
         requests' = requests, seq' \in {seq, seq + 1}
  PROVE  EventsAreCounted'
<1>1. r \in Waiting /\ IsFiniteSet(Waiting) /\ Cardinality(Waiting) \in Nat
  BY FS_CardinalityType DEF Waiting, EventsAreCounted
<1>2. Waiting' = Waiting \ {r}
  BY DEF Waiting, Goto, TypeOK, Early, Places
<1>3. IsFiniteSet(Waiting') /\ Cardinality(Waiting') = Cardinality(Waiting) - 1
  BY <1>1, <1>2, FS_RemoveElement
<1>4. seq \in Nat /\ requests \in Nat /\ seq' \in Nat /\ seq' <= seq + 1
  BY DEF TypeOK
<1>5. seq' + Cardinality(Waiting') <= requests'
  BY <1>1, <1>3, <1>4 DEF EventsAreCounted
<1>6. QED
  BY <1>3, <1>5 DEF EventsAreCounted

LEMMA Comes ==
  ASSUME TypeOK, EventsAreCounted, NEW r \in Req, pc[r] = "idle",
         NEW place \in Early, Goto(r, place), requests' = requests + 1, seq' = seq
  PROVE  EventsAreCounted'
<1>1. r \notin Waiting /\ IsFiniteSet(Waiting) /\ Cardinality(Waiting) \in Nat
  BY FS_CardinalityType DEF Waiting, EventsAreCounted, Early
<1>2. Waiting' = Waiting \cup {r}
  BY DEF Waiting, Goto, TypeOK, Early
<1>3. IsFiniteSet(Waiting') /\ Cardinality(Waiting') = Cardinality(Waiting) + 1
  BY <1>1, <1>2, FS_AddElement
<1>4. QED
  BY <1>1, <1>3 DEF EventsAreCounted, TypeOK

LEMMA GoesOn ==
  ASSUME TypeOK, EventsAreCounted, NEW r \in Req, NEW place, pc' = [pc EXCEPT ![r] = place],
         pc[r] \in Early <=> place \in Early, requests' = requests, seq' = seq
  PROVE  EventsAreCounted'
<1>1. Waiting' = Waiting
  BY DEF Waiting, TypeOK
<1>2. QED
  BY <1>1 DEF EventsAreCounted

LEMMA StepCounted ==
  ASSUME TypeOK, EventsAreCounted, [Next /\ ~\E r \in Req : ArriveControl(r)]_vars
  PROVE  EventsAreCounted'
<1>1. ASSUME NEW r \in Req, ArriveInference(r) \/ ArriveDevin(r)
      PROVE  EventsAreCounted'
  BY <1>1, Comes DEF ArriveInference, ArriveDevin, Arrive, Idle, log, Early
<1>2. ASSUME NEW r \in Req, BodyUnread(r)
      PROVE  EventsAreCounted'
  BY <1>2, Leaves DEF BodyUnread, counters, log, Early
<1>3. ASSUME NEW r \in Req, AddNative(r) \/ AddForwarded(r) \/ AddDirect(r) \/ AddStream(r)
      PROVE  EventsAreCounted'
  BY <1>3, Leaves DEF AddNative, AddForwarded, AddDirect, AddStream, AddFor, Add, counters, Early, Places
<1>4. ASSUME NEW r \in Req, NotJSON(r) \/ NotObject(r)
      PROVE  EventsAreCounted'
  BY <1>4, GoesOn DEF NotJSON, NotObject, Goto, counters, log, Early
<1>5. ASSUME NEW r \in Req, NEW n \in 0 .. MaxCalls, Native(r, n) \/ FoldCalls(r, n)
      PROVE  EventsAreCounted'
  BY <1>5, GoesOn DEF Native, FoldCalls, Goto, log, Early
<1>6. ASSUME NEW r \in Req, NEW n \in 0 .. MaxCalls, NEW changed \in BOOLEAN,
             NEW body \in {"original", "steered"}, Rewrite(r, n, changed, body)
      PROVE  EventsAreCounted'
  BY <1>6, GoesOn DEF Rewrite, Goto, log, Early
<1>7. ASSUME NEW r \in Req,
             AnswerHere(r) \/ RecordResend(r) \/ NoResponse(r) \/ BodyEnds(r)
      PROVE  EventsAreCounted'
  BY <1>7, GoesOn
  DEF AnswerHere, RecordResend, NoResponse, BodyEnds, SettleEvent, Update, Goto, counters, Early
<1>8. ASSUME NEW r \in Req, Respond(r) \/ Resend(r)
      PROVE  EventsAreCounted'
  BY <1>8, GoesOn DEF Respond, Resend, Goto, counters, log, Early
<1>9. ASSUME pc' = pc, requests' = requests, seq' = seq
      PROVE  EventsAreCounted'
  BY <1>9 DEF EventsAreCounted, Waiting
<1>10. ASSUME NEW r \in Req,
              StreamCall(r) \/ RecordStreamCall(r) \/ StreamRewrite(r) \/ StreamEnds(r)
       PROVE  EventsAreCounted'
  BY <1>9, <1>10 DEF StreamCall, RecordStreamCall, StreamRewrite, StreamEnds, Update, counters, log
<1>11. CASE UNCHANGED vars
  BY <1>9, <1>11 DEF vars, counters
<1>12. QED
  BY <1>1, <1>2, <1>3, <1>4, <1>5, <1>6, <1>7, <1>8, <1>10, <1>11 DEF Next

(* In a session without control requests the statistics report every       *)
(* eviction from the log (eventsTruncated of RunStats), whatever requests  *)
(* are on their way when they are read.                                    *)
THEOREM EvictionsAreReported == InferenceSpec => []EvictionIsReported
<1>1. Init => IInv /\ EventsAreCounted
  <2> SUFFICES ASSUME Init PROVE EventsAreCounted
    BY InitInv
  <2>1. Waiting = {} /\ seq = 0 /\ requests = 0
    BY DEF Init, LogInit, Waiting, Early
  <2>2. QED
    BY <2>1, FS_EmptySet DEF EventsAreCounted
<1>2. IInv /\ EventsAreCounted /\ [Next /\ ~\E r \in Req : ArriveControl(r)]_vars
        => IInv' /\ EventsAreCounted'
  <2> SUFFICES ASSUME IInv, EventsAreCounted, [Next /\ ~\E r \in Req : ArriveControl(r)]_vars
               PROVE  IInv' /\ EventsAreCounted'
    OBVIOUS
  <2>1. IInv'
    BY StepInv
  <2>2. QED
    BY <2>1, StepCounted DEF IInv
<1>3. IInv /\ EventsAreCounted => EvictionIsReported
  <2> SUFFICES ASSUME IInv, EventsAreCounted, seq > Len(items) PROVE requests > Len(items)
    BY DEF EvictionIsReported, EventsTruncated
  <2>1. Cardinality(Waiting) \in Nat /\ seq \in Nat /\ requests \in Nat /\ Len(items) \in Nat
    BY FS_CardinalityType DEF EventsAreCounted, IInv, TypeOK
  <2>2. QED
    BY <2>1 DEF EventsAreCounted
<1>4. QED
  BY <1>1, <1>2, <1>3, PTL DEF InferenceSpec

=============================================================================
