------------------------------- MODULE Gateway -------------------------------
(***************************************************************************)
(* The request handler of internal/proxy/proxy.go: what one request does   *)
(* to the server's counters and to its event, in the order of the code's   *)
(* critical sections (s.mu for the counters, the log's mutex for events).  *)
(* Requests run concurrently; every step below is one critical section.    *)
(*                                                                         *)
(* Four kinds of request: inference with a JSON body that is rewritten,    *)
(* a Devin Connect stream whose frames the transport's writer goroutine    *)
(* rewrites while the response may already be on its way, a control POST,  *)
(* and inference answered without the upstream (native compaction, direct).*)
(***************************************************************************)
EXTENDS EventLog, FiniteSetsExt

CONSTANTS
  Req,        \* request goroutines
  MaxCalls,   \* bound: Jev calls one request makes in one stage
  MaxFrames,  \* bound: frames with a Jev call or a rewrite in one stream
  MaxSeq      \* bound: requests served

ASSUME BoundsAssumption == MaxCalls \in Nat /\ MaxFrames \in Nat /\ MaxSeq \in Nat

VARIABLES
  pc,         \* request -> where its handler is
  calls,      \* request -> Jev calls its attempt hook counted
  event,      \* request -> number of its event, 0 before Add
  sent,       \* request -> the body upstream has: "original" or "steered"
  writer,     \* request -> what the transport's writer goroutine does
  frames,     \* request -> frames its writer has handled
  requests,   \* Requests and Reached: they change together
  rewritten,  \* Rewritten
  passthrough,\* Passthrough
  jevHTTP,    \* JevHTTP
  served      \* requests that arrived, for the bound

counters == <<requests, rewritten, passthrough, jevHTTP>>
stream   == <<writer, frames>>
vars     == <<seq, items, pc, calls, event, sent, stream, counters, served>>

Event == [seq : Nat, settled : BOOLEAN, calls : Nat, steered : BOOLEAN]

Init ==
  /\ LogInit
  /\ pc = [r \in Req |-> "idle"]
  /\ calls = [r \in Req |-> 0]
  /\ event = [r \in Req |-> 0]
  /\ sent = [r \in Req |-> "original"]
  /\ writer = [r \in Req |-> "off"]
  /\ frames = [r \in Req |-> 0]
  /\ requests = 0
  /\ rewritten = 0
  /\ passthrough = 0
  /\ jevHTTP = 0
  /\ served = 0

-----------------------------------------------------------------------------
Goto(r, place) == pc' = [pc EXCEPT ![r] = place]

(* A new event for request r, and the next step of its handler.            *)
NewEvent(n, s) == [seq |-> 0, settled |-> FALSE, calls |-> n, steered |-> s]

AddFor(r, place) ==
  /\ Add(NewEvent(calls[r], sent[r] = "steered"))
  /\ event' = [event EXCEPT ![r] = seq + 1]
  /\ Goto(r, place)

SettleEvent(r) ==
  Update(event[r], [i \in DOMAIN items |-> [items[i] EXCEPT !.settled = TRUE]])

Idle(r) == pc[r] = "idle" /\ writer[r] = "off"

Arrive(r) ==
  /\ Idle(r)
  /\ served < MaxSeq
  /\ served' = served + 1
  /\ calls' = [calls EXCEPT ![r] = 0]
  /\ sent' = [sent EXCEPT ![r] = "original"]
  /\ frames' = [frames EXCEPT ![r] = 0]

-----------------------------------------------------------------------------
(* Inference with a body that is read first                                *)

ArriveInference(r) ==
  /\ Arrive(r)
  /\ requests' = requests + 1
  /\ Goto(r, "reading")
  /\ UNCHANGED <<log, event, writer, rewritten, passthrough, jevHTTP>>

(* Too large, or the client went away: 413, and no event.                  *)
BodyUnread(r) ==
  /\ pc[r] = "reading"
  /\ Goto(r, "idle")
  /\ UNCHANGED <<log, calls, event, sent, stream, counters, served>>

NotJSON(r) ==
  /\ pc[r] = "reading"
  /\ passthrough' = passthrough + 1
  /\ Goto(r, "built")
  /\ UNCHANGED <<log, calls, event, sent, stream, requests, rewritten, jevHTTP, served>>

(* JSON, but no object: RewriteWith fails before it asks, nothing counts.  *)
NotObject(r) ==
  /\ pc[r] = "reading"
  /\ Goto(r, "built")
  /\ UNCHANGED <<log, calls, event, sent, stream, counters, served>>

(* Native compaction: the reply is made from the request, n calls later.   *)
Native(r, n) ==
  /\ pc[r] = "reading"
  /\ calls' = [calls EXCEPT ![r] = n]
  /\ rewritten' = rewritten + 1
  /\ jevHTTP' = jevHTTP + n
  /\ Goto(r, "native")
  /\ UNCHANGED <<log, event, sent, stream, requests, passthrough, served>>

AddNative(r) ==
  /\ pc[r] = "native"
  /\ AddFor(r, "answering")
  /\ UNCHANGED <<calls, sent, stream, counters, served>>

(* RewriteWith returned; n calls so far, by retainNative, the clear gate   *)
(* and the selection.  A Codex body may have been steered.                 *)
Rewrite(r, n, changed, body) ==
  /\ pc[r] = "reading"
  /\ body = "steered" => changed
  /\ calls' = [calls EXCEPT ![r] = n]
  /\ sent' = [sent EXCEPT ![r] = body]
  /\ rewritten' = IF changed THEN rewritten + 1 ELSE rewritten
  /\ passthrough' = IF changed THEN passthrough ELSE passthrough + 1
  /\ Goto(r, "counted")
  /\ UNCHANGED <<log, event, stream, requests, jevHTTP, served>>

(* autoApplyContext may ask again before the calls are added up.           *)
FoldCalls(r, n) ==
  /\ pc[r] = "counted"
  /\ calls' = [calls EXCEPT ![r] = @ + n]
  /\ jevHTTP' = jevHTTP + calls[r] + n
  /\ Goto(r, "folded")
  /\ UNCHANGED <<log, event, sent, stream, requests, rewritten, passthrough, served>>

AddForwarded(r) ==
  /\ pc[r] \in {"built", "folded"}
  /\ AddFor(r, "upstream")
  /\ UNCHANGED <<calls, sent, stream, counters, served>>

AddDirect(r) ==
  /\ pc[r] = "folded"
  /\ sent[r] = "original"
  /\ AddFor(r, "answering")
  /\ UNCHANGED <<calls, sent, stream, counters, served>>

(* The event of a request that never went upstream is settled here.        *)
AnswerHere(r) ==
  /\ pc[r] = "answering"
  /\ SettleEvent(r)
  /\ Goto(r, "idle")
  /\ UNCHANGED <<calls, event, sent, stream, counters, served>>

-----------------------------------------------------------------------------
(* Control POSTs are recorded, not counted                                 *)

ArriveControl(r) ==
  /\ Arrive(r)
  /\ Add(NewEvent(0, FALSE))
  /\ event' = [event EXCEPT ![r] = seq + 1]
  /\ Goto(r, "upstream")
  /\ UNCHANGED <<writer, counters>>

-----------------------------------------------------------------------------
(* Devin's Connect stream                                                  *)

ArriveDevin(r) ==
  /\ Arrive(r)
  /\ requests' = requests + 1
  /\ passthrough' = passthrough + 1
  /\ Goto(r, "stream")
  /\ UNCHANGED <<log, event, writer, rewritten, jevHTTP>>

AddStream(r) ==
  /\ pc[r] = "stream"
  /\ AddFor(r, "upstream")
  /\ writer' = [writer EXCEPT ![r] = "reading"]
  /\ UNCHANGED <<calls, sent, frames, counters, served>>

(* connectJevAttemptHook: the total first, then the event.                 *)
StreamCall(r) ==
  /\ writer[r] = "reading"
  /\ frames[r] < MaxFrames
  /\ jevHTTP' = jevHTTP + 1
  /\ writer' = [writer EXCEPT ![r] = "called"]
  /\ UNCHANGED <<log, pc, calls, event, sent, frames, requests, rewritten, passthrough, served>>

(* Slip: a call that comes after its event was settled is not recorded.    *)
RecordStreamCallUntilSettled(r) ==
  /\ writer[r] = "called"
  /\ Update(event[r], [i \in DOMAIN items |->
       IF items[i].settled THEN items[i] ELSE [items[i] EXCEPT !.calls = @ + 1]])
  /\ writer' = [writer EXCEPT ![r] = "reading"]
  /\ frames' = [frames EXCEPT ![r] = @ + 1]
  /\ UNCHANGED <<pc, calls, event, sent, counters, served>>

(* Slip: the hook writes the event back as it was built, usage pending.    *)
RecordStreamCallAsBuilt(r) ==
  /\ writer[r] = "called"
  /\ Update(event[r], [i \in DOMAIN items |->
       [items[i] EXCEPT !.calls = @ + 1, !.settled = FALSE]])
  /\ writer' = [writer EXCEPT ![r] = "reading"]
  /\ frames' = [frames EXCEPT ![r] = @ + 1]
  /\ UNCHANGED <<pc, calls, event, sent, counters, served>>

RecordStreamCall(r) ==
  /\ writer[r] = "called"
  /\ Update(event[r], [i \in DOMAIN items |-> [items[i] EXCEPT !.calls = @ + 1]])
  /\ writer' = [writer EXCEPT ![r] = "reading"]
  /\ frames' = [frames EXCEPT ![r] = @ + 1]
  /\ UNCHANGED <<pc, calls, event, sent, counters, served>>

(* Slip: every changed frame takes a passthrough back.                     *)
StreamRewriteUnguarded(r) ==
  /\ writer[r] = "reading"
  /\ frames[r] < MaxFrames
  /\ passthrough' = passthrough - 1
  /\ rewritten' = rewritten + 1
  /\ frames' = [frames EXCEPT ![r] = @ + 1]
  /\ UNCHANGED <<log, pc, calls, event, sent, writer, requests, jevHTTP, served>>

(* applyConnectStats of a changed frame: this request is no passthrough,   *)
(* though the counter does not tell whose it takes back.                   *)
StreamRewrite(r) ==
  /\ writer[r] = "reading"
  /\ frames[r] < MaxFrames
  /\ passthrough' = IF passthrough > 0 THEN passthrough - 1 ELSE passthrough
  /\ rewritten' = rewritten + 1
  /\ frames' = [frames EXCEPT ![r] = @ + 1]
  /\ UNCHANGED <<log, pc, calls, event, sent, writer, requests, jevHTTP, served>>

StreamEnds(r) ==
  /\ writer[r] = "reading"
  /\ writer' = [writer EXCEPT ![r] = "off"]
  /\ UNCHANGED <<log, pc, calls, event, sent, frames, counters, served>>

-----------------------------------------------------------------------------
(* The response                                                            *)

(* ModifyResponse leaves the response as it is: it is no rejection of a    *)
(* steered body, or the original could not be sent again.                  *)
Respond(r) ==
  /\ pc[r] = "upstream"
  /\ Goto(r, "body")
  /\ UNCHANGED <<log, calls, event, sent, stream, counters, served>>

(* Upstream rejected a steered body: the original is sent, once.           *)
Resend(r) ==
  /\ pc[r] = "upstream"
  /\ sent[r] = "steered"
  /\ sent' = [sent EXCEPT ![r] = "original"]
  /\ Goto(r, "resent")
  /\ UNCHANGED <<log, calls, event, stream, counters, served>>

(* Slip: the event keeps saying that the body was steered.                 *)
RecordResendNowhere(r) ==
  /\ pc[r] = "resent"
  /\ Goto(r, "body")
  /\ UNCHANGED <<log, calls, event, sent, stream, counters, served>>

RecordResend(r) ==
  /\ pc[r] = "resent"
  /\ Update(event[r], [i \in DOMAIN items |-> [items[i] EXCEPT !.steered = FALSE]])
  /\ Goto(r, "body")
  /\ UNCHANGED <<calls, event, sent, stream, counters, served>>

(* Slip: a client that cancelled needs no usage.                           *)
NoResponseUnsettled(r) ==
  /\ pc[r] = "upstream"
  /\ Goto(r, "idle")
  /\ UNCHANGED <<log, calls, event, sent, stream, counters, served>>

(* ErrorHandler: no response, or the client cancelled.                     *)
NoResponse(r) ==
  /\ pc[r] = "upstream"
  /\ SettleEvent(r)
  /\ Goto(r, "idle")
  /\ UNCHANGED <<calls, event, sent, stream, counters, served>>

(* The usage callback: the body ended, or was closed by a broken copy.     *)
BodyEnds(r) ==
  /\ pc[r] = "body"
  /\ SettleEvent(r)
  /\ Goto(r, "idle")
  /\ UNCHANGED <<calls, event, sent, stream, counters, served>>

-----------------------------------------------------------------------------
Next ==
  \/ \E r \in Req : ArriveInference(r)
  \/ \E r \in Req : BodyUnread(r)
  \/ \E r \in Req : NotJSON(r)
  \/ \E r \in Req : NotObject(r)
  \/ \E r \in Req, n \in 0 .. MaxCalls : Native(r, n)
  \/ \E r \in Req : AddNative(r)
  \/ \E r \in Req, n \in 0 .. MaxCalls, changed \in BOOLEAN, body \in {"original", "steered"} :
       Rewrite(r, n, changed, body)
  \/ \E r \in Req, n \in 0 .. MaxCalls : FoldCalls(r, n)
  \/ \E r \in Req : AddForwarded(r)
  \/ \E r \in Req : AddDirect(r)
  \/ \E r \in Req : AnswerHere(r)
  \/ \E r \in Req : ArriveControl(r)
  \/ \E r \in Req : ArriveDevin(r)
  \/ \E r \in Req : AddStream(r)
  \/ \E r \in Req : StreamCall(r)
  \/ \E r \in Req : RecordStreamCall(r)
  \/ \E r \in Req : StreamRewrite(r)
  \/ \E r \in Req : StreamEnds(r)
  \/ \E r \in Req : Respond(r)
  \/ \E r \in Req : Resend(r)
  \/ \E r \in Req : RecordResend(r)
  \/ \E r \in Req : NoResponse(r)
  \/ \E r \in Req : BodyEnds(r)

Spec == Init /\ [][Next]_vars

(* A session without a control POST: all that is recorded is also counted. *)
InferenceSpec == Init /\ [][Next /\ ~\E r \in Req : ArriveControl(r)]_vars

-----------------------------------------------------------------------------
(* Properties                                                              *)

(* Every variable has its type.                                            *)
TypeOK ==
  /\ seq \in Nat
  /\ items \in Seq(Event)
  /\ pc \in [Req -> {"idle", "reading", "native", "counted", "folded", "built", "stream",
                     "answering", "upstream", "resent", "body"}]
  /\ calls \in [Req -> Nat]
  /\ event \in [Req -> Nat]
  /\ sent \in [Req -> {"original", "steered"}]
  /\ writer \in [Req -> {"off", "reading", "called"}]
  /\ frames \in [Req -> Nat]
  /\ requests \in Nat /\ rewritten \in Nat /\ passthrough \in Nat
  /\ jevHTTP \in Nat /\ served \in Nat

EventCalls == MapThenSumSet(LAMBDA i : items[i].calls, DOMAIN items)

Quiescent == \A r \in Req : Idle(r)

(* The dashboard reads the events and then the total, and never sees more  *)
(* calls in the events than in the total, whatever is in flight and        *)
(* whatever the log dropped; and once nothing is in flight, and if the log *)
(* dropped no event, the two agree: "keeping the dashboard total equal to  *)
(* the sum of event JevCalls that the bench meter checks" (comment at the  *)
(* clear gate's call in proxy.go).                                         *)
JevTotalsAgree ==
  /\ EventCalls <= jevHTTP
  /\ Quiescent /\ Len(items) = seq => EventCalls = jevHTTP

(* An event that is not settled has a handler that will settle it: the     *)
(* page's cursor and the bench meter never wait for an event whose request *)
(* is gone.                                                                *)
OpenEventHasOwner ==
  \A i \in DOMAIN items : ~items[i].settled =>
    \E r \in Req : /\ event[r] = items[i].seq
                   /\ pc[r] \in {"answering", "upstream", "resent", "body"}

(* While a response is being delivered, its event says whether it answers  *)
(* a steered body or the original one.                                     *)
EventMatchesDelivery ==
  \A r \in Req, i \in DOMAIN items : pc[r] = "body" /\ items[i].seq = event[r] =>
    (items[i].steered <=> sent[r] = "steered")

(* RunStats reports eventsTruncated when the log dropped events: it        *)
(* compares the request counter with what the log retains.  A control POST *)
(* takes a place in the log and is not counted, so it does not hold of     *)
(* Spec; it holds of InferenceSpec.                                        *)
EventsTruncated == requests > Len(items)

EvictionIsReported == seq > Len(items) => EventsTruncated

(* What the handlers do to the log is what its readers rely on.            *)
Log == INSTANCE EventLog WITH
         items <- [i \in DOMAIN items |-> [seq |-> items[i].seq, settled |-> items[i].settled]]

ImplementsLog == Log!LogSpec

=============================================================================
