------------------------------- MODULE BodyTaps -------------------------------
(***************************************************************************)
(* The taps of usage.go and context_edit.go: a response body streams       *)
(* through to the client in chunks the network chose, and two collectors   *)
(* beside it put lines and events together again to read the token usage   *)
(* and the applied context edits.  A tap reports once, at the end of the   *)
(* body or when a broken copy closes it, whichever comes first.            *)
(*                                                                         *)
(* The smallest thing a chunk can hold is half a unit (a JSON document, a  *)
(* line of an event stream, a Connect frame) or a line break.  A body that *)
(* is not labelled as an event stream is found to be one by the chunk that *)
(* holds a marker of a line, and the halves of a line may part within it.  *)
(***************************************************************************)
EXTENDS Naturals, Sequences, FiniteSets, Absent

CONSTANTS
  Unit,      \* documents, lines and frames
  SortOf,    \* unit -> "doc", "event", "data", "done", "frame", "trailer", "failure"
  UsageOf,   \* unit -> the usage it carries, or None
  EditsOf,   \* unit -> the applied edits it carries, or None
  InMarker,  \* lines whose halves part within their "data:" or "event:"
  SaysData,  \* documents and data lines whose second half quotes "data:"
  Big,       \* documents and data lines longer than usageParseLimit
  Bodies,    \* bodies: [type : "sse" | "json" | "connect", units : Seq(Unit)]
  TapMax     \* usageParseLimit

(* Every unit of the body is of one of these sorts.                        *)
Of(b, sorts) == \A i \in DOMAIN b.units : SortOf[b.units[i]] \in sorts

Document(b)    == b.type = "json" /\ Len(b.units) = 1 /\ Of(b, {"doc"})
EventStream(b) == b.type \in {"sse", "json"} /\ Of(b, {"event", "data", "done"})
ConnectBody(b) == b.type = "connect" /\ Of(b, {"frame", "trailer", "failure"})

(* Usage is in documents, data lines and frames, edits are in the first    *)
(* two of them; an event stream may be labelled as JSON.                   *)
ASSUME TapAssumption ==
  /\ TapMax \in Nat /\ None \notin Unit
  /\ \A x \in Big : SortOf[x] \in {"doc", "data"} /\ UsageOf[x] = None /\ EditsOf[x] = None
  /\ \A x \in SaysData : SortOf[x] \in {"doc", "data"}
  /\ \A x \in Unit :
       /\ SortOf[x] \in {"event", "done"} => (UsageOf[x] = None /\ EditsOf[x] = None)
       /\ SortOf[x] \in {"frame", "trailer", "failure"} => EditsOf[x] = None
  /\ \A b \in Bodies : b.units \in Seq(Unit) /\ (Document(b) \/ EventStream(b) \/ ConnectBody(b))

VARIABLES
  body,      \* the body of this response
  taken,     \* how much of it was read
  usageTap,  \* the usage collector
  editsTap,  \* the edits collector
  over,      \* both taps have reported
  asJSON     \* history: how much came before the body was found to be an event stream

tapVars == <<body, taken, usageTap, editsTap, over, asJSON>>

-----------------------------------------------------------------------------
(* What the network carries                                                *)

Half(x, n) == [unit |-> x, half |-> n]
Break      == Half(None, 0)
Whole(x)   == <<Half(x, 1), Half(x, 2)>>

AtLength(x) == IF x \in Big THEN Whole(x) \o [i \in 1 .. TapMax |-> Half(x, 2)] ELSE Whole(x)

OfUnit(x) ==
  CASE SortOf[x] \in {"data", "done"} -> AtLength(x) \o <<Break, Break>>
    [] SortOf[x] = "event"            -> AtLength(x) \o <<Break>>
    [] OTHER                          -> AtLength(x)

OnWire(b) ==
  LET wire[n \in 0 .. Len(b.units)] == IF n = 0 THEN <<>> ELSE wire[n - 1] \o OfUnit(b.units[n])
  IN wire[Len(b.units)]

-----------------------------------------------------------------------------
(* A collector                                                             *)

(* of: what it looks for; bounded: it limits the size of one event.        *)
NewTap(type, of, bounded) ==
  [sse |-> type = "sse", connect |-> type = "connect" /\ bounded, of |-> of,
   bounded |-> bounded, raw |-> <<>>, line |-> <<>>, event |-> <<>>,
   value |-> None, limit |-> "", finish |-> ""]

Starts(b, sorts) == b.half = 1 /\ SortOf[b.unit] \in sorts

(* The marker of a line that starts with piece i is whole in p.            *)
MarkerAt(p, i, sorts) == Starts(p[i], sorts) /\ (p[i].unit \in InMarker => i < Len(p))

(* looksSSE: "data:" anywhere in the chunk, or "event:" at its start.      *)
LooksSSE(p) ==
  \/ \E i \in DOMAIN p : MarkerAt(p, i, {"data", "done"}) \/ (p[i].half = 2 /\ p[i].unit \in SaysData)
  \/ MarkerAt(p, 1, {"event"})

(* The unit a piece of JSON holds, when it is a whole one and not a part:  *)
(* a document, or what is left of a data line without its marker.          *)
Parsed(bytes, sort) == {x \in Unit : bytes = Whole(x) /\ SortOf[x] = sort}

Found(tap, bytes, sort) ==
  IF \E x \in Parsed(bytes, sort) : tap.of[x] # None
  THEN tap.of[CHOOSE x \in Parsed(bytes, sort) : TRUE]
  ELSE tap.value

Flush(tap) == [tap EXCEPT !.value = Found(tap, tap.event, "data"), !.event = <<>>]

DataLine(tap) ==
  IF tap.bounded /\ Len(tap.event) + Len(tap.line) + 1 > TapMax
  THEN [tap EXCEPT !.limit = "sse_event_limit", !.event = <<>>, !.line = <<>>]
  ELSE [tap EXCEPT !.event = @ \o tap.line, !.line = <<>>]

Byte(tap, b) ==
  IF b # Break THEN [tap EXCEPT !.line = Append(@, b)]
  ELSE IF tap.line = <<>> THEN Flush(tap)
  ELSE IF MarkerAt(tap.line, 1, {"data", "done"}) THEN DataLine(tap)
  ELSE [tap EXCEPT !.line = <<>>]

(* feedSSE: whole lines are worked off, the rest waits for the next chunk. *)
FeedSSE(tap, p) ==
  LET upTo[n \in 0 .. Len(p)] == IF n = 0 THEN tap ELSE Byte(upTo[n - 1], p[n])
      fed == upTo[Len(p)]
  IN IF tap.limit # "" THEN tap
     ELSE IF Len(fed.line) > TapMax THEN [fed EXCEPT !.limit = "sse_limit", !.line = <<>>]
     ELSE fed

Buffer(tap, p, why) ==
  IF Len(tap.raw) + Len(p) > TapMax
  THEN [tap EXCEPT !.limit = why]
  ELSE [tap EXCEPT !.raw = @ \o p]

(* Write.  A Connect buffer that was full takes a later chunk that fits.   *)
Written(tap, p) ==
  IF tap.connect THEN Buffer(tap, p, "connect_limit")
  ELSE IF tap.sse \/ LooksSSE(p) THEN FeedSSE([tap EXCEPT !.sse = TRUE], p)
  ELSE IF tap.limit # "" THEN tap
  ELSE Buffer(tap, p, "json_limit")

(* finishConnect: the envelopes in the buffer, from its start, as far as   *)
(* each is whole; a hole in the buffer makes the rest unreadable.          *)
Envelopes(raw) ==
  {n \in DOMAIN raw : n % 2 = 0 /\ \A i \in 1 .. n : raw[i].half = 2 - (i % 2)}

UnitsIn(raw) == [n \in Envelopes(raw) |-> {x \in Unit : SubSeq(raw, n - 1, n) = Whole(x)}]

FinishedConnect(tap) ==
  LET units   == UnitsIn(tap.raw)
      with    == {n \in DOMAIN units : \E x \in units[n] : tap.of[x] # None}
      failed  == \E n \in DOMAIN units : \E x \in units[n] : SortOf[x] = "failure"
      newest  == CHOOSE n \in with : \A k \in with : k <= n
  IN [tap EXCEPT
       !.value = IF with = {} THEN None ELSE tap.of[CHOOSE x \in units[newest] : TRUE],
       !.finish = IF failed THEN "error"
                  ELSE IF 2 * Cardinality(Envelopes(tap.raw)) < Len(tap.raw) THEN "incomplete"
                  ELSE ""]

(* Slip: a last line without its line break is given up.                   *)
FinishedLines(tap) ==
  IF tap.connect THEN FinishedConnect(tap)
  ELSE IF tap.sse THEN Flush(tap)
  ELSE [tap EXCEPT !.value = Found(tap, tap.raw, "doc")]

(* Finish: the last line may lack its break, the last event its blank line.*)
Finished(tap) ==
  IF tap.connect THEN FinishedConnect(tap)
  ELSE IF tap.sse
  THEN Flush(IF tap.line = <<>> THEN tap ELSE FeedSSE(tap, <<Break, Break>>))
  ELSE [tap EXCEPT !.value = Found(tap, tap.raw, "doc")]

-----------------------------------------------------------------------------
TapsInit ==
  /\ body \in Bodies
  /\ taken = 0
  /\ usageTap = NewTap(body.type, UsageOf, TRUE)
  /\ editsTap = NewTap(body.type, EditsOf, FALSE)
  /\ over = FALSE
  /\ asJSON = 0

(* The body is read as lines, from the first chunk or from a later one on. *)
AsLines == body.type = "sse" \/ asJSON < taken

(* One Read returns a chunk; the edits tap is the inner one.               *)
Chunk(n) ==
  /\ ~over
  /\ taken < n
  /\ n <= Len(OnWire(body))
  /\ LET p == SubSeq(OnWire(body), taken + 1, n)
     IN /\ usageTap' = Written(usageTap, p)
        /\ editsTap' = Written(editsTap, p)
        /\ asJSON' = IF AsLines \/ LooksSSE(p) THEN asJSON ELSE n
  /\ taken' = n
  /\ UNCHANGED <<body, over>>

Report ==
  /\ usageTap' = Finished(usageTap)
  /\ editsTap' = Finished(editsTap)
  /\ over' = TRUE

EndOfBody ==
  /\ ~over
  /\ taken = Len(OnWire(body))
  /\ Report
  /\ UNCHANGED <<body, taken, asJSON>>

(* The copy broke off, or Read failed: Close without having seen the end.  *)
ClosedEarly ==
  /\ ~over
  /\ taken < Len(OnWire(body))
  /\ Report
  /\ UNCHANGED <<body, taken, asJSON>>

(* Close after the end of the body: once.Do reports no second time.        *)
ClosedAgain == over /\ UNCHANGED tapVars

TapsNext ==
  \/ \E n \in 1 .. Len(OnWire(body)) : Chunk(n)
  \/ EndOfBody
  \/ ClosedEarly
  \/ ClosedAgain

TapsSpec == TapsInit /\ [][TapsNext]_tapVars

-----------------------------------------------------------------------------
(* Properties                                                              *)

(* Every variable has its type.                                            *)
TapsTypeOK ==
  /\ body \in Bodies
  /\ taken \in Nat /\ asJSON \in Nat
  /\ over \in BOOLEAN
  /\ \A tap \in {usageTap, editsTap} :
       /\ tap.limit \in {"", "json_limit", "sse_limit", "sse_event_limit", "connect_limit"}
       /\ tap.finish \in {"", "error", "incomplete"}

Received == SubSeq(OnWire(body), 1, taken)

Reached(x, n) == n < taken /\ SubSeq(Received, n, n + 1) = Whole(x)

(* The newest value carried by a unit that came whole after the first      *)
(* pieces.                                                                 *)
Newest(of, from) ==
  LET with == {n \in from + 1 .. taken : \E x \in Unit : of[x] # None /\ Reached(x, n)}
  IN IF with = {} THEN None
     ELSE of[Received[CHOOSE n \in with : \A k \in with : k <= n].unit]

(* A body labelled as JSON is read as what it is not: an event stream in   *)
(* none of whose chunks a marker was whole, or a document that quotes one. *)
Mistaken == body.type = "json" /\ (EventStream(body) <=> ~AsLines)

(* However the network cut the body into chunks and wherever it broke off, *)
(* a tap that hit no limit reports the newest usage, or the newest edits,  *)
(* that arrived whole, and a Connect stream's own verdict: an error it     *)
(* carried, or that it stops inside a frame.  What usage.go 77 costs is    *)
(* stated, not left out: a body labelled as JSON that is mistaken for what *)
(* it is not yields nothing, and of a stream so labelled the chunks before *)
(* the first one with a whole marker are lost.                             *)
TapsReportWhatArrived ==
  over =>
    /\ \A tap \in {usageTap, editsTap} : tap.limit = "" =>
         tap.value = IF Mistaken THEN None ELSE Newest(tap.of, IF AsLines THEN asJSON ELSE 0)
    /\ usageTap.connect /\ usageTap.limit = "" =>
         usageTap.finish =
           IF \E x \in Unit, n \in 1 .. taken : SortOf[x] = "failure" /\ Reached(x, n) THEN "error"
           ELSE IF taken % 2 = 1 THEN "incomplete"
           ELSE ""

=============================================================================
