---------------------------- MODULE ConnectFrames -----------------------------
(***************************************************************************)
(* The body of a Devin Connect request (connect_devin.go, connect_proto.go)*)
(* is rewritten frame by frame while the transport reads it.  A frame      *)
(* holds either JSON objects in strings of a protobuf message, or Devin's  *)
(* own message: a repeated field of tool definitions and one of history    *)
(* items.  The tools and the history are lifted out of it, rewritten as a  *)
(* chat request (RewriteWith), and written back into their slots.          *)
(*                                                                         *)
(* RewriteWith is the subject of other modules.  Here it drops tools or    *)
(* changes only what a native frame has no place for (a model, a           *)
(* tool_choice), and AfterRewrite may append a skill to a message.  The    *)
(* write-back also takes back messages that were dropped or shortened, as  *)
(* its tests do; RewriteWith itself compacts no history at present.        *)
(***************************************************************************)
EXTENDS Absent, Sublists, Integers, SequencesExt

CONSTANTS
  Frames,    \* frames: [json, history, catalog]
  FrameMax   \* bound: frames of one body

Item == [kind : {"text", "call", "result", "opaque"}, id : {"letter", "digit"},
         text : {"none", "short", "long"}]

ASSUME FramesAssumption ==
  /\ \A f \in Frames : /\ DOMAIN f = {"json", "history", "catalog"}
                        /\ f.json \in Seq({"chat", "part", "other"}) /\ f.history \in Seq(Item)
                        /\ f.catalog \in Seq(Range(f.catalog))
  /\ FrameMax \in Nat /\ None \notin Frames

VARIABLES
  passed,    \* the newest frame: what came, what was asked for, what went out
  tail,      \* what follows the last whole frame: None, "cut", "oversized"
  noted      \* what the event says: [frames, changed]

frameVars == <<passed, tail, noted>>

-----------------------------------------------------------------------------
(* Objects in strings                                                      *)

(* The first object that is a chat request by itself is rewritten in its   *)
(* place.  Parts are merged to be looked at, and have no place of their own.*)
ChatAt(objects) == {i \in DOMAIN objects : objects[i] = "chat"}

HasChat(objects) == \E i \in DOMAIN objects : objects[i] \in {"chat", "part"}

(* Equal strings are replaced together, so every such object changes.      *)
JSONWritten(objects) ==
  [i \in DOMAIN objects |-> IF i \in ChatAt(objects) THEN "rewritten" ELSE objects[i]]

-----------------------------------------------------------------------------
(* Devin's own message                                                     *)

(* liftDevinChatMessage: an item without a call, result or text is no      *)
(* message.                                                                *)
Liftable(item) == item.kind # "opaque"

(* Slip: messages are numbered in the order they were lifted.              *)
LiftedByOrder(items) ==
  [k \in 1 .. Cardinality({i \in DOMAIN items : Liftable(items[i])}) |-> k]

(* liftDevinHistoryField: the slots of the messages (_idx).                *)
Lifted(items) == Picked([i \in DOMAIN items |-> i], {i \in DOMAIN items : Liftable(items[i])})

HistoryLifts(items) == Len(items) >= 2 /\ Len(Lifted(items)) >= 2

(* liftDevinCatalogItems: entries with a name; three of them make a        *)
(* catalogue.                                                              *)
ItemNames(catalog) ==
  LET named == Picked(catalog, {i \in DOMAIN catalog : catalog[i].name # None})
  IN [k \in DOMAIN named |-> named[k].name]

Lifts(frame) == Len(ItemNames(frame.catalog)) >= 3

(* keptToolRaws: of entries with one name the last is kept, for each.      *)
Definition(catalog, name) ==
  catalog[CHOOSE i \in DOMAIN catalog :
            catalog[i].name = name /\ \A k \in DOMAIN catalog : catalog[k].name = name => k <= i]

CatalogWritten(catalog, names) == [k \in DOMAIN names |-> Definition(catalog, names[k])]

(* rewriteDevinHistItemText: the longest text of an item that is no role   *)
(* and no name.  A message id (36 characters) is a name when it starts     *)
(* with a letter; the parts of a call are no text.                         *)
Overwritten(item, text) ==
  IF item.id = "digit" /\ item.text # "long" THEN [item EXCEPT !.id = text]
  ELSE IF item.text = "none" THEN item
  ELSE [item EXCEPT !.text = text]

(* writebackDevinHistory: every item stays in its slot; a plan speaks of    *)
(* messages, and _idx leads from a message to its slot.  A message that    *)
(* has become longer is not written: what was appended is lost here.       *)
HistoryWritten(items, plan) ==
  LET slotsOf(msgs) == {Lifted(items)[k] : k \in msgs}
  IN [i \in DOMAIN items |->
        IF i \in slotsOf(plan.drop) THEN Overwritten(items[i], "stub")
        ELSE IF i \in slotsOf(plan.shorten) THEN Overwritten(items[i], "cut")
        ELSE items[i]]

(* The rewritten request is not what was lifted.                           *)
Differs(plan) == plan.changed \/ plan.appended

FrameWritten(frame, plan) ==
  IF frame.json # <<>>
  THEN IF HasChat(frame.json) /\ Differs(plan)
       THEN [frame EXCEPT !.json = JSONWritten(@)] ELSE frame
  ELSE IF ~Lifts(frame) \/ ~Differs(plan) THEN frame
  ELSE [frame EXCEPT !.catalog = CatalogWritten(@, plan.names),
                     !.history = HistoryWritten(@, plan)]

-----------------------------------------------------------------------------
PlanOf(changed, appended, names, drop, shorten) ==
  [changed |-> changed, appended |-> appended, names |-> names, drop |-> drop, shorten |-> shorten]

(* What RewriteWith and AfterRewrite may make of a frame.  changed is what *)
(* RewriteWith says of it; names are the tools the request then has.       *)
JSONPlans(frame) ==
  LET may == IF HasChat(frame.json) THEN BOOLEAN ELSE {FALSE}
  IN {PlanOf(said[1], said[2], <<>>, {}, {}) : said \in may \X may}

SamePlans(names) == {PlanOf(FALSE, a, names, {}, {}) : a \in BOOLEAN}

FewerPlans(keeps) == {PlanOf(TRUE, a, names, {}, {}) : a \in BOOLEAN, names \in keeps}

ShorterPlans(keeps, msgs) ==
  {PlanOf(TRUE, FALSE, names, drop, shorten) :
     names \in keeps, drop \in SUBSET msgs, shorten \in SUBSET msgs}

LiftedPlans(frame) ==
  LET msgs  == IF HistoryLifts(frame.history) THEN DOMAIN Lifted(frame.history) ELSE {}
      all   == ItemNames(frame.catalog)
      keeps == {Those(all, keep) : keep \in SUBSET Range(all)}
  IN SamePlans(all) \cup FewerPlans(keeps) \cup ShorterPlans(keeps, msgs)

Plans(frame) ==
  IF frame.json # <<>> THEN JSONPlans(frame)
  ELSE IF Lifts(frame) THEN LiftedPlans(frame)
  ELSE {PlanOf(FALSE, FALSE, <<>>, {}, {})}

FramesInit == passed = None /\ tail = None /\ noted = [frames |-> 0, changed |-> FALSE]

(* One whole frame: rewritten, observed, recorded, in this order.  What is *)
(* recorded is what RewriteWith said, of this frame only.                  *)
PassFrame(frame, plan) ==
  /\ tail = None
  /\ noted.frames < FrameMax
  /\ passed' = [came |-> frame, plan |-> plan, went |-> FrameWritten(frame, plan)]
  /\ noted' = [frames |-> noted.frames + 1, changed |-> plan.changed]
  /\ UNCHANGED tail

(* The body ends inside a frame, or a header announces more than a body    *)
(* may hold: what was read passes as it is, and the body ends there.       *)
PassTail(why) ==
  /\ tail = None
  /\ tail' = why
  /\ UNCHANGED <<passed, noted>>

FramesNext ==
  \/ \E frame \in Frames : \E plan \in Plans(frame) : PassFrame(frame, plan)
  \/ \E why \in {"ended", "cut", "oversized"} : PassTail(why)

FramesSpec == FramesInit /\ [][FramesNext]_frameVars

-----------------------------------------------------------------------------
(* Properties                                                              *)

(* Every variable has its type.                                            *)
FramesTypeOK ==
  /\ passed # None => passed.came \in Frames
  /\ tail \in {None, "ended", "cut", "oversized"}
  /\ noted \in [frames : 0 .. FrameMax, changed : BOOLEAN]

(* A frame of Devin's own goes out with as many history items as it came   *)
(* with, every item in its slot: those that were no message or that Jev    *)
(* kept are untouched, and the long text of a dropped one is gone.  Its    *)
(* tools are those that were kept, under their own definitions.            *)
SlotsKept ==
  passed # None =>
    LET came   == passed.came
        went   == passed.went
        plan   == passed.plan
        nth(i) == Cardinality({j \in 1 .. i : Liftable(came.history[j])})
        at(msgs) == {i \in DOMAIN came.history : Liftable(came.history[i]) /\ nth(i) \in msgs}
    IN /\ Len(went.history) = Len(came.history)
       /\ \A i \in DOMAIN came.history :
            /\ i \notin at(plan.drop \cup plan.shorten) => went.history[i] = came.history[i]
            /\ i \in at(plan.drop) /\ came.history[i].text = "long" =>
                 went.history[i] = [came.history[i] EXCEPT !.text = "stub"]
       /\ Lifts(came) /\ Differs(plan) /\ came.json = <<>> =>
            /\ ItemNames(went.catalog) = plan.names
            /\ Range(went.catalog) \subseteq Range(came.catalog)

=============================================================================
