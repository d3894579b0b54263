------------------------------ MODULE StateFit ------------------------------
(***************************************************************************)
(* How a history is made to fit the state that Jev judges a compaction by  *)
(* (FitState of internal/compact/state.go): stage by stage, one row at a   *)
(* time, and no further than needed.                                       *)
(*                                                                         *)
(* A row is its level of detail; Size gives its tokens at each level.  A   *)
(* short text may grow when it is collapsed to the note that it was there. *)
(***************************************************************************)
EXTENDS Integers, Sequences, SequencesExt

CONSTANTS
  Shape,       \* kinds of items: [kind |-> ..., long |-> ...]
  Size,        \* shape -> level -> tokens of the row
  Recent,      \* PreserveRecent: how many of the newest items are pinned
  Budget,      \* MaxStateTokens
  FitMax       \* bound: items of a history

Level == {"full", "inputs200", "inputs60", "abridged", "collapsed", "compacted", "left_out"}

ASSUME StateFitAssumption ==
  /\ Shape \subseteq [kind : {"text", "call", "result"}, long : BOOLEAN]
  /\ Size \in [Shape -> [Level -> Nat]]
  /\ \A s \in Shape : Size[s]["left_out"] = 0
  /\ {Recent, Budget, FitMax} \subseteq Nat

VARIABLES
  hist,        \* shapes of the items, oldest first
  rows,        \* the level each is shown at
  todo,        \* the rows the stage still goes over
  stage        \* the stage that was reached, "none" before

fitVars == <<hist, rows, todo, stage>>

FitInit == hist = <<>> /\ rows = <<>> /\ todo = {} /\ stage = "none"

Tokens(r) == FoldLeft(LAMBDA sum, i : sum + Size[hist[i]][r[i]], 0, [i \in DOMAIN r |-> i])

Fits(r) == Tokens(r) <= Budget

(* isPinned: the first item, and the newest ones.                          *)
Pinned(i) == i = 1 \/ i > Len(hist) - Recent
Old == {i \in DOMAIN hist : ~Pinned(i)}

(* Slip: whatever is not pinned may be left out.                           *)
AllOld == Old

OldMessages == {i \in Old : hist[i].kind = "text"}

(* The rows each stage goes over.                                          *)
Rows(st) ==
  CASE st = "texts abridged" -> {i \in DOMAIN hist : hist[i].kind = "text" /\ hist[i].long}
    [] st = "old messages collapsed" -> {i \in Old : hist[i].kind = "text"}
    [] st = "old calls compacted" -> {i \in Old : hist[i].kind # "text"}
    [] st = "old messages left out" -> OldMessages
    [] OTHER -> {}

(* Oldest first, pinned last.                                              *)
Precedes(i, j) == IF Pinned(i) <=> Pinned(j) THEN i <= j ELSE Pinned(j)
Foremost(is) == CHOOSE i \in is : \A j \in is : Precedes(i, j)

To(st) == CASE st = "texts abridged" -> "abridged" [] st = "old messages collapsed" -> "collapsed"
            [] st = "old calls compacted" -> "compacted" [] OTHER -> "left_out"

After(st) == CASE st = "inputs<=60" -> "texts abridged" [] st = "texts abridged" -> "old messages collapsed"
               [] st = "old messages collapsed" -> "old calls compacted"
               [] st = "old calls compacted" -> "old messages left out"

-----------------------------------------------------------------------------

FitHistory ==
  /\ stage = "none" /\ Len(hist) < FitMax
  /\ \E s \in Shape : hist' = Append(hist, s)
  /\ UNCHANGED <<rows, todo, stage>>

FitStart ==
  /\ stage = "none"
  /\ rows' = [i \in DOMAIN hist |-> "full"]
  /\ stage' = "full" /\ UNCHANGED <<hist, todo>>

(* Inputs of all calls are shown shorter.                                  *)
ShortenInputs ==
  /\ stage \in {"full", "inputs<=200"} /\ ~Fits(rows)
  /\ LET to == IF stage = "full" THEN "inputs200" ELSE "inputs60" IN
       /\ rows' = [i \in DOMAIN hist |-> IF hist[i].kind = "call" THEN to ELSE "full"]
       /\ stage' = IF stage = "full" THEN "inputs<=200" ELSE "inputs<=60"
  /\ UNCHANGED <<hist, todo>>

(* The next row of the stage, while it does not fit.                       *)
ReduceRow ==
  /\ todo # {} /\ ~Fits(rows)
  /\ rows' = [rows EXCEPT ![Foremost(todo)] = To(stage)]
  /\ todo' = todo \ {Foremost(todo)} /\ UNCHANGED <<hist, stage>>

NextStage ==
  /\ stage \in {"inputs<=60", "texts abridged", "old messages collapsed", "old calls compacted"}
  /\ todo = {} /\ ~Fits(rows)
  /\ stage' = After(stage) /\ todo' = Rows(After(stage))
  /\ UNCHANGED <<hist, rows>>

(* Only the pinned rows are left, whether they fit or not.                 *)
TooLarge ==
  /\ stage = "old messages left out" /\ todo = {} /\ ~Fits(rows)
  /\ rows' = [i \in DOMAIN hist |-> IF Pinned(i) THEN rows[i] ELSE "left_out"]
  /\ stage' = "too_large" /\ UNCHANGED <<hist, todo>>

FitNext == FitHistory \/ FitStart \/ ShortenInputs \/ ReduceRow \/ NextStage \/ TooLarge

FitSpec == FitInit /\ [][FitNext]_fitVars

-----------------------------------------------------------------------------

FitTypeOK ==
  /\ hist \in Seq(Shape) /\ rows \in Seq(Level) /\ todo \subseteq DOMAIN hist
  /\ stage \in {"none", "full", "inputs<=200", "inputs<=60", "texts abridged", "old messages collapsed",
                "old calls compacted", "old messages left out", "too_large"}

(* What Jev is asked about it is shown: no call and no result leaves the   *)
(* state unless not even all shortened calls fit together (stage           *)
(* "too_large"); a pinned row is never more than abridged, and not before  *)
(* every long text that is not pinned was (the comment at state.go 129).   *)
StateShowsCalls ==
  /\ \A i \in DOMAIN rows :
       /\ rows[i] = "left_out" => hist[i].kind = "text" \/ stage = "too_large"
       /\ Pinned(i) => rows[i] \notin {"collapsed", "compacted", "left_out"}
       /\ Pinned(i) /\ rows[i] = "abridged" =>
            \A j \in DOMAIN rows : hist[j].kind = "text" /\ hist[j].long /\ ~Pinned(j) => rows[j] # "full"
  /\ stage = "too_large" =>
       ~Fits([i \in DOMAIN hist |-> IF Pinned(i) THEN rows[i]
                                    ELSE IF hist[i].kind = "text" THEN "left_out" ELSE "compacted"])
=============================================================================
