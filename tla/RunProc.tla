------------------------------- MODULE RunProc -------------------------------
(***************************************************************************)
(* How the benchmark runs a process (internal/bench/proc.go): the child    *)
(* writes to a pipe, a scanner reads it line by line, cmd.Wait closes the  *)
(* pipe when the child is gone, and a timer or an interrupt kills the      *)
(* process group.  Wait and the scanner race for what is in the pipe.      *)
(*                                                                         *)
(* Output is a sequence of pieces: "more" belongs to a line that goes on,  *)
(* "end" ends a line.  The copy of stderr ends with the pipe like the      *)
(* scanner and never stops before; it has no state of its own here.        *)
(***************************************************************************)
EXTENDS Integers, Sequences, Absent

CONSTANTS
  Outputs,    \* what a child may have to say: sequences of "more" and "end"
  PipeMax,    \* pieces the pipe holds before a write blocks
  LineMax     \* pieces of the longest line the scanner takes

ASSUME ProcAssumption ==
  /\ Outputs \subseteq Seq({"more", "end"})
  /\ PipeMax \in Nat /\ LineMax \in Nat
  /\ None \notin {"wait", "timer"} /\ None \notin [code : {-1, 0, 127}, timedOut : BOOLEAN]

VARIABLES
  child,      \* "none", "running", "exited" or "killed"
  unsaid,     \* output the child has still to write
  hangs,      \* the child does not exit by itself
  pipe,       \* output written and not yet read
  open,       \* the read end of the pipe
  scanner,    \* "reading" or "stopped"
  held,       \* pieces of the line being read
  lines,      \* lines given to onLine
  chosen,     \* what the select of runProc received: None, "wait" or "timer"
  waited,     \* cmd.Wait has returned
  result      \* None until runProc returns

procVars == <<child, unsaid, hangs, pipe, open, scanner, held, lines, chosen, waited, result>>

ProcInit ==
  /\ child = "none"
  /\ unsaid \in Outputs
  /\ hangs \in BOOLEAN
  /\ pipe = <<>>
  /\ open = TRUE
  /\ scanner = "reading"
  /\ held = 0
  /\ lines = 0
  /\ chosen = None
  /\ waited = FALSE
  /\ result = None

Start ==
  /\ child = "none"
  /\ result = None
  /\ child' = "running"
  /\ UNCHANGED <<unsaid, hangs, pipe, open, scanner, held, lines, chosen, waited, result>>

CannotStart ==
  /\ child = "none"
  /\ result = None
  /\ result' = [code |-> 127, timedOut |-> FALSE]
  /\ UNCHANGED <<child, unsaid, hangs, pipe, open, scanner, held, lines, chosen, waited>>

ChildWrites ==
  /\ child = "running"
  /\ unsaid # <<>>
  /\ Len(pipe) < PipeMax
  /\ pipe' = Append(pipe, Head(unsaid))
  /\ unsaid' = Tail(unsaid)
  /\ UNCHANGED <<child, hangs, open, scanner, held, lines, chosen, waited, result>>

ChildExits ==
  /\ child = "running"
  /\ unsaid = <<>>
  /\ ~hangs
  /\ child' = "exited"
  /\ UNCHANGED <<unsaid, hangs, pipe, open, scanner, held, lines, chosen, waited, result>>

(* A line longer than the scanner's buffer ends the scan for good.         *)
ScanPiece ==
  /\ scanner = "reading"
  /\ open
  /\ pipe # <<>>
  /\ pipe' = Tail(pipe)
  /\ IF Head(pipe) = "end"
       THEN lines' = lines + 1 /\ held' = 0 /\ UNCHANGED scanner
       ELSE /\ held' = held + 1
            /\ scanner' = IF held = LineMax THEN "stopped" ELSE "reading"
            /\ UNCHANGED lines
  /\ UNCHANGED <<child, unsaid, hangs, open, chosen, waited, result>>

(* Nobody can write any more, or the read end was closed: the half line    *)
(* that is held is given to onLine like a line.                            *)
ScanEnds ==
  /\ scanner = "reading"
  /\ \/ ~open
     \/ child \in {"exited", "killed"} /\ pipe = <<>>
  /\ scanner' = "stopped"
  /\ lines' = IF held > 0 THEN lines + 1 ELSE lines
  /\ UNCHANGED <<child, unsaid, hangs, pipe, open, held, chosen, waited, result>>

(* cmd.Wait closes the pipe without regard to what is still in it.         *)
WaitReturns ==
  /\ child \in {"exited", "killed"}
  /\ ~waited
  /\ waited' = TRUE
  /\ open' = FALSE
  /\ pipe' = <<>>
  /\ UNCHANGED <<child, unsaid, hangs, scanner, held, lines, chosen, result>>

ReceiveWait ==
  /\ waited
  /\ chosen = None
  /\ chosen' = "wait"
  /\ UNCHANGED <<child, unsaid, hangs, pipe, open, scanner, held, lines, waited, result>>

(* Slip: the timer is noted and the process group left alive.              *)
ExpireOnly ==
  /\ child # "none"
  /\ chosen = None
  /\ chosen' = "timer"
  /\ UNCHANGED <<child, unsaid, hangs, pipe, open, scanner, held, lines, waited, result>>

(* The timer or the interrupt; when Wait has returned as well the select   *)
(* may still pick it.  Killing a group that is gone changes nothing.       *)
Expire ==
  /\ child # "none"
  /\ chosen = None
  /\ chosen' = "timer"
  /\ child' = IF child = "running" THEN "killed" ELSE child
  /\ UNCHANGED <<unsaid, hangs, pipe, open, scanner, held, lines, waited, result>>

Return ==
  /\ chosen # None
  /\ waited
  /\ scanner = "stopped"
  /\ result = None
  /\ result' = [code |-> IF child = "killed" THEN -1 ELSE 0, timedOut |-> chosen = "timer"]
  /\ UNCHANGED <<child, unsaid, hangs, pipe, open, scanner, held, lines, chosen, waited>>

ProcNext ==
  \/ Start \/ CannotStart \/ ChildWrites \/ ChildExits \/ ScanPiece \/ ScanEnds
  \/ WaitReturns \/ ReceiveWait \/ Expire \/ Return

(* The goroutines of runProc run on and its timer fires; nothing is        *)
(* assumed of the child.                                                   *)
ProcFairness ==
  /\ WF_procVars(ScanPiece)
  /\ WF_procVars(ScanEnds)
  /\ WF_procVars(WaitReturns)
  /\ WF_procVars(ReceiveWait \/ Expire)
  /\ WF_procVars(Return)

ProcSpec == ProcInit /\ [][ProcNext]_procVars /\ ProcFairness

-----------------------------------------------------------------------------
ProcTypeOK ==
  /\ child \in {"none", "running", "exited", "killed"}
  /\ \A i \in DOMAIN pipe : pipe[i] \in {"more", "end"}
  /\ Len(pipe) <= PipeMax
  /\ held \in 0..(LineMax + 1)
  /\ lines \in Nat
  /\ {open, hangs, waited} \subseteq BOOLEAN
  /\ scanner \in {"reading", "stopped"}
  /\ chosen \in {None, "wait", "timer"}
  /\ result = None \/ result \in [code : {-1, 0, 127}, timedOut : BOOLEAN]

(* When runProc has returned nothing of it goes on: no line is given to    *)
(* onLine, whose variables the caller now reads without a lock (verify.go),*)
(* and no child of it writes on.                                           *)
ReturnIsLast == [][result = None]_procVars

(* What comparison.go takes for a finished run, exit code 0 and no timeout,*)
(* is one whose child ended by itself with nothing left to say; a child    *)
(* that was killed is always reported as timed out.                        *)
ResultIsTrue ==
  result # None =>
    /\ result.code = 0 /\ ~result.timedOut => child = "exited" /\ unsaid = <<>> /\ ~hangs
    /\ child = "killed" => result.timedOut /\ result.code = -1

(* A run always comes to an end: a child that says nothing, hangs, or is   *)
(* blocked on a pipe that nobody reads after a line too long to scan, is   *)
(* killed when its time is up, and runProc returns.                        *)
ProcReturns == child = "running" ~> result # None
=============================================================================
