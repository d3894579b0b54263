------------------------------- MODULE Parts --------------------------------
(***************************************************************************)
(* Components that share no state, side by side: a behaviour is one of the *)
(* component that `part` names, and the variables of the others stay as    *)
(* one initial state of theirs has them.  The gateway runs each of them on *)
(* its own: the hint store and the Jev client per process, a selection, a  *)
(* steering decision, a fitted state or a tap per request, a benchmark     *)
(* with its lock and its processes as a program beside it.                 *)
(***************************************************************************)
EXTENDS Hints, JevClient, Selection, CodexSteer, AutoApply, NativeReply, StateFit,
        BodyTaps, ConnectFrames, BenchLock, RunProc, Bench

VARIABLE part

Part == {"hints", "jev", "selection", "steer", "apply", "native", "fit",
         "taps", "frames", "lock", "proc", "bench"}

partsVars == <<part, hintVars, jevVars, selVars, steerVars, applyVars, nativeVars, fitVars,
               tapVars, frameVars, lockVars, procVars, benchVars>>

(* A part that is not chosen has one initial state only.                   *)
Only(p, start) == part = p \/ start

PartsInit ==
  /\ part \in Part
  /\ HintsInit /\ JevInit /\ SelInit /\ FitInit /\ FramesInit
  /\ SteerInit /\ Only("steer", truncates)
  /\ ApplyInit /\ Only("apply", ~policy.required /\ policy.applies = {})
  /\ NativeInit /\ Only("native", agent = "codex" /\ enabled)
  /\ TapsInit /\ Only("taps", body = CHOOSE b \in Bodies : TRUE)
  /\ LockInit /\ Only("lock", keeps = {})
  /\ ProcInit /\ Only("proc", unsaid = (CHOOSE o \in Outputs : TRUE) /\ hangs)
  /\ BenchInit /\ Only("bench", cli = CHOOSE c \in Cli : TRUE)

Rest ==
  /\ IF part = "hints" THEN TRUE ELSE UNCHANGED hintVars
  /\ IF part = "jev" THEN TRUE ELSE UNCHANGED jevVars
  /\ IF part = "selection" THEN TRUE ELSE UNCHANGED selVars
  /\ IF part = "steer" THEN TRUE ELSE UNCHANGED steerVars
  /\ IF part = "apply" THEN TRUE ELSE UNCHANGED applyVars
  /\ IF part = "native" THEN TRUE ELSE UNCHANGED nativeVars
  /\ IF part = "fit" THEN TRUE ELSE UNCHANGED fitVars
  /\ IF part = "taps" THEN TRUE ELSE UNCHANGED tapVars
  /\ IF part = "frames" THEN TRUE ELSE UNCHANGED frameVars
  /\ IF part = "lock" THEN TRUE ELSE UNCHANGED lockVars
  /\ IF part = "proc" THEN TRUE ELSE UNCHANGED procVars
  /\ IF part = "bench" THEN TRUE ELSE UNCHANGED benchVars
  /\ UNCHANGED part

PartsNext ==
  \/ part = "hints" /\ HintsNext /\ Rest
  \/ part = "jev" /\ JevNext /\ Rest
  \/ part = "selection" /\ SelNext /\ Rest
  \/ part = "steer" /\ SteerNext /\ Rest
  \/ part = "apply" /\ ApplyNext /\ Rest
  \/ part = "native" /\ NativeNext /\ Rest
  \/ part = "fit" /\ FitNext /\ Rest
  \/ part = "taps" /\ TapsNext /\ Rest
  \/ part = "frames" /\ FramesNext /\ Rest
  \/ part = "lock" /\ LockNext /\ Rest
  \/ part = "proc" /\ ProcNext /\ Rest
  \/ part = "bench" /\ BenchNext /\ Rest

(* Only the process runner waits for something.                            *)
PartsSpec == PartsInit /\ [][PartsNext]_partsVars /\ ProcFairness

-----------------------------------------------------------------------------
(* The types of the variables of the part that takes steps, and with them  *)
(* that the hint store keeps to its bound and names every stored hint once *)
(* in its queue, and that a result of runProc tells what its child did.    *)
PartsTypeOK ==
  /\ part \in Part
  /\ part = "hints" => HintsTypeOK /\ StoreMatchesOrder
  /\ part = "jev" => JevTypeOK
  /\ part = "selection" => SelTypeOK
  /\ part = "steer" => SteerTypeOK
  /\ part = "apply" => ApplyTypeOK
  /\ part = "native" => NativeTypeOK
  /\ part = "fit" => FitTypeOK
  /\ part = "taps" => TapsTypeOK
  /\ part = "frames" => FramesTypeOK
  /\ part = "lock" => LockTypeOK
  /\ part = "proc" => ProcTypeOK /\ ResultIsTrue
  /\ part = "bench" => BenchTypeOK
=============================================================================
