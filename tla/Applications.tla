---------------------------- MODULE Applications ----------------------------
(***************************************************************************)
(* The application store of internal/proxy/application.go and the          *)
(* observers of internal/proxy/proxy.go that feed it: the calls a host     *)
(* makes are seen in response bodies (startObservedCall), their results in *)
(* the bodies of later requests (ObserveHostCall), on different goroutines.*)
(*                                                                         *)
(* Starting is serialised by applyMu, results are not.  Every put writes   *)
(* back a whole copy of the application that the goroutine read or built   *)
(* some steps ago, so each step below is one critical section of the store.*)
(* A result is identified by the call whose output it is; "call-n" of the  *)
(* recording executor is the placeholder Unnamed.                          *)
(***************************************************************************)
EXTENDS Naturals, FiniteSets

CONSTANTS
  Call,       \* call ids of the host whose calls are observed
  Old,        \* call ids the gateway never saw start, in the history it is sent
  Exec,       \* calls of the tool named "exec", the only CLI tool here
  Spawn,      \* subagent calls of Codex whose output reports a failed spawn
  Obs,        \* observing goroutines
  NoId,       \* the empty call id of legacy frames
  Unnamed,    \* the executor's own id, before the host's replaces it
  None        \* nothing: no application, no result, no goroutine

ASSUME CallsAssumption ==
  /\ Exec \subseteq Call /\ Spawn \subseteq Call /\ Exec \cap Spawn = {}
  /\ Call \cap Old = {} /\ {NoId, Unnamed, None} \cap (Call \cup Old) = {}
  /\ NoId # Unnamed /\ NoId # None /\ Unnamed # None
  /\ None \notin Obs

VARIABLES
  byId,       \* decision -> its application or None; the decision is the call id
  started,    \* decision -> how often the executor was told to start it
  applyMu,    \* holder of the server's applyMu, or None
  obs         \* goroutine -> what it is doing

vars == <<byId, started, applyMu, obs>>

Text == Call \cup Old

States == {"started", "verified", "failed", "unknown"}

App == [state : States, callId : Call \cup {Unnamed, NoId}, result : Text \cup {None}, host : BOOLEAN]

ASSUME AppAssumption == None \notin App

NewApp == [state |-> "started", callId |-> Unnamed, result |-> None, host |-> FALSE]

(* What a goroutine holds between two critical sections: the id a result   *)
(* came with, the decision and call id it works on, the text, its copy.    *)
Work == [at : {"idle", "checked", "cleared", "refused", "started", "named", "found", "got"},
         given : Text \cup {NoId, None}, call : Call \cup {None},
         callId : Call \cup {Unnamed, NoId, None}, text : Text \cup {None}, app : App \cup {None}]

Rest == [at |-> "idle", given |-> None, call |-> None, callId |-> None,
         text |-> None, app |-> None]

Init ==
  /\ byId = [c \in Call |-> None]
  /\ started = [c \in Call |-> 0]
  /\ applyMu = None
  /\ obs = [o \in Obs |-> Rest]

Known == {c \in Call : byId[c] # None}

StartedCalls == {c \in Known : byId[c].state = "started"}

Put(c, app) == byId' = [byId EXCEPT ![c] = app]

-----------------------------------------------------------------------------
(* startObservedCall                                                       *)

(* Slip: a decision on record is never looked at again, whatever its id.   *)
DuplicateByDecision(c) ==
  \/ c \in Known
  \/ c \in Exec /\ StartedCalls \cap Exec # {}

(* A call already recorded, or "exec" while another CLI call is running.   *)
Duplicate(c) ==
  \/ \E d \in Known : byId[d].callId = c
  \/ c \in Exec /\ StartedCalls \cap Exec # {}

(* Slip: applyMu is not waited for.                                        *)
BeginStartUnlocked(o, c) ==
  /\ obs[o].at = "idle"
  /\ ~Duplicate(c)
  /\ applyMu' = o
  /\ obs' = [obs EXCEPT ![o] = [Rest EXCEPT !.at = "checked", !.call = c]]
  /\ UNCHANGED <<byId, started>>

BeginStart(o, c) ==
  /\ obs[o].at = "idle"
  /\ applyMu = None
  /\ ~Duplicate(c)
  /\ applyMu' = o
  /\ obs' = [obs EXCEPT ![o] = [Rest EXCEPT !.at = "checked", !.call = c]]
  /\ UNCHANGED <<byId, started>>

(* Apply: an application that has not failed is returned as it is, one    *)
(* that failed after it was started is not started again.                  *)
CheckStart(o) ==
  LET c == obs[o].call IN
  /\ obs[o].at = "checked"
  /\ obs' = [obs EXCEPT ![o] =
       IF c \in Known /\ byId[c].state # "failed" THEN [@ EXCEPT !.at = "started", !.app = byId[c]]
       ELSE [@ EXCEPT !.at = IF started[c] > 0 THEN "refused" ELSE "cleared"]]
  /\ UNCHANGED <<byId, started, applyMu>>

(* Apply: the executor starts the call and names it, and it is recorded.   *)
StartCall(o) ==
  /\ obs[o].at = "cleared"
  /\ started' = [started EXCEPT ![obs[o].call] = @ + 1]
  /\ Put(obs[o].call, NewApp)
  /\ obs' = [obs EXCEPT ![o].at = "started", ![o].app = NewApp]
  /\ UNCHANGED applyMu

(* Apply: "already started" is an error, and nothing names what is put.    *)
RefuseStart(o) ==
  /\ obs[o].at = "refused"
  /\ Put(obs[o].call, [NewApp EXCEPT !.state = "unknown", !.callId = NoId])
  /\ applyMu' = None
  /\ obs' = [obs EXCEPT ![o] = Rest]
  /\ UNCHANGED started

(* The host's id replaces another one, in the copy and in the store.       *)
NameCall(o) ==
  LET c == obs[o].call
      app == [obs[o].app EXCEPT !.callId = c]
  IN
  /\ obs[o].at = "started"
  /\ IF app = obs[o].app THEN UNCHANGED byId ELSE Put(c, app)
  /\ obs' = [obs EXCEPT ![o].at = "named", ![o].app = app]
  /\ UNCHANGED <<started, applyMu>>

(* stampApp: a copy without its host gets it and is put once more.         *)
StampApp(o) ==
  /\ obs[o].at = "named"
  /\ IF obs[o].app.host THEN UNCHANGED byId
     ELSE Put(obs[o].call, [obs[o].app EXCEPT !.host = TRUE])
  /\ applyMu' = None
  /\ obs' = [obs EXCEPT ![o] = Rest]
  /\ UNCHANGED started

-----------------------------------------------------------------------------
(* ObserveHostCall and ObserveResult                                       *)

(* Slip: the only call pending is preferred to the call with the id.       *)
OwnersSoleFirst(id) ==
  IF Cardinality(StartedCalls) = 1 \/ id = NoId THEN StartedCalls
  ELSE {c \in Known : byId[c].callId = id}

(* The calls a result with this id may be taken for.  Without an id it is  *)
(* whichever started call the iteration over the map meets first; with an  *)
(* id no call has, the one started call if there is just one.              *)
Owners(id) ==
  LET own == {c \in Known : id # NoId /\ byId[c].callId = id} IN
  IF own # {} THEN own
  ELSE IF id = NoId \/ Cardinality(StartedCalls) = 1 THEN StartedCalls ELSE {}

FindCall(o, id, text) ==
  /\ obs[o].at = "idle"
  /\ id # NoId => text = id
  /\ \E c \in Owners(id) :
       obs' = [obs EXCEPT ![o] =
         [at |-> "found", given |-> id, call |-> c, callId |-> byId[c].callId,
          text |-> text, app |-> None]]
  /\ UNCHANGED <<byId, started, applyMu>>

(* Slip: the exit code is not looked at.                                   *)
ObservedWithoutExit(c, app, callId, text) ==
  IF app.callId \notin {callId, NoId} THEN [app EXCEPT !.state = "failed"]
  ELSE [app EXCEPT !.result = text, !.state = "result_received"]

(* What ObserveResult makes of the application: the exit code passed to it *)
(* is always 0, so only the text of a Codex subagent can tell a failure.   *)
Observed(c, app, callId, text) ==
  IF app.callId \notin {callId, NoId} THEN [app EXCEPT !.state = "failed"]
  ELSE [app EXCEPT !.result = text,
                   !.state = IF c \in Spawn /\ app.host /\ text \in Spawn
                             THEN "failed" ELSE "verified"]

GetApp(o) ==
  /\ obs[o].at = "found"
  /\ obs' = [obs EXCEPT ![o].at = "got",
       ![o].app = Observed(obs[o].call, byId[obs[o].call], obs[o].callId, obs[o].text)]
  /\ UNCHANGED <<byId, started, applyMu>>

PutResult(o) ==
  /\ obs[o].at = "got"
  /\ Put(obs[o].call, obs[o].app)
  /\ obs' = [obs EXCEPT ![o] = Rest]
  /\ UNCHANGED <<started, applyMu>>

-----------------------------------------------------------------------------
(* The next step of what a goroutine has begun.                            *)
Continue(o) ==
  \/ CheckStart(o)
  \/ StartCall(o)
  \/ RefuseStart(o)
  \/ NameCall(o)
  \/ StampApp(o)
  \/ GetApp(o)
  \/ PutResult(o)

Next ==
  \/ \E o \in Obs, c \in Call : BeginStart(o, c)
  \/ \E o \in Obs, id \in Text : FindCall(o, id, id)
  \/ \E o \in Obs, t \in Call : FindCall(o, NoId, t)
  \/ \E o \in Obs : Continue(o)

Spec == Init /\ [][Next]_vars

(* No step waits for anything but applyMu.  A Devin host sends its history *)
(* again with every request, so its calls and their results are observed   *)
(* over and over.                                                          *)
Fairness ==
  /\ \A o \in Obs : WF_vars(Continue(o))
  /\ \A c \in Call : SF_vars(\E o \in Obs : BeginStart(o, c))
  /\ \A c \in Call : SF_vars(\E o \in Obs : FindCall(o, c, c))

FairSpec == Spec /\ Fairness

(* No result is looked at while its call is put in the store, named and    *)
(* stamped; otherwise observers overlap as before.                         *)
StampedFirst ==
  \A o, p \in Obs : obs[o].at = "found" /\ obs[p].at \in {"started", "named"}
                     => obs[o].call # obs[p].call

StampedSpec == Init /\ [][Next /\ StampedFirst']_vars

-----------------------------------------------------------------------------
(* Properties                                                              *)

(* Every variable has its type.                                            *)
TypeOK ==
  /\ byId \in [Call -> App \cup {None}]
  /\ started \in [Call -> Nat]
  /\ applyMu \in Obs \cup {None}
  /\ obs \in [Obs -> Work]

(* The executor is told to start a call once, however many responses and   *)
(* stream events show it and whatever has become of it since: the check of *)
(* the count and its increment are apart, and applyMu holds them together. *)
StartedOnce == \A c \in Call : started[c] <= 1

(* A result whose id belongs to a recorded call is not taken for the       *)
(* result of another one, even if that one is the only call pending.       *)
OwnIdFirst ==
  [][\A o \in Obs, c \in Known :
       obs[o].at = "idle" /\ obs'[o].at = "found" /\ obs'[o].given \in {byId[c].callId} \ {NoId}
         => obs'[o].call = c]_vars

(* A stale copy put back, a result taken for another call's or refused     *)
(* because the id changed underneath is never the last word: once          *)
(* observations no longer overlap, every recorded call ends with its own   *)
(* output, as its history is observed again.                               *)
OneAtATime == \A o, p \in Obs : o = p \/ obs[o].at = "idle" \/ obs[p].at = "idle"

OwnResultWins == <>[]OneAtATime => <>[](\A c \in Known : byId[c].result = c)

(* "Codex subagent failure must not be verified" (application_test.go):    *)
(* a subagent call whose own output reports the failed spawn.  It holds of *)
(* StampedSpec.                                                            *)
SpawnFailureNotVerified ==
  \A c \in Spawn \cap Known : byId[c].result = c => byId[c].state # "verified"

(* "AppStore accepts it only when exactly one call is pending" (comment of *)
(* observeProtoExecLeaves): a result that comes without an id.             *)
LegacyNeedsOnePending ==
  [][\A o \in Obs : obs[o].at = "idle" /\ obs'[o].at = "found" /\ obs'[o].given = NoId
       => Cardinality(StartedCalls) = 1]_vars

=============================================================================
