------------------------ MODULE Applications_proofs ------------------------
(***************************************************************************)
(* Proofs about Applications, for every set of calls and of observers.     *)
(* That a call is started once rests on two facts: a goroutine between     *)
(* BeginStart and its last put is the holder of applyMu, so there is at    *)
(* most one, and one that found the count at zero finds it so until it     *)
(* starts the call.  That a result goes to its own call rests on no        *)
(* application ever carrying the id of another call, in the store or in a  *)
(* copy that is still to be put.                                           *)
(***************************************************************************)
EXTENDS Applications, TLAPS

(* What a goroutine does under applyMu.                                    *)
Starting == {"checked", "cleared", "refused", "started", "named"}

(* Only the holder of applyMu is starting a call.                          *)
StarterHoldsLock == \A o \in Obs : obs[o].at \in Starting <=> applyMu = o

(* What the check of the count saw is still so when the call is started.   *)
ClearedNotStarted == \A o \in Obs : obs[o].at = "cleared" => started[obs[o].call] = 0

(* A goroutine at work has the call, the id and the copy its step needs.   *)
Equipped ==
  \A o \in Obs :
    /\ obs[o].at # "idle" => obs[o].call \in Call
    /\ obs[o].at \in {"started", "named", "got"} => obs[o].app \in App
    /\ obs[o].at = "found" => obs[o].callId # None /\ obs[o].text \in Text

(* A result is looked for in an application that was recorded, and what is *)
(* recorded is never removed.                                              *)
FoundIsKnown == \A o \in Obs : obs[o].at \in {"found", "got"} => obs[o].call \in Known

(* Whatever names an application, it is not the id of another call.        *)
IdIsOwn(c, app) == app.callId \in {c, Unnamed, NoId}

NamedByOwnId ==
  /\ \A c \in Known : IdIsOwn(c, byId[c])
  /\ \A o \in Obs : obs[o].at \in {"started", "named", "got"} => IdIsOwn(obs[o].call, obs[o].app)

IInv ==
  /\ TypeOK
  /\ StartedOnce
  /\ StarterHoldsLock
  /\ ClearedNotStarted
  /\ Equipped
  /\ FoundIsKnown
  /\ NamedByOwnId

-----------------------------------------------------------------------------
(* What a put leaves of the facts about records.                           *)
LEMMA PutKeeps ==
  ASSUME TypeOK, NEW c \in Call, NEW app \in App, Put(c, app)
  PROVE  /\ byId' \in [Call -> App \cup {None}]
         /\ Known' = Known \cup {c}
         /\ IdIsOwn(c, app) /\ (\A d \in Known : IdIsOwn(d, byId[d]))
              => \A d \in Known' : IdIsOwn(d, byId'[d])
<1>1. byId' = [byId EXCEPT ![c] = app] /\ byId \in [Call -> App \cup {None}]
  BY DEF Put, TypeOK
<1>2. app # None
  BY AppAssumption
<1>3. QED
  BY <1>1, <1>2 DEF Known, IdIsOwn

(* A goroutine that gives applyMu back leaves nothing behind.              *)
LEMMA ReleaseInv ==
  ASSUME IInv, NEW o \in Obs, obs[o].at \in Starting,
         byId' \in [Call -> App \cup {None}], Known \subseteq Known',
         \A d \in Known' : IdIsOwn(d, byId'[d]),
         obs' = [obs EXCEPT ![o] = Rest], started' = started, applyMu' = None
  PROVE  IInv'
<1> USE DEF IInv
<1>1. Rest \in Work /\ Rest.at = "idle"
  BY DEF Rest, Work
<1>2. obs \in [Obs -> Work] /\ started \in [Call -> Nat] /\ applyMu = o
  BY DEF TypeOK, StarterHoldsLock
<1>3. TypeOK'
  BY <1>1, <1>2 DEF TypeOK
<1>4. StarterHoldsLock'
  BY <1>1, <1>2, CallsAssumption DEF StarterHoldsLock, Starting
<1>5. (StartedOnce /\ ClearedNotStarted)'
  BY <1>1, <1>2 DEF StartedOnce, ClearedNotStarted
<1>6. (Equipped /\ FoundIsKnown)'
  BY <1>1, <1>2 DEF Equipped, FoundIsKnown
<1>7. NamedByOwnId'
  BY <1>1, <1>2 DEF NamedByOwnId, IdIsOwn
<1>8. QED
  BY <1>3, <1>4, <1>5, <1>6, <1>7

(* Init establishes the invariant.                                         *)
LEMMA InitInv == Init => IInv
<1> SUFFICES ASSUME Init PROVE IInv
  OBVIOUS
<1>1. Rest \in Work
  BY DEF Rest, Work
<1>2. \A o \in Obs : obs[o].at = "idle"
  BY DEF Init, Rest
<1>3. TypeOK
  BY <1>1 DEF Init, TypeOK
<1>4. StarterHoldsLock
  BY <1>2, CallsAssumption DEF Init, StarterHoldsLock, Starting
<1>5. QED
  BY <1>2, <1>3, <1>4
  DEF Init, IInv, StartedOnce, ClearedNotStarted, Equipped, FoundIsKnown, NamedByOwnId, Known

(* Every step preserves the invariant.                                     *)
LEMMA StepInv == IInv /\ [Next]_vars => IInv'
<1> SUFFICES ASSUME IInv, [Next]_vars PROVE IInv'
  OBVIOUS
<1> USE DEF IInv
<1>t. /\ byId \in [Call -> App \cup {None}]
      /\ started \in [Call -> Nat]
      /\ applyMu \in Obs \cup {None}
      /\ obs \in [Obs -> Work]
  BY DEF TypeOK
<1>r. Rest \in Work /\ Rest.at = "idle"
  BY DEF Rest, Work
<1>1. ASSUME NEW o \in Obs, NEW c \in Call, BeginStart(o, c)
      PROVE  IInv'
  <2>1. [Rest EXCEPT !.at = "checked", !.call = c] \in Work
    BY DEF Rest, Work
  <2>2. TypeOK'
    BY <1>1, <1>t, <2>1 DEF BeginStart, TypeOK
  <2>3. StarterHoldsLock'
    BY <1>1, <1>t, CallsAssumption DEF BeginStart, StarterHoldsLock, Starting, Rest
  <2>4. (StartedOnce /\ ClearedNotStarted)'
    BY <1>1, <1>t DEF BeginStart, StartedOnce, ClearedNotStarted, Rest
  <2>5. (Equipped /\ FoundIsKnown)'
    BY <1>1, <1>t DEF BeginStart, Equipped, FoundIsKnown, Known, Rest
  <2>6. NamedByOwnId'
    BY <1>1, <1>t DEF BeginStart, NamedByOwnId, IdIsOwn, Known, Rest
  <2>7. QED
    BY <2>2, <2>3, <2>4, <2>5, <2>6
<1>2. ASSUME NEW o \in Obs, NEW id \in Text \cup {NoId}, NEW t \in Text, FindCall(o, id, t)
      PROVE  IInv'
  <2>1. PICK c \in Owners(id) :
          obs' = [obs EXCEPT ![o] =
            [at |-> "found", given |-> id, call |-> c, callId |-> byId[c].callId,
             text |-> t, app |-> None]]
    BY <1>2 DEF FindCall
  <2>2. c \in Known /\ c \in Call /\ byId[c] \in App
    BY <1>t, <2>1 DEF Owners, Known, StartedCalls
  <2>3. byId[c].callId \in Call \cup {Unnamed, NoId}
    BY <2>2 DEF App
  <2>4. byId[c].callId # None
    BY <2>3, CallsAssumption
  <2>5. [at |-> "found", given |-> id, call |-> c, callId |-> byId[c].callId,
         text |-> t, app |-> None] \in Work
    BY <2>2, <2>3 DEF Work
  <2>6. TypeOK'
    BY <1>2, <1>t, <2>1, <2>5 DEF FindCall, TypeOK
  <2>7. StarterHoldsLock'
    BY <1>2, <1>t, <2>1 DEF FindCall, StarterHoldsLock, Starting
  <2>8. (StartedOnce /\ ClearedNotStarted)'
    BY <1>2, <1>t, <2>1 DEF FindCall, StartedOnce, ClearedNotStarted
  <2>9. (Equipped /\ FoundIsKnown)'
    BY <1>2, <1>t, <2>1, <2>2, <2>4 DEF FindCall, Equipped, FoundIsKnown, Known
  <2>10. NamedByOwnId'
    BY <1>2, <1>t, <2>1 DEF FindCall, NamedByOwnId, IdIsOwn, Known
  <2>11. QED
    BY <2>6, <2>7, <2>8, <2>9, <2>10
<1>3. ASSUME NEW o \in Obs, CheckStart(o)
      PROVE  IInv'
  <2>1. obs[o] \in Work /\ obs[o].at = "checked" /\ obs[o].call \in Call
    BY <1>3, <1>t DEF CheckStart, Equipped
  <2>2. CASE obs[o].call \in Known /\ byId[obs[o].call].state # "failed"
    <3>1. obs' = [obs EXCEPT ![o] = [@ EXCEPT !.at = "started", !.app = byId[obs[o].call]]]
      BY <1>3, <2>2 DEF CheckStart
    <3>2. byId[obs[o].call] \in App
      BY <1>t, <2>1, <2>2 DEF Known
    <3>3. [obs[o] EXCEPT !.at = "started", !.app = byId[obs[o].call]] \in Work
      BY <2>1, <3>2 DEF Work
    <3>4. TypeOK'
      BY <1>3, <1>t, <3>1, <3>3 DEF CheckStart, TypeOK
    <3>5. StarterHoldsLock'
      BY <1>3, <1>t, <2>1, <3>1 DEF CheckStart, StarterHoldsLock, Starting, Work
    <3>6. (StartedOnce /\ ClearedNotStarted)'
      BY <1>3, <1>t, <2>1, <3>1 DEF CheckStart, StartedOnce, ClearedNotStarted, Work
    <3>7. (Equipped /\ FoundIsKnown)'
      BY <1>3, <1>t, <2>1, <3>1, <3>2 DEF CheckStart, Equipped, FoundIsKnown, Known, Work
    <3>8. NamedByOwnId'
      BY <1>3, <1>t, <2>1, <2>2, <3>1, <3>2 DEF CheckStart, NamedByOwnId, IdIsOwn, Known, Work
    <3>9. QED
      BY <3>4, <3>5, <3>6, <3>7, <3>8
  <2>3. CASE ~(obs[o].call \in Known /\ byId[obs[o].call].state # "failed")
    <3> DEFINE place == IF started[obs[o].call] > 0 THEN "refused" ELSE "cleared"
    <3>1. obs' = [obs EXCEPT ![o] = [@ EXCEPT !.at = place]]
      BY <1>3, <2>3 DEF CheckStart
    <3>2. /\ place \in {"refused", "cleared"}
          /\ place = "cleared" => started[obs[o].call] = 0
      BY <1>t, <2>1
    <3> HIDE DEF place
    <3>3. [obs[o] EXCEPT !.at = place] \in Work
      BY <2>1, <3>2 DEF Work
    <3>4. TypeOK'
      BY <1>3, <1>t, <3>1, <3>3 DEF CheckStart, TypeOK
    <3>5. StarterHoldsLock'
      BY <1>3, <1>t, <2>1, <3>1, <3>2 DEF CheckStart, StarterHoldsLock, Starting, Work
    <3>6. (StartedOnce /\ ClearedNotStarted)'
      BY <1>3, <1>t, <2>1, <3>1, <3>2 DEF CheckStart, StartedOnce, ClearedNotStarted, Work
    <3>7. (Equipped /\ FoundIsKnown)'
      BY <1>3, <1>t, <2>1, <3>1, <3>2 DEF CheckStart, Equipped, FoundIsKnown, Known, Work
    <3>8. NamedByOwnId'
      BY <1>3, <1>t, <2>1, <3>1, <3>2 DEF CheckStart, NamedByOwnId, IdIsOwn, Known, Work
    <3>9. QED
      BY <3>4, <3>5, <3>6, <3>7, <3>8
  <2>4. QED
    BY <2>2, <2>3
<1>4. ASSUME NEW o \in Obs, StartCall(o)
      PROVE  IInv'
  <2> DEFINE c == obs[o].call
  <2>1. obs[o] \in Work /\ obs[o].at = "cleared" /\ c \in Call /\ started[c] = 0
    BY <1>4, <1>t DEF StartCall, Equipped, ClearedNotStarted
  <2>2. NewApp \in App
    BY DEF NewApp, App, States
  <2>3. [obs[o] EXCEPT !.at = "started", !.app = NewApp] \in Work
    BY <2>1, <2>2 DEF Work
  <2>4. /\ started' = [started EXCEPT ![c] = @ + 1]
        /\ Put(c, NewApp)
        /\ obs' = [obs EXCEPT ![o] = [obs[o] EXCEPT !.at = "started", !.app = NewApp]]
        /\ applyMu' = applyMu
    BY <1>4, <1>t, <2>1 DEF StartCall, Work
  <2>5. byId' \in [Call -> App \cup {None}] /\ Known' = Known \cup {c}
    BY <2>1, <2>2, <2>4, PutKeeps
  <2>6. TypeOK'
    <3>1. started' \in [Call -> Nat]
      BY <1>t, <2>1, <2>4
    <3>2. obs' \in [Obs -> Work]
      BY <1>t, <2>3, <2>4
    <3>3. QED
      BY <1>t, <2>4, <2>5, <3>1, <3>2 DEF TypeOK
  <2>7. StarterHoldsLock'
    BY <1>t, <2>1, <2>4 DEF StarterHoldsLock, Starting, Work
  <2>8. \A p \in Obs : obs[p].at = "cleared" => p = o
    BY <2>1 DEF StarterHoldsLock, Starting
  <2>9. (StartedOnce /\ ClearedNotStarted)'
    BY <1>t, <2>1, <2>4, <2>8 DEF StartedOnce, ClearedNotStarted, Work
  <2>10. (Equipped /\ FoundIsKnown)'
    BY <1>t, <2>1, <2>2, <2>4, <2>5 DEF Equipped, FoundIsKnown, Work
  <2>11. IdIsOwn(c, NewApp)
    BY DEF IdIsOwn, NewApp
  <2>12. NamedByOwnId'
    <3>1. \A d \in Known' : IdIsOwn(d, byId'[d])
      BY <2>1, <2>2, <2>4, <2>11, PutKeeps DEF NamedByOwnId
    <3>2. QED
      BY <1>t, <2>1, <2>4, <2>11, <3>1 DEF NamedByOwnId, IdIsOwn, Work
  <2>13. QED
    BY <2>6, <2>7, <2>9, <2>10, <2>12
<1>5. ASSUME NEW o \in Obs, RefuseStart(o)
      PROVE  IInv'
  <2> DEFINE app == [NewApp EXCEPT !.state = "unknown", !.callId = NoId]
  <2>1. obs[o] \in Work /\ obs[o].at = "refused" /\ obs[o].call \in Call
    BY <1>5, <1>t DEF RefuseStart, Equipped
  <2>2. app \in App /\ IdIsOwn(obs[o].call, app)
    BY DEF NewApp, App, States, IdIsOwn
  <2>3. Put(obs[o].call, app)
    BY <1>5 DEF RefuseStart
  <2> HIDE DEF app
  <2>4. /\ byId' \in [Call -> App \cup {None}] /\ Known' = Known \cup {obs[o].call}
        /\ \A d \in Known' : IdIsOwn(d, byId'[d])
    BY <2>1, <2>2, <2>3, PutKeeps DEF NamedByOwnId
  <2>5. obs' = [obs EXCEPT ![o] = Rest] /\ started' = started /\ applyMu' = None
    BY <1>5 DEF RefuseStart
  <2>6. obs[o].at \in Starting /\ Known \subseteq Known'
    BY <2>1, <2>4 DEF Starting
  <2>7. QED
    BY <2>4, <2>5, <2>6, ReleaseInv
<1>6. ASSUME NEW o \in Obs, NameCall(o)
      PROVE  IInv'
  <2> DEFINE c == obs[o].call
             app == [obs[o].app EXCEPT !.callId = c]
  <2>1. obs[o] \in Work /\ obs[o].at = "started" /\ c \in Call /\ obs[o].app \in App
    BY <1>6, <1>t DEF NameCall, Equipped
  <2>2. app \in App /\ IdIsOwn(c, app)
    BY <2>1 DEF App, IdIsOwn
  <2>3. /\ UNCHANGED byId \/ Put(c, app)
        /\ obs' = [obs EXCEPT ![o] = [obs[o] EXCEPT !.at = "named", !.app = app]]
        /\ started' = started /\ applyMu' = applyMu
    BY <1>6, <1>t, <2>1 DEF NameCall, Work
  <2> HIDE DEF app
  <2>4. /\ byId' \in [Call -> App \cup {None}] /\ Known \subseteq Known'
        /\ \A d \in Known' : IdIsOwn(d, byId'[d])
    <3>1. CASE UNCHANGED byId
      BY <1>t, <3>1 DEF Known, NamedByOwnId
    <3>2. CASE Put(c, app)
      BY <2>1, <2>2, <3>2, PutKeeps DEF NamedByOwnId
    <3>3. QED
      BY <2>3, <3>1, <3>2
  <2>5. [obs[o] EXCEPT !.at = "named", !.app = app] \in Work
    BY <2>1, <2>2 DEF Work
  <2>6. TypeOK'
    BY <1>t, <2>3, <2>4, <2>5 DEF TypeOK
  <2>7. StarterHoldsLock'
    BY <1>t, <2>1, <2>3 DEF StarterHoldsLock, Starting, Work
  <2>8. (StartedOnce /\ ClearedNotStarted)'
    BY <1>t, <2>1, <2>3 DEF StartedOnce, ClearedNotStarted, Work
  <2>9. (Equipped /\ FoundIsKnown)'
    BY <1>t, <2>1, <2>2, <2>3, <2>4 DEF Equipped, FoundIsKnown, Work
  <2>10. NamedByOwnId'
    BY <1>t, <2>1, <2>2, <2>3, <2>4 DEF NamedByOwnId, IdIsOwn, Work
  <2>11. QED
    BY <2>6, <2>7, <2>8, <2>9, <2>10
<1>7. ASSUME NEW o \in Obs, StampApp(o)
      PROVE  IInv'
  <2> DEFINE app == [obs[o].app EXCEPT !.host = TRUE]
  <2>1. /\ obs[o] \in Work /\ obs[o].at = "named"
        /\ obs[o].call \in Call /\ obs[o].app \in App
    BY <1>7, <1>t DEF StampApp, Equipped
  <2>2. app \in App /\ IdIsOwn(obs[o].call, app)
    BY <2>1 DEF App, NamedByOwnId, IdIsOwn
  <2>3. UNCHANGED byId \/ Put(obs[o].call, app)
    BY <1>7 DEF StampApp
  <2> HIDE DEF app
  <2>4. /\ byId' \in [Call -> App \cup {None}] /\ Known \subseteq Known'
        /\ \A d \in Known' : IdIsOwn(d, byId'[d])
    <3>1. CASE UNCHANGED byId
      BY <1>t, <3>1 DEF Known, NamedByOwnId
    <3>2. CASE Put(obs[o].call, app)
      BY <2>1, <2>2, <3>2, PutKeeps DEF NamedByOwnId
    <3>3. QED
      BY <2>3, <3>1, <3>2
  <2>5. obs' = [obs EXCEPT ![o] = Rest] /\ started' = started /\ applyMu' = None
    BY <1>7 DEF StampApp
  <2>6. obs[o].at \in Starting /\ Known \subseteq Known'
    BY <2>1, <2>4 DEF Starting
  <2>7. QED
    BY <2>4, <2>5, <2>6, ReleaseInv
<1>8. ASSUME NEW o \in Obs, GetApp(o)
      PROVE  IInv'
  <2> DEFINE app == Observed(obs[o].call, byId[obs[o].call], obs[o].callId, obs[o].text)
  <2>1. /\ obs[o] \in Work /\ obs[o].at = "found" /\ obs[o].call \in Known
        /\ obs[o].callId # None /\ obs[o].text \in Text
    BY <1>8, <1>t DEF GetApp, Equipped, FoundIsKnown
  <2>2. byId[obs[o].call] \in App /\ obs[o].call \in Call
    BY <1>t, <2>1 DEF Known
  <2>3. app \in App /\ IdIsOwn(obs[o].call, app)
    <3>1. app \in App
      BY <2>1, <2>2 DEF Observed, App, States
    <3>2. app.callId = byId[obs[o].call].callId
      BY <2>1, <2>2 DEF Observed, App
    <3>3. QED
      BY <2>1, <3>1, <3>2 DEF NamedByOwnId, IdIsOwn
  <2>4. /\ obs' = [obs EXCEPT ![o] = [obs[o] EXCEPT !.at = "got", !.app = app]]
        /\ byId' = byId /\ started' = started /\ applyMu' = applyMu
    BY <1>8, <1>t, <2>1 DEF GetApp, Work
  <2> HIDE DEF app
  <2>5. [obs[o] EXCEPT !.at = "got", !.app = app] \in Work
    BY <2>1, <2>3 DEF Work
  <2>6. TypeOK'
    BY <1>t, <2>4, <2>5 DEF TypeOK
  <2>7. StarterHoldsLock'
    BY <1>t, <2>1, <2>4 DEF StarterHoldsLock, Starting, Work
  <2>8. (StartedOnce /\ ClearedNotStarted)'
    BY <1>t, <2>1, <2>4 DEF StartedOnce, ClearedNotStarted, Work
  <2>9. (Equipped /\ FoundIsKnown)'
    BY <1>t, <2>1, <2>2, <2>3, <2>4 DEF Equipped, FoundIsKnown, Known, Work
  <2>10. NamedByOwnId'
    BY <1>t, <2>1, <2>3, <2>4 DEF NamedByOwnId, IdIsOwn, Known, Work
  <2>11. QED
    BY <2>6, <2>7, <2>8, <2>9, <2>10
<1>9. ASSUME NEW o \in Obs, PutResult(o)
      PROVE  IInv'
  <2>1. /\ obs[o] \in Work /\ obs[o].at = "got"
        /\ obs[o].call \in Call /\ obs[o].app \in App
    BY <1>9, <1>t DEF PutResult, Equipped
  <2>2. /\ Put(obs[o].call, obs[o].app)
        /\ obs' = [obs EXCEPT ![o] = Rest] /\ started' = started /\ applyMu' = applyMu
    BY <1>9 DEF PutResult
  <2>3. /\ byId' \in [Call -> App \cup {None}] /\ Known' = Known \cup {obs[o].call}
        /\ \A d \in Known' : IdIsOwn(d, byId'[d])
    BY <2>1, <2>2, PutKeeps DEF NamedByOwnId
  <2>4. TypeOK'
    BY <1>t, <1>r, <2>2, <2>3 DEF TypeOK
  <2>5. StarterHoldsLock'
    BY <1>t, <1>r, <2>1, <2>2 DEF StarterHoldsLock, Starting
  <2>6. (StartedOnce /\ ClearedNotStarted)'
    BY <1>t, <1>r, <2>2 DEF StartedOnce, ClearedNotStarted
  <2>7. (Equipped /\ FoundIsKnown)'
    BY <1>t, <1>r, <2>2, <2>3 DEF Equipped, FoundIsKnown
  <2>8. NamedByOwnId'
    BY <1>t, <1>r, <2>2, <2>3 DEF NamedByOwnId
  <2>9. QED
    BY <2>4, <2>5, <2>6, <2>7, <2>8
<1>10. ASSUME UNCHANGED vars
       PROVE  IInv'
  BY <1>10 DEF vars, TypeOK, StartedOnce, StarterHoldsLock, ClearedNotStarted, Equipped,
               FoundIsKnown, NamedByOwnId, IdIsOwn, Known
<1>11. NoId \notin Text /\ Call \subseteq Text
  BY CallsAssumption DEF Text
<1>12. QED
  BY <1>1, <1>2, <1>3, <1>4, <1>5, <1>6, <1>7, <1>8, <1>9, <1>10, <1>11 DEF Next, Continue

-----------------------------------------------------------------------------
(* In every reachable state the invariant holds.                           *)
THEOREM Invariant == Spec => []IInv
<1>1. Init => IInv
  BY InitInv
<1>2. IInv /\ [Next]_vars => IInv'
  BY StepInv
<1>3. QED
  BY <1>1, <1>2, PTL DEF Spec

(* The store and the goroutines at work keep their types (application.go). *)
THEOREM Types == Spec => []TypeOK
<1>1. IInv => TypeOK
  BY DEF IInv
<1>2. QED
  BY <1>1, Invariant, PTL

(* The executor is told to start a call at most once, for any number of    *)
(* goroutines that see it in responses and stream events (startObservedCall*)
(* and Apply under applyMu).                                               *)
THEOREM CallStartedOnce == Spec => []StartedOnce
<1>1. IInv => StartedOnce
  BY DEF IInv
<1>2. QED
  BY <1>1, Invariant, PTL

(* A result goes to the call with its id if there is one, whichever call   *)
(* is pending (ObserveHostCall).                                           *)
THEOREM ResultFindsOwnCall == Spec => OwnIdFirst
<1> DEFINE OwnFirst == \A o \in Obs, c \in Known :
             obs[o].at = "idle" /\ obs'[o].at = "found"
               /\ obs'[o].given \in {byId[c].callId} \ {NoId} => obs'[o].call = c
<1>1. ASSUME IInv, Next PROVE OwnFirst
  <2> SUFFICES ASSUME NEW o \in Obs, NEW c \in Known,
                      obs[o].at = "idle", obs'[o].at = "found",
                      obs'[o].given \in {byId[c].callId} \ {NoId}
               PROVE  obs'[o].call = c
    OBVIOUS
  <2>t. obs \in [Obs -> Work]
    BY <1>1 DEF IInv, TypeOK
  <2>1. ASSUME NEW p \in Obs, NEW d \in Call, BeginStart(p, d) PROVE FALSE
    BY <2>1, <2>t DEF BeginStart, Rest
  <2>2. ASSUME NEW p \in Obs, Continue(p) PROVE FALSE
    <3>1. p # o => obs'[o] = obs[o]
      BY <2>2, <2>t
      DEF Continue, CheckStart, StartCall, RefuseStart, NameCall, StampApp, GetApp, PutResult
    <3>2. obs[p].at # "idle"
      BY <2>2
      DEF Continue, CheckStart, StartCall, RefuseStart, NameCall, StampApp, GetApp, PutResult
    <3>3. QED
      BY <3>1, <3>2
  <2>3. ASSUME NEW p \in Obs, NEW id \in Text \cup {NoId}, NEW t \in Text, FindCall(p, id, t)
        PROVE  obs'[o].call = c
    <3>1. PICK d \in Owners(id) :
            obs' = [obs EXCEPT ![p] =
              [at |-> "found", given |-> id, call |-> d, callId |-> byId[d].callId,
               text |-> t, app |-> None]]
      BY <2>3 DEF FindCall
    <3>2. p = o /\ obs'[o].given = id /\ obs'[o].call = d
      BY <3>1, <2>t
    <3>3. id \notin {NoId, Unnamed} /\ byId[c].callId = id
      BY <3>2, CallsAssumption DEF Text
    <3>4. byId[d].callId = id /\ d \in Known
      BY <3>3 DEF Owners
    <3>5. d = c
      BY <1>1, <3>3, <3>4 DEF IInv, NamedByOwnId, IdIsOwn
    <3>6. QED
      BY <3>2, <3>5
  <2>4. Call \subseteq Text
    BY DEF Text
  <2>5. QED
    BY <1>1, <2>1, <2>2, <2>3, <2>4 DEF Next
<1>2. IInv /\ [Next]_vars => [OwnFirst]_vars
  BY <1>1
<1>3. QED
  BY <1>2, Invariant, PTL DEF Spec, OwnIdFirst

-----------------------------------------------------------------------------
(* Results while no call is observed before it is stamped                  *)

(* Its call is in the store, not yet named or not yet stamped.             *)
InStore(o) == obs[o].at \in {"started", "named"}

(* What a stamped application says of a failed spawn.                      *)
Truthful(c, app) ==
  /\ app.host /\ app.callId = c
  /\ c \in Spawn /\ app.result = c => app.state # "verified"

(* A call that a goroutine is going to start was never started.            *)
NewToStart ==
  \A o \in Obs : /\ obs[o].at # "refused"
                 /\ obs[o].at \in {"checked", "cleared"} => obs[o].call \notin Known

StartedKnown == \A c \in Call : started[c] > 0 => c \in Known

(* Until its call is stamped the goroutine's copy is what the store has.   *)
CopyIsStored ==
  \A o \in Obs : InStore(o) =>
    /\ byId[obs[o].call] = obs[o].app
    /\ obs[o].at = "started" => obs[o].app = NewApp
    /\ obs[o].at = "named" => obs[o].app = [NewApp EXCEPT !.callId = obs[o].call]

(* All other applications are stamped, and so are the copies with results. *)
StoreTruthful ==
  \A c \in Known : Truthful(c, byId[c]) \/ \E o \in Obs : InStore(o) /\ obs[o].call = c

CopiesTruthful ==
  \A o \in Obs :
    /\ obs[o].at = "found" => obs[o].callId = obs[o].call
    /\ obs[o].at = "got" =>
         /\ Truthful(obs[o].call, obs[o].app)
         /\ \A p \in Obs : InStore(p) => obs[p].call # obs[o].call

StampedFacts ==
  NewToStart /\ StartedKnown /\ CopyIsStored /\ StoreTruthful /\ CopiesTruthful

SInv == IInv /\ StampedFirst /\ StampedFacts

LEMMA StampedInit == Init => StampedFirst /\ StampedFacts
BY DEF Init, Rest, StampedFirst, StampedFacts, NewToStart, StartedKnown, CopyIsStored,
       StoreTruthful, CopiesTruthful, InStore, Known

(* One goroutine at a time has a call in the store that is not stamped.    *)
LEMMA OneInStore ==
  ASSUME IInv, NEW o \in Obs, NEW p \in Obs, obs[o].at \in Starting, obs[p].at \in Starting
  PROVE  o = p
BY DEF IInv, StarterHoldsLock

LEMMA StampedStep ==
  ASSUME SInv, [Next]_vars, StampedFirst'
  PROVE  StampedFacts'
<1> USE DEF SInv, StampedFacts
<1>t. /\ byId \in [Call -> App \cup {None}] /\ started \in [Call -> Nat]
      /\ obs \in [Obs -> Work]
  BY DEF IInv, TypeOK
<1>r. Rest.at = "idle"
  BY DEF Rest
<1>n. NewApp \in App /\ NewApp # None /\ NewApp.host = FALSE /\ NewApp.callId = Unnamed
      /\ NewApp.result = None /\ NewApp.state = "started"
  <2>1. NewApp \in App
    BY DEF NewApp, App, States
  <2>2. NewApp # None
    BY <2>1, AppAssumption
  <2>3. QED
    BY <2>1, <2>2 DEF NewApp
<1>e. /\ \A o \in Obs : obs[o].at # "idle" => obs[o].call \in Call
      /\ \A o \in Obs : obs[o].at \in {"found", "got"} => obs[o].call \in Known
  BY DEF IInv, Equipped, FoundIsKnown
<1>1. ASSUME NEW o \in Obs, NEW c \in Call, BeginStart(o, c)
      PROVE  StampedFacts'
  <2>1. /\ obs' = [obs EXCEPT ![o] = [Rest EXCEPT !.at = "checked", !.call = c]]
        /\ byId' = byId /\ started' = started /\ obs[o].at = "idle" /\ applyMu = None
    BY <1>1 DEF BeginStart
  <2>2. \A p \in Obs : obs[p].at \notin Starting
    BY <2>1, CallsAssumption DEF IInv, StarterHoldsLock
  <2>3. \A p \in Obs : ~InStore(p)
    BY <2>2 DEF InStore, Starting
  <2>4. c \notin Known
    BY <1>1, <2>3 DEF BeginStart, Duplicate, StoreTruthful, Truthful
  <2>5. obs'[o].at = "checked" /\ obs'[o].call = c /\ \A p \in Obs : p # o => obs'[p] = obs[p]
    BY <1>t, <2>1 DEF Rest
  <2>6. Known' = Known /\ \A p \in Obs : ~InStore(p)'
    BY <2>1, <2>3, <2>5 DEF Known, InStore
  <2>7. NewToStart' /\ StartedKnown' /\ CopyIsStored'
    BY <2>1, <2>4, <2>5, <2>6 DEF NewToStart, StartedKnown, CopyIsStored
  <2>8. StoreTruthful'
    BY <2>1, <2>3, <2>6 DEF StoreTruthful, Truthful
  <2>9. CopiesTruthful'
    BY <2>5, <2>6 DEF CopiesTruthful, Truthful
  <2>10. QED
    BY <2>7, <2>8, <2>9
<1>2. ASSUME NEW o \in Obs, NEW id \in Text \cup {NoId}, NEW t \in Text, FindCall(o, id, t)
      PROVE  StampedFacts'
  <2>1. PICK c \in Owners(id) :
          obs' = [obs EXCEPT ![o] =
            [at |-> "found", given |-> id, call |-> c, callId |-> byId[c].callId,
             text |-> t, app |-> None]]
    BY <1>2 DEF FindCall
  <2>2. c \in Known /\ byId' = byId /\ started' = started /\ obs[o].at = "idle"
    BY <1>2, <2>1 DEF FindCall, Owners, StartedCalls
  <2>3. /\ obs'[o].at = "found" /\ obs'[o].call = c /\ obs'[o].callId = byId[c].callId
        /\ \A p \in Obs : p # o => obs'[p] = obs[p]
    BY <1>t, <2>1
  <2>4. /\ Known' = Known
        /\ \A p \in Obs : /\ InStore(p)' <=> InStore(p)
                          /\ InStore(p) => obs'[p] = obs[p]
    BY <2>2, <2>3 DEF Known, InStore
  <2>5. \A p \in Obs : InStore(p) => obs[p].call # c
    BY <2>3, <2>4 DEF StampedFirst, InStore
  <2>6. byId[c].callId = c
    BY <2>2, <2>5 DEF StoreTruthful, Truthful
  <2>7. NewToStart' /\ StartedKnown' /\ CopyIsStored'
    BY <2>2, <2>3, <2>4 DEF NewToStart, StartedKnown, CopyIsStored, InStore
  <2>8. StoreTruthful'
    BY <2>2, <2>3, <2>4 DEF StoreTruthful, Truthful
  <2>9. CopiesTruthful'
    BY <2>3, <2>4, <2>6 DEF CopiesTruthful, Truthful
  <2>10. QED
    BY <2>7, <2>8, <2>9
<1>3. ASSUME NEW o \in Obs, CheckStart(o)
      PROVE  StampedFacts'
  <2>1. obs[o].call \in Call /\ obs[o].call \notin Known /\ obs[o].at = "checked"
    BY <1>3, <1>e DEF CheckStart, NewToStart
  <2>2. started[obs[o].call] = 0
    BY <1>t, <2>1 DEF StartedKnown
  <2>3. /\ obs' = [obs EXCEPT ![o] = [@ EXCEPT !.at = "cleared"]]
        /\ byId' = byId /\ started' = started
    BY <1>3, <2>1, <2>2 DEF CheckStart
  <2>4. /\ obs'[o].at = "cleared" /\ obs'[o].call = obs[o].call
        /\ \A p \in Obs : p # o => obs'[p] = obs[p]
    BY <1>t, <2>3 DEF Work
  <2>5. /\ Known' = Known
        /\ \A p \in Obs : /\ InStore(p)' <=> InStore(p)
                          /\ InStore(p) => obs'[p] = obs[p]
    BY <2>1, <2>3, <2>4 DEF Known, InStore
  <2>6. NewToStart' /\ StartedKnown' /\ CopyIsStored'
    BY <2>1, <2>3, <2>4, <2>5 DEF NewToStart, StartedKnown, CopyIsStored, InStore
  <2>7. StoreTruthful'
    BY <2>3, <2>5 DEF StoreTruthful, Truthful
  <2>8. CopiesTruthful'
    BY <2>4, <2>5 DEF CopiesTruthful, Truthful
  <2>9. QED
    BY <2>6, <2>7, <2>8
<1>4. ASSUME NEW o \in Obs, StartCall(o)
      PROVE  StampedFacts'
  <2> DEFINE c == obs[o].call
  <2>1. c \in Call /\ c \notin Known /\ obs[o].at = "cleared"
    BY <1>4, <1>e DEF StartCall, NewToStart
  <2>2. /\ started' = [started EXCEPT ![c] = @ + 1]
        /\ byId' = [byId EXCEPT ![c] = NewApp]
        /\ obs' = [obs EXCEPT ![o].at = "started", ![o].app = NewApp]
    BY <1>4 DEF StartCall, Put
  <2>3. /\ obs'[o].at = "started" /\ obs'[o].call = c /\ obs'[o].app = NewApp
        /\ \A p \in Obs : p # o => obs'[p] = obs[p]
    BY <1>t, <2>2 DEF Work
  <2>4. Known' = Known \cup {c} /\ byId'[c] = NewApp /\ \A d \in Call : d # c => byId'[d] = byId[d]
    BY <1>t, <1>n, <2>1, <2>2 DEF Known
  <2>5. \A p \in Obs : obs[p].at \in Starting => p = o
    BY <2>1, OneInStore DEF Starting
  <2>6. /\ InStore(o)'
        /\ \A p \in Obs : p # o => ~InStore(p) /\ ~InStore(p)'
    BY <2>3, <2>5 DEF InStore, Starting
  <2>7. ~InStore(o)
    BY <2>1 DEF InStore
  <2>8. NewToStart'
    BY <2>1, <2>3, <2>5 DEF NewToStart, Starting
  <2>9. StartedKnown'
    BY <1>t, <2>1, <2>2, <2>4 DEF StartedKnown
  <2>10. CopyIsStored'
    BY <2>3, <2>4, <2>6 DEF CopyIsStored
  <2>11. StoreTruthful'
    <3> SUFFICES ASSUME NEW d \in Known'
                 PROVE  Truthful(d, byId'[d]) \/ \E p \in Obs : InStore(p)' /\ obs'[p].call = d
      BY DEF StoreTruthful, Truthful
    <3>1. CASE d = c
      BY <2>3, <2>6, <3>1
    <3>2. CASE d # c
      <4>1. d \in Known /\ byId'[d] = byId[d]
        BY <2>4, <3>2 DEF Known
      <4>2. QED
        BY <2>6, <2>7, <4>1 DEF StoreTruthful
    <3>3. QED
      BY <3>1, <3>2
  <2>12. CopiesTruthful'
    <3>1. \A p \in Obs : obs[p].at = "got" => obs[p].call # c
      BY <1>e, <2>1
    <3>2. QED
      BY <2>3, <2>6, <3>1 DEF CopiesTruthful, Truthful
  <2>13. QED
    BY <2>8, <2>9, <2>10, <2>11, <2>12
<1>5. ASSUME NEW o \in Obs, RefuseStart(o)
      PROVE  FALSE
  BY <1>5 DEF RefuseStart, NewToStart
<1>6. ASSUME NEW o \in Obs, NameCall(o)
      PROVE  StampedFacts'
  <2> DEFINE c == obs[o].call
             app == [NewApp EXCEPT !.callId = c]
  <2>1. c \in Call /\ obs[o].at = "started" /\ InStore(o)
    BY <1>6, <1>e DEF NameCall, InStore
  <2>2. obs[o].app = NewApp /\ byId[c] = NewApp /\ c \in Known
    BY <1>n, <2>1 DEF CopyIsStored, Known
  <2>3. app \in App /\ app # None /\ app # NewApp
    BY <1>n, <2>1, AppAssumption, CallsAssumption DEF App, NewApp
  <2>4. /\ byId' = [byId EXCEPT ![c] = app] /\ started' = started
        /\ obs' = [obs EXCEPT ![o].at = "named", ![o].app = app]
    BY <1>6, <2>2, <2>3 DEF NameCall, Put
  <2> HIDE DEF app
  <2>5. /\ obs'[o].at = "named" /\ obs'[o].call = c /\ obs'[o].app = app
        /\ \A p \in Obs : p # o => obs'[p] = obs[p]
    BY <1>t, <2>4 DEF Work
  <2>6. Known' = Known /\ byId'[c] = app /\ \A d \in Call : d # c => byId'[d] = byId[d]
    BY <1>t, <2>1, <2>2, <2>3, <2>4 DEF Known
  <2>7. \A p \in Obs : InStore(p)' <=> InStore(p)
    BY <2>1, <2>5 DEF InStore
  <2>8. \A p \in Obs : InStore(p) => p = o
    BY <2>1, OneInStore DEF InStore, Starting
  <2>9. NewToStart' /\ StartedKnown'
    <3>1. started' = started
      BY <2>4
    <3>2. NewToStart'
      BY <2>5, <2>6 DEF NewToStart
    <3>3. StartedKnown'
      BY <2>6, <3>1 DEF StartedKnown
    <3>4. QED
      BY <3>2, <3>3
  <2>10. CopyIsStored'
    BY <2>5, <2>6, <2>7, <2>8 DEF CopyIsStored, app
  <2>11. StoreTruthful'
    <3> SUFFICES ASSUME NEW d \in Known'
                 PROVE  Truthful(d, byId'[d]) \/ \E p \in Obs : InStore(p)' /\ obs'[p].call = d
      BY DEF StoreTruthful, Truthful
    <3>1. CASE d = c
      BY <2>1, <2>5, <2>7, <3>1
    <3>2. CASE d # c
      <4>1. d \in Known /\ byId'[d] = byId[d]
        BY <2>6, <3>2 DEF Known
      <4>2. Truthful(d, byId[d])
        BY <2>8, <3>2, <4>1 DEF StoreTruthful
      <4>3. QED
        BY <4>1, <4>2
    <3>3. QED
      BY <3>1, <3>2
  <2>12. CopiesTruthful'
    BY <2>5, <2>7 DEF CopiesTruthful, Truthful
  <2>13. QED
    BY <2>9, <2>10, <2>11, <2>12
<1>7. ASSUME NEW o \in Obs, StampApp(o)
      PROVE  StampedFacts'
  <2> DEFINE c == obs[o].call
             named == [NewApp EXCEPT !.callId = c]
             app == [named EXCEPT !.host = TRUE]
  <2>1. c \in Call /\ obs[o].at = "named" /\ InStore(o)
    BY <1>7, <1>e DEF StampApp, InStore
  <2>2. obs[o].app = named /\ byId[c] = named
    BY <2>1 DEF CopyIsStored
  <2>3. named \in App /\ named.host = FALSE /\ app \in App /\ app # None
    BY <1>n, <2>1, AppAssumption DEF App, NewApp
  <2>4. Truthful(c, app)
    BY CallsAssumption, <2>1 DEF Truthful, NewApp
  <2>5. c \in Known
    BY <2>1, <2>2, <2>3, AppAssumption DEF Known
  <2>6. /\ byId' = [byId EXCEPT ![c] = app] /\ started' = started
        /\ obs' = [obs EXCEPT ![o] = Rest]
    BY <1>7, <2>2, <2>3 DEF StampApp, Put
  <2> HIDE DEF named, app
  <2>7. obs'[o].at = "idle" /\ \A p \in Obs : p # o => obs'[p] = obs[p]
    BY <1>t, <1>r, <2>6
  <2>8. Known' = Known /\ byId'[c] = app /\ \A d \in Call : d # c => byId'[d] = byId[d]
    BY <1>t, <2>1, <2>3, <2>5, <2>6 DEF Known
  <2>9. \A p \in Obs : /\ InStore(p) => p = o
                       /\ ~InStore(p)'
    BY <2>1, <2>7, OneInStore DEF InStore, Starting
  <2>10. NewToStart' /\ StartedKnown' /\ CopyIsStored'
    BY <2>6, <2>7, <2>8, <2>9 DEF NewToStart, StartedKnown, CopyIsStored
  <2>11. StoreTruthful'
    <3> SUFFICES ASSUME NEW d \in Known' PROVE Truthful(d, byId'[d])
      BY DEF StoreTruthful, Truthful
    <3>1. CASE d = c
      BY <2>4, <2>8, <3>1
    <3>2. CASE d # c
      <4>1. d \in Known /\ byId'[d] = byId[d]
        BY <2>8, <3>2 DEF Known
      <4>2. QED
        BY <2>9, <3>2, <4>1 DEF StoreTruthful
    <3>3. QED
      BY <3>1, <3>2
  <2>12. CopiesTruthful'
    BY <2>7, <2>9 DEF CopiesTruthful, Truthful
  <2>13. QED
    BY <2>10, <2>11, <2>12
<1>8. ASSUME NEW o \in Obs, GetApp(o)
      PROVE  StampedFacts'
  <2> DEFINE c == obs[o].call
             app == Observed(c, byId[c], obs[o].callId, obs[o].text)
  <2>1. c \in Known /\ c \in Call /\ byId[c] \in App /\ obs[o].at = "found" /\ obs[o].callId = c
    BY <1>8, <1>t, <1>e DEF GetApp, CopiesTruthful, Known
  <2>2. \A p \in Obs : InStore(p) => obs[p].call # c
    BY <2>1 DEF StampedFirst, InStore
  <2>3. Truthful(c, byId[c])
    BY <2>1, <2>2 DEF StoreTruthful
  <2>4. Truthful(c, app)
    BY <2>1, <2>3 DEF Truthful, Observed, App
  <2>5. /\ obs' = [obs EXCEPT ![o].at = "got", ![o].app = app]
        /\ byId' = byId /\ started' = started
    BY <1>8 DEF GetApp
  <2> HIDE DEF app
  <2>6. /\ obs'[o].at = "got" /\ obs'[o].call = c /\ obs'[o].app = app
        /\ \A p \in Obs : p # o => obs'[p] = obs[p]
    BY <1>t, <2>5 DEF Work
  <2>7. /\ Known' = Known
        /\ \A p \in Obs : /\ InStore(p)' <=> InStore(p)
                          /\ InStore(p) => obs'[p] = obs[p]
    BY <2>1, <2>5, <2>6 DEF Known, InStore
  <2>8. NewToStart' /\ StartedKnown' /\ CopyIsStored'
    <3>1. byId' = byId /\ started' = started
      BY <2>5
    <3>2. NewToStart'
      BY <2>6, <2>7 DEF NewToStart
    <3>3. StartedKnown'
      BY <2>7, <3>1 DEF StartedKnown
    <3>4. CopyIsStored'
      BY <2>7, <3>1 DEF CopyIsStored
    <3>5. QED
      BY <3>2, <3>3, <3>4
  <2>9. StoreTruthful'
    <3>1. byId' = byId
      BY <2>5
    <3>2. QED
      BY <2>7, <3>1 DEF StoreTruthful, Truthful
  <2>10. CopiesTruthful'
    <3> SUFFICES ASSUME NEW p \in Obs
                 PROVE  /\ obs'[p].at = "found" => obs'[p].callId = obs'[p].call
                        /\ obs'[p].at = "got" =>
                             /\ Truthful(obs'[p].call, obs'[p].app)
                             /\ \A q \in Obs : InStore(q)' => obs'[q].call # obs'[p].call
      BY DEF CopiesTruthful, Truthful
    <3>1. CASE p = o
      BY <2>2, <2>4, <2>6, <2>7, <3>1
    <3>2. CASE p # o
      BY <2>6, <2>7, <3>2 DEF CopiesTruthful
    <3>3. QED
      BY <3>1, <3>2
  <2>11. QED
    BY <2>8, <2>9, <2>10
<1>9. ASSUME NEW o \in Obs, PutResult(o)
      PROVE  StampedFacts'
  <2> DEFINE c == obs[o].call
             app == obs[o].app
  <2>1. c \in Known /\ c \in Call /\ app \in App /\ obs[o].at = "got" /\ Truthful(c, app)
        /\ \A p \in Obs : InStore(p) => obs[p].call # c
    BY <1>9, <1>e DEF PutResult, CopiesTruthful, IInv, Equipped
  <2>2. /\ byId' = [byId EXCEPT ![c] = app] /\ started' = started
        /\ obs' = [obs EXCEPT ![o] = Rest]
    BY <1>9 DEF PutResult, Put
  <2>3. obs'[o].at = "idle" /\ \A p \in Obs : p # o => obs'[p] = obs[p]
    BY <1>t, <1>r, <2>2
  <2>4. Known' = Known /\ byId'[c] = app /\ \A d \in Call : d # c => byId'[d] = byId[d]
    BY <1>t, <2>1, <2>2, AppAssumption DEF Known
  <2>5. \A p \in Obs : /\ InStore(p)' <=> InStore(p)
                       /\ InStore(p) => obs'[p] = obs[p] /\ obs[p].call # c /\ obs[p].call \in Call
    BY <1>e, <2>1, <2>3 DEF InStore
  <2>6. NewToStart' /\ StartedKnown'
    BY <2>2, <2>3, <2>4 DEF NewToStart, StartedKnown
  <2>7. CopyIsStored'
    BY <2>4, <2>5 DEF CopyIsStored
  <2>8. StoreTruthful'
    <3> SUFFICES ASSUME NEW d \in Known'
                 PROVE  Truthful(d, byId'[d]) \/ \E p \in Obs : InStore(p)' /\ obs'[p].call = d
      BY DEF StoreTruthful, Truthful
    <3>1. CASE d = c
      BY <2>1, <2>4, <3>1
    <3>2. CASE d # c
      <4>1. d \in Known /\ byId'[d] = byId[d]
        BY <2>4, <3>2 DEF Known
      <4>2. QED
        BY <2>5, <4>1 DEF StoreTruthful
    <3>3. QED
      BY <3>1, <3>2
  <2>9. CopiesTruthful'
    BY <2>3, <2>5 DEF CopiesTruthful, Truthful
  <2>10. QED
    BY <2>6, <2>7, <2>8, <2>9
<1>10. ASSUME UNCHANGED vars
       PROVE  StampedFacts'
  BY <1>10 DEF vars, NewToStart, StartedKnown, CopyIsStored, StoreTruthful, CopiesTruthful,
               Truthful, InStore, Known
<1>11. NoId \notin Text /\ Call \subseteq Text
  BY CallsAssumption DEF Text
<1>12. QED
  BY <1>1, <1>2, <1>3, <1>4, <1>5, <1>6, <1>7, <1>8, <1>9, <1>10, <1>11 DEF Next, Continue

(* A failed Codex subagent is not recorded as verified as long as no       *)
(* result is looked at between the moment its call is put in the store and *)
(* the moment it is stamped with its host, whatever else observers do at   *)
(* the same time (ObserveResult).                                          *)
THEOREM FailedSpawnsFail == StampedSpec => []SpawnFailureNotVerified
<1>1. Init => SInv
  BY InitInv, StampedInit DEF SInv
<1>2. SInv /\ [Next /\ StampedFirst']_vars => SInv'
  <2> SUFFICES ASSUME SInv, [Next /\ StampedFirst']_vars PROVE SInv'
    OBVIOUS
  <2>1. IInv'
    BY StepInv DEF SInv
  <2>2. StampedFirst'
    BY DEF SInv, StampedFirst, vars
  <2>3. QED
    BY <2>1, <2>2, StampedStep DEF SInv
<1>3. SInv => SpawnFailureNotVerified
  <2> SUFFICES ASSUME SInv, NEW c \in Spawn \cap Known, byId[c].result = c
               PROVE  byId[c].state # "verified"
    BY DEF SpawnFailureNotVerified
  <2>1. CASE Truthful(c, byId[c])
    BY <2>1 DEF Truthful
  <2>2. CASE \E o \in Obs : InStore(o) /\ obs[o].call = c
    <3>1. PICK o \in Obs : InStore(o) /\ obs[o].call = c
      BY <2>2
    <3>2. byId[c] \in {NewApp, [NewApp EXCEPT !.callId = c]}
      BY <3>1 DEF SInv, StampedFacts, CopyIsStored, InStore
    <3>3. byId[c].state = "started"
      BY <3>2 DEF NewApp
    <3>4. QED
      BY <3>3
  <2>3. QED
    BY <2>1, <2>2 DEF SInv, StampedFacts, StoreTruthful
<1>4. QED
  BY <1>1, <1>2, <1>3, PTL DEF StampedSpec

=============================================================================
