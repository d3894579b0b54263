----------------------------- MODULE JevClient -----------------------------
(***************************************************************************)
(* The client of the Jev service (internal/jev/jev.go): one question set   *)
(* at a time with a cache of whole answers (doAsk), and the scores of a    *)
(* compaction in parallel batches with a cache per candidate               *)
(* (AskCompactContext), as its caller retainNative uses them.  One client  *)
(* serves all requests of the gateway.                                     *)
(*                                                                         *)
(* A question set and a candidate are named; the name stands for the whole *)
(* input their cache keys are computed from (askKey, compactKey).  As that *)
(* input has the whole history in it, two histories share no candidate.    *)
(* Every candidate's questions have the same size, so a batch holds        *)
(* BatchSize.                                                              *)
(***************************************************************************)
EXTENDS Absent, Integers, Sequences, FiniteSets

CONSTANTS
  Caller,       \* request goroutines
  Asked,        \* question sets of selections and clear decisions
  Cand,         \* unpinned candidates of compactions, numbered in history order
  Compacted,    \* the candidate sets of the histories that are compacted
  Score,        \* answers of the service
  BatchSize     \* candidates whose questions fit one request beside the state

ASSUME JevClientAssumption ==
  /\ Cand \subseteq Nat /\ IsFiniteSet(Cand)
  /\ Compacted \subseteq SUBSET Cand
  /\ \A g, h \in Compacted : g # h => g \cap h = {}
  /\ BatchSize \in Nat \ {0}
  /\ Asked \cap Cand = {}
  /\ None \notin Score

VARIABLES
  askCache,     \* question set -> the answer kept for it, or None
  decided,      \* candidate -> its kept answers, or None
  given,        \* what the service answered so far: pairs of question and answer
  calling       \* caller -> its call

jevVars == <<askCache, decided, given, calling>>

Batch == [cands : SUBSET Cand, state : {"out", "failed", "answered"},
          got : [Cand -> Score \cup {None}]]

(* posts and hooks count the HTTP requests of a call and the attempts it   *)
(* reported as real ones; knew is what was decided when it began.          *)
Call == [at : {"idle", "asking", "looking", "joining", "storing", "done"},
         ask : Asked \cup {None}, todo : SUBSET Cand, uncached : SUBSET Cand,
         batches : Seq(Batch), answers : [Cand -> Score \cup {None}],
         result : {None, "answer", "cached", "error", "live", "local"},
         posts : Nat, hooks : Nat, knew : SUBSET Cand]

NoAnswers == [c \in Cand |-> None]

NoCall == [at |-> "idle", ask |-> None, todo |-> {}, uncached |-> {}, batches |-> <<>>,
           answers |-> NoAnswers, result |-> None, posts |-> 0, hooks |-> 0, knew |-> {}]

JevInit ==
  /\ askCache = [q \in Asked |-> None]
  /\ decided = NoAnswers
  /\ given = {}
  /\ calling = [a \in Caller |-> NoCall]

Decided == {c \in Cand : decided[c] # None}

Rests(a) == calling[a].at \in {"idle", "done"}

-----------------------------------------------------------------------------
(* doAsk with the cache                                                    *)

(* A cached answer is reported as an attempt too, marked as cached.        *)
Ask(a, q) ==
  /\ Rests(a)
  /\ calling' = [calling EXCEPT ![a] =
       IF askCache[q] # None
       THEN [NoCall EXCEPT !.at = "done", !.ask = q, !.result = "cached"]
       ELSE [NoCall EXCEPT !.at = "asking", !.ask = q]]
  /\ UNCHANGED <<askCache, decided, given>>

(* FitInputCopy: protected fields alone are over the budget; nothing is    *)
(* sent and nothing reported.                                              *)
OverBudget(a) ==
  /\ calling[a].at = "asking" /\ calling[a].posts = 0
  /\ calling' = [calling EXCEPT ![a].at = "done", ![a].result = "error"]
  /\ UNCHANGED <<askCache, decided, given>>

Post(a) ==
  /\ calling[a].at = "asking" /\ calling[a].posts = 0
  /\ calling' = [calling EXCEPT ![a].posts = 1]
  /\ UNCHANGED <<askCache, decided, given>>

(* No answer in time, a status of 300 or more, or a body that is not JSON. *)
AskFails(a) ==
  /\ calling[a].at = "asking" /\ calling[a].posts = 1
  /\ calling' = [calling EXCEPT ![a].at = "done", ![a].result = "error", ![a].hooks = @ + 1]
  /\ UNCHANGED <<askCache, decided, given>>

(* storeValid keeps a response with a valid answer to every question that  *)
(* is not optional; None is a response without one.                        *)
Kept(q, s) == IF s # None THEN s ELSE askCache[q]

AskAnswered(a) ==
  /\ calling[a].at = "asking" /\ calling[a].posts = 1
  /\ \E s \in Score \cup {None} :
       /\ given' = IF s # None THEN given \cup {<<calling[a].ask, s>>} ELSE given
       /\ askCache' = [askCache EXCEPT ![calling[a].ask] = Kept(calling[a].ask, s)]
  /\ calling' = [calling EXCEPT ![a].at = "done", ![a].result = "answer", ![a].hooks = @ + 1]
  /\ UNCHANGED decided

-----------------------------------------------------------------------------
(* AskCompactContext                                                       *)

AskCompact(a, h) ==
  /\ Rests(a)
  /\ calling' = [calling EXCEPT ![a] =
       [NoCall EXCEPT !.at = "looking", !.todo = h, !.knew = Decided]]
  /\ UNCHANGED <<askCache, decided, given>>

NextCand(a, c) == c \in calling[a].todo /\ \A d \in calling[a].todo : c <= d

(* The lock is held for one candidate.                                     *)
LookUp(a) ==
  /\ calling[a].at = "looking"
  /\ \E c \in Cand :
       /\ NextCand(a, c)
       /\ calling' = [calling EXCEPT ![a].todo = @ \ {c},
            ![a].uncached = IF decided[c] = None THEN @ \cup {c} ELSE @,
            ![a].answers[c] = decided[c]]
  /\ UNCHANGED <<askCache, decided, given>>

AllCached(a) ==
  /\ calling[a].at = "looking" /\ calling[a].todo = {} /\ calling[a].uncached = {}
  /\ calling' = [calling EXCEPT ![a].at = "done", ![a].result = "live"]
  /\ UNCHANGED <<askCache, decided, given>>

(* BatchCandidates: in order, a new batch where the next one does not fit. *)
BatchesOf(cands) ==
  LET before(c) == Cardinality({d \in cands : d < c})
  IN [i \in 1 .. (Cardinality(cands) + BatchSize - 1) \div BatchSize |->
        {c \in cands : before(c) \div BatchSize = i - 1}]

(* Every batch is posted by a goroutine of its own, except those that stay *)
(* over the budget.                                                        *)
SendBatches(a) ==
  LET parts == BatchesOf(calling[a].uncached) IN
  /\ calling[a].at = "looking" /\ calling[a].todo = {} /\ calling[a].uncached # {}
  /\ \E over \in SUBSET DOMAIN parts :
       calling' = [calling EXCEPT ![a].at = "joining", ![a].posts = Cardinality(DOMAIN parts \ over),
         ![a].batches = [i \in DOMAIN parts |->
           [cands |-> parts[i], state |-> IF i \in over THEN "failed" ELSE "out", got |-> NoAnswers]]]
  /\ UNCHANGED <<askCache, decided, given>>

BatchFails(a) ==
  /\ calling[a].at = "joining"
  /\ \E i \in DOMAIN calling[a].batches :
       /\ calling[a].batches[i].state = "out"
       /\ calling' = [calling EXCEPT ![a].batches[i].state = "failed", ![a].hooks = @ + 1]
  /\ UNCHANGED <<askCache, decided, given>>

(* Answers that are missing or invalid are left out.                       *)
BatchAnswered(a) ==
  /\ calling[a].at = "joining"
  /\ \E i \in DOMAIN calling[a].batches :
       LET b == calling[a].batches[i] IN
       /\ b.state = "out"
       /\ \E got \in [b.cands -> Score \cup {None}] :
            /\ given' = given \cup {<<c, got[c]>> : c \in {d \in b.cands : got[d] # None}}
            /\ calling' = [calling EXCEPT ![a].hooks = @ + 1,
                 ![a].batches[i] = [b EXCEPT !.state = "answered",
                   !.got = [c \in Cand |-> IF c \in b.cands THEN got[c] ELSE None]]]
  /\ UNCHANGED <<askCache, decided>>

Answered(call) == {i \in DOMAIN call.batches : call.batches[i].state = "answered"}

(* Slip: an error ends the call before anything is stored.                 *)
ToStoreIfAllAnswered(call) ==
  IF Answered(call) = DOMAIN call.batches THEN call.uncached ELSE {}

(* The answers of the batches that succeeded are kept, whatever the others *)
(* did.                                                                    *)
ToStore(call) == UNION {call.batches[i].cands : i \in Answered(call)}

Join(a) ==
  /\ calling[a].at = "joining"
  /\ \A i \in DOMAIN calling[a].batches : calling[a].batches[i].state # "out"
  /\ calling' = [calling EXCEPT ![a].at = "storing", ![a].todo = ToStore(calling[a])]
  /\ UNCHANGED <<askCache, decided, given>>

(* Slip: a candidate without an answer is decided as well.                 *)
StoredAnyway(c, s) == IF s = None THEN CHOOSE t \in Score : TRUE ELSE s

(* Only a candidate whose questions were all answered is decided.          *)
Stored(c, s) == IF s = None THEN decided[c] ELSE s

Store(a) ==
  /\ calling[a].at = "storing"
  /\ \E c \in Cand, i \in Answered(calling[a]) :
       LET s == calling[a].batches[i].got[c] IN
       /\ NextCand(a, c)
       /\ c \in calling[a].batches[i].cands
       /\ decided' = [decided EXCEPT ![c] = Stored(c, s)]
       /\ calling' = [calling EXCEPT ![a].todo = @ \ {c}, ![a].answers[c] = s]
  /\ UNCHANGED <<askCache, given>>

(* retainNative uses the live result only if no batch failed.              *)
Finish(a) ==
  /\ calling[a].at = "storing" /\ calling[a].todo = {}
  /\ calling' = [calling EXCEPT ![a].at = "done",
       ![a].result = IF Answered(calling[a]) = DOMAIN calling[a].batches THEN "live" ELSE "local"]
  /\ UNCHANGED <<askCache, decided, given>>

-----------------------------------------------------------------------------

JevStep(a) ==
  \/ OverBudget(a) \/ Post(a) \/ AskFails(a) \/ AskAnswered(a)
  \/ LookUp(a) \/ AllCached(a) \/ SendBatches(a) \/ BatchFails(a) \/ BatchAnswered(a)
  \/ Join(a) \/ Store(a) \/ Finish(a)

JevNext ==
  \E a \in Caller :
    \/ \E q \in Asked : Ask(a, q)
    \/ \E h \in Compacted : AskCompact(a, h)
    \/ JevStep(a)

JevSpec == JevInit /\ [][JevNext]_jevVars

-----------------------------------------------------------------------------

JevTypeOK ==
  /\ askCache \in [Asked -> Score \cup {None}]
  /\ decided \in [Cand -> Score \cup {None}]
  /\ given \subseteq (Asked \cup Cand) \X Score
  /\ \A a \in Caller : calling[a] \in Call /\ calling[a].hooks <= calling[a].posts

(* What either cache holds was answered by the service to that very        *)
(* question, completely: overlapping calls, invalid answers and failures   *)
(* leave nothing else there (storeValid, and the store of                  *)
(* AskCompactContext).                                                     *)
CachedIsGiven ==
  /\ \A q \in Asked : askCache[q] # None => <<q, askCache[q]>> \in given
  /\ \A c \in Cand : decided[c] # None => <<c, decided[c]>> \in given

(* One failed batch does not cost the answers of the others: when the call *)
(* ends each candidate that was answered is decided, and no compaction     *)
(* that begins with a candidate decided asks for it again (AskCompact-     *)
(* Context caches before it returns its first error).                      *)
PaidAnswersKept ==
  \A a \in Caller :
    LET call == calling[a] IN
    /\ call.at = "done" => \A i \in DOMAIN call.batches : \A c \in call.batches[i].cands :
                             call.batches[i].got[c] # None => decided[c] # None
    /\ \A i \in DOMAIN call.batches : call.batches[i].cands \cap call.knew = {}
=============================================================================
