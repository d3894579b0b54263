------------------------------- MODULE Hints -------------------------------
(***************************************************************************)
(* The hint store of Claude requests (hintStore of                         *)
(* internal/proxy/rewrite.go) and the two moments at which RewriteWith     *)
(* uses it.  Claude Code resends its history without the reminders the     *)
(* gateway appended, so the gateway restores them at the start of every    *)
(* request and appends one more at the end; between the two it may wait    *)
(* seconds for Jev, while other requests, retries of the same one among    *)
(* them, change the store.                                                 *)
(*                                                                         *)
(* A message is the id of its first tool result, or System or Plain when   *)
(* it has none.  A hint is a member of Hint; which one a request wants to  *)
(* append is Jev's choice.                                                 *)
(***************************************************************************)
EXTENDS Absent, Naturals, Sequences, FiniteSets, SequencesExt

CONSTANTS
  HintReq,    \* goroutines that rewrite Claude requests
  Key,        \* tool_use ids that messages start with
  Hint,       \* texts of reminders
  System,     \* a system message
  Plain,      \* any other message without a tool result
  HintMax,    \* hintStoreMax
  Histories   \* message sequences the host sends

ASSUME HintsAssumption ==
  /\ HintMax \in Nat \ {0}
  /\ None \notin Hint
  /\ {System, Plain} \cap Key = {}
  /\ Histories \subseteq Seq(Key \cup {System, Plain})

VARIABLES
  text,       \* key -> its stored hint, or None
  order,      \* stored keys, oldest first
  rewriting   \* goroutine -> the request it rewrites

hintVars == <<text, order, rewriting>>

(* had: what was stored when the request began; gone: what the store has   *)
(* dropped since.  Both only serve the properties.                         *)
Rewriting == [at : {"idle", "restoring", "deciding", "sent"},
              msgs : Histories \cup {<<>>}, next : Nat \ {0},
              hints : [Key -> Seq(Hint)],
              had : [Key -> Hint \cup {None}], gone : SUBSET Key]

NotRewritten == [at |-> "idle", msgs |-> <<>>, next |-> 1, hints |-> [k \in Key |-> <<>>],
           had |-> [k \in Key |-> None], gone |-> {}]

HintsInit ==
  /\ text = [k \in Key |-> None]
  /\ order = <<>>
  /\ rewriting = [r \in HintReq |-> NotRewritten]

(* appendHintBlock: nothing is added after an equal last block.            *)
AppendHintBlock(hints, t) ==
  IF hints # <<>> /\ Last(hints) = t THEN hints ELSE Append(hints, t)

(* The message that gets a new hint: the last one, system messages apart,  *)
(* if it starts with a tool result.                                        *)
AdviseInsertTarget(msgs) ==
  LET spoken == SelectSeq(msgs, LAMBDA m : m # System)
  IN IF spoken # <<>> /\ Last(spoken) \in Key THEN Last(spoken) ELSE None

-----------------------------------------------------------------------------

Arrive(r) ==
  /\ rewriting[r].at \in {"idle", "sent"}
  /\ \E h \in Histories :
       rewriting' = [rewriting EXCEPT ![r] =
         [NotRewritten EXCEPT !.at = "restoring", !.msgs = h, !.had = text]]
  /\ UNCHANGED <<text, order>>

WithStored(hints, m) ==
  IF m \in Key /\ text[m] # None THEN [hints EXCEPT ![m] = AppendHintBlock(@, text[m])] ELSE hints

(* reapply: the lock is held for one message at a time.                    *)
Reapply(r) ==
  LET q == rewriting[r] IN
  /\ q.at = "restoring" /\ q.next <= Len(q.msgs)
  /\ rewriting' = [rewriting EXCEPT ![r].next = @ + 1,
                                    ![r].hints = WithStored(@, q.msgs[q.next])]
  /\ UNCHANGED <<text, order>>

Restored(r) ==
  /\ rewriting[r].at = "restoring" /\ rewriting[r].next > Len(rewriting[r].msgs)
  /\ rewriting' = [rewriting EXCEPT ![r].at = "deciding"]
  /\ UNCHANGED <<text, order>>

(* RewriteWith returns without a hint: one of its passthroughs, an error   *)
(* of Jev, or nowhere to attach it.                                        *)
SendWithoutHint(r) ==
  /\ rewriting[r].at = "deciding"
  /\ rewriting' = [rewriting EXCEPT ![r].at = "sent"]
  /\ UNCHANGED <<text, order>>

(* Slip: a newer hint replaces the stored one.                             *)
RememberNewest(k, t) == t

(* remember returns the first hint of a key for as long as it is stored.   *)
Remember(k, t) == IF text[k] # None THEN text[k] ELSE t

(* Slip: nothing is dropped at the bound.                                  *)
DropNothing(stored) == {}

(* The keys over the bound, at most the oldest.                            *)
Dropped(stored) == IF Len(stored) > HintMax THEN {Head(stored)} ELSE {}

(* adviseClaude: remember, then append what it returned.                   *)
AdviseClaude(r) ==
  /\ rewriting[r].at = "deciding"
  /\ \E t \in Hint :
       LET k == AdviseInsertTarget(rewriting[r].msgs)
           stored == IF k # None /\ text[k] = None THEN Append(order, k) ELSE order
           out == Dropped(stored) IN
       /\ k # None
       /\ text' = [j \in Key |-> IF j \in out THEN None
                                 ELSE IF j = k THEN Remember(k, t) ELSE text[j]]
       /\ order' = IF out = {} THEN stored ELSE Tail(stored)
       /\ rewriting' = [p \in HintReq |->
            IF p = r
            THEN [rewriting[r] EXCEPT !.at = "sent", !.gone = @ \cup out,
                    !.hints[k] = AppendHintBlock(@, Remember(k, t))]
            ELSE [rewriting[p] EXCEPT !.gone = IF rewriting[p].at = "sent" THEN @ ELSE @ \cup out]]

HintsNext ==
  \E r \in HintReq :
    \/ Arrive(r) \/ Reapply(r) \/ Restored(r)
    \/ SendWithoutHint(r) \/ AdviseClaude(r)

HintsSpec == HintsInit /\ [][HintsNext]_hintVars

-----------------------------------------------------------------------------

HintsTypeOK ==
  /\ text \in [Key -> Hint \cup {None}]
  /\ order \in Seq(Key)
  /\ rewriting \in [HintReq -> Rewriting]

(* The map and its FIFO name the same keys, each once, within the bound:   *)
(* remember (rewrite.go 2294) deletes from both or from neither.           *)
StoreMatchesOrder ==
  /\ Range(order) = {k \in Key : text[k] # None}
  /\ IsInjective(order)
  /\ Len(order) <= HintMax

(* A hint the store held when a request began and still holds when it is   *)
(* sent goes out with it, as it was, and no message carries two: the       *)
(* prefix that Claude's prompt cache knows is the same bytes again, though *)
(* a retry or an overlapping turn decided otherwise in between             *)
(* (the comments at rewrite.go 184 and 2292).                              *)
HintsStable ==
  \A r \in HintReq : rewriting[r].at = "sent" =>
    \A k \in Key \ rewriting[r].gone :
      /\ Len(rewriting[r].hints[k]) <= 1
      /\ rewriting[r].had[k] # None /\ k \in Range(rewriting[r].msgs) =>
           rewriting[r].hints[k] = <<rewriting[r].had[k]>>
=============================================================================
