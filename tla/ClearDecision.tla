---------------------------- MODULE ClearDecision ----------------------------
(***************************************************************************)
(* What the clear gate promises about one conversation, with the store's   *)
(* FIFO bound and the requests left out: Jev is asked by one request at a  *)
(* time, an answer is final, and the only way back to "unknown" is to      *)
(* forget the conversation altogether (internal/proxy/clear_gate.go, the   *)
(* comments of gate and of entry).  ClearGate is shown to implement it.    *)
(***************************************************************************)

CONSTANTS
  Conv      \* the conversations

VARIABLES
  status    \* conversation -> what the gate knows about it

Final == {"clear", "keep", "error"}

Status == {"unknown", "asking"} \cup Final

Init == status = [k \in Conv |-> "unknown"]

(* A request starts the one question of this conversation.                 *)
Ask(k) ==
  /\ status[k] = "unknown"
  /\ status' = [status EXCEPT ![k] = "asking"]

(* Its answer, or its failure, is recorded.                                *)
Decide(k, d) ==
  /\ status[k] = "asking"
  /\ status' = [status EXCEPT ![k] = d]

(* The bounded store drops the conversation, whatever it knew.             *)
Forget(k) ==
  /\ status' = [status EXCEPT ![k] = "unknown"]

Next ==
  \/ \E k \in Conv : Ask(k)
  \/ \E k \in Conv, d \in Final : Decide(k, d)
  \/ \E k \in Conv : Forget(k)

Spec == Init /\ [][Next]_status

=============================================================================
