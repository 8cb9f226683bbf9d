------------------------- MODULE ApprovalRefinement -------------------------
(***************************************************************************)
(* The registry of Approval implements OneDecision: the mapping forgets the *)
(* event, the timer and the registry and keeps who is waiting and what was  *)
(* decided.                                                                 *)
(***************************************************************************)
EXTENDS Approval

AskerOf(r) ==
  CASE phase[r] = "idle" -> "idle"
    [] phase[r] \in {"deciding", "waiting"} -> "open"
    [] phase[r] = "returned" -> "answered"
    [] phase[r] = "failed" -> "gone"

Asker == [r \in Req |-> AskerOf(r)]
Outcome == [r \in Req |-> IF state[r] = "pending" THEN "none" ELSE state[r]]

Abstract == INSTANCE OneDecision WITH asker <- Asker, outcome <- Outcome

(* Each request is decided at most once and its caller receives exactly     *)
(* that decision.                                                           *)
ImplementsOneDecision == Abstract!Spec
=============================================================================
