----------------------------- MODULE OneDecision -----------------------------
(***************************************************************************)
(* What the approval registry promises: a question is answered at most      *)
(* once; whoever asked receives that answer or, if none came in time,       *)
(* "auto_denied"; an asker who gives up receives nothing.                   *)
(***************************************************************************)
CONSTANTS Req

VARIABLES
  asker,   \* "idle", "open", "answered" or "gone"
  outcome  \* "none", "approved", "denied" or "auto_denied"

vars == <<asker, outcome>>

Init ==
  /\ asker = [r \in Req |-> "idle"]
  /\ outcome = [r \in Req |-> "none"]

Ask(r) ==
  /\ asker[r] = "idle"
  /\ asker' = [asker EXCEPT ![r] = "open"]
  /\ UNCHANGED outcome

(* A human answer; it may come after the asker has given up.                *)
Decide(r, verdict) ==
  /\ asker[r] \in {"open", "gone"}
  /\ outcome[r] = "none"
  /\ outcome' = [outcome EXCEPT ![r] = verdict]
  /\ UNCHANGED asker

Deliver(r) ==
  /\ asker[r] = "open"
  /\ outcome[r] # "none"
  /\ asker' = [asker EXCEPT ![r] = "answered"]
  /\ UNCHANGED outcome

Expire(r) ==
  /\ asker[r] = "open"
  /\ outcome[r] = "none"
  /\ outcome' = [outcome EXCEPT ![r] = "auto_denied"]
  /\ asker' = [asker EXCEPT ![r] = "answered"]

GiveUp(r) ==
  /\ asker[r] = "open"
  /\ asker' = [asker EXCEPT ![r] = "gone"]
  /\ UNCHANGED outcome

Next ==
  \E r \in Req :
    \/ Ask(r)
    \/ \E verdict \in {"approved", "denied"} : Decide(r, verdict)
    \/ Deliver(r)
    \/ Expire(r)
    \/ GiveUp(r)

Spec == Init /\ [][Next]_vars
==============================================================================
