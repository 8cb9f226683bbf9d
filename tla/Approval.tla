------------------------------ MODULE Approval ------------------------------
(***************************************************************************)
(* ApprovalManager (approval.py): the registry of Tier-2 commands waiting   *)
(* for a human decision.  A request is registered, an optional auto-decider *)
(* may answer it, and its caller then waits for the request's event or for  *)
(* its timer, whichever comes first.  Approvers call resolve() at any time. *)
(*                                                                          *)
(* Everything runs on one event loop, and no body of `async with self._lock`*)
(* awaits, so the code between two awaits is one step: resolve() is one     *)
(* step, and request_approval() is cut at the auto-decider's await and at   *)
(* wait_for().  A timer that has fired and a waiter that has not resumed    *)
(* yet are two different moments, and resolve() can run between them.       *)
(***************************************************************************)
EXTENDS Integers, Sequences

CONSTANTS
  Req,         \* request ids (uuid4)
  Approver,    \* who may call resolve()
  HasDecider   \* whether the manager was built with an auto_decider

ASSUME ApproverAssumption == "auto" \notin Approver /\ "nobody" \notin Approver
ASSUME DeciderAssumption == HasDecider \in BOOLEAN

VARIABLES
  phase,     \* where the coroutine of each request_approval() call stands
  state,     \* ApprovalRequest.state
  approver,  \* ApprovalRequest.approver
  event,     \* ApprovalRequest.event.is_set()
  timer,     \* the requests whose wait_for() timer has fired
  registry,  \* the keys of ApprovalManager._pending
  accepted,  \* history: the calls of resolve() that returned True
  refused    \* history: the requests some resolve() call returned False for

vars == <<phase, state, approver, event, timer, registry, accepted, refused>>

ApprovalState == {"pending", "approved", "denied", "auto_denied"}
Phase == {"idle", "deciding", "waiting", "returned", "failed"}
Resolver == Approver \cup {"auto"}

\* Seeded defect: a state the enumeration does not have.
VerdictMisnamed(approve) == IF approve THEN "approved" ELSE "rejected"

Verdict(approve) == IF approve THEN "approved" ELSE "denied"

TypeOK ==
  /\ phase \in [Req -> Phase]
  /\ state \in [Req -> ApprovalState]
  /\ approver \in [Req -> Resolver \cup {"nobody"}]
  /\ event \in [Req -> BOOLEAN]
  /\ timer \in SUBSET Req
  /\ registry \in SUBSET Req
  /\ accepted \in [Req -> Seq(Resolver \X BOOLEAN)]
  /\ refused \in SUBSET Req

Init ==
  /\ phase = [r \in Req |-> "idle"]
  /\ state = [r \in Req |-> "pending"]
  /\ approver = [r \in Req |-> "nobody"]
  /\ event = [r \in Req |-> FALSE]
  /\ timer = {}
  /\ registry = {}
  /\ accepted = [r \in Req |-> <<>>]
  /\ refused = {}

-----------------------------------------------------------------------------
\* Seeded defect: with an auto-decider the request is never registered.
RequestUnlisted(r) ==
  /\ phase[r] = "idle"
  /\ phase' = [phase EXCEPT ![r] = IF HasDecider THEN "deciding" ELSE "waiting"]
  /\ registry' = IF HasDecider THEN registry ELSE registry \cup {r}
  /\ UNCHANGED <<state, approver, event, timer, accepted, refused>>

(* request_approval() up to its first await: the request is registered.     *)
Request(r) ==
  /\ phase[r] = "idle"
  /\ phase' = [phase EXCEPT ![r] = IF HasDecider THEN "deciding" ELSE "waiting"]
  /\ registry' = registry \cup {r}
  /\ UNCHANGED <<state, approver, event, timer, accepted, refused>>

Resolvable(r) == r \in registry /\ state[r] = "pending"

(* The effect of resolve() on the shared state, whoever calls it: the first *)
(* answer settles the request, every later one gets False.                  *)
Settle(r, a, approve) ==
  \/ /\ Resolvable(r)
     /\ state' = [state EXCEPT ![r] = Verdict(approve)]
     /\ approver' = [approver EXCEPT ![r] = a]
     /\ event' = [event EXCEPT ![r] = TRUE]
     /\ accepted' = [accepted EXCEPT ![r] = Append(@, <<a, approve>>)]
     /\ UNCHANGED refused
  \/ /\ ~Resolvable(r)
     /\ refused' = refused \cup {r}
     /\ UNCHANGED <<state, approver, event, accepted>>

(* An approver's call of resolve(); it knows the id of a request that exists.*)
Resolve(r, a, approve) ==
  /\ phase[r] # "idle"
  /\ Settle(r, a, approve)
  /\ UNCHANGED <<phase, timer, registry>>

(* The auto-decider answers True or False and the caller resolves its own   *)
(* request, unless an approver was faster while the decider was awaited.    *)
AutoDecide(r, approve) ==
  /\ phase[r] = "deciding"
  /\ Settle(r, "auto", approve)
  /\ phase' = [phase EXCEPT ![r] = "waiting"]
  /\ UNCHANGED <<timer, registry>>

(* The auto-decider answers None: the request is left to the approvers.     *)
AutoLeave(r) ==
  /\ phase[r] = "deciding"
  /\ phase' = [phase EXCEPT ![r] = "waiting"]
  /\ UNCHANGED <<state, approver, event, timer, registry, accepted, refused>>

\* Seeded defect: no timeout for the requests an auto-decider has seen.
TimerOnlyUndecided(r) ==
  /\ phase[r] = "waiting" /\ r \notin timer /\ ~HasDecider
  /\ timer' = timer \cup {r}
  /\ UNCHANGED <<phase, state, approver, event, registry, accepted, refused>>

(* The budget of wait_for() elapses; the waiter is only scheduled.          *)
TimerFires(r) ==
  /\ phase[r] = "waiting"
  /\ r \notin timer
  /\ timer' = timer \cup {r}
  /\ UNCHANGED <<phase, state, approver, event, registry, accepted, refused>>

(* wait_for() returns: the event was set.                                   *)
ResumeEvent(r) ==
  /\ phase[r] = "waiting"
  /\ event[r]
  /\ phase' = [phase EXCEPT ![r] = "returned"]
  /\ registry' = registry \ {r}
  /\ UNCHANGED <<state, approver, event, timer, accepted, refused>>

\* Seeded defect: no second look at the state under the lock.
ResumeTimeoutBlind(r) ==
  /\ phase[r] = "waiting" /\ r \in timer
  /\ state' = [state EXCEPT ![r] = "auto_denied"]
  /\ phase' = [phase EXCEPT ![r] = "returned"]
  /\ registry' = registry \ {r}
  /\ UNCHANGED <<approver, event, timer, accepted, refused>>

(* wait_for() raises TimeoutError: a request that is still pending is       *)
(* auto-denied, one that was resolved since the timer fired keeps its state.*)
ResumeTimeout(r) ==
  /\ phase[r] = "waiting"
  /\ r \in timer
  /\ state' = [state EXCEPT ![r] = IF @ = "pending" THEN "auto_denied" ELSE @]
  /\ phase' = [phase EXCEPT ![r] = "returned"]
  /\ registry' = registry \ {r}
  /\ UNCHANGED <<approver, event, timer, accepted, refused>>

(* The auto-decider raises, or the waiting task is cancelled: the exception *)
(* leaves request_approval() by a path that never touches the registry.     *)
Fail(r) ==
  /\ phase[r] \in {"deciding", "waiting"}
  /\ phase' = [phase EXCEPT ![r] = "failed"]
  /\ UNCHANGED <<state, approver, event, timer, registry, accepted, refused>>

Resume(r) == ResumeEvent(r) \/ ResumeTimeout(r)
Decider(r) == AutoLeave(r) \/ \E approve \in BOOLEAN : AutoDecide(r, approve)

Next ==
  \E r \in Req :
    \/ Request(r)
    \/ \E a \in Approver, approve \in BOOLEAN : Resolve(r, a, approve)
    \/ \E approve \in BOOLEAN : AutoDecide(r, approve)
    \/ AutoLeave(r)
    \/ TimerFires(r)
    \/ ResumeEvent(r)
    \/ ResumeTimeout(r)
    \/ Fail(r)

Spec == Init /\ [][Next]_vars

-----------------------------------------------------------------------------
(* list_pending(): what an approver is shown.                               *)
ListPending == {r \in registry : state[r] = "pending"}

Waiting(r) == phase[r] \in {"deciding", "waiting"}

(* At most one resolve() call is told True, and the request then carries    *)
(* that call's verdict and approver for good: the timeout that fires at the *)
(* same moment cannot overrule an approver who was told True (118-126).     *)
AcceptedDecides ==
  \A r \in Req :
    /\ Len(accepted[r]) <= 1
    /\ accepted[r] # <<>> =>
         /\ state[r] = Verdict(accepted[r][1][2])
         /\ approver[r] = accepted[r][1][1]

(* A caller that comes back always holds a decision, and its request can no *)
(* longer be resolved: resolve() never says True to an approver whose       *)
(* answer nobody will read because the call already returned.               *)
ReturnedIsSettled ==
  \A r \in Req :
    phase[r] = "returned" => state[r] # "pending" /\ r \notin registry

(* A request somebody waits for is either settled or visible to approvers,  *)
(* and one that an approver settled has its waiter woken by the event.      *)
WaiterIsReachable ==
  \A r \in Req :
    Waiting(r) =>
      \/ r \in ListPending
      \/ event[r] /\ accepted[r] # <<>>

(* resolve() says False only about a request that is already settled.       *)
RefusalIsTruthful == \A r \in refused : state[r] # "pending"

(* A settled request never changes its decision or its approver, and only   *)
(* a request that is still pending and registered can be approved.          *)
DecisionIsFinal ==
  [][\A r \in Req :
       /\ state[r] # "pending" =>
            state'[r] = state[r] /\ approver'[r] = approver[r]
       /\ (state[r] = "pending" /\ state'[r] = "approved") => r \in registry]_vars
=============================================================================
