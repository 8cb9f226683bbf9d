--------------------------- MODULE ApprovalProofs ---------------------------
(***************************************************************************)
(* For every set of requests and approvers: the registry's types, its       *)
(* safety properties, the finality of decisions, and that it implements     *)
(* OneDecision.  Then the session manager on that registry (GatedSessions): *)
(* it implements Sessions, keeps what either promises alone, and what the   *)
(* approvers were told is what happens to the commands.                     *)
(***************************************************************************)
EXTENDS GatedSessions, TLAPS

(* Who has been told True, and what the request carries since.              *)
Carried(r) ==
  IF accepted[r] = <<>>
  THEN state[r] \in {"pending", "auto_denied"} /\ ~event[r]
  ELSE /\ Len(accepted[r]) = 1
       /\ state[r] = Verdict(accepted[r][1][2])
       /\ approver[r] = accepted[r][1][1]
       /\ event[r]

(* Where a request stands in the registry, by its caller's control point.   *)
Placed(r) ==
  /\ phase[r] = "idle" => r \notin registry /\ state[r] = "pending"
  /\ phase[r] \in {"deciding", "waiting", "failed"} =>
       r \in registry /\ state[r] # "auto_denied"
  /\ phase[r] = "returned" => r \notin registry /\ state[r] # "pending"

(* The inductive invariant.                                                 *)
IInv ==
  /\ TypeOK
  /\ \A r \in Req : Carried(r) /\ Placed(r)
  /\ RefusalIsTruthful

(* Appending to the empty history gives the one-element history.            *)
LEMMA FirstAccepted ==
  ASSUME NEW Answer, NEW v \in Answer
  PROVE  /\ Append(<<>>, v) \in Seq(Answer)
         /\ Append(<<>>, v) # <<>>
         /\ Len(Append(<<>>, v)) = 1
         /\ Append(<<>>, v)[1] = v
  OBVIOUS

(* A verdict is a decision, never "pending".                                *)
LEMMA VerdictDecides ==
  ASSUME NEW b \in BOOLEAN
  PROVE  Verdict(b) \in {"approved", "denied"}
  BY DEF Verdict

(* At the start no request is known to anyone.                              *)
LEMMA InitIInv == Init => IInv
  BY DEF Init, IInv, TypeOK, Carried, Placed, RefusalIsTruthful,
         Phase, ApprovalState, Resolver

(* resolve() preserves the invariant, whether an approver or the            *)
(* auto-decider calls it, and only ever adds to what is decided.            *)
LEMMA SettleIInv ==
  ASSUME IInv,
         NEW r \in Req, NEW a \in Resolver, NEW approve \in BOOLEAN,
         phase[r] # "idle",
         Settle(r, a, approve),
         \/ phase' = phase
         \/ phase[r] = "deciding" /\ phase' = [phase EXCEPT ![r] = "waiting"],
         UNCHANGED <<timer, registry>>
  PROVE  IInv'
<1> DEFINE v == <<a, approve>>
<1>1. phase' \in [Req -> Phase]
  BY DEF IInv, TypeOK, Phase
<1>2. \A q \in Req :
        \/ phase'[q] = phase[q]
        \/ phase[q] = "deciding" /\ phase'[q] = "waiting"
  BY DEF IInv, TypeOK
<1>3. CASE Resolvable(r)
  <2>1. /\ state' = [state EXCEPT ![r] = Verdict(approve)]
        /\ approver' = [approver EXCEPT ![r] = a]
        /\ event' = [event EXCEPT ![r] = TRUE]
        /\ accepted' = [accepted EXCEPT ![r] = Append(accepted[r], v)]
        /\ refused' = refused
    BY <1>3 DEF Settle
  <2>2. state[r] = "pending" /\ accepted[r] = <<>>
    BY <1>3, VerdictDecides DEF IInv, TypeOK, Carried, Resolvable, Verdict
  <2>3. /\ accepted'[r] = Append(<<>>, v)
        /\ state'[r] = Verdict(approve)
        /\ approver'[r] = a
        /\ event'[r] = TRUE
    BY <2>1, <2>2 DEF IInv, TypeOK
  <2>4. v \in Resolver \X BOOLEAN
    OBVIOUS
  <2>5. /\ accepted'[r] \in Seq(Resolver \X BOOLEAN)
        /\ accepted'[r] # <<>>
        /\ Len(accepted'[r]) = 1
        /\ accepted'[r][1] = v
    BY <2>3, <2>4, FirstAccepted
  <2>6. TypeOK'
    BY <2>1, <2>3, <2>5, <1>1, VerdictDecides DEF IInv, TypeOK, ApprovalState
  <2>7. \A q \in Req : q # r =>
          /\ state'[q] = state[q] /\ approver'[q] = approver[q]
          /\ event'[q] = event[q] /\ accepted'[q] = accepted[q]
    BY <2>1 DEF IInv, TypeOK
  <2>8. Carried(r)'
    BY <2>3, <2>5 DEF Carried
  <2>9. \A q \in Req : Carried(q)'
    BY <2>7, <2>8 DEF IInv, Carried
  <2>10. Placed(r)'
    BY <1>2, <1>3, <2>3, VerdictDecides DEF IInv, TypeOK, Phase, Placed, Resolvable
  <2>11. \A q \in Req : Placed(q)'
    BY <1>2, <2>7, <2>10 DEF IInv, TypeOK, Placed
  <2>12. RefusalIsTruthful'
    BY <2>1, <2>3, <2>7, VerdictDecides DEF IInv, TypeOK, RefusalIsTruthful
  <2> QED BY <2>6, <2>9, <2>11, <2>12 DEF IInv
<1>4. CASE ~Resolvable(r)
  <2>1. /\ UNCHANGED <<state, approver, event, accepted>>
        /\ refused' = refused \cup {r}
    BY <1>4 DEF Settle
  <2>2. state[r] # "pending"
    BY <1>4 DEF IInv, TypeOK, Phase, Placed, Resolvable
  <2>3. TypeOK' /\ RefusalIsTruthful'
    BY <1>1, <2>1, <2>2 DEF IInv, TypeOK, RefusalIsTruthful
  <2>4. \A q \in Req : Carried(q)' /\ Placed(q)'
    BY <1>2, <2>1 DEF IInv, TypeOK, Carried, Placed
  <2> QED BY <2>3, <2>4 DEF IInv
<1> QED BY <1>3, <1>4

(* Every operation, whoever takes it and whenever, keeps the invariant.     *)
LEMMA StepIInv == IInv /\ [Next]_vars => IInv'
<1> SUFFICES ASSUME IInv, [Next]_vars PROVE IInv'
  OBVIOUS
<1> USE DEF IInv, TypeOK, Carried, Placed, RefusalIsTruthful, Phase, ApprovalState
<1>1. ASSUME NEW r \in Req, Request(r) PROVE IInv'
  BY <1>1 DEF Request
<1>2. ASSUME NEW r \in Req, NEW a \in Approver, NEW approve \in BOOLEAN,
             Resolve(r, a, approve)
      PROVE  IInv'
  <2>1. a \in Resolver BY DEF Resolver
  <2> QED BY <1>2, <2>1, SettleIInv DEF Resolve
<1>3. ASSUME NEW r \in Req, NEW approve \in BOOLEAN, AutoDecide(r, approve)
      PROVE  IInv'
  <2>1. "auto" \in Resolver BY DEF Resolver
  <2> HIDE DEF IInv
  <2>2. phase[r] # "idle" BY <1>3 DEF AutoDecide
  <2> QED BY <1>3, <2>1, <2>2, SettleIInv DEF AutoDecide
<1>4. ASSUME NEW r \in Req, AutoLeave(r) PROVE IInv'
  BY <1>4 DEF AutoLeave
<1>5. ASSUME NEW r \in Req, TimerFires(r) PROVE IInv'
  BY <1>5 DEF TimerFires
<1>6. ASSUME NEW r \in Req, ResumeEvent(r) PROVE IInv'
  <2>1. state[r] # "pending"
    BY <1>6, VerdictDecides DEF ResumeEvent, Verdict
  <2> QED BY <1>6, <2>1 DEF ResumeEvent
<1>7. ASSUME NEW r \in Req, ResumeTimeout(r) PROVE IInv'
  <2>1. state[r] = "pending" => accepted[r] = <<>>
    BY VerdictDecides DEF Verdict
  <2>2. \A q \in Req : accepted[q] # <<>> => state'[q] = state[q]
    BY <1>7, <2>1 DEF ResumeTimeout
  <2> QED BY <1>7, <2>2 DEF ResumeTimeout
<1>8. ASSUME NEW r \in Req, Fail(r) PROVE IInv'
  BY <1>8 DEF Fail
<1>9. CASE UNCHANGED vars
  BY <1>9 DEF vars
<1> QED
  BY <1>1, <1>2, <1>3, <1>4, <1>5, <1>6, <1>7, <1>8, <1>9 DEF Next

(* The inductive invariant holds of every reachable state.                  *)
THEOREM IInvHolds == Spec => []IInv
  BY InitIInv, StepIInv, PTL DEF Spec

-----------------------------------------------------------------------------
(* Each variable keeps its type, whatever the interleaving.                 *)
THEOREM TypeCorrect == Spec => []TypeOK
<1>1. IInv => TypeOK
  BY DEF IInv
<1> QED BY <1>1, IInvHolds, PTL

(* An approver who was told True decides the request: no timeout, second    *)
(* answer or auto-decider overrides it (approval.py 118-126, 136-143).      *)
THEOREM AcceptedDecidesHolds == Spec => []AcceptedDecides
<1>1. IInv => AcceptedDecides
  <2> SUFFICES ASSUME IInv, NEW r \in Req
               PROVE  /\ Len(accepted[r]) <= 1
                      /\ accepted[r] # <<>> =>
                           /\ state[r] = Verdict(accepted[r][1][2])
                           /\ approver[r] = accepted[r][1][1]
    BY DEF AcceptedDecides
  <2>1. CASE accepted[r] = <<>>
    <3>1. Len(<<>>) = 0
      OBVIOUS
    <3>2. Len(accepted[r]) <= 1
      BY <2>1, <3>1
    <3> QED BY <2>1, <3>2
  <2>2. CASE accepted[r] # <<>>
    <3>1. /\ Len(accepted[r]) = 1
          /\ state[r] = Verdict(accepted[r][1][2])
          /\ approver[r] = accepted[r][1][1]
      BY <2>2 DEF IInv, Carried
    <3>2. Len(accepted[r]) <= 1
      BY <3>1
    <3> QED BY <3>1, <3>2
  <2> QED BY <2>1, <2>2
<1> QED BY <1>1, IInvHolds, PTL

(* A returned call holds a decision and left the registry.                  *)
THEOREM ReturnedIsSettledHolds == Spec => []ReturnedIsSettled
<1>1. IInv => ReturnedIsSettled
  BY DEF IInv, Placed, ReturnedIsSettled
<1> QED BY <1>1, IInvHolds, PTL

(* No waiter is out of reach: it is listed, or its event is set.            *)
THEOREM WaiterIsReachableHolds == Spec => []WaiterIsReachable
<1>1. IInv => WaiterIsReachable
  BY DEF IInv, TypeOK, ApprovalState, Carried, Placed, WaiterIsReachable,
         Waiting, ListPending
<1> QED BY <1>1, IInvHolds, PTL

(* resolve() refuses only what is settled.                                  *)
THEOREM RefusalIsTruthfulHolds == Spec => []RefusalIsTruthful
<1>1. IInv => RefusalIsTruthful
  BY DEF IInv
<1> QED BY <1>1, IInvHolds, PTL

(* The decision of one step: what a step may do to a request's decision.    *)
LEMMA StepKeepsDecision ==
  ASSUME IInv, [Next]_vars, NEW q \in Req
  PROVE  /\ state[q] # "pending" =>
              state'[q] = state[q] /\ approver'[q] = approver[q]
         /\ (state[q] = "pending" /\ state'[q] = "approved") => q \in registry
<1> USE DEF IInv, TypeOK
<1> DEFINE Goal ==
      /\ state[q] # "pending" =>
           state'[q] = state[q] /\ approver'[q] = approver[q]
      /\ (state[q] = "pending" /\ state'[q] = "approved") => q \in registry
<1>1. ASSUME NEW r \in Req, NEW a, NEW approve, Settle(r, a, approve) PROVE Goal
  BY <1>1 DEF Settle, Resolvable
<1>2. ASSUME NEW r \in Req, Request(r) PROVE Goal
  BY <1>2 DEF Request
<1>3. ASSUME NEW r \in Req, NEW a \in Approver, NEW approve \in BOOLEAN,
             Resolve(r, a, approve)
      PROVE  Goal
  BY <1>1, <1>3 DEF Resolve
<1>4. ASSUME NEW r \in Req, NEW approve \in BOOLEAN, AutoDecide(r, approve) PROVE Goal
  BY <1>1, <1>4 DEF AutoDecide
<1>5. ASSUME NEW r \in Req, AutoLeave(r) PROVE Goal
  BY <1>5 DEF AutoLeave
<1>6. ASSUME NEW r \in Req, TimerFires(r) PROVE Goal
  BY <1>6 DEF TimerFires
<1>7. ASSUME NEW r \in Req, ResumeEvent(r) PROVE Goal
  BY <1>7 DEF ResumeEvent
<1>8. ASSUME NEW r \in Req, ResumeTimeout(r) PROVE Goal
  BY <1>8 DEF ResumeTimeout
<1>9. ASSUME NEW r \in Req, Fail(r) PROVE Goal
  BY <1>9 DEF Fail
<1>10. CASE UNCHANGED vars
  BY <1>10 DEF vars
<1> QED
  BY <1>2, <1>3, <1>4, <1>5, <1>6, <1>7, <1>8, <1>9, <1>10 DEF Next

(* Decisions are final, for every number of requests and approvers.         *)
THEOREM DecisionIsFinalHolds == Spec => DecisionIsFinal
<1>1. IInv /\ [Next]_vars =>
        [\A r \in Req :
           /\ state[r] # "pending" =>
                state'[r] = state[r] /\ approver'[r] = approver[r]
           /\ (state[r] = "pending" /\ state'[r] = "approved") => r \in registry]_vars
  BY StepKeepsDecision
<1> QED BY <1>1, IInvHolds, PTL DEF Spec, DecisionIsFinal

-----------------------------------------------------------------------------
(* The refinement, step by step.                                            *)

(* An accepted answer maps to Decide, a refused one to no abstract step.    *)
LEMMA MapSettle ==
  ASSUME IInv,
         NEW r \in Req, NEW a \in Resolver, NEW approve \in BOOLEAN,
         phase[r] # "idle",
         Settle(r, a, approve),
         Asker' = Asker
  PROVE  \/ \E verdict \in {"approved", "denied"} : Abstract!Decide(r, verdict)
         \/ UNCHANGED <<Asker, Outcome>>
<1>1. CASE Resolvable(r)
  <2>1. /\ state[r] = "pending"
        /\ r \in registry
        /\ state' = [state EXCEPT ![r] = Verdict(approve)]
        /\ Verdict(approve) \in {"approved", "denied"}
    BY <1>1, VerdictDecides DEF Settle, Resolvable
  <2>2. Asker[r] \in {"open", "gone"}
    BY <2>1 DEF IInv, TypeOK, Phase, Placed, Asker, AskerOf
  <2>3. Outcome[r] = "none"
    BY <2>1 DEF Outcome
  <2>4. Outcome' = [Outcome EXCEPT ![r] = Verdict(approve)]
    BY <2>1 DEF Outcome, IInv, TypeOK
  <2>5. Abstract!Decide(r, Verdict(approve))
    BY <2>2, <2>3, <2>4 DEF Abstract!Decide, Asker, Outcome
  <2> QED BY <2>1, <2>5
<1>2. CASE ~Resolvable(r)
  BY <1>2 DEF Settle, Outcome
<1> QED BY <1>1, <1>2

(* Leaving the auto-decider does not change who is waiting.                 *)
LEMMA MapLeave ==
  ASSUME TypeOK, NEW r \in Req, phase[r] = "deciding",
         phase' = [phase EXCEPT ![r] = "waiting"]
  PROVE  Asker' = Asker
<1>1. \A q \in Req :
        \/ phase'[q] = phase[q]
        \/ phase[q] = "deciding" /\ phase'[q] = "waiting"
  BY DEF TypeOK
<1>2. \A q \in Req : AskerOf(q)' = AskerOf(q)
  BY <1>1 DEF AskerOf
<1> QED BY <1>2 DEF Asker

(* A request that is registered is a question that is asked.                *)
LEMMA MapRequest ==
  ASSUME IInv, NEW r \in Req, Request(r)
  PROVE  Abstract!Ask(r)
<1>1. phase \in [Req -> Phase]
  BY DEF IInv, TypeOK
<1>2. Asker' = [Asker EXCEPT ![r] = "open"] /\ Asker[r] = "idle"
  BY <1>1 DEF Request, Asker, AskerOf, Phase
<1> QED BY <1>2 DEF Request, Abstract!Ask, Asker, Outcome

(* Whoever answers, and the clock that only schedules the waiter, decide    *)
(* the question or leave it as it was.                                      *)
LEMMA MapAnswer ==
  ASSUME IInv, NEW r \in Req,
         \/ \E a \in Approver, approve \in BOOLEAN : Resolve(r, a, approve)
         \/ Decider(r)
         \/ TimerFires(r)
  PROVE  \/ \E ruling \in {"approved", "denied"} : Abstract!Decide(r, ruling)
         \/ UNCHANGED <<Asker, Outcome>>
<1>0. TypeOK
  BY DEF IInv
<1>1. ASSUME NEW a \in Approver, NEW approve \in BOOLEAN, Resolve(r, a, approve)
      PROVE  \/ \E ruling \in {"approved", "denied"} : Abstract!Decide(r, ruling)
             \/ UNCHANGED <<Asker, Outcome>>
  <2>1. phase[r] # "idle" /\ Settle(r, a, approve) /\ Asker' = Asker /\ a \in Resolver
    BY <1>1 DEF Resolve, Resolver, Asker, AskerOf
  <2> QED BY <2>1, MapSettle
<1>2. ASSUME NEW approve \in BOOLEAN, AutoDecide(r, approve)
      PROVE  \/ \E ruling \in {"approved", "denied"} : Abstract!Decide(r, ruling)
             \/ UNCHANGED <<Asker, Outcome>>
  <2>1. Asker' = Asker /\ phase[r] # "idle" /\ "auto" \in Resolver
    BY <1>0, <1>2, MapLeave DEF AutoDecide, Resolver
  <2>2. Settle(r, "auto", approve)
    BY <1>2 DEF AutoDecide
  <2> QED BY <2>1, <2>2, MapSettle
<1>3. ASSUME AutoLeave(r) PROVE UNCHANGED <<Asker, Outcome>>
  BY <1>0, <1>3, MapLeave DEF AutoLeave, Outcome
<1>4. ASSUME TimerFires(r) PROVE UNCHANGED <<Asker, Outcome>>
  BY <1>4 DEF TimerFires, Asker, AskerOf, Outcome
<1> QED BY <1>1, <1>2, <1>3, <1>4 DEF Decider

(* A caller that comes back is given the decision there is, or the timeout's*)
(* own, and what it is given is its request's state from then on.           *)
LEMMA MapResume ==
  ASSUME IInv, NEW r \in Req, Resume(r)
  PROVE  /\ Abstract!Deliver(r) \/ Abstract!Expire(r)
         /\ Outcome'[r] = state'[r]
<1>0. phase \in [Req -> Phase] /\ state \in [Req -> ApprovalState]
  BY DEF IInv, TypeOK
<1>1. Asker' = [Asker EXCEPT ![r] = "answered"] /\ Asker[r] = "open"
  BY <1>0 DEF Resume, ResumeEvent, ResumeTimeout, Asker, AskerOf, Phase
<1>2. CASE state[r] # "pending"
  <2>1. state' = state
    BY <1>0, <1>2 DEF Resume, ResumeEvent, ResumeTimeout
  <2>2. Outcome[r] # "none" /\ Outcome' = Outcome /\ Outcome'[r] = state'[r]
    BY <1>0, <1>2, <2>1 DEF Outcome, ApprovalState
  <2> QED BY <1>1, <2>2 DEF Abstract!Deliver, Asker, Outcome
<1>3. CASE state[r] = "pending"
  <2>1. ~ResumeEvent(r)
    BY <1>3, VerdictDecides DEF ResumeEvent, IInv, TypeOK, Carried, Verdict
  <2>2. state' = [state EXCEPT ![r] = "auto_denied"]
    BY <1>3, <2>1 DEF Resume, ResumeTimeout
  <2>3. /\ Outcome[r] = "none" /\ Outcome' = [Outcome EXCEPT ![r] = "auto_denied"]
        /\ Outcome'[r] = state'[r]
    BY <1>0, <1>3, <2>2 DEF Outcome
  <2> QED BY <1>1, <2>3 DEF Abstract!Expire, Asker, Outcome
<1> QED BY <1>2, <1>3

(* A caller that fails has given up.                                        *)
LEMMA MapFail ==
  ASSUME IInv, NEW r \in Req, Fail(r)
  PROVE  Abstract!GiveUp(r)
<1>1. phase \in [Req -> Phase]
  BY DEF IInv, TypeOK
<1>2. Asker' = [Asker EXCEPT ![r] = "gone"] /\ Asker[r] = "open"
  BY <1>1 DEF Fail, Asker, AskerOf, Phase
<1> QED BY <1>2 DEF Fail, Abstract!GiveUp, Asker, Outcome

(* A step that touches one request maps to an abstract step of that request *)
(* or leaves the abstract state alone.                                      *)
LEMMA MapStep == IInv /\ [Next]_vars => [Abstract!Next]_(Abstract!vars)
<1> SUFFICES ASSUME IInv, [Next]_vars
             PROVE  Abstract!Next \/ UNCHANGED <<Asker, Outcome>>
  BY DEF Abstract!vars, Asker, Outcome
<1>1. ASSUME NEW r \in Req, Request(r) PROVE Abstract!Next
  BY <1>1, MapRequest DEF Abstract!Next
<1>2. ASSUME NEW r \in Req,
             \/ \E a \in Approver, approve \in BOOLEAN : Resolve(r, a, approve)
             \/ Decider(r)
             \/ TimerFires(r)
      PROVE  Abstract!Next \/ UNCHANGED <<Asker, Outcome>>
  BY <1>2, MapAnswer DEF Abstract!Next
<1>3. ASSUME NEW r \in Req, Resume(r) PROVE Abstract!Next
  BY <1>3, MapResume DEF Abstract!Next
<1>4. ASSUME NEW r \in Req, Fail(r) PROVE Abstract!Next
  BY <1>4, MapFail DEF Abstract!Next
<1>5. CASE UNCHANGED vars
  BY <1>5 DEF vars, Asker, AskerOf, Outcome
<1> QED BY <1>1, <1>2, <1>3, <1>4, <1>5 DEF Next, Decider, Resume

(* The registry implements OneDecision: whatever the approvers, the timer,  *)
(* the auto-decider and failing callers do, a request is decided at most    *)
(* once and its caller is given exactly that decision.                      *)
THEOREM Refinement == Spec => ImplementsOneDecision
<1>1. Init => Abstract!Init
  BY DEF Init, Abstract!Init, Asker, Outcome, AskerOf
<1> QED
  BY <1>1, IInvHolds, MapStep, PTL DEF Spec, ImplementsOneDecision, Abstract!Spec

-----------------------------------------------------------------------------
(* The registry in the hands of the session manager.                        *)

(* The manager adds no step of its own to the registry.                     *)
LEMMA GatedSteps == [GatedNext]_all => [Next]_vars
<1>1. ASSUME NEW c \in Req, Asks(c) PROVE Next \/ UNCHANGED vars
  BY <1>1 DEF Asks, Next
<1>2. ASSUME NEW c \in Req, OpeningEnds(c) PROVE Next \/ UNCHANGED vars
  BY <1>1, <1>2 DEF OpeningEnds, RunRefused, RunOpened
<1>3. ASSUME NEW c \in Req, Answers(c) \/ Decides(c) \/ TimesOut(c) PROVE Next
  BY <1>3 DEF Answers, Decides, TimesOut, Decider, Next
<1>4. ASSUME NEW c \in Req, GateReturns(c) \/ GateFails(c) PROVE Next
  BY <1>4 DEF GateReturns, GateFails, Resume, Next
<1> QED
  BY <1>1, <1>2, <1>3, <1>4 DEF GatedNext, Elsewhere, Execute, RunnerEnds, all

(* Used by the session manager, the registry is still the registry: all     *)
(* that is proved of it holds of the two together.                          *)
THEOREM GatedKeepsRegistry == GatedSpec => Spec
<1>1. GatedInit => Init
  BY DEF GatedInit
<1> QED BY <1>1, GatedSteps, PTL DEF GatedSpec, Spec

(* The invariant of the registry holds in the composition.                  *)
LEMMA GatedIInv == GatedSpec => []IInv
  BY GatedKeepsRegistry, IInvHolds, PTL

(* What an approver, the auto-decider or the clock does is, to the manager, *)
(* an answer or nothing.                                                    *)
LEMMA AnswersMap ==
  ASSUME IInv, NEW c \in Req, Answers(c) \/ Decides(c) \/ TimesOut(c)
  PROVE  \/ \E ruling \in {"approved", "denied"} : S!HumanDecides(c, ruling)
         \/ UNCHANGED S!vars
<1>1. UNCHANGED manager
  BY DEF Answers, Decides, TimesOut
<1>2. \/ \E ruling \in {"approved", "denied"} : Abstract!Decide(c, ruling)
      \/ UNCHANGED <<Asker, Outcome>>
  BY MapAnswer DEF Answers, Decides, TimesOut
<1>3. CASE UNCHANGED <<Asker, Outcome>>
  BY <1>1, <1>3 DEF manager, S!vars, S!sessionVars, S!callVars, S!approvalVars
<1>4. ASSUME NEW ruling, Abstract!Decide(c, ruling) PROVE S!HumanDecides(c, ruling)
  BY <1>1, <1>4
  DEF Abstract!Decide, manager, S!HumanDecides, S!Approvals!Decide, S!sessionVars, S!callVars
<1> QED BY <1>2, <1>3, <1>4

(* A call that the policy sends to the gate asks there, and no other does.  *)
LEMMA AsksMap ==
  ASSUME IInv, NEW c \in Req, Asks(c)
  PROVE  S!AskIfGated(c)
<1>1. CASE pc'[c] = "gating"
  <2>1. Abstract!Ask(c)
    BY <1>1, MapRequest DEF Asks
  <2> QED BY <1>1, <2>1 DEF Abstract!Ask, S!AskIfGated, S!Approvals!Ask
<1>2. CASE pc'[c] # "gating"
  <2>1. UNCHANGED vars
    BY <1>2 DEF Asks
  <2>2. Asker' = Asker /\ Outcome' = Outcome
    BY <2>1 DEF vars, Asker, AskerOf, Outcome
  <2> QED BY <1>2, <2>2 DEF S!AskIfGated, S!approvalVars
<1> QED BY <1>1, <1>2

(* A call that comes back from the registry comes back from OneDecision,    *)
(* with the decision that the manager reads off its request.                *)
LEMMA ReturnsMap ==
  ASSUME IInv, NEW c \in Req, GateReturns(c)
  PROVE  S!GateReturns(c)
<1>1. /\ Abstract!Deliver(c) \/ Abstract!Expire(c)
      /\ Outcome'[c] = state'[c]
      /\ S!AfterGate(c, state'[c])
  BY MapResume DEF GateReturns
<1>2. S!DecisionArrives(c)
  BY <1>1
  DEF Abstract!Deliver, Abstract!Expire, S!DecisionArrives, S!Approvals!Deliver,
      S!Approvals!Expire
<1>3. S!AfterGate(c, Outcome'[c])
  BY <1>1
<1> QED BY <1>2, <1>3 DEF S!GateReturns

(* Every joint step is a step of the manager on OneDecision.                *)
LEMMA GatedMapStep == IInv /\ [GatedNext]_all => [S!Next]_(S!vars)
<1> SUFFICES ASSUME IInv, [GatedNext]_all PROVE S!Next \/ UNCHANGED S!vars
  OBVIOUS
<1>1. CASE Elsewhere
  BY <1>1 DEF Elsewhere, S!Next
<1>2. ASSUME NEW c \in Req, RunRefused(c) \/ RunnerEnds(c) PROVE S!Next
  BY <1>2 DEF RunRefused, RunnerEnds, S!RunnerEnds, S!Next
<1>3. ASSUME NEW c \in Req, Answers(c) \/ Decides(c) \/ TimesOut(c)
      PROVE  S!Next \/ UNCHANGED S!vars
  BY <1>3, AnswersMap DEF S!Next
<1>4. ASSUME NEW c \in Req, NEW s \in Session, NEW m \in Command, Execute(c, s, m)
      PROVE  S!Next
  <2>1. S!Execute(c, s, m)
    BY <1>4, AsksMap DEF Execute, S!Execute
  <2> QED BY <2>1 DEF S!Next
<1>5. ASSUME NEW c \in Req, NEW s \in Session, NEW preapproved \in AllowList,
             RunOpened(c, s, preapproved)
      PROVE  S!Next
  <2>1. S!RunOpened(c, s, preapproved)
    BY <1>5, AsksMap DEF RunOpened, S!RunOpened
  <2> QED BY <2>1 DEF S!Next
<1>6. ASSUME NEW c \in Req, GateReturns(c) PROVE S!Next
  BY <1>6, ReturnsMap DEF S!Next
<1>7. ASSUME NEW c \in Req, GateFails(c) PROVE S!Next
  <2>1. Abstract!GiveUp(c) /\ S!LeaveGate(c)
    BY <1>7, MapFail DEF GateFails
  <2>2. S!GateFails(c)
    BY <2>1 DEF Abstract!GiveUp, S!GateFails, S!Approvals!GiveUp
  <2> QED BY <2>2 DEF S!Next
<1>8. CASE UNCHANGED all
  BY <1>8
  DEF all, vars, manager, S!vars, S!sessionVars, S!callVars, S!approvalVars, Asker, AskerOf,
      Outcome
<1> QED
  BY <1>1, <1>2, <1>3, <1>4, <1>5, <1>6, <1>7, <1>8 DEF GatedNext, OpeningEnds

(* The manager on the registry itself is the manager of Sessions: replacing *)
(* OneDecision by what implements it adds no behaviour.                     *)
THEOREM GatedRefinement == GatedSpec => ImplementsSessions
<1>1. GatedInit => S!Init
  BY DEF GatedInit
<1> QED
  BY <1>1, GatedIInv, GatedMapStep, PTL DEF GatedSpec, ImplementsSessions, S!Spec

-----------------------------------------------------------------------------
(* What is proved of Sessions, for the manager on the registry itself.      *)

M == INSTANCE SessionsProofs WITH Call <- Req, asker <- Asker, outcome <- Outcome

(* S and M instantiate the same definitions with the same values.           *)
LEMMA SameInit == S!Init => M!Init
  BY DEF S!Init, M!Init, S!Approvals!Init, M!Approvals!Init

(* So their steps are the same, action by action.                           *)
LEMMA SameNext == [S!Next]_(S!vars) => [M!Next]_(M!vars)
  BY
  DEF S!Next, M!Next, S!vars, M!vars, S!Sweep, M!Sweep, S!Tick, M!Tick,
      S!OpensSession, M!OpensSession, S!OpenSession, M!OpenSession, S!Create,
      M!Create, S!Touch, M!Touch, S!CloseSession, M!CloseSession, S!HumanDecides,
      M!HumanDecides, S!ExecuteExpired, M!ExecuteExpired, S!Execute, M!Execute,
      S!Submit, M!Submit, S!Judge, M!Judge, S!Evaluate, M!Evaluate,
      S!EvaluateWhitelist, M!EvaluateWhitelist, S!EvaluateBlacklist,
      M!EvaluateBlacklist, S!Tier2Outcome, M!Tier2Outcome, S!FirstMatch,
      M!FirstMatch, S!Preapproved, M!Preapproved, S!Allow, M!Allow, S!Block,
      M!Block, S!Pending, M!Pending, S!AskIfGated, M!AskIfGated, S!Run, M!Run,
      S!RunRefused, M!RunRefused, S!RunOpened, M!RunOpened, S!SubmitOpened,
      M!SubmitOpened, S!GateReturns, M!GateReturns, S!DecisionArrives,
      M!DecisionArrives, S!AfterGate, M!AfterGate, S!GateFails, M!GateFails,
      S!LeaveGate, M!LeaveGate, S!RunnerReturns, M!RunnerReturns, S!RunnerFails,
      M!RunnerFails, S!Idle, M!Idle, S!Audit, M!Audit, S!MoveTo, M!MoveTo,
      S!Finish, M!Finish, S!CloseIfOneShot, M!CloseIfOneShot, S!AtCap, M!AtCap,
      S!Dispatch, M!Dispatch, S!Cleared, M!Cleared, S!Exempt, M!Exempt,
      S!sessionVars, M!sessionVars, S!callVars, M!callVars, S!approvalVars,
      M!approvalVars, S!Approvals!Ask, M!Approvals!Ask, S!Approvals!Decide,
      M!Approvals!Decide, S!Approvals!Deliver, M!Approvals!Deliver,
      S!Approvals!Expire, M!Approvals!Expire, S!Approvals!GiveUp,
      M!Approvals!GiveUp

(* The composition behaves like the manager that SessionsProofs is about.   *)
LEMMA GatedManager == GatedSpec => M!Spec
<1>1. S!Spec => M!Spec
  BY SameInit, SameNext, PTL DEF S!Spec, M!Spec
<1> QED BY <1>1, GatedRefinement, PTL DEF ImplementsSessions

(* Its invariants hold in the composition.                                  *)
LEMMA ManagerInvariants ==
  /\ M!Spec => []M!IInv
  /\ M!Spec => []M!Trails
  /\ M!Spec => []M!Obeyed
  /\ M!Spec => []M!OnlyClearedCommandsRun
  /\ M!Spec => []M!SlotsAccounted
  /\ M!Spec => []M!AuditAgrees
  /\ M!Spec => []M!ExemptionsEarned
  /\ M!Spec => []M!OneShotClosed
<1> USE GatedAssumption DEF S!Config, M!Config, M!IsFiniteSet, IsFiniteSet
<1>1. M!Spec => []M!IInv
  BY M!IInvHolds
<1>2. M!Spec => []M!Trails
  BY M!TrailsHold
<1>3. M!Spec => []M!Obeyed
  BY M!DecisionsObeyed
<1>4. M!Spec => []M!OnlyClearedCommandsRun
  BY M!OnlyClearedRun
<1>5. M!Spec => []M!SlotsAccounted
  BY M!SlotsAlwaysAccounted
<1>6. M!Spec => []M!AuditAgrees
  BY M!AuditAlwaysAgrees
<1>7. M!Spec => []M!ExemptionsEarned
  BY M!ExemptionsAlwaysEarned
<1>8. M!Spec => []M!OneShotClosed
  BY M!OneShotAlwaysClosed
<1> QED BY <1>1, <1>2, <1>3, <1>4, <1>5, <1>6, <1>7, <1>8

(* The manager's promises hold on the registry itself: its slots are        *)
(* counted, its trail tells each call's story, exemptions stay in their     *)
(* session, run() leaves none behind, and only cleared commands run.        *)
THEOREM GatedKeepsManager ==
  GatedSpec => [](/\ M!SlotsAccounted /\ M!AuditAgrees /\ M!ExemptionsEarned
                  /\ M!OneShotClosed /\ M!OnlyClearedCommandsRun)
  BY GatedManager, ManagerInvariants, PTL

(* What the registry holds of a request, and what the manager makes of it.  *)
LEMMA RequestOutcome ==
  ASSUME IInv, NEW c \in Req
  PROVE  /\ Approves(c) => Outcome[c] = "approved" /\ Asker[c] # "idle"
         /\ Denies(c) => Outcome[c] = "denied" /\ Asker[c] # "idle"
         /\ phase[c] = "returned" <=> Asker[c] = "answered"
         /\ phase[c] = "returned" /\ accepted[c] = <<>> => Outcome[c] = "auto_denied"
         /\ Outcome[c] = "approved" => Approves(c)
<1>1. /\ Carried(c) /\ Placed(c)
      /\ phase[c] \in Phase /\ state[c] \in ApprovalState
      /\ accepted[c] \in Seq(Resolver \X BOOLEAN)
  BY DEF IInv, TypeOK
<1>2. Outcome[c] = IF state[c] = "pending" THEN "none" ELSE state[c]
  BY DEF Outcome
<1>3. /\ Asker[c] = "idle" <=> phase[c] = "idle"
      /\ Asker[c] = "answered" <=> phase[c] = "returned"
  BY <1>1 DEF Asker, AskerOf, Phase
<1>4. accepted[c] # <<>> =>
        /\ accepted[c][1][2] \in BOOLEAN
        /\ state[c] = Verdict(accepted[c][1][2])
        /\ phase[c] # "idle"
  BY <1>1 DEF Carried, Placed, Verdict
<1>5. accepted[c] = <<>> => state[c] \in {"pending", "auto_denied"}
  BY <1>1 DEF Carried
<1>6. phase[c] = "returned" => state[c] # "pending"
  BY <1>1 DEF Placed
<1> QED
  BY <1>2, <1>3, <1>4, <1>5, <1>6 DEF Approves, Denies, Verdict

(* What an approver was told is what happens: whatever the other calls, the *)
(* other approvers, the clock and the auto-decider do meanwhile.            *)
THEOREM AnswerIsObeyedHolds == GatedSpec => []AnswerIsObeyed
<1>1. IInv /\ M!IInv /\ M!Trails /\ M!Obeyed => AnswerIsObeyed
  <2> SUFFICES ASSUME IInv, M!IInv, M!Trails, M!Obeyed, NEW c \in Req
               PROVE  /\ Approves(c) => result[c] \in {"none", "executed", "queued", "error"}
                      /\ Denies(c) => pc[c] # "running"
                                      /\ result[c] \in {"none", "denied", "error"}
                      /\ phase[c] = "returned" /\ accepted[c] = <<>> =>
                           result[c] = "auto_denied"
    BY DEF AnswerIsObeyed
  <2>1. /\ Asker[c] \in {"idle", "open", "answered", "gone"}
        /\ pc[c] = "done" <=> result[c] # "none"
        /\ pc[c] = "gating" <=> Asker[c] = "open"
    BY DEF M!IInv, M!TypeOK, M!Standing, M!CallStands
  <2>2. Asker[c] = "gone" => result[c] = "error"
    BY DEF M!Trails, M!TrailTells
  <2>3. Asker[c] = "answered" =>
          IF Outcome[c] = "approved"
          THEN result[c] \in {"none", "executed", "queued", "error"}
          ELSE pc[c] = "done" /\ result[c] = Outcome[c]
    BY DEF M!Obeyed, M!Obeys
  <2> QED BY <2>1, <2>2, <2>3, RequestOutcome
<1> QED BY <1>1, GatedIInv, GatedManager, ManagerInvariants, PTL

(* Behind every risky command that runs there is the opener's pre-approval  *)
(* or an answer that an approver was told counts, for the same pattern in   *)
(* the same session.                                                        *)
THEOREM RiskIsAnsweredHolds == GatedSpec => []RiskIsAnswered
<1>1. IInv /\ M!OnlyClearedCommandsRun => RiskIsAnswered
  <2> SUFFICES ASSUME IInv, M!OnlyClearedCommandsRun, NEW c \in Req,
                      pc[c] = "running" \/ result[c] = "executed"
               PROVE  LET risk == S!FirstMatch(command[c], Policy.tier2)
                      IN  \/ risk = NoPattern
                          \/ S!Preapproved(risk, allowed[session[c]])
                          \/ \E d \in Req :
                               /\ session[d] = session[c] /\ matched[d] = risk
                               /\ phase[d] = "returned" /\ Approves(d)
    BY DEF RiskIsAnswered
  <2> DEFINE risk == M!FirstMatch(command[c], Policy.tier2)
  <2>1. risk = S!FirstMatch(command[c], Policy.tier2)
    BY DEF S!FirstMatch, M!FirstMatch
  <2>2. \/ risk = NoPattern
        \/ M!Preapproved(risk, allowed[session[c]])
        \/ \E d \in M!ApprovedCalls(session[c]) : matched[d] = risk
    BY DEF M!OnlyClearedCommandsRun
  <2> HIDE DEF risk
  <2>3. ASSUME NEW d \in M!ApprovedCalls(session[c])
        PROVE  d \in Req /\ session[d] = session[c] /\ phase[d] = "returned" /\ Approves(d)
    BY <2>3, RequestOutcome DEF M!ApprovedCalls
  <2> QED BY <2>1, <2>2, <2>3 DEF S!Preapproved, M!Preapproved
<1> QED BY <1>1, GatedIInv, GatedManager, ManagerInvariants, PTL
=============================================================================
