--------------------------- MODULE SessionsProofs ---------------------------
(***************************************************************************)
(* The session manager for any number of sessions, calls and slots: where a *)
(* call's coroutine stands decides what it holds (a session, a question, a  *)
(* slot, records on the trail), and from that the cap, the exemptions, the  *)
(* policy, the audit trail and the life of a session follow one by one.     *)
(***************************************************************************)
EXTENDS Sessions, SecurityPolicyProofs, FiniteSetTheorems

-----------------------------------------------------------------------------
(* Where a call stands, and what that says of it.                           *)

CallStands(c) ==
  /\ pc[c] = "idle" => c \notin oneShot
  /\ pc[c] \in {"idle", "opening"} => session[c] = NoSession /\ asker[c] = "idle"
  /\ pc[c] \in {"opening", "gating", "running"} => command[c] \in Command
  /\ pc[c] \in {"gating", "running"} => session[c] \in opened
  /\ session[c] \in opened \cup {NoSession}
  /\ pc[c] = "done" <=> result[c] # "none"
  /\ pc[c] = "gating" <=> asker[c] = "open"
  /\ asker[c] = "answered" => session[c] \in opened /\ outcome[c] # "none"

PassedGate(m) ==
  /\ FirstMatch(m, Policy.tier1) = NoPattern
  /\ Policy.mode = "whitelist" => FirstMatch(m, Policy.whitelist) # NoPattern

(* A call that waits for approval waits for the first risky pattern.        *)
CallWaits(c) ==
  pc[c] = "gating" =>
    /\ PassedGate(command[c])
    /\ matched[c] = FirstMatch(command[c], Policy.tier2)
    /\ matched[c] # NoPattern

Standing == \A c \in Call : CallStands(c) /\ CallWaits(c)

IInv == TypeOK /\ Standing /\ SlotsAccounted

(* Every call but c is left as it was.                                      *)
OnlyCall(c) ==
  \A d \in Call \ {c} :
    /\ pc'[d] = pc[d] /\ session'[d] = session[d] /\ command'[d] = command[d]
    /\ matched'[d] = matched[d] /\ result'[d] = result[d] /\ trail'[d] = trail[d]
    /\ asker'[d] = asker[d] /\ outcome'[d] = outcome[d]
    /\ d \in oneShot' <=> d \in oneShot

(* What stood, stands for every call that a step leaves as it was.          *)
LEMMA OthersStand ==
  ASSUME Standing, NEW c \in Call, OnlyCall(c), opened \subseteq opened',
         CallStands(c)', CallWaits(c)'
  PROVE  Standing'
<1>1. ASSUME NEW d \in Call \ {c} PROVE CallStands(d)'
  BY <1>1 DEF Standing, CallStands, OnlyCall
<1>2. ASSUME NEW d \in Call \ {c} PROVE CallWaits(d)'
  BY <1>2 DEF Standing, CallWaits, PassedGate, OnlyCall
<1> QED BY <1>1, <1>2 DEF Standing

(* The policy that the manager was given holds lists of patterns.           *)
LEMMA PolicyLists == HasPatternLists(Policy)
  BY SessionsAssumption DEF Config, HasPatternLists

Judged(c, s, m, preapproved) == Judge(c, s, m, preapproved) /\ AskIfGated(c)

(* What execute() does up to its first await, by the verdict.               *)
LEMMA JudgeBranches ==
  ASSUME IInv, NEW c \in Call, NEW s, NEW m, NEW preapproved, Judged(c, s, m, preapproved)
  PROVE  LET risk == FirstMatch(m, Policy.tier2)
         IN  /\ session' = [session EXCEPT ![c] = s]
             /\ command' = [command EXCEPT ![c] = m]
             /\ \E p \in Pattern \cup {NoPattern} :
                  matched' = [matched EXCEPT ![c] = p]
             /\ last' = [last EXCEPT ![s] = now]
             /\ \/ /\ pc' = [pc EXCEPT ![c] = "done"]
                   /\ result' = [result EXCEPT ![c] = "blocked"]
                   /\ trail' = [trail EXCEPT ![c] = @ \o <<"blocked">>]
                   /\ UNCHANGED <<inflight, asker, outcome>>
                \/ /\ PassedGate(m) /\ risk # NoPattern
                   /\ matched' = [matched EXCEPT ![c] = risk]
                   /\ pc' = [pc EXCEPT ![c] = "gating"]
                   /\ result' = result
                   /\ trail' = [trail EXCEPT ![c] = @ \o <<"pending_approval">>]
                   /\ asker[c] = "idle" /\ asker' = [asker EXCEPT ![c] = "open"]
                   /\ UNCHANGED <<inflight, outcome>>
                \/ /\ PassedGate(m)
                   /\ risk = NoPattern \/ risk \in exempt[s] \/ Preapproved(risk, preapproved)
                   /\ Dispatch(c)
                   /\ UNCHANGED <<trail, asker, outcome>>
<1> DEFINE verdict == Evaluate(Policy, m, exempt[s], preapproved)
<1>1. /\ verdict.matched \in Pattern \cup {NoPattern}
      /\ verdict.decision # "block" => PassedGate(m)
      /\ verdict.decision = "pending_approval" =>
           /\ verdict.matched = FirstMatch(m, Policy.tier2)
           /\ FirstMatch(m, Policy.tier2) # NoPattern
      /\ verdict.decision = "allow" =>
           LET risk == FirstMatch(m, Policy.tier2)
           IN  risk = NoPattern \/ risk \in exempt[s] \/ Preapproved(risk, preapproved)
  BY PolicyLists, EvaluateDecides DEF PassedGate, Pending
<1> HIDE DEF verdict
<1>2. /\ session' = [session EXCEPT ![c] = s]
      /\ command' = [command EXCEPT ![c] = m]
      /\ matched' = [matched EXCEPT ![c] = verdict.matched]
      /\ last' = [last EXCEPT ![s] = now]
  BY DEF Judged, Judge, Touch, verdict
<1>3. /\ pc' = [pc EXCEPT ![c] = "gating"] => Approvals!Ask(c)
      /\ \/ pc' = [pc EXCEPT ![c] = "done"] \/ pc' = [pc EXCEPT ![c] = "running"]
         => UNCHANGED <<asker, outcome>>
  BY DEF IInv, TypeOK, Judged, AskIfGated, approvalVars
<1>4. CASE verdict.decision = "block"
  BY <1>1, <1>2, <1>3, <1>4 DEF Judged, Judge, Finish, Audit, verdict
<1>5. CASE verdict.decision = "pending_approval"
  BY <1>1, <1>2, <1>3, <1>5 DEF Judged, Judge, MoveTo, Audit, Approvals!Ask, verdict
<1>6. CASE verdict.decision = "allow"
  <2>1. Dispatch(c) /\ UNCHANGED trail
    BY <1>6 DEF Judged, Judge, verdict
  <2>2. UNCHANGED <<asker, outcome>>
    BY <1>3, <2>1 DEF Dispatch, Finish, MoveTo
  <2> QED BY <1>1, <1>2, <1>6, <2>1, <2>2
<1> QED BY <1>4, <1>5, <1>6 DEF Judged, Judge, verdict

(* Judging a call gives it a session and moves it to one of its next        *)
(* control points.                                                          *)
LEMMA JudgeStands ==
  ASSUME IInv, NEW c \in Call, NEW s \in Session, NEW m \in Command, NEW preapproved,
         Judged(c, s, m, preapproved), pc[c] \in {"idle", "opening"},
         s \in opened', opened \subseteq opened', oneShot' = oneShot
  PROVE  /\ Standing' /\ OnlyCall(c)
         /\ inflight' \in Nat
         /\ last' \in [Session -> 0..MaxTime]
         /\ pc' \in [Call -> {"idle", "opening", "gating", "running", "done"}]
         /\ session' \in [Call -> Session \cup {NoSession}]
         /\ command' \in [Call -> Command \cup {NoCommand}]
         /\ matched' \in [Call -> Pattern \cup {NoPattern}]
         /\ result' \in [Call -> Result]
         /\ trail' \in [Call -> Seq(AuditOutcome)]
         /\ asker' \in [Call -> {"idle", "open", "answered", "gone"}]
         /\ outcome' \in [Call -> {"none", "approved", "denied", "auto_denied"}]
<1>1. TypeOK /\ CallStands(c) /\ oneShot' = oneShot
  BY DEF IInv, Standing
<1>2. /\ session' = [session EXCEPT ![c] = s] /\ command' = [command EXCEPT ![c] = m]
      /\ last' = [last EXCEPT ![s] = now]
      /\ session' \in [Call -> Session \cup {NoSession}]
      /\ command' \in [Call -> Command \cup {NoCommand}]
      /\ matched' \in [Call -> Pattern \cup {NoPattern}]
      /\ last' \in [Session -> 0..MaxTime]
      /\ \A d \in Call \ {c} : matched'[d] = matched[d]
  <2>1. PICK p \in Pattern \cup {NoPattern} : matched' = [matched EXCEPT ![c] = p]
    BY JudgeBranches
  <2>2. /\ session' = [session EXCEPT ![c] = s] /\ command' = [command EXCEPT ![c] = m]
        /\ last' = [last EXCEPT ![s] = now]
    BY JudgeBranches
  <2> QED BY <1>1, <2>1, <2>2 DEF TypeOK
<1>3. /\ session'[c] = s /\ command'[c] = m
      /\ \A d \in Call \ {c} : session'[d] = session[d] /\ command'[d] = command[d]
  BY <1>1, <1>2 DEF TypeOK
<1>4. CASE /\ pc' = [pc EXCEPT ![c] = "done"]
           /\ result' = [result EXCEPT ![c] = "blocked"]
           /\ trail' = [trail EXCEPT ![c] = @ \o <<"blocked">>]
           /\ UNCHANGED <<inflight, asker, outcome>>
  <2>1. /\ pc' \in [Call -> {"idle", "opening", "gating", "running", "done"}]
        /\ result' \in [Call -> Result]
        /\ trail' \in [Call -> Seq(AuditOutcome)]
    BY <1>1, <1>4 DEF TypeOK, Result, AuditOutcome
  <2>2. OnlyCall(c)
    BY <1>1, <1>2, <1>3, <1>4 DEF TypeOK, OnlyCall
  <2>3. CallStands(c)' /\ CallWaits(c)'
    BY <1>1, <1>3, <1>4 DEF TypeOK, CallStands, CallWaits
  <2> QED BY <1>1, <1>2, <1>4, <2>1, <2>2, <2>3, OthersStand DEF IInv, TypeOK
<1>5. CASE /\ PassedGate(m) /\ FirstMatch(m, Policy.tier2) # NoPattern
           /\ matched' = [matched EXCEPT ![c] = FirstMatch(m, Policy.tier2)]
           /\ pc' = [pc EXCEPT ![c] = "gating"]
           /\ result' = result
           /\ trail' = [trail EXCEPT ![c] = @ \o <<"pending_approval">>]
           /\ asker[c] = "idle" /\ asker' = [asker EXCEPT ![c] = "open"]
           /\ UNCHANGED <<inflight, outcome>>
  <2>1. /\ pc' \in [Call -> {"idle", "opening", "gating", "running", "done"}]
        /\ asker' \in [Call -> {"idle", "open", "answered", "gone"}]
        /\ trail' \in [Call -> Seq(AuditOutcome)]
    BY <1>1, <1>5 DEF TypeOK, AuditOutcome
  <2>2. OnlyCall(c)
    BY <1>1, <1>2, <1>3, <1>5 DEF TypeOK, OnlyCall
  <2>3. CallStands(c)'
    BY <1>1, <1>3, <1>5 DEF TypeOK, CallStands
  <2>4. CallWaits(c)'
    BY <1>1, <1>3, <1>5 DEF TypeOK, CallWaits, PassedGate
  <2> QED BY <1>1, <1>2, <1>5, <2>1, <2>2, <2>3, <2>4, OthersStand DEF IInv, TypeOK
<1>6. CASE Dispatch(c) /\ UNCHANGED <<trail, asker, outcome>>
  <2>1. /\ inflight' \in Nat
        /\ pc' \in [Call -> {"idle", "opening", "gating", "running", "done"}]
        /\ result' \in [Call -> Result]
    <3>1. CASE Finish(c, "queued") /\ UNCHANGED inflight
      BY <1>1, <3>1 DEF TypeOK, Result, Finish
    <3>2. CASE MoveTo(c, "running") /\ inflight' = inflight + 1
      BY <1>1, <3>2 DEF TypeOK, MoveTo
    <3> QED BY <1>6, <3>1, <3>2 DEF Dispatch
  <2>2. OnlyCall(c)
    BY <1>1, <1>2, <1>3, <1>6 DEF TypeOK, OnlyCall, Dispatch, Finish, MoveTo
  <2>3. CallStands(c)' /\ CallWaits(c)'
    BY <1>1, <1>3, <1>6 DEF TypeOK, CallStands, CallWaits, Dispatch, Finish, MoveTo
  <2> QED BY <1>1, <1>2, <1>6, <2>1, <2>2, <2>3, OthersStand DEF IInv, TypeOK
<1> QED BY <1>4, <1>5, <1>6, JudgeBranches

(* A decision, however it comes, is one of three, and settles the question. *)
LEMMA GateAnswers ==
  ASSUME IInv, NEW c \in Call, GateReturns(c)
  PROVE  /\ session[c] \in Session /\ session[c] \in opened
         /\ matched[c] \in Pattern /\ matched[c] = FirstMatch(command[c], Policy.tier2)
         /\ PassedGate(command[c])
         /\ asker[c] = "open" /\ asker' = [asker EXCEPT ![c] = "answered"]
         /\ UNCHANGED <<now, opened, allowed, oneShot, session, command, matched>>
         /\ \E ruling \in {"approved", "denied", "auto_denied"} :
              /\ outcome' = [outcome EXCEPT ![c] = ruling]
              /\ trail' = [trail EXCEPT ![c] = @ \o <<ruling>>]
              /\ \/ /\ ruling = "approved"
                    /\ exempt' = [exempt EXCEPT ![session[c]] = @ \cup {matched[c]}]
                    /\ Dispatch(c)
                 \/ /\ ruling # "approved"
                    /\ pc' = [pc EXCEPT ![c] = "done"]
                    /\ result' = [result EXCEPT ![c] = ruling]
                    /\ UNCHANGED <<exempt, inflight>>
<1>1. TypeOK /\ CallStands(c) /\ CallWaits(c) /\ pc[c] = "gating"
  BY DEF IInv, Standing, GateReturns, AfterGate
<1>2. /\ session[c] \in Session /\ session[c] \in opened
      /\ matched[c] \in Pattern /\ matched[c] = FirstMatch(command[c], Policy.tier2)
      /\ PassedGate(command[c])
  BY <1>1, SessionsAssumption DEF TypeOK, CallStands, CallWaits
<1>3. /\ asker[c] = "open" /\ asker' = [asker EXCEPT ![c] = "answered"]
      /\ outcome'[c] \in {"approved", "denied", "auto_denied"}
      /\ outcome' = [outcome EXCEPT ![c] = outcome'[c]]
  BY <1>1
  DEF GateReturns, DecisionArrives, Approvals!Deliver, Approvals!Expire, TypeOK
<1> QED
  BY <1>2, <1>3 DEF GateReturns, AfterGate, Audit, Cleared, Exempt, Finish

(* A call that comes back from the gate, whatever the verdict, keeps its    *)
(* standing, and no other call moves.                                       *)
LEMMA GateStands ==
  ASSUME IInv, NEW c \in Call, GateReturns(c)
  PROVE  Standing' /\ TypeOK' /\ OnlyCall(c)
<1>1. TypeOK /\ CallStands(c)
  BY DEF IInv, Standing
<1>2. /\ session[c] \in Session /\ session[c] \in opened /\ matched[c] \in Pattern
      /\ asker' = [asker EXCEPT ![c] = "answered"]
      /\ UNCHANGED <<now, opened, allowed, oneShot, session, command, matched>>
  BY GateAnswers
<1>3. PICK ruling \in {"approved", "denied", "auto_denied"} :
        /\ outcome' = [outcome EXCEPT ![c] = ruling]
        /\ trail' = [trail EXCEPT ![c] = @ \o <<ruling>>]
        /\ \/ /\ ruling = "approved"
              /\ exempt' = [exempt EXCEPT ![session[c]] = @ \cup {matched[c]}]
              /\ Dispatch(c)
           \/ /\ ruling # "approved"
              /\ pc' = [pc EXCEPT ![c] = "done"]
              /\ result' = [result EXCEPT ![c] = ruling]
              /\ UNCHANGED <<exempt, inflight>>
  BY GateAnswers
<1>4. /\ asker' \in [Call -> {"idle", "open", "answered", "gone"}]
      /\ outcome' \in [Call -> {"none", "approved", "denied", "auto_denied"}]
  BY <1>1, <1>2, <1>3 DEF TypeOK
<1>5. exempt' \in [Session -> SUBSET Pattern]
  <2>1. exempt' = exempt \/ exempt' = [exempt EXCEPT ![session[c]] = @ \cup {matched[c]}]
    BY <1>3, Zenon
  <2>2. exempt \in [Session -> SUBSET Pattern]
    BY <1>1 DEF TypeOK
  <2>3. session[c] \in Session /\ matched[c] \in Pattern
    BY <1>2
  <2> QED BY <2>1, <2>2, <2>3
<1>6. trail' \in [Call -> Seq(AuditOutcome)]
  BY <1>1, <1>3 DEF TypeOK, AuditOutcome
<1>7. live' \subseteq opened' /\ last' \in [Session -> 0..MaxTime]
  BY <1>1, <1>2 DEF TypeOK, GateReturns, AfterGate, CloseIfOneShot, Touch
<1>8. /\ pc' \in [Call -> {"idle", "opening", "gating", "running", "done"}]
      /\ result' \in [Call -> Result]
      /\ inflight' \in Nat
  <2>1. CASE Finish(c, "queued") /\ UNCHANGED inflight
    BY <1>1, <2>1 DEF TypeOK, Result, Finish
  <2>2. CASE MoveTo(c, "running") /\ inflight' = inflight + 1
    BY <1>1, <2>2 DEF TypeOK, MoveTo
  <2>3. CASE /\ ruling # "approved"
             /\ pc' = [pc EXCEPT ![c] = "done"]
             /\ result' = [result EXCEPT ![c] = ruling]
             /\ UNCHANGED <<exempt, inflight>>
    BY <1>1, <2>3 DEF TypeOK, Result
  <2> QED BY <1>3, <2>1, <2>2, <2>3 DEF Dispatch
<1>9. \/ pc' = [pc EXCEPT ![c] = "done"] /\ result'[c] # "none"
         /\ \A d \in Call \ {c} : result'[d] = result[d]
      \/ pc' = [pc EXCEPT ![c] = "running"] /\ result' = result
  BY <1>1, <1>3 DEF Dispatch, Finish, MoveTo, TypeOK
<1>10. OnlyCall(c)
  BY <1>1, <1>2, <1>3, <1>9 DEF TypeOK, OnlyCall
<1>11. CallStands(c)' /\ CallWaits(c)'
  BY <1>1, <1>2, <1>3, <1>9 DEF TypeOK, CallStands, CallWaits, GateReturns, AfterGate
<1> QED
  BY <1>1, <1>2, <1>4, <1>5, <1>6, <1>7, <1>8, <1>10, <1>11, OthersStand DEF IInv, TypeOK

(* A call that ends without a decision of its own: it is done, and its      *)
(* session, if it has one, is still a session.                              *)
LEMMA EndStands ==
  ASSUME IInv, NEW c \in Call, NEW how \in Result \ {"none"}, Finish(c, how),
         opened' = opened, oneShot' = oneShot, matched' = matched,
         session' \in [Call -> Session \cup {NoSession}], session'[c] \in opened \cup {NoSession},
         command' \in [Call -> Command \cup {NoCommand}],
         \A d \in Call \ {c} : session'[d] = session[d] /\ command'[d] = command[d],
         \/ asker[c] # "open" /\ asker' = asker /\ session'[c] = session[c]
         \/ asker[c] = "idle" /\ asker' = asker
         \/ asker' = [asker EXCEPT ![c] = "gone"],
         outcome' = outcome,
         trail' = trail \/ trail' = [trail EXCEPT ![c] = @ \o <<"executed">>]
  PROVE  /\ Standing' /\ OnlyCall(c)
         /\ pc' \in [Call -> {"idle", "opening", "gating", "running", "done"}]
         /\ result' \in [Call -> Result]
         /\ trail' \in [Call -> Seq(AuditOutcome)]
         /\ asker' \in [Call -> {"idle", "open", "answered", "gone"}]
<1>1. TypeOK /\ CallStands(c)
  BY DEF IInv, Standing
<1>2. /\ pc' \in [Call -> {"idle", "opening", "gating", "running", "done"}]
      /\ result' \in [Call -> Result]
      /\ asker' \in [Call -> {"idle", "open", "answered", "gone"}]
  BY <1>1 DEF TypeOK, Finish
<1>3. trail' \in [Call -> Seq(AuditOutcome)]
  <2>1. CASE trail' = [trail EXCEPT ![c] = @ \o <<"executed">>]
    BY <1>1, <2>1 DEF TypeOK, AuditOutcome
  <2> QED BY <1>1, <2>1 DEF TypeOK
<1>4. OnlyCall(c)
  BY <1>1 DEF TypeOK, OnlyCall, Finish
<1>5. CallStands(c)' /\ CallWaits(c)'
  BY <1>1 DEF TypeOK, CallStands, CallWaits, Finish
<1> QED BY <1>2, <1>3, <1>4, <1>5, OthersStand DEF IInv

(* A call that holds a slot is counted.                                     *)
LEMMA HolderIsCounted ==
  ASSUME IInv, NEW c \in Call, pc[c] = "running"
  PROVE  inflight - 1 \in Nat
<1>1. IsFiniteSet(HoldsSlot) /\ c \in HoldsSlot
  BY SessionsAssumption, FS_Subset DEF HoldsSlot
<1>2. Cardinality(HoldsSlot) # 0 /\ Cardinality(HoldsSlot) \in Nat
  BY <1>1, FS_CardinalityType, FS_EmptySet
<1> QED BY <1>2 DEF IInv, SlotsAccounted

(* At the start no session is open and no call is made.                     *)
LEMMA InitStands == Init => TypeOK /\ Standing
<1> SUFFICES ASSUME Init PROVE TypeOK /\ Standing
  OBVIOUS
<1>1. TypeOK
  BY SessionsAssumption DEF Init, TypeOK, Approvals!Init, Result
<1>2. Standing
  BY DEF Init, Standing, CallStands, CallWaits, Approvals!Init
<1> QED BY <1>1, <1>2

(* Whoever takes a step, every call and every session keeps its standing.   *)
LEMMA StepStands == IInv /\ [Next]_vars => TypeOK' /\ Standing'
<1> SUFFICES ASSUME IInv, [Next]_vars PROVE TypeOK' /\ Standing'
  OBVIOUS
<1>0. TypeOK /\ Standing
  BY DEF IInv
<1>1. CASE Sweep
  BY <1>0, <1>1 DEF Sweep, Idle, sessionVars, callVars, approvalVars, TypeOK,
                    Standing, CallStands, CallWaits, PassedGate
<1>2. CASE Tick
  BY <1>0, <1>2, SessionsAssumption
     DEF Tick, sessionVars, callVars, approvalVars, TypeOK,
         Standing, CallStands, CallWaits, PassedGate
<1>3. ASSUME NEW s \in Session, OpensSession(s) PROVE TypeOK' /\ Standing'
  <2>1. PICK preapproved \in SUBSET Pattern : OpenSession(s, preapproved)
    BY <1>3, SessionsAssumption DEF OpensSession
  <2>2. TypeOK'
    BY <1>0, <2>1 DEF OpenSession, Create, Touch, callVars, approvalVars, TypeOK
  <2>3. Standing'
    BY <1>0, <2>1 DEF OpenSession, Create, callVars, approvalVars,
                      Standing, CallStands, CallWaits, PassedGate
  <2> QED BY <2>2, <2>3 DEF IInv
<1>4. ASSUME NEW s \in Session, CloseSession(s) PROVE TypeOK' /\ Standing'
  BY <1>0, <1>4 DEF CloseSession, sessionVars, callVars, approvalVars, TypeOK,
                    Standing, CallStands, CallWaits, PassedGate
<1>5. ASSUME NEW c \in Call, NEW ruling \in {"approved", "denied"},
             HumanDecides(c, ruling)
      PROVE  TypeOK' /\ Standing'
  <2>1. TypeOK'
    BY <1>0, <1>5 DEF HumanDecides, Approvals!Decide, sessionVars, callVars, TypeOK
  <2>2. Standing'
    BY <1>0, <1>5 DEF HumanDecides, Approvals!Decide, sessionVars, callVars, TypeOK,
                      Standing, CallStands, CallWaits, PassedGate
  <2> QED BY <2>1, <2>2
<1>6. ASSUME NEW c \in Call, NEW s \in Session, NEW m \in Command, ExecuteExpired(c, s, m)
      PROVE  TypeOK' /\ Standing'
  <2>1. "session_expired" \in Result \ {"none"}
    BY DEF Result
  <2>2. CallStands(c)
    BY <1>0 DEF Standing
  <2>3. /\ Standing'
        /\ pc' \in [Call -> {"idle", "opening", "gating", "running", "done"}]
        /\ result' \in [Call -> Result]
    BY <1>0, <1>6, <2>1, <2>2, EndStands
    DEF ExecuteExpired, sessionVars, approvalVars, TypeOK, CallStands
  <2> QED BY <1>0, <1>6, <2>3 DEF ExecuteExpired, Idle, sessionVars, approvalVars, TypeOK
<1>7. ASSUME NEW c \in Call, NEW s \in Session, NEW m \in Command, Execute(c, s, m)
      PROVE  TypeOK' /\ Standing'
  <2>1. s \in opened' /\ opened \subseteq opened' /\ oneShot' = oneShot
    BY <1>0, <1>7 DEF Execute, Submit, Judged, TypeOK
  <2> QED BY <1>0, <1>7, <2>1, JudgeStands DEF Execute, Submit, Judged, Idle, TypeOK
<1>8. ASSUME NEW c \in Call, NEW m \in Command, Run(c, m) PROVE TypeOK' /\ Standing'
  <2>1. TypeOK'
    BY <1>0, <1>8 DEF Run, MoveTo, Idle, sessionVars, approvalVars, TypeOK
  <2>2. OnlyCall(c)
    BY <1>0, <1>8 DEF Run, MoveTo, sessionVars, approvalVars, TypeOK, OnlyCall
  <2>3. CallStands(c)' /\ CallWaits(c)'
    BY <1>0, <1>8 DEF Run, MoveTo, sessionVars, approvalVars, TypeOK,
                      Standing, CallStands, CallWaits
  <2> QED BY <1>0, <1>8, <2>1, <2>2, <2>3, OthersStand DEF Run, sessionVars
<1>9. ASSUME NEW c \in Call, NEW why \in {"needs_selection", "no_session", "error"},
             RunRefused(c, why)
      PROVE  TypeOK' /\ Standing'
  <2>1. why \in Result \ {"none"}
    BY DEF Result
  <2>2. CallStands(c)
    BY <1>0 DEF Standing
  <2>3. /\ Standing'
        /\ pc' \in [Call -> {"idle", "opening", "gating", "running", "done"}]
        /\ result' \in [Call -> Result]
    BY <1>0, <1>9, <2>1, <2>2, EndStands
    DEF RunRefused, sessionVars, approvalVars, TypeOK, CallStands
  <2> QED BY <1>0, <1>9, <2>3 DEF RunRefused, sessionVars, approvalVars, TypeOK
<1>10. ASSUME NEW c \in Call, NEW s \in Session, NEW preapproved \in AllowList,
              RunOpened(c, s, preapproved)
       PROVE  TypeOK' /\ Standing'
  <2>1. /\ command[c] \in Command /\ preapproved \in SUBSET Pattern
        /\ s \in opened' /\ opened \subseteq opened' /\ oneShot' = oneShot
        /\ pc[c] = "opening"
    BY <1>0, <1>10, SessionsAssumption
    DEF RunOpened, SubmitOpened, Create, Standing, CallStands
  <2>2. allowed' \in [Session -> SUBSET Pattern] /\ live' \subseteq opened'
        /\ opened' \subseteq Session
    BY <1>0, <1>10, <2>1
    DEF RunOpened, SubmitOpened, Create, CloseIfOneShot, Idle, TypeOK
  <2> QED
    BY <1>0, <1>10, <2>1, <2>2, JudgeStands DEF RunOpened, SubmitOpened, Judged, TypeOK
<1>11. ASSUME NEW c \in Call, GateReturns(c) PROVE TypeOK' /\ Standing'
  BY <1>11, GateStands
<1>12. ASSUME NEW c \in Call, GateFails(c) PROVE TypeOK' /\ Standing'
  <2>1. "error" \in Result \ {"none"}
    BY DEF Result
  <2>2. CallStands(c)
    BY <1>0 DEF Standing
  <2>3. /\ Standing'
        /\ pc' \in [Call -> {"idle", "opening", "gating", "running", "done"}]
        /\ result' \in [Call -> Result]
        /\ asker' \in [Call -> {"idle", "open", "answered", "gone"}]
    BY <1>0, <1>12, <2>1, <2>2, EndStands
    DEF GateFails, LeaveGate, Approvals!GiveUp, sessionVars, TypeOK, CallStands
  <2> QED BY <1>0, <1>12, <2>3
          DEF GateFails, LeaveGate, Approvals!GiveUp, CloseIfOneShot, sessionVars, TypeOK
<1>13. ASSUME NEW c \in Call, RunnerReturns(c) \/ RunnerFails(c) PROVE TypeOK' /\ Standing'
  <2>1. "error" \in Result \ {"none"} /\ "executed" \in Result \ {"none"}
    BY DEF Result
  <2>2. CallStands(c) /\ session[c] \in Session /\ pc[c] = "running"
    BY <1>0, <1>13, SessionsAssumption
       DEF Standing, CallStands, RunnerReturns, RunnerFails, TypeOK
  <2>3. inflight' \in Nat
    BY <1>0, <1>13, <2>2, HolderIsCounted DEF IInv, TypeOK, RunnerReturns, RunnerFails
  <2>4. last' \in [Session -> 0..MaxTime] /\ live' \subseteq opened'
    BY <1>0, <1>13, <2>2
       DEF TypeOK, RunnerReturns, RunnerFails, Touch, CloseIfOneShot, sessionVars
  <2>5. /\ Standing'
        /\ pc' \in [Call -> {"idle", "opening", "gating", "running", "done"}]
        /\ result' \in [Call -> Result]
        /\ trail' \in [Call -> Seq(AuditOutcome)]
    <3>1. CASE RunnerReturns(c)
      BY <1>0, <2>1, <2>2, <3>1, EndStands
      DEF RunnerReturns, Audit, approvalVars, TypeOK, CallStands
    <3>2. CASE RunnerFails(c)
      BY <1>0, <2>1, <2>2, <3>2, EndStands
      DEF RunnerFails, sessionVars, approvalVars, TypeOK, CallStands
    <3> QED BY <1>13, <3>1, <3>2
  <2> QED BY <1>0, <1>13, <2>3, <2>4, <2>5
          DEF RunnerReturns, RunnerFails, sessionVars, approvalVars, TypeOK
<1>14. CASE UNCHANGED vars
  BY <1>0, <1>14 DEF vars, sessionVars, callVars, approvalVars, TypeOK,
                     Standing, CallStands, CallWaits, PassedGate
<1> QED
  BY <1>1, <1>2, <1>3, <1>4, <1>5, <1>6, <1>7, <1>8, <1>9, <1>10, <1>11, <1>12, <1>13, <1>14
  DEF Next

-----------------------------------------------------------------------------
(* The slots: every step admits a call, refuses one, ends one or leaves the *)
(* three sets alone.                                                        *)

Left == {c \in Call : pc[c] = "done"}

Refused == {c \in Call : result[c] = "queued"}

SlotTaken(c) ==
  /\ c \notin HoldsSlot \cup Left /\ ~AtCap
  /\ HoldsSlot' = HoldsSlot \cup {c} /\ inflight' = inflight + 1
  /\ Left' = Left /\ Refused' = Refused

SlotRefused(c) ==
  /\ c \notin HoldsSlot \cup Left /\ AtCap
  /\ HoldsSlot' = HoldsSlot /\ inflight' = inflight
  /\ Left' = Left \cup {c} /\ Refused' = Refused \cup {c}

CallLeaves(c) ==
  /\ c \notin Left
  /\ HoldsSlot' = HoldsSlot \ {c}
  /\ inflight' = IF c \in HoldsSlot THEN inflight - 1 ELSE inflight
  /\ Left' = Left \cup {c} /\ Refused' = Refused

SlotsRest ==
  HoldsSlot' = HoldsSlot /\ inflight' = inflight /\ Left' = Left /\ Refused' = Refused

(* A dispatch takes a free slot or is refused at the cap.                   *)
LEMMA DispatchMoves ==
  ASSUME IInv, NEW c \in Call, pc[c] \notin {"running", "done"}, Dispatch(c)
  PROVE  SlotTaken(c) \/ SlotRefused(c)
<1>1. TypeOK /\ pc \in [Call -> {"idle", "opening", "gating", "running", "done"}]
      /\ result \in [Call -> Result]
  BY DEF IInv, TypeOK
<1>2. CASE AtCap /\ Finish(c, "queued") /\ UNCHANGED inflight
  BY <1>1, <1>2 DEF Finish, SlotRefused, HoldsSlot, Left, Refused
<1>3. CASE ~AtCap /\ MoveTo(c, "running") /\ inflight' = inflight + 1
  BY <1>1, <1>3 DEF MoveTo, SlotTaken, HoldsSlot, Left, Refused
<1> QED BY <1>2, <1>3 DEF Dispatch

(* A call that ends gives back the slot that it holds, if it holds one.     *)
LEMMA FinishLeaves ==
  ASSUME IInv, NEW c \in Call, pc[c] # "done", NEW how, how # "queued",
         pc' = [pc EXCEPT ![c] = "done"], result' = [result EXCEPT ![c] = how],
         inflight' = IF pc[c] = "running" THEN inflight - 1 ELSE inflight
  PROVE  CallLeaves(c)
<1>1. /\ pc \in [Call -> {"idle", "opening", "gating", "running", "done"}]
      /\ result \in [Call -> Result] /\ result[c] # "queued"
  BY DEF IInv, TypeOK, Standing, CallStands
<1> QED BY <1>1 DEF CallLeaves, HoldsSlot, Left, Refused

(* A judged call ends, waits for an approval, or is dispatched.             *)
LEMMA JudgeMoves ==
  ASSUME IInv, NEW c \in Call, NEW s, NEW m, NEW preapproved, Judged(c, s, m, preapproved),
         pc[c] \in {"idle", "opening"}
  PROVE  SlotTaken(c) \/ SlotRefused(c) \/ CallLeaves(c) \/ SlotsRest
<1>1. CASE /\ pc' = [pc EXCEPT ![c] = "done"]
           /\ result' = [result EXCEPT ![c] = "blocked"]
           /\ inflight' = inflight
  BY <1>1, FinishLeaves
<1>2. CASE /\ pc' = [pc EXCEPT ![c] = "gating"]
           /\ result' = result
           /\ inflight' = inflight
  BY <1>2 DEF IInv, TypeOK, SlotsRest, HoldsSlot, Left, Refused
<1>3. CASE Dispatch(c)
  BY <1>3, DispatchMoves
<1> QED BY <1>1, <1>2, <1>3, JudgeBranches

(* Every step takes a slot for one call, is refused one, ends one call, or  *)
(* leaves the slots alone.                                                  *)
LEMMA SlotMoves ==
  ASSUME IInv, [Next]_vars
  PROVE  \/ \E c \in Call : SlotTaken(c) \/ SlotRefused(c) \/ CallLeaves(c)
         \/ SlotsRest
<1>1. CASE UNCHANGED <<pc, result, inflight>>
  BY <1>1 DEF SlotsRest, HoldsSlot, Left, Refused
<1>2. CASE Sweep \/ Tick \/ (\E s \in Session : OpensSession(s) \/ CloseSession(s))
  BY <1>1, <1>2 DEF Sweep, Tick, OpensSession, OpenSession, CloseSession, callVars
<1>3. ASSUME NEW c \in Call, NEW ruling, HumanDecides(c, ruling) PROVE SlotsRest
  <2>1. UNCHANGED <<pc, result, inflight>>
    BY <1>3 DEF HumanDecides, callVars
  <2> QED BY <2>1 DEF SlotsRest, HoldsSlot, Left, Refused
<1>4. ASSUME NEW c \in Call, NEW s, NEW m, ExecuteExpired(c, s, m) PROVE CallLeaves(c)
  BY <1>4, FinishLeaves DEF ExecuteExpired, Finish
<1>5. ASSUME NEW c \in Call, NEW s, NEW m, Execute(c, s, m)
      PROVE  SlotTaken(c) \/ SlotRefused(c) \/ CallLeaves(c) \/ SlotsRest
  BY <1>5, JudgeMoves DEF Execute, Submit, Judged
<1>6. ASSUME NEW c \in Call, NEW m, Run(c, m) PROVE SlotsRest
  BY <1>6 DEF Run, MoveTo, IInv, TypeOK, SlotsRest, HoldsSlot, Left, Refused
<1>7. ASSUME NEW c \in Call, NEW why \in {"needs_selection", "no_session", "error"},
             RunRefused(c, why)
      PROVE  CallLeaves(c)
  BY <1>7, FinishLeaves DEF RunRefused, Finish
<1>8. ASSUME NEW c \in Call, NEW s, NEW preapproved, RunOpened(c, s, preapproved)
      PROVE  SlotTaken(c) \/ SlotRefused(c) \/ CallLeaves(c) \/ SlotsRest
  BY <1>8, JudgeMoves DEF RunOpened, SubmitOpened, Judged
<1>9. ASSUME NEW c \in Call, GateReturns(c)
      PROVE  SlotTaken(c) \/ SlotRefused(c) \/ CallLeaves(c)
  <2>1. pc[c] = "gating"
    BY <1>9 DEF GateReturns, AfterGate
  <2>2. CASE Dispatch(c)
    BY <2>1, <2>2, DispatchMoves
  <2>3. ASSUME NEW ruling \in {"approved", "denied", "auto_denied"},
               pc' = [pc EXCEPT ![c] = "done"], result' = [result EXCEPT ![c] = ruling],
               inflight' = inflight
        PROVE  CallLeaves(c)
    BY <2>1, <2>3, FinishLeaves
  <2> QED BY <1>9, <2>2, <2>3, GateAnswers
<1>10. ASSUME NEW c \in Call, GateFails(c) PROVE CallLeaves(c)
  BY <1>10, FinishLeaves DEF GateFails, LeaveGate, Finish
<1>11. ASSUME NEW c \in Call, RunnerReturns(c) \/ RunnerFails(c) PROVE CallLeaves(c)
  BY <1>11, FinishLeaves DEF RunnerReturns, RunnerFails, Finish
<1>12. CASE UNCHANGED vars
  BY <1>1, <1>12 DEF vars, callVars
<1> QED
  BY <1>2, <1>3, <1>4, <1>5, <1>6, <1>7, <1>8, <1>9, <1>10, <1>11, <1>12 DEF Next

(* So no step loses a slot or makes up one.                                 *)
LEMMA SlotsStep == IInv /\ [Next]_vars => SlotsAccounted'
<1> SUFFICES ASSUME IInv, [Next]_vars PROVE SlotsAccounted'
  OBVIOUS
<1>1. /\ IsFiniteSet(HoldsSlot) /\ Cardinality(HoldsSlot) \in Nat
      /\ inflight = Cardinality(HoldsSlot) /\ inflight <= MaxConcurrent
      /\ MaxConcurrent \in Nat
  BY SessionsAssumption, FS_Subset, FS_CardinalityType DEF IInv, SlotsAccounted, HoldsSlot
<1>2. ASSUME NEW c \in Call, SlotTaken(c) PROVE SlotsAccounted'
  <2>1. Cardinality(HoldsSlot \cup {c}) = Cardinality(HoldsSlot) + 1
    BY <1>1, <1>2, FS_AddElement DEF SlotTaken
  <2> QED BY <1>1, <1>2, <2>1 DEF SlotTaken, SlotsAccounted, AtCap
<1>3. ASSUME NEW c \in Call, CallLeaves(c) PROVE SlotsAccounted'
  <2>1. Cardinality(HoldsSlot \ {c})
          = IF c \in HoldsSlot THEN Cardinality(HoldsSlot) - 1 ELSE Cardinality(HoldsSlot)
    BY <1>1, FS_RemoveElement
  <2> QED BY <1>1, <1>3, <2>1 DEF CallLeaves, SlotsAccounted
<1> QED BY <1>1, <1>2, <1>3, SlotMoves DEF SlotRefused, SlotsRest, SlotsAccounted

(* At the start every slot is free.                                         *)
LEMMA InitSlots == Init => SlotsAccounted
<1>1. ASSUME Init PROVE HoldsSlot = {} /\ inflight = 0
  BY <1>1 DEF Init, HoldsSlot
<1>2. Cardinality({}) = 0 /\ MaxConcurrent \in Nat
  BY FS_EmptySet, SessionsAssumption
<1> QED BY <1>1, <1>2 DEF SlotsAccounted

(* Every call and session stands as it should and every slot is accounted   *)
(* for: the invariant that the theorems below rest on.                      *)
THEOREM IInvHolds == Spec => []IInv
<1>1. Init => IInv
  BY InitStands, InitSlots DEF IInv
<1>2. IInv /\ [Next]_vars => IInv'
  BY StepStands, SlotsStep DEF IInv
<1> QED BY <1>1, <1>2, PTL DEF Spec

(* Every variable keeps its type.                                           *)
THEOREM TypeCorrect == Spec => []TypeOK
<1>1. IInv => TypeOK
  BY DEF IInv
<1> QED BY <1>1, IInvHolds, PTL

(* The counter of in-flight jobs is the number of calls that hold a slot,   *)
(* on every way out, and never exceeds the cap.                             *)
THEOREM SlotsAlwaysAccounted == Spec => []SlotsAccounted
<1>1. IInv => SlotsAccounted
  BY DEF IInv
<1> QED BY <1>1, IInvHolds, PTL

(* Seen from the cap, the manager is a pool of slots.                       *)
THEOREM PoolRefinement == Spec => ImplementsSlotPool
<1>1. Init => Pool!Init
  BY DEF Init, Pool!Init, HoldsSlot
<1>2. IInv /\ [Next]_vars => [Pool!Next]_(Pool!pool)
  <2> SUFFICES ASSUME IInv, [Next]_vars PROVE [Pool!Next]_(Pool!pool)
    OBVIOUS
  <2>1. Pool!Free <=> ~AtCap
    <3>1. inflight = Cardinality(HoldsSlot) /\ inflight \in Nat /\ MaxConcurrent \in Nat
      BY SessionsAssumption DEF IInv, SlotsAccounted, TypeOK
    <3>2. Pool!Cardinality(HoldsSlot) = Cardinality(HoldsSlot)
      BY DEF Pool!Cardinality, Cardinality
    <3> QED BY <3>1, <3>2 DEF Pool!Free, AtCap
  <2>2. ASSUME NEW c \in Call, SlotTaken(c) PROVE Pool!Admit(c)
    BY <2>1, <2>2 DEF SlotTaken, Left, Refused, Pool!Admit, Pool!Outside
  <2>3. ASSUME NEW c \in Call, SlotRefused(c) PROVE Pool!Refuse(c)
    BY <2>1, <2>3 DEF SlotRefused, Left, Refused, Pool!Refuse, Pool!Outside
  <2>4. ASSUME NEW c \in Call, CallLeaves(c) PROVE Pool!Leave({c})
    BY <2>4 DEF CallLeaves, Left, Refused, Pool!Leave
  <2>5. CASE SlotsRest
    BY <2>5 DEF SlotsRest, Left, Refused, Pool!pool
  <2>6. \A c \in Call : {c} \in SUBSET Call
    OBVIOUS
  <2> QED BY <2>2, <2>3, <2>4, <2>5, <2>6, SlotMoves DEF Pool!Next
<1> QED BY <1>1, <1>2, IInvHolds, PTL DEF Spec, ImplementsSlotPool, Pool!Spec

-----------------------------------------------------------------------------
(* The audit trail: what it holds follows from the question and the result. *)

TrailTells(c) ==
  /\ asker[c] = "idle" =>
       trail[c] = IF result[c] \in {"blocked", "executed"} THEN <<result[c]>> ELSE <<>>
  /\ asker[c] = "open" => trail[c] = <<"pending_approval">>
  /\ asker[c] = "gone" => result[c] = "error" /\ trail[c] = <<"pending_approval">>
  /\ asker[c] = "answered" =>
       /\ result[c] # "blocked"
       /\ trail[c] = IF result[c] = "executed"
                     THEN <<"pending_approval", outcome[c], "executed">>
                     ELSE <<"pending_approval", outcome[c]>>

Trails == \A c \in Call : TrailTells(c)

(* A step of one call leaves the other calls' stories as they are.          *)
LEMMA OthersTell ==
  ASSUME Trails, NEW c \in Call, OnlyCall(c), TrailTells(c)'
  PROVE  Trails'
  BY DEF Trails, TrailTells, OnlyCall

(* Records are added to a page that is empty or holds one or two.           *)
LEMMA OneMore ==
  ASSUME NEW S, NEW o \in S, NEW p \in S, NEW q \in S
  PROVE  /\ <<>> \o <<o>> = <<o>>
         /\ <<o>> \o <<p>> = <<o, p>>
         /\ <<o, p>> \o <<q>> = <<o, p, q>>
<1>1. \A t \in Seq(S), r \in S :
        /\ t \o <<r>> \in Seq(S) /\ Len(t \o <<r>>) = Len(t) + 1
        /\ (t \o <<r>>)[Len(t) + 1] = r
        /\ \A i \in 1..Len(t) : (t \o <<r>>)[i] = t[i]
  OBVIOUS
<1>2. <<>> \o <<o>> = <<o>>
  OBVIOUS
<1>3. <<o>> \o <<p>> = <<o, p>>
  <2> DEFINE page == <<o>> \o <<p>>
  <2>1. <<o>> \in Seq(S) /\ Len(<<o>>) = 1 /\ <<o>>[1] = o
    OBVIOUS
  <2>2. page \in Seq(S) /\ Len(page) = 2 /\ page[1] = o /\ page[2] = p
    BY <1>1, <2>1
  <2> HIDE DEF page
  <2>3. page = <<o, p>>
    BY <2>2
  <2> QED BY <2>3 DEF page
<1>4. <<o, p>> \o <<q>> = <<o, p, q>>
  <2> DEFINE page == <<o, p>> \o <<q>>
  <2>1. <<o, p>> \in Seq(S) /\ Len(<<o, p>>) = 2 /\ <<o, p>>[1] = o /\ <<o, p>>[2] = p
    OBVIOUS
  <2>2. page \in Seq(S) /\ Len(page) = 3 /\ page[1] = o /\ page[2] = p /\ page[3] = q
    BY <1>1, <2>1
  <2> HIDE DEF page
  <2>3. page = <<o, p, q>>
    BY <2>2
  <2> QED BY <2>3 DEF page
<1> QED BY <1>2, <1>3, <1>4

(* What the first step of execute() writes down, on an empty page.          *)
LEMMA JudgeTells ==
  ASSUME IInv, Trails, NEW c \in Call, NEW s, NEW m, NEW preapproved,
         Judged(c, s, m, preapproved), pc[c] \in {"idle", "opening"}
  PROVE  TrailTells(c)'
<1>1. /\ asker[c] = "idle" /\ result[c] = "none" /\ trail[c] = <<>>
      /\ result \in [Call -> Result] /\ trail \in [Call -> Seq(AuditOutcome)]
      /\ asker \in [Call -> {"idle", "open", "answered", "gone"}]
  BY DEF IInv, TypeOK, Standing, CallStands, Trails, TrailTells
<1>2. CASE /\ result' = [result EXCEPT ![c] = "blocked"]
           /\ trail' = [trail EXCEPT ![c] = @ \o <<"blocked">>]
           /\ UNCHANGED <<asker, outcome>>
  <2>1. trail'[c] = <<"blocked">>
    BY <1>1, <1>2
  <2> QED BY <1>1, <1>2, <2>1 DEF TrailTells
<1>3. CASE /\ result' = result
           /\ trail' = [trail EXCEPT ![c] = @ \o <<"pending_approval">>]
           /\ asker' = [asker EXCEPT ![c] = "open"]
  <2>1. trail'[c] = <<"pending_approval">>
    BY <1>1, <1>3
  <2> QED BY <1>1, <1>3, <2>1 DEF TrailTells
<1>4. CASE Dispatch(c) /\ UNCHANGED <<trail, asker, outcome>>
  BY <1>1, <1>4 DEF TrailTells, Dispatch, Finish, MoveTo
<1> QED BY <1>2, <1>3, <1>4, JudgeBranches


(* Every step writes what belongs to the call that took it.                 *)
LEMMA TrailsStep ==
  ASSUME IInv, Trails, [Next]_vars
  PROVE  Trails'
<1>0. TypeOK /\ Standing
  BY DEF IInv
<1>1. CASE UNCHANGED <<callVars, asker>> /\ UNCHANGED outcome
  BY <1>1 DEF Trails, TrailTells, callVars
<1>2. CASE Sweep \/ Tick \/ (\E s \in Session : OpensSession(s) \/ CloseSession(s))
  BY <1>1, <1>2 DEF Sweep, Tick, OpensSession, OpenSession, CloseSession, approvalVars
<1>3. ASSUME NEW c \in Call, NEW ruling, HumanDecides(c, ruling) PROVE Trails'
  BY <1>0, <1>3 DEF HumanDecides, Approvals!Decide, callVars, Trails, TrailTells, TypeOK
<1>4. ASSUME NEW c \in Call, NEW s, NEW m, ExecuteExpired(c, s, m) PROVE Trails'
  <2>1. OnlyCall(c)
    BY <1>0, <1>4 DEF ExecuteExpired, Finish, approvalVars, TypeOK, OnlyCall
  <2>2. TrailTells(c)'
    BY <1>0, <1>4 DEF ExecuteExpired, Finish, approvalVars, TypeOK, Standing, CallStands,
                      Trails, TrailTells
  <2> QED BY <2>1, <2>2, OthersTell
<1>5. ASSUME NEW c \in Call, NEW s \in Session, NEW m \in Command, Execute(c, s, m)
      PROVE  Trails'
  <2>1. s \in opened' /\ opened \subseteq opened' /\ oneShot' = oneShot
    BY <1>0, <1>5 DEF Execute, Submit, Judged, TypeOK
  <2> QED BY <1>5, <2>1, JudgeStands, JudgeTells, OthersTell DEF Execute, Submit, Judged
<1>6. ASSUME NEW c \in Call, NEW m, Run(c, m) PROVE Trails'
  BY <1>0, <1>6 DEF Run, MoveTo, approvalVars, Trails, TrailTells
<1>7. ASSUME NEW c \in Call, NEW why \in {"needs_selection", "no_session", "error"},
             RunRefused(c, why)
      PROVE  Trails'
  <2>1. OnlyCall(c)
    BY <1>0, <1>7 DEF RunRefused, Finish, approvalVars, TypeOK, OnlyCall
  <2>2. TrailTells(c)'
    BY <1>0, <1>7 DEF RunRefused, Finish, approvalVars, TypeOK, Standing, CallStands,
                      Trails, TrailTells
  <2> QED BY <2>1, <2>2, OthersTell
<1>8. ASSUME NEW c \in Call, NEW s \in Session, NEW preapproved \in AllowList,
             RunOpened(c, s, preapproved)
      PROVE  Trails'
  <2>1. /\ command[c] \in Command
        /\ s \in opened' /\ opened \subseteq opened' /\ oneShot' = oneShot
    BY <1>0, <1>8 DEF RunOpened, SubmitOpened, Judged, Create, Standing, CallStands
  <2> QED
    BY <1>8, <2>1, JudgeStands, JudgeTells, OthersTell DEF RunOpened, SubmitOpened, Judged
<1>9. ASSUME NEW c \in Call, GateReturns(c) PROVE Trails'
  <2>1. /\ asker[c] = "open" /\ asker' = [asker EXCEPT ![c] = "answered"]
        /\ pc[c] = "gating" /\ result[c] = "none"
    BY <1>0, <1>9, GateAnswers DEF GateReturns, AfterGate, Standing, CallStands
  <2>2. PICK ruling \in {"approved", "denied", "auto_denied"} :
          /\ outcome' = [outcome EXCEPT ![c] = ruling]
          /\ trail' = [trail EXCEPT ![c] = @ \o <<ruling>>]
          /\ Dispatch(c) \/ result' = [result EXCEPT ![c] = ruling]
    BY <1>9, GateAnswers
  <2>3. trail'[c] = <<"pending_approval", ruling>> /\ outcome'[c] = ruling
    <3>1. ruling \in AuditOutcome /\ "pending_approval" \in AuditOutcome
      BY <2>2 DEF AuditOutcome
    <3>2. <<"pending_approval">> \o <<ruling>> = <<"pending_approval", ruling>>
      BY <3>1, OneMore
    <3> QED BY <1>0, <2>1, <2>2, <3>2 DEF TypeOK, Trails, TrailTells
  <2>4. result'[c] \notin {"blocked", "executed"}
    BY <1>0, <2>1, <2>2 DEF Dispatch, Finish, MoveTo, TypeOK
  <2>5. TrailTells(c)'
    BY <1>0, <2>1, <2>3, <2>4 DEF TypeOK, TrailTells
  <2> QED BY <1>9, <2>5, GateStands, OthersTell
<1>10. ASSUME NEW c \in Call, GateFails(c) PROVE Trails'
  <2>1. OnlyCall(c)
    BY <1>0, <1>10 DEF GateFails, LeaveGate, Approvals!GiveUp, Finish, TypeOK, OnlyCall
  <2>2. TrailTells(c)'
    BY <1>0, <1>10
    DEF GateFails, LeaveGate, Approvals!GiveUp, Finish, TypeOK, Trails, TrailTells
  <2> QED BY <2>1, <2>2, OthersTell
<1>11. ASSUME NEW c \in Call, RunnerReturns(c) PROVE Trails'
  <2>1. OnlyCall(c)
    BY <1>0, <1>11 DEF RunnerReturns, Finish, Audit, approvalVars, TypeOK, OnlyCall
  <2>2. /\ asker[c] \in {"idle", "answered"} /\ result[c] = "none"
        /\ asker' = asker /\ outcome' = outcome
        /\ result'[c] = "executed" /\ trail'[c] = trail[c] \o <<"executed">>
    BY <1>0, <1>11
    DEF RunnerReturns, Finish, Audit, approvalVars, TypeOK, Standing, CallStands,
        Trails, TrailTells
  <2>3. CASE asker[c] = "idle"
    <3>1. trail'[c] = <<"executed">>
      <4>1. trail[c] = <<>>
        BY <2>2, <2>3 DEF Trails, TrailTells
      <4>2. <<>> \o <<"executed">> = <<"executed">>
        OBVIOUS
      <4> QED BY <2>2, <4>1, <4>2, Zenon
    <3> QED BY <2>1, <2>2, <2>3, <3>1, OthersTell DEF TrailTells
  <2>4. CASE asker[c] = "answered"
    <3>1. /\ outcome[c] \in AuditOutcome
          /\ "pending_approval" \in AuditOutcome /\ "executed" \in AuditOutcome
      BY <1>0, <2>4 DEF TypeOK, Standing, CallStands, AuditOutcome
    <3>2. trail[c] = <<"pending_approval", outcome[c]>>
      BY <2>2, <2>4 DEF Trails, TrailTells
    <3>3. trail'[c] = <<"pending_approval", outcome[c], "executed">>
      <4>1. <<"pending_approval", outcome[c]>> \o <<"executed">>
              = <<"pending_approval", outcome[c], "executed">>
        BY <3>1, OneMore
      <4> QED BY <2>2, <3>2, <4>1, Zenon
    <3> QED BY <2>1, <2>2, <2>4, <3>3, OthersTell DEF TrailTells
  <2> QED BY <2>2, <2>3, <2>4
<1>12. ASSUME NEW c \in Call, RunnerFails(c) PROVE Trails'
  <2>1. OnlyCall(c)
    BY <1>0, <1>12 DEF RunnerFails, Finish, approvalVars, TypeOK, OnlyCall
  <2>2. TrailTells(c)'
    BY <1>0, <1>12
    DEF RunnerFails, Finish, approvalVars, TypeOK, Standing, CallStands, Trails, TrailTells
  <2> QED BY <2>1, <2>2, OthersTell
<1>13. CASE UNCHANGED vars
  BY <1>1, <1>13 DEF vars, approvalVars
<1> QED
  BY <1>2, <1>3, <1>4, <1>5, <1>6, <1>7, <1>8, <1>9, <1>10, <1>11, <1>12, <1>13 DEF Next

(* The records of each call are exactly those of the way it has gone so     *)
(* far.                                                                     *)
THEOREM TrailsHold == Spec => []Trails
<1>1. Init => Trails
  BY DEF Init, Approvals!Init, Trails, TrailTells
<1>2. IInv /\ Trails /\ [Next]_vars => Trails'
  BY TrailsStep
<1> QED BY <1>1, <1>2, IInvHolds, PTL DEF Spec

-----------------------------------------------------------------------------
(* A decision that was delivered is what the call does from then on.        *)

Obeys(c) ==
  asker[c] = "answered" =>
    IF outcome[c] = "approved"
    THEN result[c] \in {"none", "executed", "queued", "error"}
    ELSE pc[c] = "done" /\ result[c] = outcome[c]

Obeyed == \A c \in Call : Obeys(c)

(* A step of one call leaves what the others obeyed.                        *)
LEMMA OthersObey ==
  ASSUME Obeyed, NEW c \in Call, OnlyCall(c), Obeys(c)'
  PROVE  Obeyed'
  BY DEF Obeyed, Obeys, OnlyCall

(* No step turns an approval into a refusal or a refusal into a command.    *)
LEMMA ObeyedStep ==
  ASSUME IInv, Obeyed, [Next]_vars
  PROVE  Obeyed'
<1>0. TypeOK /\ Standing
  BY DEF IInv
<1>1. CASE UNCHANGED <<callVars, asker>> /\ UNCHANGED outcome
  BY <1>1 DEF Obeyed, Obeys, callVars
<1>2. CASE Sweep \/ Tick \/ (\E s \in Session : OpensSession(s) \/ CloseSession(s))
  BY <1>1, <1>2 DEF Sweep, Tick, OpensSession, OpenSession, CloseSession, approvalVars
<1>3. ASSUME NEW c \in Call, NEW ruling, HumanDecides(c, ruling) PROVE Obeyed'
  BY <1>0, <1>3 DEF HumanDecides, Approvals!Decide, callVars, Obeyed, Obeys, TypeOK
<1>4. ASSUME NEW c \in Call, NEW s, NEW m, ExecuteExpired(c, s, m) PROVE Obeyed'
  <2>1. OnlyCall(c)
    BY <1>0, <1>4 DEF ExecuteExpired, Finish, approvalVars, TypeOK, OnlyCall
  <2>2. Obeys(c)'
    BY <1>0, <1>4 DEF ExecuteExpired, approvalVars, Standing, CallStands, Obeys
  <2> QED BY <2>1, <2>2, OthersObey
<1>5. ASSUME NEW c \in Call, NEW s \in Session, NEW m \in Command, NEW preapproved,
             Judged(c, s, m, preapproved), pc[c] \in {"idle", "opening"},
             s \in opened', opened \subseteq opened', oneShot' = oneShot
      PROVE  Obeyed'
  <2>1. OnlyCall(c)
    BY <1>5, JudgeStands
  <2>2. asker[c] = "idle" /\ (asker' = asker \/ asker' = [asker EXCEPT ![c] = "open"])
    BY <1>0, <1>5, JudgeBranches DEF Standing, CallStands
  <2>3. Obeys(c)'
    BY <1>0, <2>2 DEF TypeOK, Obeys
  <2> QED BY <2>1, <2>3, OthersObey
<1>6. ASSUME NEW c \in Call, NEW s \in Session, NEW m \in Command, Execute(c, s, m)
      PROVE  Obeyed'
  BY <1>0, <1>5, <1>6 DEF Execute, Submit, Judged, TypeOK
<1>7. ASSUME NEW c \in Call, NEW m, Run(c, m) PROVE Obeyed'
  <2>1. OnlyCall(c)
    BY <1>0, <1>7 DEF Run, MoveTo, approvalVars, TypeOK, OnlyCall
  <2>2. Obeys(c)'
    BY <1>0, <1>7 DEF Run, approvalVars, Standing, CallStands, Obeys
  <2> QED BY <2>1, <2>2, OthersObey
<1>8. ASSUME NEW c \in Call, NEW why, RunRefused(c, why) PROVE Obeyed'
  <2>1. OnlyCall(c)
    BY <1>0, <1>8 DEF RunRefused, Finish, approvalVars, TypeOK, OnlyCall
  <2>2. Obeys(c)'
    BY <1>0, <1>8 DEF RunRefused, approvalVars, Standing, CallStands, Obeys
  <2> QED BY <2>1, <2>2, OthersObey
<1>9. ASSUME NEW c \in Call, NEW s \in Session, NEW preapproved \in AllowList,
             RunOpened(c, s, preapproved)
      PROVE  Obeyed'
  BY <1>0, <1>5, <1>9 DEF RunOpened, SubmitOpened, Judged, Create, Standing, CallStands
<1>10. ASSUME NEW c \in Call, GateReturns(c) PROVE Obeyed'
  <2>1. pc[c] = "gating" /\ result[c] = "none"
    BY <1>0, <1>10 DEF GateReturns, AfterGate, Standing, CallStands
  <2>2. PICK ruling \in {"approved", "denied", "auto_denied"} :
          /\ outcome' = [outcome EXCEPT ![c] = ruling]
          /\ \/ ruling = "approved" /\ Dispatch(c)
             \/ /\ ruling # "approved"
                /\ pc' = [pc EXCEPT ![c] = "done"]
                /\ result' = [result EXCEPT ![c] = ruling]
    BY <1>10, GateAnswers
  <2>3. Obeys(c)'
    BY <1>0, <2>1, <2>2 DEF Dispatch, Finish, MoveTo, TypeOK, Obeys
  <2> QED BY <1>10, <2>3, GateStands, OthersObey
<1>11. ASSUME NEW c \in Call, GateFails(c) PROVE Obeyed'
  <2>1. OnlyCall(c)
    BY <1>0, <1>11 DEF GateFails, LeaveGate, Approvals!GiveUp, Finish, TypeOK, OnlyCall
  <2>2. Obeys(c)'
    BY <1>0, <1>11 DEF GateFails, Approvals!GiveUp, TypeOK, Obeys
  <2> QED BY <2>1, <2>2, OthersObey
<1>12. ASSUME NEW c \in Call, RunnerReturns(c) \/ RunnerFails(c) PROVE Obeyed'
  <2>1. OnlyCall(c)
    BY <1>0, <1>12
    DEF RunnerReturns, RunnerFails, Finish, Audit, approvalVars, TypeOK, OnlyCall
  <2>2. /\ pc[c] = "running" /\ asker' = asker /\ outcome' = outcome
        /\ result'[c] \in {"executed", "error"}
    BY <1>0, <1>12 DEF RunnerReturns, RunnerFails, Finish, approvalVars, TypeOK
  <2>3. Obeys(c)'
    BY <2>2 DEF Obeyed, Obeys
  <2> QED BY <2>1, <2>3, OthersObey
<1>13. CASE UNCHANGED vars
  BY <1>1, <1>13 DEF vars, approvalVars
<1> QED
  BY <1>2, <1>3, <1>4, <1>6, <1>7, <1>8, <1>9, <1>10, <1>11, <1>12, <1>13 DEF Next

(* What request_approval() gave back is what happens: an approval ends in a *)
(* result, in "queued" at the cap or in the runner's error, never in a      *)
(* refusal, and any other decision ends the call under its own name.        *)
THEOREM DecisionsObeyed == Spec => []Obeyed
<1>1. Init => Obeyed
  BY DEF Init, Approvals!Init, Obeyed, Obeys
<1>2. IInv /\ Obeyed /\ [Next]_vars => Obeyed'
  BY ObeyedStep
<1> QED BY <1>1, <1>2, IInvHolds, PTL DEF Spec

(* The trail tells the story of the call: a returned result is on record,   *)
(* whatever is recorded as executed was cleared and reached the runner, and *)
(* a decision stands on the trail exactly of the calls that were given it.  *)
THEOREM AuditAlwaysAgrees == Spec => []AuditAgrees
<1>1. IInv /\ Trails /\ Obeyed => AuditAgrees
  <2> SUFFICES ASSUME IInv, Trails, Obeyed, NEW c \in Call
               PROVE  /\ result[c] = "executed" => Recorded(c, "executed")
                      /\ Recorded(c, "executed") =>
                           /\ result[c] \in {"executed", "error"}
                           /\ asker[c] # "idle" =>
                                asker[c] = "answered" /\ outcome[c] = "approved"
                      /\ Recorded(c, "blocked") <=> result[c] = "blocked"
                      /\ asker[c] # "idle" => trail[c] # <<>> /\ trail[c][1] = "pending_approval"
                      /\ asker[c] = "answered" => Len(trail[c]) >= 2 /\ trail[c][2] = outcome[c]
                      /\ asker[c] # "answered" =>
                           \A o \in {"approved", "denied", "auto_denied"} : ~Recorded(c, o)
    BY DEF AuditAgrees
  <2>1. /\ CallStands(c) /\ TrailTells(c) /\ Obeys(c)
        /\ asker[c] \in {"idle", "open", "answered", "gone"}
        /\ outcome[c] \in {"none", "approved", "denied", "auto_denied"}
    BY DEF IInv, TypeOK, Standing, Trails, Obeyed
  <2>2. CASE asker[c] = "idle"
    BY <2>1, <2>2 DEF TrailTells, Recorded
  <2>3. CASE asker[c] \in {"open", "gone"}
    <3>1. result[c] \in {"none", "error"} /\ trail[c] = <<"pending_approval">>
      BY <2>1, <2>3 DEF TrailTells, CallStands
    <3> QED BY <2>3, <3>1 DEF Recorded
  <2>4. CASE asker[c] = "answered" /\ result[c] = "executed"
    <3>1. trail[c] = <<"pending_approval", outcome[c], "executed">>
      BY <2>1, <2>4 DEF TrailTells
    <3>2. outcome[c] = "approved"
      BY <2>1, <2>4 DEF Obeys
    <3> QED BY <2>1, <2>4, <3>1, <3>2 DEF Recorded
  <2>5. CASE asker[c] = "answered" /\ result[c] # "executed"
    <3>1. trail[c] = <<"pending_approval", outcome[c]>> /\ result[c] # "blocked"
      BY <2>1, <2>5 DEF TrailTells
    <3> QED BY <2>1, <2>5, <3>1 DEF Recorded
  <2> QED BY <2>1, <2>2, <2>3, <2>4, <2>5
<1> QED BY <1>1, IInvHolds, TrailsHold, DecisionsObeyed, PTL

-----------------------------------------------------------------------------
(* Exemptions: the calls approved in a session, and what they were for.     *)

ApprovalsKept ==
  \A s \in Session :
    /\ ApprovedCalls(s)' = ApprovedCalls(s)
    /\ \A d \in ApprovedCalls(s) : matched'[d] = matched[d]

(* A step at a call that has no answer, before or after, approves nothing.  *)
LEMMA UnansweredKeeps ==
  ASSUME NEW c \in Call, OnlyCall(c), asker[c] # "answered", asker'[c] # "answered"
  PROVE  ApprovalsKept
  BY DEF OnlyCall, ApprovalsKept, ApprovedCalls

(* What touches no call's session, request or answer approves nothing.      *)
LEMMA RestKeeps ==
  ASSUME UNCHANGED <<session, matched, asker, outcome>>
  PROVE  ApprovalsKept
  BY DEF ApprovalsKept, ApprovedCalls

(* Judging a call approves nothing: its request, if it makes one, is open.  *)
LEMMA JudgeKeeps ==
  ASSUME IInv, NEW c \in Call, NEW s \in Session, NEW m \in Command, NEW preapproved,
         Judged(c, s, m, preapproved), pc[c] \in {"idle", "opening"},
         s \in opened', opened \subseteq opened', oneShot' = oneShot
  PROVE  ApprovalsKept
<1>1. asker[c] = "idle" /\ asker \in [Call -> {"idle", "open", "answered", "gone"}]
  BY DEF IInv, TypeOK, Standing, CallStands
<1>2. asker' = asker \/ asker' = [asker EXCEPT ![c] = "open"]
  BY JudgeBranches
<1>3. asker'[c] # "answered"
  BY <1>1, <1>2
<1> QED BY <1>1, <1>3, JudgeStands, UnansweredKeeps

(* Only an approval that is delivered changes exemptions or approvals.      *)
LEMMA ExemptionsMove ==
  ASSUME IInv, [Next]_vars
  PROVE  \/ \E c \in Call : GateReturns(c) /\ outcome'[c] = "approved"
         \/ exempt' = exempt /\ ApprovalsKept
<1>0. TypeOK /\ Standing
  BY DEF IInv
<1>1. CASE Sweep \/ Tick \/ (\E s \in Session : OpensSession(s) \/ CloseSession(s))
  BY <1>1, RestKeeps DEF Sweep, Tick, OpensSession, OpenSession, CloseSession,
                         sessionVars, callVars, approvalVars
<1>2. ASSUME NEW c \in Call, NEW ruling, HumanDecides(c, ruling)
      PROVE  exempt' = exempt /\ ApprovalsKept
  BY <1>0, <1>2 DEF HumanDecides, Approvals!Decide, sessionVars, callVars, TypeOK,
                    ApprovalsKept, ApprovedCalls
<1>3. ASSUME NEW c \in Call, NEW s, NEW m, ExecuteExpired(c, s, m)
      PROVE  exempt' = exempt /\ ApprovalsKept
  <2>1. asker[c] = "idle" /\ asker' = asker /\ exempt' = exempt
    BY <1>0, <1>3 DEF ExecuteExpired, Standing, CallStands, sessionVars, approvalVars
  <2>2. OnlyCall(c)
    BY <1>0, <1>3 DEF ExecuteExpired, Finish, approvalVars, TypeOK, OnlyCall
  <2> QED BY <2>1, <2>2, UnansweredKeeps
<1>4. ASSUME NEW c \in Call, NEW s \in Session, NEW m \in Command, Execute(c, s, m)
      PROVE  exempt' = exempt /\ ApprovalsKept
  <2>1. s \in opened' /\ opened \subseteq opened' /\ oneShot' = oneShot
    BY <1>0, <1>4 DEF Execute, Submit, Judged, TypeOK
  <2> QED BY <1>4, <2>1, JudgeKeeps DEF Execute, Submit, Judged
<1>5. ASSUME NEW c \in Call, NEW m, Run(c, m) PROVE exempt' = exempt /\ ApprovalsKept
  BY <1>5, RestKeeps DEF Run, sessionVars, approvalVars
<1>6. ASSUME NEW c \in Call, NEW why, RunRefused(c, why)
      PROVE  exempt' = exempt /\ ApprovalsKept
  BY <1>6, RestKeeps DEF RunRefused, sessionVars, approvalVars
<1>7. ASSUME NEW c \in Call, NEW s \in Session, NEW preapproved, RunOpened(c, s, preapproved)
      PROVE  exempt' = exempt /\ ApprovalsKept
  <2>1. /\ command[c] \in Command
        /\ s \in opened' /\ opened \subseteq opened' /\ oneShot' = oneShot
    BY <1>0, <1>7 DEF RunOpened, SubmitOpened, Judged, Create, Standing, CallStands
  <2> QED BY <1>7, <2>1, JudgeKeeps DEF RunOpened, SubmitOpened, Judged
<1>8. ASSUME NEW c \in Call, GateReturns(c), outcome'[c] # "approved"
      PROVE  exempt' = exempt /\ ApprovalsKept
  <2>1. /\ asker[c] = "open" /\ OnlyCall(c)
        /\ session' = session /\ matched' = matched
    BY <1>8, GateAnswers, GateStands
  <2>2. exempt' = exempt
    <3>1. PICK ruling \in {"approved", "denied", "auto_denied"} :
            /\ outcome' = [outcome EXCEPT ![c] = ruling]
            /\ ruling = "approved" \/ exempt' = exempt
      BY <1>8, GateAnswers
    <3> QED BY <1>0, <1>8, <3>1 DEF TypeOK
  <2> QED BY <1>8, <2>1, <2>2 DEF OnlyCall, ApprovalsKept, ApprovedCalls
<1>9. ASSUME NEW c \in Call, GateFails(c) PROVE exempt' = exempt /\ ApprovalsKept
  <2>1. asker[c] = "open" /\ asker'[c] = "gone" /\ exempt' = exempt
    BY <1>0, <1>9 DEF GateFails, LeaveGate, Approvals!GiveUp, sessionVars, TypeOK
  <2>2. OnlyCall(c)
    BY <1>0, <1>9 DEF GateFails, LeaveGate, Approvals!GiveUp, Finish, TypeOK, OnlyCall
  <2> QED BY <2>1, <2>2, UnansweredKeeps
<1>10. ASSUME NEW c \in Call, RunnerReturns(c) \/ RunnerFails(c)
       PROVE  exempt' = exempt /\ ApprovalsKept
  BY <1>10, RestKeeps DEF RunnerReturns, RunnerFails, sessionVars, approvalVars
<1>11. CASE UNCHANGED vars
  BY <1>11, RestKeeps DEF vars, sessionVars, callVars, approvalVars
<1> QED
  BY <1>1, <1>2, <1>3, <1>4, <1>5, <1>6, <1>7, <1>8, <1>9, <1>10, <1>11 DEF Next

(* A delivered approval adds its call to the session's approved calls.      *)
LEMMA ApprovalAdds ==
  ASSUME IInv, NEW c \in Call, GateReturns(c), outcome'[c] = "approved"
  PROVE  /\ session[c] \in Session /\ matched' = matched /\ session' = session
         /\ exempt' = [exempt EXCEPT ![session[c]] = @ \cup {matched[c]}]
         /\ \A s \in Session :
              ApprovedCalls(s)' = IF s = session[c] THEN ApprovedCalls(s) \cup {c}
                                                    ELSE ApprovedCalls(s)
<1>1. /\ session[c] \in Session /\ asker[c] = "open" /\ OnlyCall(c)
      /\ session' = session /\ matched' = matched
      /\ asker' = [asker EXCEPT ![c] = "answered"]
  BY GateAnswers, GateStands
<1>2. PICK ruling \in {"approved", "denied", "auto_denied"} :
        /\ outcome' = [outcome EXCEPT ![c] = ruling]
        /\ \/ exempt' = [exempt EXCEPT ![session[c]] = @ \cup {matched[c]}]
           \/ ruling # "approved"
  BY GateAnswers
<1>3. asker'[c] = "answered" /\ outcome'[c] = ruling
  BY <1>1, <1>2 DEF IInv, TypeOK
<1> QED BY <1>1, <1>2, <1>3 DEF OnlyCall, ApprovedCalls

(* A session's exemptions are exactly what was approved in it.              *)
THEOREM ExemptionsAlwaysEarned == Spec => []ExemptionsEarned
<1>1. Init => ExemptionsEarned
  BY DEF Init, Approvals!Init, ExemptionsEarned, ApprovedCalls
<1>2. IInv /\ ExemptionsEarned /\ [Next]_vars => ExemptionsEarned'
  <2> SUFFICES ASSUME IInv, ExemptionsEarned, [Next]_vars PROVE ExemptionsEarned'
    OBVIOUS
  <2>1. CASE exempt' = exempt /\ ApprovalsKept
    BY <2>1 DEF ExemptionsEarned, ApprovalsKept
  <2>2. ASSUME NEW c \in Call, GateReturns(c), outcome'[c] = "approved"
        PROVE  ExemptionsEarned'
    <3>1. exempt \in [Session -> SUBSET Pattern]
      BY DEF IInv, TypeOK
    <3>2. ASSUME NEW s \in Session
          PROVE  exempt'[s] = {matched'[d] : d \in ApprovedCalls(s)'}
      <4>1. CASE s = session[c]
        <5>1. exempt'[s] = exempt[s] \cup {matched[c]}
          BY <2>2, <3>1, <4>1, ApprovalAdds
        <5>2. ApprovedCalls(s)' = ApprovedCalls(s) \cup {c} /\ matched' = matched
          BY <2>2, <4>1, ApprovalAdds
        <5> QED BY <5>1, <5>2 DEF ExemptionsEarned
      <4>2. CASE s # session[c]
        <5>1. exempt'[s] = exempt[s]
          BY <2>2, <3>1, <4>2, ApprovalAdds
        <5>2. ApprovedCalls(s)' = ApprovedCalls(s) /\ matched' = matched
          BY <2>2, <4>2, ApprovalAdds
        <5> QED BY <5>1, <5>2 DEF ExemptionsEarned
      <4> QED BY <4>1, <4>2
    <3> QED BY <3>2 DEF ExemptionsEarned
  <2> QED BY <2>1, <2>2, ExemptionsMove
<1> QED BY <1>1, <1>2, IInvHolds, PTL DEF Spec

-----------------------------------------------------------------------------
(* Clearance: what runs was let through by the policy or by an approval in  *)
(* its session.                                                             *)

RiskCleared(c) ==
  LET risk == FirstMatch(command[c], Policy.tier2)
  IN  \/ risk = NoPattern
      \/ Preapproved(risk, allowed[session[c]])
      \/ \E d \in ApprovedCalls(session[c]) : matched[d] = risk

CallCleared(c) ==
  pc[c] = "running" \/ result[c] = "executed" =>
    session[c] \in opened /\ PassedGate(command[c]) /\ RiskCleared(c)

AllCleared == \A c \in Call : CallCleared(c)

(* Approvals are never taken back, and a session's pre-approval is fixed.   *)
LEMMA ApprovalsGrow ==
  ASSUME IInv, [Next]_vars
  PROVE  /\ opened \subseteq opened'
         /\ \A s \in opened : allowed'[s] = allowed[s]
         /\ \A s \in Session :
              /\ ApprovedCalls(s) \subseteq ApprovedCalls(s)'
              /\ \A d \in ApprovedCalls(s) : matched'[d] = matched[d]
<1>1. opened \subseteq opened' /\ \A s \in opened : allowed'[s] = allowed[s]
  <2>1. ASSUME NEW s \in Session, NEW preapproved, Create(s, preapproved)
        PROVE  opened \subseteq opened' /\ \A t \in opened : allowed'[t] = allowed[t]
    BY <2>1 DEF Create, IInv, TypeOK
  <2>2. ASSUME UNCHANGED <<opened, allowed>>
        PROVE  opened \subseteq opened' /\ \A t \in opened : allowed'[t] = allowed[t]
    BY <2>2
  <2>3. ASSUME NEW s \in Session, OpensSession(s)
        PROVE  opened \subseteq opened' /\ \A t \in opened : allowed'[t] = allowed[t]
    BY <2>1, <2>3 DEF OpensSession, OpenSession
  <2>4. ASSUME NEW c \in Call, NEW s \in Session, NEW preapproved, RunOpened(c, s, preapproved)
        PROVE  opened \subseteq opened' /\ \A t \in opened : allowed'[t] = allowed[t]
    BY <2>1, <2>4 DEF RunOpened, SubmitOpened, Judged
  <2> QED
    BY <2>2, <2>3, <2>4
    DEF Next, Sweep, Tick, CloseSession, HumanDecides, ExecuteExpired, Execute, Submit,
        Run, RunRefused, GateReturns, AfterGate, GateFails, LeaveGate, RunnerReturns,
        RunnerFails, vars, sessionVars
<1>2. ASSUME NEW s \in Session
      PROVE  /\ ApprovedCalls(s) \subseteq ApprovedCalls(s)'
             /\ \A d \in ApprovedCalls(s) : matched'[d] = matched[d]
  <2>1. CASE ApprovalsKept
    BY <2>1 DEF ApprovalsKept
  <2>2. ASSUME NEW c \in Call, GateReturns(c), outcome'[c] = "approved"
        PROVE  /\ ApprovedCalls(s) \subseteq ApprovedCalls(s)'
               /\ \A d \in ApprovedCalls(s) : matched'[d] = matched[d]
    BY <2>2, ApprovalAdds
  <2> QED BY <2>1, <2>2, ExemptionsMove
<1> QED BY <1>1, <1>2

(* Clearance lasts.                                                         *)
LEMMA StaysCleared ==
  ASSUME IInv, [Next]_vars, NEW c \in Call, CallCleared(c),
         pc'[c] = "running" \/ result'[c] = "executed"
           => pc[c] = "running" \/ result[c] = "executed",
         session'[c] = session[c], command'[c] = command[c]
  PROVE  CallCleared(c)'
<1> SUFFICES ASSUME pc[c] = "running" \/ result[c] = "executed"
             PROVE  session'[c] \in opened' /\ PassedGate(command'[c]) /\ RiskCleared(c)'
  BY DEF CallCleared, PassedGate
<1>1. session[c] \in opened /\ PassedGate(command[c]) /\ RiskCleared(c)
  BY DEF CallCleared
<1>2. session[c] \in Session
  BY <1>1 DEF IInv, TypeOK
<1>3. allowed'[session'[c]] = allowed[session[c]] /\ session'[c] \in opened'
  BY <1>1, ApprovalsGrow
<1>4. RiskCleared(c)'
  BY <1>1, <1>2, <1>3, ApprovalsGrow DEF RiskCleared
<1> QED BY <1>1, <1>3, <1>4

(* A command that is let through on its verdict is cleared.                 *)
LEMMA JudgeClears ==
  ASSUME IInv, ExemptionsEarned, [Next]_vars, NEW c \in Call, NEW s \in Session,
         NEW m \in Command, NEW preapproved, Judged(c, s, m, preapproved),
         pc[c] \in {"idle", "opening"}, s \in opened', allowed'[s] = preapproved
  PROVE  CallCleared(c)'
<1>1. /\ session'[c] = s /\ command'[c] = m
      /\ result[c] = "none" /\ pc[c] # "running"
      /\ pc \in [Call -> {"idle", "opening", "gating", "running", "done"}]
      /\ result \in [Call -> Result]
  <2>1. session' = [session EXCEPT ![c] = s] /\ command' = [command EXCEPT ![c] = m]
    BY JudgeBranches
  <2> QED BY <2>1 DEF IInv, TypeOK, Standing, CallStands
<1>2. CASE pc' = [pc EXCEPT ![c] = "done"] /\ result' = [result EXCEPT ![c] = "blocked"]
  BY <1>1, <1>2 DEF CallCleared
<1>3. CASE pc' = [pc EXCEPT ![c] = "gating"] /\ result' = result
  BY <1>1, <1>3 DEF CallCleared
<1>4. CASE /\ PassedGate(m)
           /\ LET risk == FirstMatch(m, Policy.tier2)
              IN  risk = NoPattern \/ risk \in exempt[s] \/ Preapproved(risk, preapproved)
  <2>1. FirstMatch(m, Policy.tier2) \in exempt[s] =>
          \E d \in ApprovedCalls(s) : matched[d] = FirstMatch(m, Policy.tier2)
    BY DEF ExemptionsEarned
  <2>2. FirstMatch(m, Policy.tier2) \in exempt[s] =>
          \E d \in ApprovedCalls(s)' : matched'[d] = FirstMatch(m, Policy.tier2)
    BY <2>1, ApprovalsGrow
  <2>3. RiskCleared(c)'
    BY <1>1, <1>4, <2>2 DEF RiskCleared
  <2> QED BY <1>1, <1>4, <2>3 DEF CallCleared, PassedGate
<1> QED BY <1>2, <1>3, <1>4, JudgeBranches

(* So is one that an approver lets through.                                 *)
LEMMA GateClears ==
  ASSUME IInv, NEW c \in Call, GateReturns(c)
  PROVE  CallCleared(c)'
<1>1. /\ session[c] \in opened /\ session[c] \in Session /\ PassedGate(command[c])
      /\ matched[c] = FirstMatch(command[c], Policy.tier2)
      /\ UNCHANGED <<opened, session, command, matched>>
  BY GateAnswers
<1>2. CASE outcome'[c] = "approved"
  <2>1. c \in ApprovedCalls(session[c])'
    BY <1>1, <1>2, ApprovalAdds
  <2>2. RiskCleared(c)'
    BY <1>1, <2>1 DEF RiskCleared
  <2> QED BY <1>1, <2>2 DEF CallCleared, PassedGate
<1>3. CASE outcome'[c] # "approved"
  <2>1. PICK ruling \in {"approved", "denied", "auto_denied"} :
          /\ outcome' = [outcome EXCEPT ![c] = ruling]
          /\ \/ ruling = "approved"
             \/ /\ pc' = [pc EXCEPT ![c] = "done"]
                /\ result' = [result EXCEPT ![c] = ruling]
    BY GateAnswers
  <2>2. ruling # "approved" /\ pc'[c] = "done" /\ result'[c] = ruling
    BY <1>3, <2>1 DEF IInv, TypeOK
  <2> QED BY <2>1, <2>2 DEF CallCleared
<1> QED BY <1>2, <1>3

(* A call that ran cleared stays so while another call takes a step.        *)
LEMMA OthersCleared ==
  ASSUME IInv, AllCleared, [Next]_vars, NEW c \in Call, OnlyCall(c), CallCleared(c)'
  PROVE  AllCleared'
<1>1. ASSUME NEW d \in Call \ {c} PROVE CallCleared(d)'
  <2>1. /\ pc'[d] = pc[d] /\ result'[d] = result[d]
        /\ session'[d] = session[d] /\ command'[d] = command[d]
    BY DEF OnlyCall
  <2>2. CallCleared(d)
    BY DEF AllCleared
  <2> QED BY <2>1, <2>2, StaysCleared
<1> QED BY <1>1 DEF AllCleared

(* Only a call that the policy or an approval cleared starts to run.        *)
LEMMA ClearedStep ==
  ASSUME IInv, ExemptionsEarned, AllCleared, [Next]_vars
  PROVE  AllCleared'
<1>0. TypeOK /\ Standing
  BY DEF IInv
<1>1. CASE UNCHANGED <<pc, result, session, command>>
  BY <1>1, StaysCleared DEF AllCleared
<1>2. CASE Sweep \/ Tick \/ (\E s \in Session : OpensSession(s) \/ CloseSession(s))
  BY <1>1, <1>2 DEF Sweep, Tick, OpensSession, OpenSession, CloseSession, callVars
<1>3. CASE \E c \in Call, ruling \in {"approved", "denied"} : HumanDecides(c, ruling)
  BY <1>1, <1>3 DEF HumanDecides, callVars
<1>4. ASSUME NEW c \in Call, NEW s, NEW m, ExecuteExpired(c, s, m) PROVE AllCleared'
  <2>1. OnlyCall(c)
    BY <1>0, <1>4 DEF ExecuteExpired, Finish, approvalVars, TypeOK, OnlyCall
  <2>2. CallCleared(c)'
    BY <1>0, <1>4 DEF ExecuteExpired, Finish, TypeOK, CallCleared
  <2> QED BY <2>1, <2>2, OthersCleared
<1>5. ASSUME NEW c \in Call, NEW s \in Session, NEW m \in Command, Execute(c, s, m)
      PROVE  AllCleared'
  <2>1. /\ s \in opened' /\ opened \subseteq opened' /\ oneShot' = oneShot
        /\ Judged(c, s, m, allowed[s]) /\ pc[c] \in {"idle", "opening"}
        /\ allowed'[s] = allowed[s]
    BY <1>0, <1>5 DEF Execute, Submit, Judged, TypeOK
  <2> QED BY <2>1, JudgeStands, JudgeClears, OthersCleared
<1>6. ASSUME NEW c \in Call, NEW m \in Command, Run(c, m) PROVE AllCleared'
  <2>1. OnlyCall(c)
    BY <1>0, <1>6 DEF Run, MoveTo, sessionVars, approvalVars, TypeOK, OnlyCall
  <2>2. CallCleared(c)'
    BY <1>0, <1>6 DEF Run, MoveTo, TypeOK, Standing, CallStands, CallCleared
  <2> QED BY <2>1, <2>2, OthersCleared
<1>7. ASSUME NEW c \in Call, NEW why \in {"needs_selection", "no_session", "error"},
             RunRefused(c, why)
      PROVE  AllCleared'
  <2>1. OnlyCall(c)
    BY <1>0, <1>7 DEF RunRefused, Finish, approvalVars, TypeOK, OnlyCall
  <2>2. CallCleared(c)'
    BY <1>0, <1>7 DEF RunRefused, Finish, TypeOK, CallCleared
  <2> QED BY <2>1, <2>2, OthersCleared
<1>8. ASSUME NEW c \in Call, NEW s \in Session, NEW preapproved \in AllowList,
             RunOpened(c, s, preapproved)
      PROVE  AllCleared'
  <2>1. /\ command[c] \in Command /\ pc[c] \in {"idle", "opening"}
        /\ s \in opened' /\ opened \subseteq opened' /\ oneShot' = oneShot
        /\ Judged(c, s, command[c], preapproved)
    BY <1>0, <1>8 DEF RunOpened, SubmitOpened, Judged, Create, Standing, CallStands
  <2>2. allowed'[s] = preapproved
    BY <1>0, <1>8 DEF RunOpened, SubmitOpened, Judged, Create, TypeOK
  <2> QED BY <2>1, <2>2, JudgeStands, JudgeClears, OthersCleared
<1>9. ASSUME NEW c \in Call, GateReturns(c) PROVE AllCleared'
  BY <1>9, GateStands, GateClears, OthersCleared
<1>10. ASSUME NEW c \in Call, GateFails(c) PROVE AllCleared'
  <2>1. OnlyCall(c)
    BY <1>0, <1>10 DEF GateFails, LeaveGate, Approvals!GiveUp, Finish, TypeOK, OnlyCall
  <2>2. CallCleared(c)'
    BY <1>0, <1>10 DEF GateFails, LeaveGate, Finish, TypeOK, CallCleared
  <2> QED BY <2>1, <2>2, OthersCleared
<1>11. ASSUME NEW c \in Call, RunnerReturns(c) \/ RunnerFails(c) PROVE AllCleared'
  <2>1. OnlyCall(c)
    BY <1>0, <1>11
    DEF RunnerReturns, RunnerFails, Finish, Audit, approvalVars, TypeOK, OnlyCall
  <2>2. pc[c] = "running" /\ session'[c] = session[c] /\ command'[c] = command[c]
    BY <1>11 DEF RunnerReturns, RunnerFails
  <2>3. CallCleared(c)'
    BY <2>2, StaysCleared DEF AllCleared
  <2> QED BY <2>1, <2>3, OthersCleared
<1>12. CASE UNCHANGED vars
  BY <1>1, <1>12 DEF vars, callVars
<1> QED
  BY <1>2, <1>3, <1>4, <1>5, <1>6, <1>7, <1>8, <1>9, <1>10, <1>11, <1>12 DEF Next

(* A command that reached the runner matches no tier-1 pattern, is on the   *)
(* whitelist if there is one, and its risk was pre-approved by the opener   *)
(* of its session or approved by a human for a call of that session.        *)
THEOREM OnlyClearedRun == Spec => []OnlyClearedCommandsRun
<1>1. Init => AllCleared
  BY DEF Init, AllCleared, CallCleared
<1>2. IInv /\ ExemptionsEarned /\ AllCleared /\ [Next]_vars => AllCleared'
  BY ClearedStep
<1>3. AllCleared => OnlyClearedCommandsRun
  BY DEF AllCleared, CallCleared, PassedGate, RiskCleared, OnlyClearedCommandsRun
<1> QED BY <1>1, <1>2, <1>3, IInvHolds, ExemptionsAlwaysEarned, PTL DEF Spec

-----------------------------------------------------------------------------
(* The life of a session.                                                   *)

(* What leaves the table was idle, closed, or the session of a one-shot     *)
(* call that has just ended; what enters it was never there.                *)
LEMMA TableMoves ==
  ASSUME IInv, [Next]_vars
  PROVE  /\ live' \subseteq live \cup (Session \ opened)
         /\ \A s \in live \ live' :
              \/ now - last[s] > IdleTimeout
              \/ CloseSession(s)
              \/ \E c \in oneShot : session[c] = s /\ pc'[c] = "done"
<1>0. TypeOK /\ Standing
  BY DEF IInv
<1> DEFINE Leaves(s) == \/ now - last[s] > IdleTimeout
                        \/ CloseSession(s)
                        \/ \E c \in oneShot : session[c] = s /\ pc'[c] = "done"
           Moves == live' \subseteq live \cup (Session \ opened)
                    /\ \A s \in live \ live' : Leaves(s)
<1>1. CASE UNCHANGED live
  BY <1>1
<1>2. CASE live' = live \ Idle
  BY <1>2 DEF Idle
<1>3. ASSUME NEW s \in Session, OpensSession(s) PROVE Moves
  BY <1>3 DEF OpensSession, OpenSession, Create
<1>4. ASSUME NEW s \in Session, CloseSession(s) PROVE Moves
  <2>1. live' = live \ {s}
    BY <1>4 DEF CloseSession
  <2> QED BY <1>4, <2>1
<1>5. ASSUME NEW c \in Call, CloseIfOneShot(c, session[c], c \in oneShot, live) PROVE Moves
  BY <1>5 DEF CloseIfOneShot
<1>6. ASSUME NEW c \in Call, NEW s \in Session, NEW preapproved, RunOpened(c, s, preapproved)
      PROVE  Moves
  <2>1. s \notin opened /\ s \notin live
    BY <1>0, <1>6 DEF RunOpened, SubmitOpened, Judged, Create, TypeOK
  <2>2. live' = (live \ Idle) \cup {s} \/ live' = live \ Idle
    BY <1>6, <2>1 DEF RunOpened, SubmitOpened, Judged, CloseIfOneShot
  <2> QED BY <2>1, <2>2 DEF Idle
<1> QED
  BY <1>1, <1>2, <1>3, <1>4, <1>5, <1>6
  DEF Next, Sweep, Tick, HumanDecides, ExecuteExpired, Execute, Submit, Run, RunRefused,
      GateReturns, AfterGate, GateFails, LeaveGate, RunnerReturns, RunnerFails, vars

(* A session is discarded only when it is idle, closed, or its one-shot     *)
(* call has ended, and never comes back.                                    *)
THEOREM LifecycleHolds == Spec => SessionLifecycle
<1>1. IInv /\ [Next]_vars =>
        [\A s \in opened :
           /\ s \in live \ live' =>
                \/ now - last[s] > IdleTimeout
                \/ CloseSession(s)
                \/ \E c \in oneShot : session[c] = s /\ pc'[c] = "done"
           /\ s \notin live => s \notin live']_vars
  BY TableMoves
<1> QED BY <1>1, IInvHolds, PTL DEF Spec, SessionLifecycle

(* A call that was over stays out of the table of sessions.                 *)
LEMMA OverStaysClosed ==
  ASSUME IInv, OneShotClosed, [Next]_vars, NEW c \in Call, c \in oneShot, pc[c] = "done",
         session'[c] = session[c]
  PROVE  session'[c] \notin live'
<1>1. session[c] \notin live /\ session[c] \in opened \cup {NoSession}
  BY DEF OneShotClosed, IInv, Standing, CallStands
<1>2. NoSession \notin Session /\ live \subseteq Session
  BY SessionsAssumption DEF IInv, TypeOK
<1> QED BY <1>1, <1>2, TableMoves

(* A step of one call closes its session if it is a one-shot call that ends.*)
LEMMA OneShotStep ==
  ASSUME IInv, OneShotClosed, [Next]_vars, NEW c \in Call, OnlyCall(c),
         c \in oneShot' /\ pc'[c] = "done" => session'[c] \notin live'
  PROVE  OneShotClosed'
<1> SUFFICES ASSUME NEW d \in oneShot', pc'[d] = "done" PROVE session'[d] \notin live'
  BY DEF OneShotClosed
<1>1. CASE d = c
  BY <1>1
<1>2. CASE d # c /\ d \in Call
  <2>1. d \in oneShot /\ pc[d] = "done" /\ session'[d] = session[d]
    BY <1>2 DEF OnlyCall
  <2> QED BY <1>2, <2>1, OverStaysClosed
<1> QED BY <1>1, <1>2, StepStands DEF TypeOK

(* run() leaves no session behind, however it ends.                         *)
THEOREM OneShotAlwaysClosed == Spec => []OneShotClosed
<1>1. Init => OneShotClosed
  BY DEF Init, OneShotClosed
<1>2. IInv /\ OneShotClosed /\ [Next]_vars => OneShotClosed'
  <2> SUFFICES ASSUME IInv, OneShotClosed, [Next]_vars PROVE OneShotClosed'
    OBVIOUS
  <2>0. TypeOK /\ Standing
    BY DEF IInv
  <2>1. CASE UNCHANGED <<pc, oneShot, session>>
    BY <2>0, <2>1, OverStaysClosed DEF OneShotClosed, TypeOK
  <2>2. CASE Sweep \/ Tick \/ (\E s \in Session : OpensSession(s) \/ CloseSession(s))
    BY <2>1, <2>2 DEF Sweep, Tick, OpensSession, OpenSession, CloseSession, callVars
  <2>3. CASE \E c \in Call, ruling \in {"approved", "denied"} : HumanDecides(c, ruling)
    BY <2>1, <2>3 DEF HumanDecides, callVars
  <2>4. ASSUME NEW c \in Call, NEW s, NEW m, ExecuteExpired(c, s, m) PROVE OneShotClosed'
    <3>1. OnlyCall(c)
      BY <2>0, <2>4 DEF ExecuteExpired, Finish, approvalVars, TypeOK, OnlyCall
    <3>2. c \notin oneShot'
      BY <2>0, <2>4 DEF ExecuteExpired, Standing, CallStands
    <3> QED BY <3>1, <3>2, OneShotStep
  <2>5. ASSUME NEW c \in Call, NEW s \in Session, NEW m \in Command, Execute(c, s, m)
        PROVE  OneShotClosed'
    <3>1. /\ s \in opened' /\ opened \subseteq opened' /\ oneShot' = oneShot
          /\ Judged(c, s, m, allowed[s]) /\ pc[c] = "idle" /\ c \notin oneShot
      BY <2>0, <2>5 DEF Execute, Submit, Judged, TypeOK, Standing, CallStands
    <3> QED BY <3>1, JudgeStands, OneShotStep
  <2>6. ASSUME NEW c \in Call, NEW m \in Command, Run(c, m) PROVE OneShotClosed'
    <3>1. OnlyCall(c) /\ pc'[c] = "opening"
      BY <2>0, <2>6 DEF Run, MoveTo, sessionVars, approvalVars, TypeOK, OnlyCall
    <3> QED BY <3>1, OneShotStep
  <2>7. ASSUME NEW c \in Call, NEW why \in {"needs_selection", "no_session", "error"},
               RunRefused(c, why)
        PROVE  OneShotClosed'
    <3>1. OnlyCall(c)
      BY <2>0, <2>7 DEF RunRefused, Finish, approvalVars, TypeOK, OnlyCall
    <3>2. session'[c] = NoSession /\ live' = live
      BY <2>0, <2>7 DEF RunRefused, Standing, CallStands
    <3>3. NoSession \notin live
      BY <2>0, SessionsAssumption DEF TypeOK
    <3> QED BY <3>1, <3>2, <3>3, OneShotStep
  <2>8. ASSUME NEW c \in Call, NEW s \in Session, NEW preapproved \in AllowList,
               RunOpened(c, s, preapproved)
        PROVE  OneShotClosed'
    <3>1. /\ command[c] \in Command /\ pc[c] \in {"idle", "opening"}
          /\ s \in opened' /\ opened \subseteq opened' /\ oneShot' = oneShot
          /\ Judged(c, s, command[c], preapproved)
      BY <2>0, <2>8 DEF RunOpened, SubmitOpened, Judged, Create, Standing, CallStands
    <3>2. session'[c] = s
      BY <2>0, <3>1, JudgeBranches DEF TypeOK
    <3>3. pc'[c] = "done" => s \notin live'
      BY <2>8 DEF RunOpened, SubmitOpened, Judged, CloseIfOneShot
    <3> QED BY <3>1, <3>2, <3>3, JudgeStands, OneShotStep
  <2>9. ASSUME NEW c \in Call, GateReturns(c) PROVE OneShotClosed'
    <3>1. c \in oneShot' /\ pc'[c] = "done" => session'[c] \notin live'
      BY <2>9 DEF GateReturns, AfterGate, CloseIfOneShot
    <3> QED BY <2>9, <3>1, GateStands, OneShotStep
  <2>10. ASSUME NEW c \in Call, GateFails(c) PROVE OneShotClosed'
    <3>1. OnlyCall(c)
      BY <2>0, <2>10 DEF GateFails, LeaveGate, Approvals!GiveUp, Finish, TypeOK, OnlyCall
    <3>2. c \in oneShot' /\ pc'[c] = "done" => session'[c] \notin live'
      BY <2>10 DEF GateFails, LeaveGate, CloseIfOneShot
    <3> QED BY <3>1, <3>2, OneShotStep
  <2>11. ASSUME NEW c \in Call, RunnerReturns(c) \/ RunnerFails(c) PROVE OneShotClosed'
    <3>1. OnlyCall(c)
      BY <2>0, <2>11
      DEF RunnerReturns, RunnerFails, Finish, Audit, approvalVars, TypeOK, OnlyCall
    <3>2. c \in oneShot' /\ pc'[c] = "done" => session'[c] \notin live'
      BY <2>11 DEF RunnerReturns, RunnerFails, CloseIfOneShot
    <3> QED BY <3>1, <3>2, OneShotStep
  <2>12. CASE UNCHANGED vars
    BY <2>1, <2>12 DEF vars, callVars
  <2> QED
    BY <2>2, <2>3, <2>4, <2>5, <2>6, <2>7, <2>8, <2>9, <2>10, <2>11, <2>12 DEF Next
<1> QED BY <1>1, <1>2, IInvHolds, PTL DEF Spec
=============================================================================
