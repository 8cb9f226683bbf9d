------------------------------ MODULE Sessions ------------------------------
(***************************************************************************)
(* SessionManager (sessions.py): logical sessions, their idle expiry, and   *)
(* the pipeline every command goes through: policy, approval, concurrency   *)
(* cap, ops job, audit.  A call is one execute() or run() of a client; its  *)
(* coroutine is cut at its awaits, and whatever lies between two awaits is  *)
(* one step of the event loop (the lock bodies never await).                *)
(*                                                                          *)
(* The policy is SecurityPolicy's Evaluate; the approval registry is its    *)
(* abstract specification OneDecision, which Approval implements; the       *)
(* CommandRunner is external here: it takes its time, then returns or       *)
(* raises.  What the cap promises is SlotPool.                              *)
(***************************************************************************)
EXTENDS SecurityPolicy, FiniteSets

CONSTANTS
  Session,        \* session ids (uuid4)
  Call,           \* invocations of execute() and run()
  Policy,         \* the PolicyEngine's configuration
  AllowList,      \* the preapproved_patterns callers pass
  IdleTimeout,    \* session_idle_timeout_seconds, in ticks
  MaxConcurrent,  \* max_concurrent_jobs
  MaxTime,        \* bound: the clock stops here
  NoSession, NoCommand

ASSUME SessionsAssumption ==
  /\ Policy \in Config
  /\ AllowList \subseteq SUBSET Pattern
  /\ IdleTimeout \in Nat /\ MaxConcurrent \in Nat /\ MaxTime \in Nat
  /\ NoSession \notin Session /\ NoCommand \notin Command
  /\ IsFiniteSet(Call)

VARIABLES
  now,       \* time.monotonic(), in ticks
  opened,    \* history: every session id ever created
  live,      \* the keys of SessionManager._sessions
  last,      \* SessionContext.last_active_at
  exempt,    \* SessionContext.approved_regexes
  allowed,   \* SessionContext.preapproved_patterns
  inflight,  \* SessionManager._inflight
  pc,        \* where each call's coroutine stands
  oneShot,   \* the calls that are run(), not execute()
  session,   \* the session each call works in
  command,   \* the command each call carries
  matched,   \* the verdict's matched_pattern of each call
  result,    \* how each call ended
  trail,     \* the outcomes audited for each call, in order
  asker,     \* OneDecision: the approval each call waits for
  outcome    \* OneDecision: what was decided

sessionVars == <<opened, last, exempt, allowed>>
callVars == <<pc, oneShot, session, command, matched, result, trail>>
approvalVars == <<asker, outcome>>
vars == <<now, live, sessionVars, inflight, callVars, approvalVars>>

Approvals == INSTANCE OneDecision WITH Req <- Call

Result == {"none", "executed", "blocked", "queued", "denied", "auto_denied",
           "session_expired", "needs_selection", "no_session", "error"}

AuditOutcome == {"blocked", "pending_approval", "approved", "denied",
                 "auto_denied", "executed"}

TypeOK ==
  /\ now \in 0..MaxTime
  /\ live \subseteq opened /\ opened \subseteq Session
  /\ last \in [Session -> 0..MaxTime]
  /\ exempt \in [Session -> SUBSET Pattern]
  /\ allowed \in [Session -> SUBSET Pattern]
  /\ inflight \in Nat
  /\ pc \in [Call -> {"idle", "opening", "gating", "running", "done"}]
  /\ oneShot \subseteq Call
  /\ session \in [Call -> Session \cup {NoSession}]
  /\ command \in [Call -> Command \cup {NoCommand}]
  /\ matched \in [Call -> Pattern \cup {NoPattern}]
  /\ result \in [Call -> Result]
  /\ trail \in [Call -> Seq(AuditOutcome)]
  /\ asker \in [Call -> {"idle", "open", "answered", "gone"}]
  /\ outcome \in [Call -> {"none", "approved", "denied", "auto_denied"}]

Init ==
  /\ now = 0
  /\ opened = {} /\ live = {}
  /\ last = [s \in Session |-> 0]
  /\ exempt = [s \in Session |-> {}]
  /\ allowed = [s \in Session |-> {}]
  /\ inflight = 0
  /\ pc = [c \in Call |-> "idle"]
  /\ oneShot = {}
  /\ session = [c \in Call |-> NoSession]
  /\ command = [c \in Call |-> NoCommand]
  /\ matched = [c \in Call |-> NoPattern]
  /\ result = [c \in Call |-> "none"]
  /\ trail = [c \in Call |-> <<>>]
  /\ Approvals!Init

-----------------------------------------------------------------------------
(* The parts of a call's steps.                                             *)

\* Seeded defect: a session that is exactly at its limit is discarded.
IdleAtLimit == {s \in live : now - last[s] >= IdleTimeout}

(* _expire_idle(): what it discards.                                        *)
Idle == {s \in live : now - last[s] > IdleTimeout}

(* ctx.touch(), which works on the context even if it was discarded.        *)
Touch(s) == last' = [last EXCEPT ![s] = now]

\* Seeded defect: one record per call, overwritten by the next one.
AuditLatest(c, records) == trail' = [trail EXCEPT ![c] = records]

Audit(c, records) == trail' = [trail EXCEPT ![c] = @ \o records]

MoveTo(c, place) ==
  /\ pc' = [pc EXCEPT ![c] = place]
  /\ UNCHANGED result

Finish(c, how) ==
  /\ pc' = [pc EXCEPT ![c] = "done"]
  /\ result' = [result EXCEPT ![c] = how]

\* Seeded defect: the session is closed on success only (no finally).
CloseOnSuccess(c, s, oneshot, kept) ==
  live' = IF oneshot /\ result'[c] = "executed" THEN kept \ {s} ELSE kept

(* The end of a one-shot call closes its session (run()'s finally); every   *)
(* other call leaves the sessions that `kept` names.                        *)
CloseIfOneShot(c, s, oneshot, kept) ==
  live' = IF oneshot /\ pc'[c] = "done" THEN kept \ {s} ELSE kept

\* Seeded defect: the comparison lets one more in.
AboveCap == inflight > MaxConcurrent

AtCap == inflight >= MaxConcurrent

\* Seeded defect: the slot is not counted.
DispatchUncounted(c) ==
  \/ AtCap /\ Finish(c, "queued") /\ UNCHANGED inflight
  \/ ~AtCap /\ MoveTo(c, "running") /\ UNCHANGED inflight

(* _dispatch() up to its await: a slot, or "queued".                        *)
Dispatch(c) ==
  \/ AtCap /\ Finish(c, "queued") /\ UNCHANGED inflight
  \/ ~AtCap /\ MoveTo(c, "running") /\ inflight' = inflight + 1

(* execute() from the session's lookup to its first await: the verdict, and *)
(* what it leads to here.  What a question does to the approval registry is *)
(* AskIfGated, so that GatedSessions can put the registry itself there.     *)
Judge(c, s, m, preapproved) ==
  LET verdict == Evaluate(Policy, m, exempt[s], preapproved)
  IN  /\ session' = [session EXCEPT ![c] = s]
      /\ command' = [command EXCEPT ![c] = m]
      /\ matched' = [matched EXCEPT ![c] = verdict.matched]
      /\ Touch(s)
      /\ \/ /\ verdict.decision = "block"
            /\ Audit(c, <<"blocked">>)
            /\ Finish(c, "blocked")
            /\ UNCHANGED inflight
         \/ /\ verdict.decision = "pending_approval"
            /\ Audit(c, <<"pending_approval">>)
            /\ MoveTo(c, "gating")
            /\ UNCHANGED inflight
         \/ /\ verdict.decision = "allow"
            /\ Dispatch(c)
            /\ UNCHANGED trail

AskIfGated(c) ==
  IF pc'[c] = "gating" THEN Approvals!Ask(c) ELSE UNCHANGED approvalVars

-----------------------------------------------------------------------------
(* Sessions.                                                                *)

(* open_session() up to its first await, and active_count.                  *)
Sweep ==
  /\ live' = live \ Idle
  /\ UNCHANGED <<now, sessionVars, inflight, callVars, approvalVars>>

Create(s, preapproved) ==
  /\ s \notin opened
  /\ opened' = opened \cup {s}
  /\ allowed' = [allowed EXCEPT ![s] = preapproved]

(* open_session() after its lookups, when they gave one account.  One that  *)
(* gives no host, no account or a choice of accounts creates nothing.       *)
OpenSession(s, preapproved) ==
  /\ Create(s, preapproved)
  /\ live' = live \cup {s}
  /\ Touch(s)
  /\ UNCHANGED <<now, exempt, inflight, callVars, approvalVars>>

CloseSession(s) ==
  /\ s \in live
  /\ live' = live \ {s}
  /\ UNCHANGED <<now, sessionVars, inflight, callVars, approvalVars>>

Tick ==
  /\ now < MaxTime
  /\ now' = now + 1
  /\ UNCHANGED <<live, sessionVars, inflight, callVars, approvalVars>>

(* An approver resolves the request of a call.                              *)
HumanDecides(c, verdict) ==
  /\ Approvals!Decide(c, verdict)
  /\ UNCHANGED <<now, live, sessionVars, inflight, callVars>>

-----------------------------------------------------------------------------
(* Calls.                                                                   *)

(* execute() on an id of a session that is gone: SessionExpiredError.       *)
ExecuteExpired(c, s, m) ==
  /\ pc[c] = "idle"
  /\ s \in opened \ (live \ Idle)
  /\ live' = live \ Idle
  /\ Finish(c, "session_expired")
  /\ session' = [session EXCEPT ![c] = s]
  /\ command' = [command EXCEPT ![c] = m]
  /\ UNCHANGED <<now, sessionVars, inflight, oneShot, matched, trail, approvalVars>>

Submit(c, s, m) ==
  /\ pc[c] = "idle"
  /\ s \in live \ Idle
  /\ Judge(c, s, m, allowed[s])
  /\ live' = live \ Idle
  /\ UNCHANGED <<now, opened, exempt, allowed, oneShot>>

Execute(c, s, m) == Submit(c, s, m) /\ AskIfGated(c)

(* run() up to the lookups of open_session().                               *)
Run(c, m) ==
  /\ pc[c] = "idle"
  /\ MoveTo(c, "opening")
  /\ oneShot' = oneShot \cup {c}
  /\ command' = [command EXCEPT ![c] = m]
  /\ live' = live \ Idle
  /\ UNCHANGED <<now, sessionVars, inflight, session, matched, trail, approvalVars>>

(* The lookups give no session: a choice of accounts is returned as it is,  *)
(* an unknown host or account makes opened["session_id"] raise KeyError, and*)
(* a lookup may itself raise or be cancelled.                               *)
RunRefused(c, why) ==
  /\ pc[c] = "opening"
  /\ Finish(c, why)
  /\ UNCHANGED <<now, live, sessionVars, inflight, oneShot, session, command,
                 matched, trail, approvalVars>>

(* The lookups give one account: the session is created and the command     *)
(* submitted without an await in between.                                   *)
SubmitOpened(c, s, preapproved) ==
  /\ pc[c] = "opening"
  /\ Create(s, preapproved)
  /\ Judge(c, s, command[c], preapproved)
  /\ CloseIfOneShot(c, s, TRUE, (live \ Idle) \cup {s})
  /\ UNCHANGED <<now, exempt, oneShot>>

RunOpened(c, s, preapproved) == SubmitOpened(c, s, preapproved) /\ AskIfGated(c)

(* How request_approval() comes back: with an approver's decision, or with  *)
(* the timeout's.                                                           *)
DecisionArrives(c) == Approvals!Deliver(c) \/ Approvals!Expire(c)

\* Seeded defect: only an explicit denial stops the command.
ClearedUnlessDenied(decision) == decision # "denied"

Cleared(decision) == decision = "approved"

\* Seeded defect: the exemption is not confined to the call's session.
ExemptEverywhere(c) == exempt' = [s \in Session |-> exempt[s] \cup {matched[c]}]

Exempt(c) == exempt' = [exempt EXCEPT ![session[c]] = @ \cup {matched[c]}]

(* request_approval() returns with a decision: it is audited, an approval   *)
(* exempts the pattern for the session, and the command is dispatched,      *)
(* whether or not the session is still open.                                *)
AfterGate(c, decision) ==
  /\ pc[c] = "gating"
  /\ Audit(c, <<decision>>)
  /\ \/ /\ Cleared(decision)
        /\ Exempt(c)
        /\ Dispatch(c)
        /\ IF pc'[c] = "done" THEN Touch(session[c]) ELSE UNCHANGED last
     \/ /\ ~Cleared(decision)
        /\ Finish(c, decision)
        /\ UNCHANGED <<exempt, last, inflight>>
  /\ CloseIfOneShot(c, session[c], c \in oneShot, live)
  /\ UNCHANGED <<now, opened, allowed, oneShot, session, command, matched>>

GateReturns(c) == DecisionArrives(c) /\ AfterGate(c, outcome'[c])

(* request_approval() raises, or the call is cancelled while it waits.      *)
LeaveGate(c) ==
  /\ pc[c] = "gating"
  /\ Finish(c, "error")
  /\ CloseIfOneShot(c, session[c], c \in oneShot, live)
  /\ UNCHANGED <<now, sessionVars, inflight, oneShot, session, command, matched, trail>>

GateFails(c) == Approvals!GiveUp(c) /\ LeaveGate(c)

(* CommandRunner.run() returns a result: slot, audit record, activity.      *)
RunnerReturns(c) ==
  /\ pc[c] = "running"
  /\ inflight' = inflight - 1
  /\ Audit(c, <<"executed">>)
  /\ Finish(c, "executed")
  /\ Touch(session[c])
  /\ CloseIfOneShot(c, session[c], c \in oneShot, live)
  /\ UNCHANGED <<now, opened, exempt, allowed, oneShot, session, command,
                 matched, approvalVars>>

(* CommandRunner.run() raises or is cancelled: only the slot is given back, *)
(* and nothing is recorded, whatever was executed.                          *)
RunnerFails(c) ==
  /\ pc[c] = "running"
  /\ inflight' = inflight - 1
  /\ Finish(c, "error")
  /\ CloseIfOneShot(c, session[c], c \in oneShot, live)
  /\ UNCHANGED <<now, sessionVars, oneShot, session, command, matched, trail,
                 approvalVars>>

-----------------------------------------------------------------------------
OpensSession(s) == \E preapproved \in AllowList : OpenSession(s, preapproved)

RunnerEnds(c) == RunnerReturns(c) \/ RunnerFails(c)

Next ==
  \/ Sweep
  \/ Tick
  \/ \E s \in Session : OpensSession(s) \/ CloseSession(s)
  \/ \E c \in Call :
       \/ \E verdict \in {"approved", "denied"} : HumanDecides(c, verdict)
       \/ \E s \in Session, m \in Command : ExecuteExpired(c, s, m) \/ Execute(c, s, m)
       \/ \E m \in Command : Run(c, m)
       \/ \E why \in {"needs_selection", "no_session", "error"} : RunRefused(c, why)
       \/ \E s \in Session, preapproved \in AllowList : RunOpened(c, s, preapproved)
       \/ GateReturns(c)
       \/ GateFails(c)
       \/ RunnerReturns(c)
       \/ RunnerFails(c)

Spec == Init /\ [][Next]_vars

-----------------------------------------------------------------------------
HoldsSlot == {c \in Call : pc[c] = "running"}

ApprovedCalls(s) ==
  {c \in Call : session[c] = s /\ asker[c] = "answered" /\ outcome[c] = "approved"}

Recorded(c, o) == \E i \in DOMAIN trail[c] : trail[c][i] = o

(* The counter of in-flight jobs is the number of calls that hold a slot,   *)
(* whatever way they gave it back, and never exceeds the cap (296-319).     *)
SlotsAccounted ==
  /\ inflight = Cardinality(HoldsSlot)
  /\ inflight <= MaxConcurrent

Pool == INSTANCE SlotPool WITH
  Caller <- Call, Slots <- MaxConcurrent,
  holding <- HoldsSlot,
  left <- {c \in Call : pc[c] = "done"},
  refused <- {c \in Call : result[c] = "queued"},
  others <- 0

(* Seen from the cap, the manager is a pool of slots: a command is refused  *)
(* only while every slot is taken by a command in flight, runs only with a  *)
(* slot of its own, and gives it back on every way out (296-319).           *)
ImplementsSlotPool == Pool!Spec

(* A command that reached the runner matches no tier-1 pattern, is on the   *)
(* whitelist if there is one, and if a tier-2 pattern comes first, that     *)
(* pattern was pre-approved by the session's opener or approved by a human  *)
(* for a call of the SAME session.                                          *)
OnlyClearedCommandsRun ==
  \A c \in Call :
    pc[c] = "running" \/ result[c] = "executed" =>
      LET risk == FirstMatch(command[c], Policy.tier2)
      IN  /\ FirstMatch(command[c], Policy.tier1) = NoPattern
          /\ Policy.mode = "whitelist" =>
               FirstMatch(command[c], Policy.whitelist) # NoPattern
          /\ \/ risk = NoPattern
             \/ Preapproved(risk, allowed[session[c]])
             \/ \E d \in ApprovedCalls(session[c]) : matched[d] = risk

(* A session's exemptions are exactly the patterns of the commands approved *)
(* and delivered in it: none leaks from another session, none gets lost.    *)
ExemptionsEarned ==
  \A s \in Session : exempt[s] = {matched[c] : c \in ApprovedCalls(s)}

(* The audit trail tells the story of the call: a returned result is on     *)
(* record, and what is recorded as executed reached the runner with every   *)
(* decision it waited for in its favour; a call that asked has its request  *)
(* on record and, once answered, the decision it was given, and without an  *)
(* answer no decision.  Whether a run that raised is recorded is left open. *)
AuditAgrees ==
  \A c \in Call :
    /\ result[c] = "executed" => Recorded(c, "executed")
    /\ Recorded(c, "executed") =>
         /\ result[c] \in {"executed", "error"}
         /\ asker[c] # "idle" => asker[c] = "answered" /\ outcome[c] = "approved"
    /\ Recorded(c, "blocked") <=> result[c] = "blocked"
    /\ asker[c] # "idle" => trail[c] # <<>> /\ trail[c][1] = "pending_approval"
    /\ asker[c] = "answered" => Len(trail[c]) >= 2 /\ trail[c][2] = outcome[c]
    /\ asker[c] # "answered" =>
         \A o \in {"approved", "denied", "auto_denied"} : ~Recorded(c, o)

(* run() leaves no session behind, however it ends.                         *)
OneShotClosed ==
  \A c \in oneShot : pc[c] = "done" => session[c] \notin live

(* A session is discarded only when it is idle, closed, or its one-shot     *)
(* call has ended; a discarded session never comes back, not even when a    *)
(* command that was still running touches it.                               *)
SessionLifecycle ==
  [][\A s \in opened :
       /\ s \in live \ live' =>
            \/ now - last[s] > IdleTimeout
            \/ CloseSession(s)
            \/ \E c \in oneShot : session[c] = s /\ pc'[c] = "done"
       /\ s \notin live => s \notin live']_vars

(* user-connection/spec.md:76-78: a closed or expired session's context is  *)
(* discarded: no command starts in it afterwards.                           *)
DiscardedRunsNothing ==
  [][\A c \in Call :
       pc[c] = "gating" /\ pc'[c] = "running" => session[c] \in live]_vars

(* security-controls/spec.md:85-86: "The system SHALL log all command       *)
(* executions": a command that was handed to the runner is on record when   *)
(* the runner is done with it, with a result or without one.                *)
ExecutionsAreLogged ==
  [][\A c \in Call :
       pc[c] = "running" /\ pc'[c] = "done" => Recorded(c, "executed")']_vars
=============================================================================
