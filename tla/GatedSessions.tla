--------------------------- MODULE GatedSessions ---------------------------
(***************************************************************************)
(* SessionManager (sessions.py) on its ApprovalManager (approval.py): the   *)
(* session manager of Sessions with the registry itself where that has      *)
(* OneDecision.  A call of execute() or run() asks at most once, so a call  *)
(* and its request have one name, Req.                                      *)
(*                                                                          *)
(* A joint step is what one coroutine does between two awaits: the manager's*)
(* part of it (S!Submit, S!AfterGate, ...) and the registry's.  A call that *)
(* comes back from request_approval() acts on the state that its request    *)
(* has by then.  Nothing here says what OneDecision would allow: that the   *)
(* whole is still the manager of Sessions is a claim, not a definition.     *)
(***************************************************************************)
EXTENDS ApprovalRefinement, FiniteSets

CONSTANTS
  Command, Pattern, NoPattern, Hits, Covers, DefaultTier1, DefaultTier2,
  Session, Policy, AllowList, IdleTimeout, MaxConcurrent, MaxTime,
  NoSession, NoCommand

VARIABLES now, opened, live, last, exempt, allowed, inflight, pc, oneShot,
          session, command, matched, result, trail

S == INSTANCE Sessions WITH Call <- Req, asker <- Asker, outcome <- Outcome

ASSUME GatedAssumption ==
  /\ NoPattern \notin Pattern
  /\ Hits \subseteq Command \X Pattern
  /\ Covers \subseteq Pattern \X Pattern
  /\ DefaultTier1 \in Seq(Pattern) /\ DefaultTier2 \in Seq(Pattern)
  /\ Policy \in S!Config
  /\ AllowList \subseteq SUBSET Pattern
  /\ IdleTimeout \in Nat /\ MaxConcurrent \in Nat /\ MaxTime \in Nat
  /\ NoSession \notin Session /\ NoCommand \notin Command
  /\ IsFiniteSet(Req)

manager == <<now, opened, live, last, exempt, allowed, inflight, pc, oneShot,
             session, command, matched, result, trail>>
all == <<vars, manager>>

GatedInit == Init /\ S!Init

-----------------------------------------------------------------------------
(* The steps of one of the two alone.                                       *)

(* What has nothing to do with approvals.                                   *)
Elsewhere ==
  /\ UNCHANGED vars
  /\ \/ S!Sweep
     \/ S!Tick
     \/ \E s \in Session : S!OpensSession(s) \/ S!CloseSession(s)
     \/ \E c \in Req, m \in Command :
          S!Run(c, m) \/ \E s \in Session : S!ExecuteExpired(c, s, m)

RunRefused(c) ==
  /\ UNCHANGED vars
  /\ \E why \in {"needs_selection", "no_session", "error"} : S!RunRefused(c, why)

RunnerEnds(c) == UNCHANGED vars /\ S!RunnerEnds(c)

(* The approvers, the auto-decider and the clock of wait_for().             *)
Answers(c) ==
  /\ UNCHANGED manager
  /\ \E a \in Approver, approve \in BOOLEAN : Resolve(c, a, approve)

Decides(c) == Decider(c) /\ UNCHANGED manager

TimesOut(c) == TimerFires(c) /\ UNCHANGED manager

-----------------------------------------------------------------------------
(* The joint steps.                                                         *)

(* _gate_command() calls request_approval() exactly when the policy says so.*)
Asks(c) == IF pc'[c] = "gating" THEN Request(c) ELSE UNCHANGED vars

Execute(c, s, m) == S!Submit(c, s, m) /\ Asks(c)

RunOpened(c, s, preapproved) == S!SubmitOpened(c, s, preapproved) /\ Asks(c)

\* Seeded defect: the state that the request had before the wait ended.
GateReturnsStale(c) == Resume(c) /\ S!AfterGate(c, state[c])

(* request_approval() returns its request; what counts is req.state.        *)
GateReturns(c) == Resume(c) /\ S!AfterGate(c, state'[c])

GateFails(c) == Fail(c) /\ S!LeaveGate(c)

OpeningEnds(c) ==
  \/ RunRefused(c)
  \/ \E s \in Session, preapproved \in AllowList : RunOpened(c, s, preapproved)

GatedNext ==
  \/ Elsewhere
  \/ \E c \in Req :
       \/ Answers(c) \/ Decides(c) \/ TimesOut(c)
       \/ \E s \in Session, m \in Command : Execute(c, s, m)
       \/ OpeningEnds(c)
       \/ GateReturns(c)
       \/ GateFails(c)
       \/ RunnerEnds(c)

GatedSpec == GatedInit /\ [][GatedNext]_all

(* The event loop runs what is ready and fires the timers that are due; the *)
(* auto-decider is assumed to come back; lookups and the runner end by the  *)
(* timeouts and budgets of their requests.  Approvers owe nothing.          *)
GatedFairness ==
  \A c \in Req :
    /\ WF_all(OpeningEnds(c)) /\ WF_all(RunnerEnds(c)) /\ WF_all(GateReturns(c))
    /\ WF_all(Decides(c)) /\ WF_all(TimesOut(c))

GatedFairSpec == GatedSpec /\ GatedFairness

-----------------------------------------------------------------------------
(* On the registry itself the manager is still the manager of Sessions, so  *)
(* whatever holds there holds here (sessions.py 259, approval.py 78-134).   *)
ImplementsSessions == S!Spec

Approves(c) == accepted[c] # <<>> /\ accepted[c][1][2]
Denies(c) == accepted[c] # <<>> /\ ~accepted[c][1][2]

(* What an approver was told is what happens, across the registry, the      *)
(* waiter's resumption and the manager's reading of the request: a denial   *)
(* that counted stops the command for good, an approval that counted is     *)
(* never turned into a refusal, and a wait that nobody answered ends as     *)
(* auto_denied.                                                             *)
AnswerIsObeyed ==
  \A c \in Req :
    /\ Approves(c) => result[c] \in {"none", "executed", "queued", "error"}
    /\ Denies(c) => pc[c] # "running" /\ result[c] \in {"none", "denied", "error"}
    /\ phase[c] = "returned" /\ accepted[c] = <<>> => result[c] = "auto_denied"

(* Behind every risky command that runs there is its opener's pre-approval, *)
(* or a resolve(approve=True) that returned True, for a call of the same    *)
(* session that waited for the same pattern and got the answer.             *)
RiskIsAnswered ==
  \A c \in Req :
    pc[c] = "running" \/ result[c] = "executed" =>
      LET risk == S!FirstMatch(command[c], Policy.tier2)
      IN  \/ risk = NoPattern
          \/ S!Preapproved(risk, allowed[session[c]])
          \/ \E d \in Req :
               /\ session[d] = session[c] /\ matched[d] = risk
               /\ phase[d] = "returned" /\ Approves(d)

(* Every call ends although no approver ever answers.                       *)
EveryCallEnds ==
  \A c \in Req : pc[c] \in {"opening", "gating", "running"} ~> pc[c] = "done"
=============================================================================
