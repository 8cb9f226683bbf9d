------------------------------- MODULE OpsJob -------------------------------
(***************************************************************************)
(* OpsJobExecutor.run() (ops_executor.py): create a JumpServer ops job with *)
(* at most Attempts POSTs, then poll its task-detail until it is finished,  *)
(* the poll budget is spent, or the connection fails.                       *)
(*                                                                          *)
(* JumpServer and the network are external: a POST travels until the server *)
(* handles it or it is lost; the client's attempt may fail (a transport     *)
(* error, a timeout) at any moment, also after the server created the job   *)
(* and while the request is still on its way.  A GET changes nothing at the *)
(* server and is one step.                                                  *)
(***************************************************************************)
EXTENDS Integers

CONSTANTS
  Retries,     \* settings.jumpserver_unreachable_retries
  PollBudget   \* settings.ops_poll_max_attempts, or poll()'s max_attempts

ASSUME OpsJobAssumption == Retries \in Int /\ PollBudget \in Int

AtLeastOne(n) == IF n > 1 THEN n ELSE 1

Attempts == AtLeastOne(Retries)
Polls == AtLeastOne(PollBudget)

VARIABLES
  pc,       \* "idle", "posting", "polling" or "done"
  attempt,  \* the POST attempt that is being made, or was the last one made
  reply,    \* the server's answer to that attempt, once it has given one
  task,     \* the task_id dispatch() returned: the attempt that created it, or 0
  gets,     \* failed GETs of the current _get_with_retry() call
  polls,    \* completed polls that found the task unfinished
  result,   \* what run() returned or raised
  wire,     \* the POSTs (by attempt) that the server has not handled yet
  job       \* the server's job of each attempt

client == <<pc, attempt, task, gets, polls, result>>
vars == <<client, reply, wire, job>>

Creating == {"created", "no_task", "garbled", "unhealthy"}
Refusing == {"forbidden", "rejected", "unhealthy"}

Result == {"none", "finished", "jumpserver_unreachable", "permission_denied",
           "connection_interrupted", "internal_error", "cancelled"}

TypeOK ==
  /\ pc \in {"idle", "posting", "polling", "done"}
  /\ attempt \in 0..Attempts
  /\ reply \in {"none"} \cup Creating \cup Refusing
  /\ task \in 0..Attempts
  /\ gets \in 0..(Attempts - 1)
  /\ polls \in 0..Polls
  /\ result \in Result
  /\ wire \in SUBSET (1..Attempts)
  /\ job \in [1..Attempts -> {"none", "running", "finished"}]

Init ==
  /\ pc = "idle" /\ attempt = 0 /\ reply = "none" /\ task = 0
  /\ gets = 0 /\ polls = 0 /\ result = "none"
  /\ wire = {}
  /\ job = [k \in 1..Attempts |-> "none"]

-----------------------------------------------------------------------------
(* JumpServer and the network (external).                                   *)

(* The answer reaches the client only if it still waits for this attempt.   *)
Answer(k, kind) ==
  /\ wire' = wire \ {k}
  /\ reply' = IF pc = "posting" /\ attempt = k THEN kind ELSE reply
  /\ UNCHANGED client

ServerCreates(k, kind) ==
  /\ k \in wire
  /\ job' = [job EXCEPT ![k] = "running"]
  /\ Answer(k, kind)

ServerRefuses(k, kind) ==
  /\ k \in wire
  /\ Answer(k, kind)
  /\ UNCHANGED job

RequestLost(k) ==
  /\ k \in wire
  /\ wire' = wire \ {k}
  /\ UNCHANGED <<client, reply, job>>

JobFinishes(k) ==
  /\ job[k] = "running"
  /\ job' = [job EXCEPT ![k] = "finished"]
  /\ UNCHANGED <<client, reply, wire>>

-----------------------------------------------------------------------------
(* The client.                                                              *)

Send(k) ==
  /\ attempt' = k
  /\ wire' = wire \cup {k}
  /\ reply' = "none"

End(how) ==
  /\ pc' = "done"
  /\ result' = how

Start ==
  /\ pc = "idle"
  /\ pc' = "posting"
  /\ Send(1)
  /\ UNCHANGED <<task, gets, polls, result, job>>

(* One more attempt, or JumpServerUnreachableError after the last one.      *)
RetryPost ==
  \/ /\ attempt < Attempts
     /\ Send(attempt + 1)
     /\ UNCHANGED <<pc, result>>
  \/ /\ attempt = Attempts
     /\ End("jumpserver_unreachable")
     /\ UNCHANGED <<attempt, reply, wire>>

(* httpx raises a TransportError, or the answer is a 5xx.                   *)
PostFails ==
  /\ pc = "posting"
  /\ RetryPost
  /\ UNCHANGED <<task, gets, polls, job>>

(* dispatch(): 2xx with a task_id.                                          *)
Accepted ==
  /\ pc = "posting" /\ reply = "created"
  /\ task' = attempt
  /\ pc' = "polling"
  /\ UNCHANGED <<attempt, gets, polls, result, reply, wire, job>>

(* dispatch(): 403; any other 4xx or a body without task_id; a body that is *)
(* no JSON at all raises out of resp.json().                                *)
Refusal ==
  [forbidden |-> "permission_denied", rejected |-> "jumpserver_unreachable",
   no_task |-> "jumpserver_unreachable", garbled |-> "internal_error"]

Refused ==
  /\ pc = "posting" /\ reply \in DOMAIN Refusal
  /\ End(Refusal[reply])
  /\ UNCHANGED <<attempt, task, gets, polls, reply, wire, job>>

\* Seeded defect: one GET too many.
GetFailsOnceMore ==
  /\ pc = "polling"
  /\ \/ gets < Attempts /\ gets' = gets + 1 /\ UNCHANGED <<pc, result>>
     \/ gets = Attempts /\ End("jumpserver_unreachable") /\ UNCHANGED gets
  /\ UNCHANGED <<attempt, task, polls, reply, wire, job>>

(* _get_with_retry(): one GET fails; the last failure raises.               *)
GetFails ==
  /\ pc = "polling"
  /\ \/ gets < Attempts - 1 /\ gets' = gets + 1 /\ UNCHANGED <<pc, result>>
     \/ gets = Attempts - 1 /\ End("jumpserver_unreachable") /\ UNCHANGED gets
  /\ UNCHANGED <<attempt, task, polls, reply, wire, job>>

(* poll(): a 4xx, or a body that is not JSON.                               *)
PollRefused(how) ==
  /\ pc = "polling"
  /\ End(how)
  /\ UNCHANGED <<attempt, task, gets, polls, reply, wire, job>>

\* Seeded defects: the spent budget passes for success; it leads to another
\* POST of the command while the first task is still followed; polls are not
\* counted.
UnfinishedAsSuccess ==
  /\ pc = "polling" /\ job[task] = "running"
  /\ gets' = 0 /\ polls' = polls + 1
  /\ IF polls + 1 = Polls THEN End("finished") ELSE UNCHANGED <<pc, result>>
  /\ UNCHANGED <<attempt, task, reply, wire, job>>
UnfinishedRepost ==
  /\ pc = "polling" /\ job[task] = "running"
  /\ gets' = 0 /\ polls' = (polls + 1) % Polls
  /\ IF polls' = 0 /\ attempt < Attempts THEN Send(attempt + 1)
     ELSE UNCHANGED <<attempt, reply, wire>>
  /\ UNCHANGED <<pc, result, task, job>>
UnfinishedForever ==
  /\ pc = "polling" /\ job[task] = "running"
  /\ gets' = 0
  /\ UNCHANGED <<pc, result, polls, attempt, task, reply, wire, job>>

(* poll(): the task is not finished; the last poll of the budget raises     *)
(* ConnectionInterruptedError.                                              *)
Unfinished ==
  /\ pc = "polling" /\ job[task] = "running"
  /\ gets' = 0
  /\ polls' = polls + 1
  /\ IF polls' = Polls THEN End("connection_interrupted") ELSE UNCHANGED <<pc, result>>
  /\ UNCHANGED <<attempt, task, reply, wire, job>>

Finished ==
  /\ pc = "polling" /\ job[task] = "finished"
  /\ End("finished")
  /\ UNCHANGED <<attempt, task, gets, polls, reply, wire, job>>

(* The calling task is cancelled.                                           *)
Cancel ==
  /\ pc \in {"posting", "polling"}
  /\ End("cancelled")
  /\ UNCHANGED <<attempt, task, gets, polls, reply, wire, job>>

-----------------------------------------------------------------------------
Post == PostFails \/ Accepted \/ Refused
Poll ==
  \/ GetFails
  \/ \E how \in {"jumpserver_unreachable", "internal_error"} : PollRefused(how)
  \/ Unfinished
  \/ Finished

JumpServer ==
  \E k \in 1..Attempts :
    \/ \E kind \in Creating : ServerCreates(k, kind)
    \/ \E kind \in Refusing : ServerRefuses(k, kind)
    \/ RequestLost(k)
    \/ JobFinishes(k)

Next ==
  \/ JumpServer
  \/ Start
  \/ PostFails
  \/ Accepted
  \/ Refused
  \/ GetFails
  \/ \E how \in {"jumpserver_unreachable", "internal_error"} : PollRefused(how)
  \/ Unfinished
  \/ Finished
  \/ Cancel

Spec == Init /\ [][Next]_vars

(* Every request of the client ends, by an answer or by httpx's timeout, and*)
(* the sleeps between them end.  The server owes nothing.                   *)
FairSpec == Spec /\ WF_vars(Post) /\ WF_vars(Poll)

-----------------------------------------------------------------------------
Created == {k \in 1..Attempts : job[k] # "none"}

(* What the caller may conclude from how run() ended.  A result is given    *)
(* only of the job that was followed, and only once it has finished; a job  *)
(* that outlives the poll budget is called interrupted and nothing else     *)
(* (ops_executor.py 11-13, errors.py 15-16); and "permission_denied" is     *)
(* said only if the last POST created nothing and never will.  Nothing is   *)
(* claimed of a connection that drops while the job runs: the specification *)
(* calls that interrupted too, the code jumpserver_unreachable.             *)
ResultIsHonest ==
  /\ result = "finished" => task \in Created /\ job[task] = "finished"
  /\ polls = Polls => result = "connection_interrupted"
  /\ result = "permission_denied" => attempt \notin Created \cup wire

Place == CASE pc = "idle" -> "idle" [] pc = "done" -> "over" [] OTHER -> "busy"
Performed == {k \in 1..Attempts : job[k] = "finished"}
Answered == IF result = "finished" THEN task ELSE 0

Job == INSTANCE JobRun WITH
  Post <- 1..Attempts, place <- Place, performed <- Performed, answer <- Answered

(* run() keeps the promise that CommandRun builds on: its result is the     *)
(* work of the last post it made, and whatever else JumpServer carries out, *)
(* then or later, was posted before that one.                               *)
ImplementsJobRun == Job!Spec

(* Any job beside the one that is followed comes from an earlier attempt,   *)
(* one the client saw fail: a job is duplicated by nothing but that retry.  *)
DuplicatesAreRetries ==
  task # 0 => \A k \in Created \ {task} : k < task

(* Once the client holds a task id it never posts the command again, and it *)
(* follows that task to the end.                                            *)
KnownTaskIsNotRepeated ==
  [][task # 0 => task' = task /\ attempt' = attempt /\ wire' \subseteq wire]_vars

(* run() comes back, whatever the server does.                              *)
RunEnds == pc = "posting" ~> pc = "done"

(* ops_executor.py:9-10: "Command execution is NEVER auto-retried here":    *)
(* one run() leads to one job at most.                                      *)
OneJobPerRun == \A j, k \in Created : j = k
=============================================================================
