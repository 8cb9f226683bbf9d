------------------------------ MODULE LargeLog ------------------------------
(***************************************************************************)
(* The large-log tool (server.py) beside OpsJobExecutor.run(): it creates   *)
(* its job with one POST and follows it with a loop of its own, without     *)
(* retries, against the same JumpServer.  A behaviour follows one call of   *)
(* either tool.                                                             *)
(***************************************************************************)
EXTENDS OpsJob

CONSTANT LogPolls   \* the 20 rounds of the tool's polling loop

ASSUME LargeLogAssumption == LogPolls \in Nat \ {0}

VARIABLES
  tool,    \* whose call it is: "run" or "large_log"
  rounds,  \* rounds of the loop that found the task unfinished
  report   \* how _execute_large_log_tool() ended: what it says of the job

Report == {"none", "finished", "unfinished", "no_task", "raised"}

toolVars == <<vars, tool, rounds, report>>

InitTools ==
  Init /\ tool \in {"run", "large_log"} /\ rounds = 0 /\ report = "none"

-----------------------------------------------------------------------------
Ends(how) ==
  /\ pc' = "done"
  /\ report' = how

Goes(place) ==
  /\ pc' = place
  /\ UNCHANGED report

LogStart ==
  /\ pc = "idle"
  /\ Send(1)
  /\ Goes("posting")
  /\ UNCHANGED <<task, rounds, job>>

\* Seeded defect: the POST is repeated, as OpsJobExecutor repeats its own.
LogCreatedRetried ==
  /\ pc = "posting"
  /\ IF reply = "none" /\ attempt < Attempts
     THEN Send(attempt + 1) /\ UNCHANGED <<pc, report, task>>
     ELSE /\ reply = "created" /\ task' = attempt
          /\ Goes("polling") /\ UNCHANGED <<attempt, reply, wire>>
  /\ UNCHANGED <<rounds, job>>

LogCreated ==
  /\ pc = "posting" /\ reply = "created"
  /\ task' = attempt
  /\ Goes("polling")
  /\ UNCHANGED <<attempt, rounds, reply, wire, job>>

(* An answer without a task_id is reported without looking any further.     *)
LogNoTask ==
  /\ pc = "posting" /\ reply = "no_task"
  /\ Ends("no_task")
  /\ UNCHANGED <<attempt, task, rounds, reply, wire, job>>

(* The task is not finished; the last round's detail is reported as it is.  *)
LogUnfinished ==
  /\ pc = "polling" /\ job[task] = "running"
  /\ rounds' = rounds + 1
  /\ IF rounds' = LogPolls THEN Ends("unfinished") ELSE Goes("polling")
  /\ UNCHANGED <<attempt, task, reply, wire, job>>

LogFinished ==
  /\ pc = "polling" /\ job[task] = "finished"
  /\ Ends("finished")
  /\ UNCHANGED <<attempt, task, rounds, reply, wire, job>>

(* The POST or a poll raises, its answer is an error or no JSON, or the     *)
(* calling task is cancelled.                                               *)
LogRaises ==
  /\ pc \in {"posting", "polling"}
  /\ Ends("raised")
  /\ UNCHANGED <<attempt, task, rounds, reply, wire, job>>

-----------------------------------------------------------------------------
LogPost == LogCreated \/ LogNoTask \/ LogRaises
LogPoll == LogUnfinished \/ LogFinished \/ LogRaises

LogNext == LogStart \/ LogPost \/ LogPoll

NextTools ==
  \/ /\ JumpServer \/ (tool = "run" /\ Next)
     /\ UNCHANGED <<tool, rounds, report>>
  \/ /\ tool = "large_log" /\ LogNext
     /\ UNCHANGED <<tool, gets, polls, result>>

SpecTools == InitTools /\ [][NextTools]_toolVars

(* As for run(): the requests and sleeps of the client end.                 *)
FairSpecTools ==
  /\ SpecTools
  /\ WF_toolVars(tool = "run" /\ Post /\ UNCHANGED <<tool, rounds, report>>)
  /\ WF_toolVars(tool = "run" /\ Poll /\ UNCHANGED <<tool, rounds, report>>)
  /\ WF_toolVars(tool = "large_log" /\ LogPost /\ UNCHANGED <<tool, gets, polls, result>>)
  /\ WF_toolVars(tool = "large_log" /\ LogPoll /\ UNCHANGED <<tool, gets, polls, result>>)

-----------------------------------------------------------------------------
(* What the tool says of its job: "is_finished" only of one that did, and   *)
(* an unfinished one only after every round of the loop found it running;   *)
(* and it creates at most one job, also when it reports an error, for it    *)
(* never repeats its POST (server.py:405-437).                              *)
LogReportIsHonest ==
  tool = "large_log" =>
    /\ report = "finished" => job[task] = "finished"
    /\ report = "unfinished" => task \in Created /\ rounds = LogPolls
    /\ Created \cup wire \subseteq {1}
    /\ report \in Report /\ result = "none"
=============================================================================
