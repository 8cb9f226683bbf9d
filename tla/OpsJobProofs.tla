---------------------------- MODULE OpsJobProofs ----------------------------
(***************************************************************************)
(* For every retry count and poll budget: what OpsJobExecutor.run() may     *)
(* return, where duplicate jobs come from, and that a known task is never   *)
(* posted again.  The large-log tool, which follows its own job against the *)
(* same JumpServer, keeps run()'s invariant and what its report promises.   *)
(***************************************************************************)
EXTENDS LargeLog, TLAPS

(* How far each attempt got: nothing is on the wire or at the server but    *)
(* what was posted, and the server handles each POST once.                  *)
Posted ==
  /\ wire \cup Created \subseteq 1..attempt
  /\ wire \cap Created = {}
  /\ attempt = 0 <=> pc = "idle"

(* What the answer to the last attempt says about the server.               *)
LastReply ==
  /\ reply # "none" => attempt \notin wire
  /\ reply = "created" => attempt \in Created
  /\ reply = "forbidden" => attempt \notin Created

(* Which task the client follows, and how it ended.                         *)
Followed ==
  /\ pc \in {"idle", "posting"} => task = 0 /\ polls = 0
  /\ pc = "polling" => task # 0 /\ polls < Polls
  /\ task # 0 => task = attempt /\ task \in Created
  /\ pc # "done" => result = "none"
  /\ result = "finished" => task # 0 /\ job[task] = "finished"
  /\ polls = Polls => result = "connection_interrupted"
  /\ result = "permission_denied" => reply = "forbidden"

IInv == TypeOK /\ Posted /\ LastReply /\ Followed

(* At least one attempt is made and one poll, whatever the settings say.    *)
LEMMA CountsAreNat == Attempts \in Nat \ {0} /\ Polls \in Nat \ {0}
  BY OpsJobAssumption DEF Attempts, Polls, AtLeastOne

(* At the start nothing has been posted.                                    *)
LEMMA InitIInv == Init => IInv
  BY CountsAreNat
  DEF Init, IInv, TypeOK, Posted, LastReply, Followed, Created, Result, Creating, Refusing

(* Every step of run(), of JumpServer and of the network keeps the          *)
(* invariant.                                                               *)
LEMMA StepIInv == IInv /\ [Next]_vars => IInv'
<1> SUFFICES ASSUME IInv, [Next]_vars PROVE IInv'
  OBVIOUS
<1> USE CountsAreNat
    DEF IInv, TypeOK, Posted, LastReply, Followed, Created, Result, Creating, Refusing
<1>1. ASSUME NEW k \in 1..Attempts, NEW kind \in Creating, ServerCreates(k, kind)
      PROVE  IInv'
  BY <1>1 DEF ServerCreates, Answer, client
<1>2. ASSUME NEW k \in 1..Attempts, NEW kind \in Refusing, ServerRefuses(k, kind)
      PROVE  IInv'
  BY <1>2 DEF ServerRefuses, Answer, client
<1>3. ASSUME NEW k \in 1..Attempts, RequestLost(k) PROVE IInv'
  BY <1>3 DEF RequestLost, client
<1>4. ASSUME NEW k \in 1..Attempts, JobFinishes(k) PROVE IInv'
  BY <1>4 DEF JobFinishes, client
<1>5. CASE Start
  BY <1>5 DEF Start, Send
<1>6. CASE PostFails
  BY <1>6 DEF PostFails, RetryPost, Send, End
<1>7. CASE Accepted
  BY <1>7 DEF Accepted
<1>8. CASE Refused
  <2>1. /\ Refusal[reply] \in Result
        /\ Refusal[reply] \notin {"finished", "connection_interrupted"}
        /\ Refusal[reply] = "permission_denied" => reply = "forbidden"
    BY <1>8 DEF Refused, Refusal
  <2> QED BY <1>8, <2>1 DEF Refused, End
<1>9. CASE GetFails
  BY <1>9 DEF GetFails, End
<1>10. ASSUME NEW how \in {"jumpserver_unreachable", "internal_error"}, PollRefused(how)
       PROVE  IInv'
  BY <1>10 DEF PollRefused, End
<1>11. CASE Unfinished
  BY <1>11 DEF Unfinished, End
<1>12. CASE Finished
  BY <1>12 DEF Finished, End
<1>13. CASE Cancel
  BY <1>13 DEF Cancel, End
<1>14. CASE UNCHANGED vars
  BY <1>14 DEF vars, client
<1> QED
  BY <1>1, <1>2, <1>3, <1>4, <1>5, <1>6, <1>7, <1>8, <1>9, <1>10, <1>11, <1>12,
     <1>13, <1>14
  DEF Next, JumpServer

(* The inductive invariant holds of every reachable state.                  *)
THEOREM IInvHolds == Spec => []IInv
  BY InitIInv, StepIInv, PTL DEF Spec

(* Counters and statuses keep their ranges for every configuration.         *)
THEOREM TypeCorrect == Spec => []TypeOK
<1>1. IInv => TypeOK
  BY DEF IInv
<1> QED BY <1>1, IInvHolds, PTL

(* A result is only given for a job that finished, one that outlives the    *)
(* poll budget is called interrupted, and a refusal is the server's answer  *)
(* to the last POST, which creates nothing.                                 *)
THEOREM ResultIsHonestHolds == Spec => []ResultIsHonest
<1>1. IInv => ResultIsHonest
  BY DEF IInv, LastReply, Followed, ResultIsHonest
<1> QED BY <1>1, IInvHolds, PTL

(* Duplicates of the followed job come from earlier, failed attempts only.  *)
THEOREM DuplicatesAreRetriesHolds == Spec => []DuplicatesAreRetries
<1>1. IInv => DuplicatesAreRetries
  BY CountsAreNat DEF IInv, TypeOK, Posted, Followed, Created, DuplicatesAreRetries
<1> QED BY <1>1, IInvHolds, PTL

(* A known task is never posted again.                                      *)
THEOREM KnownTaskIsNotRepeatedHolds == Spec => KnownTaskIsNotRepeated
<1>1. IInv /\ [Next]_vars =>
        [task # 0 => task' = task /\ attempt' = attempt /\ wire' \subseteq wire]_vars
  BY DEF IInv, Followed, Next, JumpServer, vars, client, ServerCreates, ServerRefuses, Answer,
         RequestLost, JobFinishes, Start, PostFails, Accepted, Refused, GetFails,
         PollRefused, Unfinished, Finished, Cancel
<1> QED BY <1>1, IInvHolds, PTL DEF Spec, KnownTaskIsNotRepeated

-----------------------------------------------------------------------------
(* A step of the client that goes on, or ends without a result, is none or  *)
(* a failure to the caller of run().                                        *)
LEMMA GoesOnOrFails ==
  ASSUME IInv, pc \in {"posting", "polling"}, UNCHANGED job,
         \/ pc' \in {"posting", "polling"} /\ result' = result
         \/ pc' = "done" /\ result' # "finished"
  PROVE  [Job!Next]_(Job!run)
<1> USE DEF Job!run, Job!NoAnswer
<1>1. Place = "busy" /\ Answered = 0 /\ Performed' = Performed
  BY DEF Place, Performed, Answered, IInv, Followed
<1>2. CASE pc' = "done" /\ result' # "finished"
  <2>1. Job!Fail
    BY <1>1, <1>2 DEF Job!Fail, Place, Answered
  <2> QED BY <2>1 DEF Job!Next
<1>3. CASE pc' \in {"posting", "polling"} /\ result' = result
  <2>1. Place' = "busy" /\ Answered' = 0
    BY <1>3 DEF Place, Answered, IInv, Followed
  <2> QED BY <1>1, <2>1
<1> QED BY <1>2, <1>3

(* An executor that has posted nothing has no job that works for it.        *)
LEMMA InitRefines == Init => Job!Init
BY DEF Init, Job!Init, Place, Performed, Answered, Job!NoAnswer

(* Every step of run() or of JumpServer is a step of JobRun, or none.       *)
LEMMA StepRefines == IInv /\ [Next]_vars => [Job!Next]_(Job!run)
<1> SUFFICES ASSUME IInv, [Next]_vars PROVE [Job!Next]_(Job!run)
  OBVIOUS
<1> USE CountsAreNat DEF Job!run, Job!NoAnswer
<1>1. ASSUME UNCHANGED <<job, pc, task, result>> PROVE UNCHANGED Job!run
  BY <1>1 DEF Place, Performed, Answered
<1>2. CASE UNCHANGED vars
  BY <1>1, <1>2 DEF vars, client
<1>3. ASSUME NEW k \in 1..Attempts, NEW kind \in Creating, ServerCreates(k, kind)
      PROVE  UNCHANGED Job!run
  <2>1. k \notin Created
    BY <1>3 DEF ServerCreates, IInv, Posted
  <2>2. Performed' = Performed
    BY <1>3, <2>1 DEF ServerCreates, Performed, Created, IInv, TypeOK
  <2> QED
    BY <1>3, <2>2 DEF ServerCreates, Answer, client, Place, Answered
<1>4. ASSUME NEW k \in 1..Attempts, NEW kind \in Refusing,
             ServerRefuses(k, kind)
      PROVE  UNCHANGED Job!run
  BY <1>1, <1>4 DEF ServerRefuses, Answer, client
<1>5. ASSUME NEW k \in 1..Attempts, RequestLost(k) PROVE UNCHANGED Job!run
  BY <1>1, <1>5 DEF RequestLost, client
<1>6. ASSUME NEW k \in 1..Attempts, JobFinishes(k) PROVE Job!Next
  <2>1. Performed' = Performed \cup {k} /\ k \notin Performed
    BY <1>6 DEF JobFinishes, Performed, IInv, TypeOK
  <2>2. Place' = Place /\ Answered' = Answered
    BY <1>6 DEF JobFinishes, client, Place, Answered
  <2>3. k \in 1..attempt
    BY <1>6 DEF JobFinishes, IInv, Posted, Created
  <2>4. Place # "idle"
    BY <2>3 DEF IInv, TypeOK, Posted, Place
  <2>5. Answered # 0 => k < Answered
    BY <1>6, <2>3 DEF JobFinishes, IInv, TypeOK, Followed, Answered
  <2>6. Job!Perform(k)
    BY <2>1, <2>2, <2>4, <2>5 DEF Job!Perform
  <2> QED BY <2>6 DEF Job!Next
<1>7. CASE Start
  <2>1. Job!Begin
    BY <1>7 DEF Start, Job!Begin, Place, Performed, Answered
  <2> QED BY <2>1 DEF Job!Next
<1>9. CASE PostFails
  BY GoesOnOrFails, <1>9 DEF PostFails, RetryPost, Send, End
<1>10. CASE Accepted \/ Cancel
  BY GoesOnOrFails, <1>10 DEF Accepted, Cancel, End
<1>11. CASE Refused
  <2>1. Refusal[reply] # "finished"
    BY <1>11 DEF Refused, Refusal
  <2> QED BY GoesOnOrFails, <1>11, <2>1 DEF Refused, End
<1>12. CASE GetFails \/ Unfinished
  BY GoesOnOrFails, <1>12 DEF GetFails, Unfinished, End
<1>13. ASSUME NEW how \in {"jumpserver_unreachable", "internal_error"}, PollRefused(how)
       PROVE  [Job!Next]_(Job!run)
  BY GoesOnOrFails, <1>13 DEF PollRefused, End
<1>14. CASE Finished
  <2>1. task \in Performed /\ task \in 1..Attempts /\ task = attempt
    BY <1>14 DEF Finished, Performed, IInv, TypeOK, Followed, Created
  <2>2. \A j \in Performed : j <= task
    BY <2>1 DEF Performed, IInv, TypeOK, Posted, Created
  <2>3. Place = "busy" /\ Place' = "over" /\ Answered' = task /\ Performed' = Performed
    BY <1>14 DEF Finished, End, Place, Performed, Answered
  <2>4. Job!Finish(task)
    BY <2>1, <2>2, <2>3 DEF Job!Finish
  <2> QED BY <2>1, <2>4 DEF Job!Next
<1>15. CASE JumpServer
  BY <1>3, <1>4, <1>6, <1>15, <1>5 DEF JumpServer
<1> QED
  BY <1>2, <1>7, <1>9, <1>10, <1>11, <1>12, <1>13, <1>14, <1>15 DEF Next

(* The result of run() is the work of the last post it made; whatever else  *)
(* JumpServer carries out, even after run() is over, was posted before.     *)
THEOREM JobRunRefinement == Spec => ImplementsJobRun
BY InitRefines, StepRefines, IInvHolds, PTL DEF Spec, ImplementsJobRun, Job!Spec

-----------------------------------------------------------------------------
(* The large-log tool.  It keeps run()'s invariant, for its one POST is a   *)
(* first attempt and it polls in a loop of its own; and its report stands   *)
(* on the task that it followed.                                            *)
Logged ==
  /\ attempt <= 1 /\ result = "none" /\ report \in Report
  /\ pc \in {"idle", "posting"} => rounds = 0
  /\ pc = "polling" => rounds \in 0..(LogPolls - 1)
  /\ report = "finished" => task # 0 /\ job[task] = "finished"
  /\ report = "unfinished" => task # 0 /\ rounds = LogPolls

ToolsIInv ==
  /\ IInv
  /\ tool \in {"run", "large_log"}
  /\ tool = "large_log" => Logged

(* Whichever tool is called has posted nothing at the start.                *)
LEMMA InitToolsIInv == InitTools => ToolsIInv
BY InitIInv, LargeLogAssumption DEF InitTools, Init, ToolsIInv, Logged, Report

(* JumpServer never takes back what a report stands on.                     *)
LEMMA JumpServerKeepsReport ==
  ASSUME IInv, Logged, JumpServer, UNCHANGED <<rounds, report>>
  PROVE  Logged'
<1>1. UNCHANGED <<pc, attempt, task, polls, result>>
  BY DEF JumpServer, ServerCreates, ServerRefuses, RequestLost, JobFinishes, Answer, client
<1>2. task # 0 /\ job[task] = "finished" => job'[task] = "finished"
  <2> SUFFICES ASSUME task # 0, job[task] = "finished" PROVE job'[task] = "finished"
    OBVIOUS
  <2>1. task \in Created /\ task \in 1..Attempts /\ task \notin wire
    BY DEF IInv, Followed, Posted, Created
  <2>2. ASSUME NEW k \in 1..Attempts, NEW kind \in Creating, ServerCreates(k, kind)
        PROVE  job'[task] = "finished"
    BY <2>1, <2>2 DEF ServerCreates, IInv, TypeOK
  <2>3. ASSUME NEW k \in 1..Attempts, NEW kind \in Refusing, ServerRefuses(k, kind)
        PROVE  job'[task] = "finished"
    BY <2>3 DEF ServerRefuses
  <2>4. ASSUME NEW k \in 1..Attempts, RequestLost(k) \/ JobFinishes(k)
        PROVE  job'[task] = "finished"
    BY <2>1, <2>4 DEF RequestLost, JobFinishes, IInv, TypeOK
  <2> QED BY <2>2, <2>3, <2>4 DEF JumpServer
<1> QED
  BY <1>1, <1>2 DEF Logged

(* A step of the tool's own.                                                *)
LEMMA LogStepKeeps ==
  ASSUME IInv, Logged, LogNext, UNCHANGED <<gets, polls, result>>
  PROVE  IInv' /\ Logged'
<1> USE CountsAreNat, LargeLogAssumption
    DEF IInv, TypeOK, Posted, LastReply, Followed, Created, Result, Creating, Refusing,
        Logged, Report
<1>1. CASE LogStart
  BY <1>1 DEF LogStart, Send, Goes
<1>2. CASE LogCreated
  BY <1>2 DEF LogCreated, Goes
<1>3. CASE LogNoTask
  BY <1>3 DEF LogNoTask, Ends
<1>4. CASE LogUnfinished
  BY <1>4 DEF LogUnfinished, Ends, Goes
<1>5. CASE LogFinished
  BY <1>5 DEF LogFinished, Ends
<1>6. CASE LogRaises
  BY <1>6 DEF LogRaises, Ends
<1> QED
  BY <1>1, <1>2, <1>3, <1>4, <1>5, <1>6 DEF LogNext, LogPost, LogPoll

(* Every step keeps the invariant, whichever of the tools was called.       *)
LEMMA StepToolsIInv == ToolsIInv /\ [NextTools]_toolVars => ToolsIInv'
<1> SUFFICES ASSUME ToolsIInv, [NextTools]_toolVars PROVE ToolsIInv'
  OBVIOUS
<1> USE DEF ToolsIInv
<1>1. CASE JumpServer /\ UNCHANGED <<tool, rounds, report>>
  BY <1>1, StepIInv, JumpServerKeepsReport DEF Next
<1>2. CASE tool = "run" /\ Next /\ UNCHANGED <<tool, rounds, report>>
  BY <1>2, StepIInv
<1>3. CASE tool = "large_log" /\ LogNext /\ UNCHANGED <<tool, gets, polls, result>>
  BY <1>3, LogStepKeeps
<1>4. CASE UNCHANGED toolVars
  BY <1>4, StepIInv DEF toolVars, vars, client, Logged
<1> QED
  BY <1>1, <1>2, <1>3, <1>4 DEF NextTools

(* Either tool, whatever JumpServer does, keeps run()'s invariant.          *)
THEOREM ToolsIInvHolds == SpecTools => []ToolsIInv
BY InitToolsIInv, StepToolsIInv, PTL DEF SpecTools

(* What either tool says of its job is so: run()'s result, and the          *)
(* large-log tool's report, which never comes from a second POST.           *)
THEOREM LogReportIsHonestHolds == SpecTools => [](TypeOK /\ ResultIsHonest /\ LogReportIsHonest)
<1>1. ToolsIInv => TypeOK /\ ResultIsHonest
  BY DEF ToolsIInv, IInv, LastReply, Followed, ResultIsHonest
<1>2. ToolsIInv => LogReportIsHonest
  <2> SUFFICES ASSUME ToolsIInv, tool = "large_log"
               PROVE  /\ report = "finished" => job[task] = "finished"
                      /\ report = "unfinished" => task \in Created /\ rounds = LogPolls
                      /\ Created \cup wire \subseteq {1}
                      /\ report \in Report /\ result = "none"
    BY DEF LogReportIsHonest
  <2>1. Created \cup wire \subseteq {1}
    BY DEF ToolsIInv, IInv, TypeOK, Posted, Logged
  <2> QED BY <2>1 DEF ToolsIInv, IInv, Followed, Logged
<1> QED BY <1>1, <1>2, ToolsIInvHolds, PTL

(* To JumpServer a call of either tool is one run of a job: its POST begins *)
(* the run, and what JumpServer carries out was posted by it.  Only run()   *)
(* ever finishes one with a result: a call of the large-log tool, whose     *)
(* report is its own, leaves the contract as one that failed.               *)
THEOREM ToolsRefineJobRun ==
  SpecTools => ImplementsJobRun /\ [](tool = "large_log" => Answered = 0)
<1>1. InitTools => Job!Init
  BY InitRefines DEF InitTools
<1>2. ToolsIInv /\ [NextTools]_toolVars => [Job!Next]_(Job!run)
  <2> SUFFICES ASSUME ToolsIInv, [NextTools]_toolVars PROVE [Job!Next]_(Job!run)
    OBVIOUS
  <2> USE DEF ToolsIInv
  <2>1. CASE (JumpServer \/ Next) /\ UNCHANGED <<tool, rounds, report>>
    BY <2>1, StepRefines DEF Next
  <2>2. CASE UNCHANGED toolVars
    BY <2>2, StepRefines DEF toolVars
  <2>3. CASE LogStart /\ UNCHANGED <<tool, gets, polls, result>>
    <3>1. Job!Begin
      BY <2>3 DEF LogStart, Goes, Send, Job!Begin, Place, Performed, Answered
    <3> QED BY <3>1 DEF Job!Next
  <2>4. CASE (LogPost \/ LogPoll) /\ UNCHANGED <<tool, gets, polls, result>> /\ tool = "large_log"
    <3>1. /\ pc \in {"posting", "polling"} /\ UNCHANGED <<job, result>>
          /\ pc' \in {"posting", "polling", "done"}
      BY <2>4 DEF LogPost, LogPoll, LogCreated, LogNoTask, LogRaises, LogUnfinished,
                  LogFinished, Ends, Goes
    <3>2. result' # "finished"
      BY <2>4, <3>1 DEF Logged
    <3> QED BY <3>1, <3>2, GoesOnOrFails
  <2> QED BY <2>1, <2>2, <2>3, <2>4 DEF NextTools, LogNext
<1>3. ToolsIInv => (tool = "large_log" => Answered = 0)
  BY DEF ToolsIInv, Logged, Answered
<1> QED
  BY <1>1, <1>2, <1>3, ToolsIInvHolds, PTL DEF SpecTools, ImplementsJobRun, Job!Spec
=============================================================================
