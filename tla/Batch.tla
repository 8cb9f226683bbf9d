-------------------------------- MODULE Batch --------------------------------
(***************************************************************************)
(* BatchExecutor.run_batch() (batch.py): one asyncio task per listed host    *)
(* calls SessionManager.run(), an emitter reports progress, cancel() sets a  *)
(* flag, and the results are summarised once every task has ended.           *)
(*                                                                           *)
(* SessionManager.run() is seen from outside: it opens a session and passes  *)
(* policy and approval ("waiting"), takes one of MaxConcurrent slots or      *)
(* answers "queued", executes, and gives the slot back.  Other callers of    *)
(* the same manager hold slots too.                                          *)
(***************************************************************************)
EXTENDS Integers, Sequences, FiniteSets

CONSTANTS
  Hosts,           \* the hosts argument, in order, with its repetitions
  MaxConcurrent    \* settings.max_concurrent_jobs

ASSUME BatchAssumption ==
  /\ Hosts \in Seq(STRING) /\ Hosts # <<>>
  /\ MaxConcurrent \in Nat

Task == DOMAIN Hosts
Host == {Hosts[t] : t \in Task}
Total == Len(Hosts)

VARIABLES
  phase,      \* of run_batch(): "idle", "created", "running", "reporting",
              \* "returned", "raised" or "abandoned"
  watched,    \* a progress_cb was given
  cancelled,  \* BatchHandle.cancelled
  work,       \* where the task of each listed host stands
  results,    \* BatchHandle.results: what became of each host
  completed,  \* BatchHandle.completed
  emitter,    \* the progress emitter: "off", "sleeping" or "calling"
  reported,   \* the number in the last progress report
  summary,    \* what run_batch() returned
  others,     \* slots that other callers of the manager hold
  ran,        \* history: the tasks whose command was dispatched
  refused     \* history: the tasks that were answered "queued"

batchVars == <<phase, watched, cancelled, summary>>
progressVars == <<emitter, reported>>
history == <<ran, refused>>
vars == <<batchVars, progressVars, work, results, completed, others, history>>

(* How SessionManager.run() can end without a command, and with one.        *)
Unexecuted == {"needs_selection", "queued", "denied", "raised"}
Outcome == Unexecuted \cup {"executed"}
Unrecorded == "none"
Status == {"succeeded", "failed", "not_executed", "interrupted"}

(* run_one()'s classification of what the manager returned or raised; the   *)
(* two other statuses are recorded as they are.                             *)
StatusOf(o) ==
  CASE o \in {"executed", "needs_selection"} -> "succeeded"
    [] o \in {"queued", "denied", "raised"} -> "failed"
    [] OTHER -> o

NoSummary == [s \in Status |-> -1]

TypeOK ==
  /\ phase \in {"idle", "created", "running", "reporting", "returned", "raised",
                "abandoned"}
  /\ watched \in BOOLEAN /\ cancelled \in BOOLEAN
  /\ work \in [Task -> {"ready", "waiting", "executing", "done", "skipped"}]
  /\ results \in [Host -> Outcome \cup {Unrecorded, "not_executed", "interrupted"}]
  /\ completed \in 0..Total
  /\ emitter \in {"off", "sleeping", "calling"}
  /\ reported \in 0..Total
  /\ summary \in [Status -> Int]
  /\ others \in 0..MaxConcurrent
  /\ ran \subseteq Task /\ refused \subseteq Task

Init ==
  /\ phase = "idle" /\ watched \in BOOLEAN /\ cancelled = FALSE
  /\ work = [t \in Task |-> "ready"]
  /\ results = [h \in Host |-> Unrecorded]
  /\ completed = 0
  /\ emitter = "off" /\ reported = 0
  /\ summary = NoSummary
  /\ others = 0
  /\ ran = {} /\ refused = {}

-----------------------------------------------------------------------------
Executing == {t \in Task : work[t] = "executing"}
Unfinished == {t \in Task : work[t] \in {"waiting", "executing"}}

\* Seeded defect: the batch's own slots are not seen.
AtCapOfOthers == others >= MaxConcurrent

(* SessionManager._dispatch(): all slots are taken.                         *)
AtCap == Cardinality(Executing) + others >= MaxConcurrent

(* Other callers of the manager take and release slots.                     *)
OthersTake ==
  /\ ~AtCap
  /\ others' = others + 1
  /\ UNCHANGED <<batchVars, progressVars, work, results, completed, history>>

OthersRelease ==
  /\ others > 0
  /\ others' = others - 1
  /\ UNCHANGED <<batchVars, progressVars, work, results, completed, history>>

(* run_batch() up to its first await: the handle can be found, the tasks    *)
(* have not started.                                                        *)
Create ==
  /\ phase = "idle"
  /\ phase' = "created"
  /\ UNCHANGED <<watched, cancelled, summary, progressVars, work, results,
                 completed, others, history>>

(* cancel(): the handle is never removed, a batch that ended included.      *)
Cancel ==
  /\ phase # "idle"
  /\ cancelled' = TRUE
  /\ UNCHANGED <<phase, watched, summary, progressVars, work, results,
                 completed, others, history>>

StartWith(place) ==
  /\ phase = "created"
  /\ phase' = "running"
  /\ emitter' = IF watched /\ ~cancelled THEN "sleeping" ELSE "off"
  /\ work' = [t \in Task |-> place]
  /\ results' = [h \in Host |-> IF cancelled THEN "not_executed" ELSE Unrecorded]
  /\ UNCHANGED <<watched, cancelled, summary, reported, completed, others, history>>

\* Seeded defect: the flag is not looked at.
LaunchAnyway == StartWith("waiting")

(* The emitter and the tasks take their first steps one after the other:    *)
(* all of them see the same flag.                                           *)
Launch == StartWith(IF cancelled THEN "skipped" ELSE "waiting")

-----------------------------------------------------------------------------
(* The task of one listed host.                                             *)

Record(t, outcome, ended) ==
  /\ work' = [work EXCEPT ![t] = "done"]
  /\ results' = [results EXCEPT ![Hosts[t]] = outcome]
  /\ completed' = completed + ended
  /\ UNCHANGED <<batchVars, progressVars, others>>

\* Seeded defect: a host that failed is not counted (no finally).
EndsCountingSuccess(t, outcome) ==
  Record(t, outcome, IF StatusOf(outcome) = "succeeded" THEN 1 ELSE 0)

Ends(t, outcome) == Record(t, outcome, 1)

(* SessionManager.run() ends before it dispatches: a choice of accounts, a  *)
(* denial, an error; or no slot is free.                                    *)
EndsUnexecuted(t, outcome) ==
  /\ work[t] = "waiting"
  /\ outcome = "queued" => AtCap
  /\ Ends(t, outcome)
  /\ refused' = IF outcome = "queued" THEN refused \cup {t} ELSE refused
  /\ UNCHANGED ran

TakesSlot(t) ==
  /\ work[t] = "waiting"
  /\ ~AtCap
  /\ work' = [work EXCEPT ![t] = "executing"]
  /\ ran' = ran \cup {t}
  /\ UNCHANGED <<batchVars, progressVars, results, completed, others, refused>>

EndsExecution(t, outcome) ==
  /\ work[t] = "executing"
  /\ Ends(t, outcome)
  /\ UNCHANGED history

-----------------------------------------------------------------------------
(* The progress emitter.                                                    *)

Tick ==
  /\ emitter = "sleeping"
  /\ emitter' = "calling"
  /\ reported' = completed
  /\ UNCHANGED <<batchVars, work, results, completed, others, history>>

(* progress_cb returns, and the loop's condition is evaluated.              *)
CallbackReturns ==
  /\ emitter = "calling"
  /\ emitter' = IF completed < Total /\ ~cancelled THEN "sleeping" ELSE "off"
  /\ UNCHANGED <<batchVars, reported, work, results, completed, others, history>>

(* progress_cb raises: the emitter's task ends, nobody looks at its error.  *)
CallbackRaises ==
  /\ emitter = "calling"
  /\ emitter' = "off"
  /\ UNCHANGED <<batchVars, reported, work, results, completed, others, history>>

-----------------------------------------------------------------------------
(* The end of run_batch().                                                  *)

JoinWhen(over, outcome) ==
  /\ phase = "running" /\ over
  /\ phase' = "reporting"
  /\ emitter' = "off"
  /\ results' = outcome
  /\ reported' = IF watched THEN completed ELSE reported
  /\ UNCHANGED <<watched, cancelled, summary, work, completed, others, history>>

Marked(mark) ==
  [h \in Host |-> IF results[h] = Unrecorded THEN mark ELSE results[h]]

\* Seeded defects: the first task that ends ends the wait; every host of a
\* cancelled batch is marked.
JoinFirst == JoinWhen(\E t \in Task : t \notin Unfinished, Marked("interrupted"))
JoinMarking ==
  JoinWhen(Unfinished = {}, [h \in Host |-> IF cancelled THEN "not_executed" ELSE results[h]])

(* gather() returns: the emitter is cancelled, hosts without a result are   *)
(* marked (none is in flight any more), the final report is made.           *)
Join == JoinWhen(Unfinished = {}, Marked("not_executed"))

Summarize == [s \in Status |-> Cardinality({h \in Host : StatusOf(results[h]) = s})]

Return ==
  /\ phase = "reporting"
  /\ phase' = "returned"
  /\ summary' = Summarize
  /\ UNCHANGED <<watched, cancelled, progressVars, work, results, completed, others, history>>

(* The last progress_cb raises, or the results cannot be written to a file. *)
ReturnFails ==
  /\ phase = "reporting"
  /\ phase' = "raised"
  /\ UNCHANGED <<watched, cancelled, summary, progressVars, work, results,
                 completed, others, history>>

AbandonCounting(n) ==
  /\ phase = "running"
  /\ phase' = "abandoned"
  /\ work' = [t \in Task |-> IF t \in Unfinished THEN "done" ELSE work[t]]
  /\ completed' = completed + n
  /\ UNCHANGED <<watched, cancelled, summary, progressVars, results, others, history>>

\* Seeded defects: every task is counted, the ended ones again; a task that is
\* cancelled is not counted.
AbandonCountingAll == AbandonCounting(Total)
AbandonUncounted == AbandonCounting(0)

(* The caller's task is cancelled while the hosts are at work: every task   *)
(* is cancelled and counted, the emitter is not.                            *)
Abandon == AbandonCounting(Cardinality(Unfinished))

(* The same before the tasks' first step: their bodies never run, and the   *)
(* emitter starts.                                                          *)
AbandonEarly ==
  /\ phase = "created"
  /\ phase' = "abandoned"
  /\ emitter' = IF watched /\ ~cancelled THEN "sleeping" ELSE "off"
  /\ UNCHANGED <<watched, cancelled, summary, reported, work, results,
                 completed, others, history>>

-----------------------------------------------------------------------------
TaskStep(t) ==
  \/ \E o \in Unexecuted : EndsUnexecuted(t, o)
  \/ TakesSlot(t)
  \/ \E o \in {"executed", "raised"} : EndsExecution(t, o)

Emitter == Tick \/ CallbackReturns \/ CallbackRaises
Finish == Join \/ Return \/ ReturnFails

Next ==
  \/ OthersTake
  \/ OthersRelease
  \/ Create
  \/ Cancel
  \/ Launch
  \/ \E t \in Task :
       \/ \E o \in Unexecuted : EndsUnexecuted(t, o)
       \/ TakesSlot(t)
       \/ \E o \in {"executed", "raised"} : EndsExecution(t, o)
  \/ Tick
  \/ CallbackReturns
  \/ CallbackRaises
  \/ Join
  \/ Return
  \/ ReturnFails
  \/ Abandon
  \/ AbandonEarly

Spec == Init /\ [][Next]_vars

(* The event loop runs what is ready; every wait of SessionManager.run()    *)
(* ends by a timeout (see Sessions), and so does the emitter's sleep.       *)
Fairness ==
  /\ WF_vars(Launch) /\ WF_vars(Emitter) /\ WF_vars(Finish)
  /\ \A t \in Task : WF_vars(TaskStep(t))

FairSpec == Spec /\ Fairness

-----------------------------------------------------------------------------
TasksOf(h) == {t \in Task : Hosts[t] = h}
Counted == {t \in Task : work[t] = "done"}

Over == {t \in Task : work[t] \in {"done", "skipped"}}

Pool == INSTANCE SlotPool WITH
  Caller <- Task, Slots <- MaxConcurrent,
  holding <- Executing, left <- Over,
  refused <- refused, others <- others

(* The manager's cap is what throttles the batch (batch.py:6, 170), and a   *)
(* batch sees no more of it than Sessions gives: a slot while one is free,  *)
(* a refusal only when the batch and the other callers hold them all, and a *)
(* cancelled batch returns what its tasks held.                             *)
ImplementsSlotPool == Pool!Spec

(* However many hosts are listed, the slots in use never exceed the cap.    *)
CapHolds == Cardinality(Executing) + others <= MaxConcurrent

(* The progress counts the hosts whose task has ended, no matter how it     *)
(* ended, and no report runs ahead of it (batch-operations/spec.md:58-60);  *)
(* the last report of a batch that was launched is complete (54-56).        *)
ProgressIsHonest ==
  /\ completed = Cardinality(Counted)
  /\ reported <= completed
  /\ phase \in {"reporting", "returned"} /\ watched
       /\ (\A t \in Task : work[t] # "skipped") => reported = Total

(* What is returned speaks for every listed host: nothing is still running, *)
(* and each distinct host is counted under exactly one status.              *)
ReportIsComplete ==
  phase = "returned" =>
    /\ Unfinished = {}
    /\ summary["succeeded"] + summary["failed"] + summary["not_executed"]
         + summary["interrupted"] = Cardinality(Host)

(* A host is reported as not executed only if nothing was sent to it, and   *)
(* as executed only if something was.                                       *)
NotExecutedIsTrue ==
  \A h \in Host :
    /\ results[h] = "not_executed" => TasksOf(h) \cap ran = {}
    /\ results[h] = "executed" => TasksOf(h) \cap ran # {}

(* A host's result is its own: recorded when one of its tasks ends and not  *)
(* touched by the end of the others, of the batch, or by its cancellation   *)
(* (batch-operations/spec.md:85-86, 114-116).                               *)
OutcomesAreIndependent ==
  [][\A h \in Host :
       results[h] # Unrecorded /\ results'[h] # results[h]
         => \E t \in TasksOf(h) : work[t] # "done" /\ work'[t] = "done"]_vars

(* A batch that was launched ends, whatever its hosts do, and so does its   *)
(* progress emitter, also when the batch is abandoned and nobody cancels it.*)
BatchSettles ==
  phase = "running" ~>
    phase \in {"returned", "raised", "abandoned"} /\ emitter = "off"
=============================================================================
