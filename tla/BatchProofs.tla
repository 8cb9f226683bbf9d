----------------------------- MODULE BatchProofs -----------------------------
(***************************************************************************)
(* For every list of hosts and every cap: a batch never exceeds the cap,    *)
(* counts what has ended and nothing else, reports every distinct host once *)
(* and says "not executed" of a host only if nothing was sent to it.        *)
(***************************************************************************)
EXTENDS Batch, FiniteSetTheorems, TLAPS

(* What is recorded for the host of a task, by where the task stands; an    *)
(* abandoned batch records nothing for the tasks it cut off.                *)
Recorded ==
  /\ \A t \in Task :
       /\ work[t] = "done" /\ phase # "abandoned" =>
            results[Hosts[t]] \in Outcome
       /\ work[t] = "skipped" => results[Hosts[t]] = "not_executed"
  /\ \A h \in Host : results[h] = "not_executed" => \A t \in TasksOf(h) : work[t] = "skipped"
  /\ \A h \in Host : results[h] # "interrupted"

(* The tasks stand where run_batch() has got to.                            *)
Phases ==
  /\ phase \in {"idle", "created"} =>
       /\ \A t \in Task : work[t] = "ready"
       /\ \A h \in Host : results[h] = Unrecorded
  /\ phase \in {"running", "reporting", "returned", "raised"} =>
       \A t \in Task : work[t] # "ready"
  /\ phase \in {"reporting", "returned", "raised"} => Unfinished = {}
  /\ phase \notin {"running", "abandoned"} => emitter = "off"

(* What was dispatched, and what came of it.                                *)
Dispatched ==
  /\ \A t \in Task : work[t] = "executing" => t \in ran
  /\ \A t \in ran : work[t] \in {"executing", "done"}
  /\ \A h \in Host : results[h] = "executed" => TasksOf(h) \cap ran # {}

IInv ==
  /\ TypeOK
  /\ CapHolds
  /\ ProgressIsHonest
  /\ ReportIsComplete
  /\ Recorded
  /\ Phases
  /\ Dispatched

-----------------------------------------------------------------------------
(* Tasks are the places of a list that is not empty, and finite in number,  *)
(* as are the hosts.                                                        *)
LEMMA TasksAndHosts ==
  /\ Task = 1..Total /\ Total \in Nat \ {0}
  /\ IsFiniteSet(Task) /\ Cardinality(Task) = Total
  /\ IsFiniteSet(Host)
  /\ \A t \in Task : Hosts[t] \in Host
<1>1. Task = 1..Total /\ Total \in Nat \ {0}
  BY BatchAssumption DEF Task, Total
<1>2. IsFiniteSet(Task) /\ Cardinality(Task) = Total
  BY <1>1, FS_Interval
<1>3. \A t \in Task : Hosts[t] \in Host
  BY DEF Host
<1>4. Hosts \in Surjection(Task, Host)
  BY BatchAssumption DEF Task, Host, Surjection
<1>5. IsFiniteSet(Host)
  BY <1>2, <1>4, FS_Surjection
<1> QED
  BY <1>1, <1>2, <1>3, <1>5

(* The sets of tasks that the counters count are finite.                    *)
LEMMA TaskSets ==
  ASSUME NEW S \in SUBSET Task
  PROVE  IsFiniteSet(S) /\ Cardinality(S) \in 0..Total
<1>1. IsFiniteSet(S) /\ Cardinality(S) <= Cardinality(Task)
  BY TasksAndHosts, FS_Subset
<1>2. Cardinality(S) \in Nat
  BY <1>1, FS_CardinalityType
<1> QED
  BY <1>1, <1>2, TasksAndHosts

(* The same set counted after one of its tasks came or went.                *)
LEMMA CountMore ==
  ASSUME NEW S \in SUBSET Task, NEW t \in Task \ S
  PROVE  Cardinality(S \cup {t}) = Cardinality(S) + 1
BY TaskSets, FS_AddElement

(* Taking a task out of a set of tasks does not make it larger.             *)
LEMMA CountLess ==
  ASSUME NEW S \in SUBSET Task, NEW t \in Task
  PROVE  Cardinality(S \ {t}) <= Cardinality(S)
<1>1. S \ {t} \in SUBSET S
  OBVIOUS
<1> QED
  BY <1>1, TaskSets, FS_Subset

(* Two sets that share nothing count as much together as each by itself.    *)
LEMMA DisjointCount ==
  ASSUME NEW A, NEW B, IsFiniteSet(A), IsFiniteSet(B), A \cap B = {}
  PROVE  /\ IsFiniteSet(A \cup B)
         /\ Cardinality(A \cup B) = Cardinality(A) + Cardinality(B)
<1>1. Cardinality(A) \in Nat /\ Cardinality(B) \in Nat
  BY FS_CardinalityType
<1>2. Cardinality(A \cap B) = 0
  BY FS_EmptySet
<1>3. /\ IsFiniteSet(A \cup B)
      /\ Cardinality(A \cup B) = Cardinality(A) + Cardinality(B) - Cardinality(A \cap B)
  BY FS_Union
<1> QED
  BY <1>1, <1>2, <1>3

-----------------------------------------------------------------------------
(* At the start every task is ready and none is counted.                    *)
LEMMA InitIInv == Init => IInv
<1> SUFFICES ASSUME Init PROVE IInv
  OBVIOUS
<1>1. Executing = {} /\ Counted = {} /\ Unfinished = {}
  BY DEF Init, Executing, Counted, Unfinished
<1>2. Cardinality(Executing) = 0 /\ Cardinality(Counted) = 0
  BY <1>1, FS_EmptySet
<1>3. TypeOK
  <2>1. 0 \in 0..Total /\ 0 \in 0..MaxConcurrent /\ -1 \in Int
    BY TasksAndHosts, BatchAssumption
  <2>2. results \in [Host -> Outcome \cup {Unrecorded, "not_executed", "interrupted"}]
    BY DEF Init
  <2>3. work \in [Task -> {"ready", "waiting", "executing", "done", "skipped"}]
    BY DEF Init
  <2>4. summary \in [Status -> Int]
    BY <2>1 DEF Init, NoSummary
  <2> QED
    BY <2>1, <2>2, <2>3, <2>4 DEF Init, TypeOK
<1>4. CapHolds /\ ProgressIsHonest /\ ReportIsComplete
  BY <1>2, BatchAssumption
  DEF Init, CapHolds, ProgressIsHonest, ReportIsComplete
<1>5. Recorded /\ Phases /\ Dispatched
  BY DEF Init, Recorded, Phases, Dispatched, Unrecorded
<1> QED
  BY <1>3, <1>4, <1>5 DEF IInv

(* Steps that leave the tasks alone leave the counts alone.                 *)
LEMMA CountsFollowWork ==
  ASSUME UNCHANGED work
  PROVE  /\ Executing' = Executing /\ Counted' = Counted /\ Unfinished' = Unfinished
BY DEF Executing, Counted, Unfinished

(* A task that ends, whatever its outcome, is counted once and keeps the    *)
(* invariant.                                                               *)
LEMMA EndsKeeps ==
  ASSUME IInv, NEW t \in Task, NEW o \in Outcome, work[t] \in {"waiting", "executing"},
         o = "executed" => t \in ran, Ends(t, o), UNCHANGED ran,
         refused' \subseteq Task
  PROVE  IInv'
<1> USE TasksAndHosts DEF Ends, Record
<1>1. /\ Counted' = Counted \cup {t} /\ t \notin Counted
      /\ Executing' = Executing \ {t}
      /\ Unfinished' = Unfinished \ {t}
  BY DEF IInv, TypeOK, Ends, Counted, Executing, Unfinished
<1>2. /\ Counted \in SUBSET Task /\ Executing \in SUBSET Task
      /\ Counted' \in SUBSET Task /\ Executing' \in SUBSET Task
  BY DEF Counted, Executing
<1>3. Cardinality(Counted') = Cardinality(Counted) + 1
  BY <1>1, <1>2, CountMore
<1>4. /\ Cardinality(Executing') <= Cardinality(Executing)
      /\ Cardinality(Executing') \in Nat /\ Cardinality(Executing) \in Nat
      /\ Cardinality(Counted') \in 0..Total
  BY <1>1, <1>2, CountLess, TaskSets
<1>5. phase \in {"running", "abandoned"}
  BY DEF IInv, TypeOK, Phases, Unfinished
<1>6. TypeOK'
  BY <1>3, <1>4 DEF IInv, TypeOK, ProgressIsHonest, Ends, batchVars, progressVars, Outcome
<1>7. CapHolds'
  BY <1>4, BatchAssumption DEF IInv, TypeOK, CapHolds, Ends
<1>8. ProgressIsHonest' /\ ReportIsComplete'
  BY <1>3, <1>5 DEF IInv, TypeOK, ProgressIsHonest, ReportIsComplete, Ends, batchVars, progressVars
<1>9. Recorded'
  BY <1>5 DEF IInv, TypeOK, Recorded, Phases, Ends, batchVars, Outcome, Unexecuted, TasksOf
<1>10. Phases'
  BY <1>5, <1>1 DEF IInv, TypeOK, Phases, Ends, batchVars
<1>11. Dispatched'
  BY DEF IInv, TypeOK, Dispatched, Ends, TasksOf
<1> QED
  BY <1>6, <1>7, <1>8, <1>9, <1>10, <1>11 DEF IInv

(* Every step of the batch, of its tasks and of the other calls keeps the   *)
(* invariant.                                                               *)
LEMMA StepIInv == IInv /\ [Next]_vars => IInv'
<1> SUFFICES ASSUME IInv, [Next]_vars PROVE IInv'
  OBVIOUS
<1> USE TasksAndHosts DEF history
(* The steps that move no task and record nothing. *)
<1>1. ASSUME UNCHANGED <<work, results, completed, ran, refused>>,
             TypeOK', Phases', ProgressIsHonest', ReportIsComplete',
             CapHolds', phase = "abandoned" => phase' = "abandoned"
      PROVE  IInv'
  <2>1. Recorded' /\ Dispatched'
    BY <1>1 DEF IInv, Recorded, Dispatched, TasksOf
  <2> QED
    BY <1>1, <2>1 DEF IInv
<1>2. CASE OthersTake
  <2>1. TypeOK' /\ CapHolds'
    <3>1. Cardinality(Executing) \in Nat
      BY TaskSets DEF Executing
    <3>2. Executing' = Executing
      BY <1>2, CountsFollowWork DEF OthersTake
    <3> QED
      BY <1>2, <3>1, <3>2, BatchAssumption
      DEF OthersTake, AtCap, IInv, TypeOK, CapHolds, batchVars, progressVars
  <2>2. Phases' /\ ProgressIsHonest' /\ ReportIsComplete'
    BY <1>2, CountsFollowWork
    DEF OthersTake, IInv, Phases, ProgressIsHonest, ReportIsComplete, batchVars, progressVars
  <2> QED
    BY <1>1, <1>2, <2>1, <2>2 DEF OthersTake, batchVars
<1>3. CASE OthersRelease
  <2>1. TypeOK' /\ CapHolds'
    <3>1. Cardinality(Executing) \in Nat
      BY TaskSets DEF Executing
    <3>2. Executing' = Executing
      BY <1>3, CountsFollowWork DEF OthersRelease
    <3> QED
      BY <1>3, <3>1, <3>2, BatchAssumption
      DEF OthersRelease, IInv, TypeOK, CapHolds, batchVars, progressVars
  <2>2. Phases' /\ ProgressIsHonest' /\ ReportIsComplete'
    BY <1>3, CountsFollowWork
    DEF OthersRelease, IInv, Phases, ProgressIsHonest, ReportIsComplete, batchVars, progressVars
  <2> QED
    BY <1>1, <1>3, <2>1, <2>2 DEF OthersRelease, batchVars
<1>4. CASE Create \/ Cancel \/ Tick \/ CallbackReturns \/ CallbackRaises
  <2>1. UNCHANGED <<work, results, completed, ran, refused, others, summary, watched>>
    BY <1>4 DEF Create, Cancel, Tick, CallbackReturns, CallbackRaises, batchVars, progressVars
  <2>2. \/ phase' = phase
        \/ phase = "idle" /\ phase' = "created"
    BY <1>4 DEF Create, Cancel, Tick, CallbackReturns, CallbackRaises, batchVars, progressVars
  <2>3. \/ reported' = reported
        \/ reported' = completed /\ emitter = "sleeping" /\ phase' = phase
    BY <1>4 DEF Create, Cancel, Tick, CallbackReturns, CallbackRaises, batchVars, progressVars
  <2>4. TypeOK'
    BY <1>4, <2>1, <2>2, <2>3
    DEF Create, Cancel, Tick, CallbackReturns, CallbackRaises, batchVars, progressVars, IInv, TypeOK
  <2>5. CapHolds'
    BY <2>1, CountsFollowWork DEF IInv, CapHolds
  <2>6. Phases'
    BY <1>4, <2>1, <2>2, CountsFollowWork
    DEF Create, Cancel, Tick, CallbackReturns, CallbackRaises, batchVars, progressVars, IInv, Phases
  <2>7. ProgressIsHonest' /\ ReportIsComplete'
    BY <2>1, <2>2, <2>3, CountsFollowWork
    DEF IInv, TypeOK, ProgressIsHonest, ReportIsComplete
  <2> QED
    BY <1>1, <2>1, <2>2, <2>4, <2>5, <2>6, <2>7
<1>5. CASE Launch
  <2>1. /\ Executing = {} /\ Counted = {} /\ Executing' = {} /\ Counted' = {}
        /\ ran = {} /\ completed = 0 /\ reported = 0
    <3>1. Executing = {} /\ Counted = {} /\ Executing' = {} /\ Counted' = {} /\ ran = {}
      BY <1>5 DEF Launch, StartWith, IInv, TypeOK, Phases, Dispatched, Executing, Counted
    <3> QED
      BY <3>1, FS_EmptySet DEF IInv, TypeOK, ProgressIsHonest
  <2>2. TypeOK'
    BY <1>5 DEF Launch, StartWith, IInv, TypeOK, Unrecorded
  <2>3. CapHolds' /\ ProgressIsHonest' /\ ReportIsComplete'
    BY <1>5, <2>1 DEF Launch, StartWith, IInv, CapHolds, ProgressIsHonest, ReportIsComplete
  <2>4. Recorded'
    BY <1>5 DEF Launch, StartWith, Recorded, TasksOf, Unrecorded, Outcome
  <2>5. Phases' /\ Dispatched'
    BY <1>5, <2>1 DEF Launch, StartWith, Phases, Dispatched, Unrecorded, Unfinished
  <2> QED
    BY <2>2, <2>3, <2>4, <2>5 DEF IInv
<1>6. ASSUME NEW t \in Task, NEW o \in Unexecuted, EndsUnexecuted(t, o)
      PROVE  IInv'
  BY <1>6, EndsKeeps DEF EndsUnexecuted, Unexecuted, Outcome, IInv, TypeOK
<1>7. ASSUME NEW t \in Task, TakesSlot(t)
      PROVE  IInv'
  <2>1. /\ Executing' = Executing \cup {t} /\ t \notin Executing
        /\ Counted' = Counted /\ Unfinished' = Unfinished
    BY <1>7 DEF TakesSlot, IInv, TypeOK, Executing, Counted, Unfinished
  <2>2. Cardinality(Executing') = Cardinality(Executing) + 1
    BY <2>1, CountMore DEF Executing
  <2>3. CapHolds'
    <3>1. Cardinality(Executing) \in Nat
      BY TaskSets DEF Executing
    <3> QED
      BY <1>7, <2>2, <3>1, BatchAssumption DEF TakesSlot, AtCap, IInv, TypeOK, CapHolds
  <2>4. phase \in {"running", "abandoned"}
    BY <1>7 DEF TakesSlot, IInv, TypeOK, Phases, Unfinished
  <2>5. TypeOK'
    BY <1>7 DEF TakesSlot, IInv, TypeOK, batchVars, progressVars
  <2>6. ProgressIsHonest' /\ ReportIsComplete'
    BY <1>7, <2>1, <2>4
    DEF TakesSlot, IInv, ProgressIsHonest, ReportIsComplete, batchVars, progressVars
  <2>7. Recorded' /\ Dispatched'
    BY <1>7 DEF TakesSlot, IInv, TypeOK, Recorded, Dispatched, TasksOf, batchVars
  <2>8. Phases'
    BY <1>7, <2>1, <2>4 DEF TakesSlot, IInv, TypeOK, Phases, batchVars, progressVars
  <2> QED
    BY <2>3, <2>5, <2>6, <2>7, <2>8 DEF IInv
<1>8. ASSUME NEW t \in Task, NEW o \in {"executed", "raised"}, EndsExecution(t, o)
      PROVE  IInv'
  BY <1>8, EndsKeeps DEF EndsExecution, IInv, TypeOK, Dispatched, Outcome, Unexecuted
<1>9. CASE Join
  <2>1. results' = results
    <3>1. \A h \in Host : \E t \in Task : Hosts[t] = h
      BY DEF Host
    <3>2. \A t \in Task : work[t] \in {"done", "skipped"}
      BY <1>9 DEF Join, JoinWhen, Marked, IInv, TypeOK, Phases, Unfinished
    <3>3. \A t \in Task : results[Hosts[t]] # Unrecorded
      BY <1>9, <3>2 DEF Join, JoinWhen, Marked, IInv, Recorded, Outcome, Unexecuted, Unrecorded
    <3> QED
      BY <1>9, <3>1, <3>3 DEF Join, JoinWhen, Marked, IInv, TypeOK
  <2>2. work' = work /\ phase = "running" /\ phase' = "reporting"
        /\ UNCHANGED <<watched, cancelled, summary, completed, others, ran, refused>>
        /\ emitter' = "off" /\ Unfinished = {}
        /\ reported' = IF watched THEN completed ELSE reported
    BY <1>9 DEF Join, JoinWhen
  <2>3. (\A t \in Task : work[t] # "skipped") => completed = Total
    <3>1. SUFFICES ASSUME \A t \in Task : work[t] # "skipped"
                   PROVE  Counted = Task
      BY <3>1 DEF IInv, ProgressIsHonest
    <3> QED
      BY <2>2, <3>1 DEF IInv, TypeOK, Phases, Counted, Unfinished
  <2>4. TypeOK'
    BY <2>1, <2>2 DEF IInv, TypeOK
  <2>5. CapHolds' /\ ProgressIsHonest' /\ ReportIsComplete'
    BY <2>2, <2>3, CountsFollowWork
    DEF IInv, TypeOK, CapHolds, ProgressIsHonest, ReportIsComplete
  <2>6. Recorded' /\ Dispatched'
    BY <2>1, <2>2 DEF IInv, Recorded, Dispatched, TasksOf
  <2>7. Phases'
    BY <2>2, CountsFollowWork DEF IInv, Phases
  <2> QED
    BY <2>4, <2>5, <2>6, <2>7 DEF IInv
<1>10. CASE Return
  <2>1. /\ phase = "reporting" /\ phase' = "returned" /\ summary' = Summarize
        /\ UNCHANGED <<watched, cancelled, progressVars, work, results, completed, others, ran, refused>>
    BY <1>10 DEF Return
  <2>2. /\ Summarize["succeeded"] + Summarize["failed"] + Summarize["not_executed"]
             + Summarize["interrupted"] = Cardinality(Host)
        /\ Summarize \in [Status -> Int]
    <3> DEFINE Has(s) == {h \in Host : StatusOf(results[h]) = s}
    <3>1. \A s \in Status : Summarize[s] = Cardinality(Has(s))
      BY DEF Summarize
    <3>2. \A h \in Host : StatusOf(results[h]) \in Status
      <4>1. \A h \in Host : results[h] # Unrecorded
        <5>1. \A h \in Host : \E t \in Task : Hosts[t] = h
          BY DEF Host
        <5>2. \A t \in Task : work[t] \in {"done", "skipped"}
          BY <2>1 DEF IInv, TypeOK, Phases, Unfinished
        <5> QED
          BY <2>1, <5>1, <5>2 DEF IInv, Recorded, Outcome, Unexecuted, Unrecorded
      <4>2. \A h \in Host : results[h] \in Outcome \cup {"not_executed", "interrupted"}
        BY <4>1 DEF IInv, TypeOK
      <4> QED
        BY <4>2 DEF StatusOf, Status, Outcome, Unexecuted
    <3>3. Cardinality(Has("succeeded")) + Cardinality(Has("failed"))
            + Cardinality(Has("not_executed")) + Cardinality(Has("interrupted"))
          = Cardinality(Host)
      <4> DEFINE A == Has("succeeded")
                 B == Has("failed")
                 C == Has("not_executed")
                 D == Has("interrupted")
      <4>1. A \cup B \cup C \cup D = Host
        BY <3>2 DEF Status
      <4>2. A \cap B = {} /\ (A \cup B) \cap C = {} /\ (A \cup B \cup C) \cap D = {}
        OBVIOUS
      <4> HIDE DEF A, B, C, D
      <4>3. Cardinality(A) + Cardinality(B) + Cardinality(C) + Cardinality(D) = Cardinality(Host)
        <5>1. A \in SUBSET Host /\ B \in SUBSET Host /\ C \in SUBSET Host /\ D \in SUBSET Host
          BY <4>1
        <5>2. IsFiniteSet(A) /\ IsFiniteSet(B) /\ IsFiniteSet(C) /\ IsFiniteSet(D)
          BY <5>1, FS_Subset
        <5>3. /\ IsFiniteSet(A \cup B)
              /\ Cardinality(A \cup B) = Cardinality(A) + Cardinality(B)
          BY <4>2, <5>2, DisjointCount
        <5>4. /\ IsFiniteSet(A \cup B \cup C)
              /\ Cardinality(A \cup B \cup C) = Cardinality(A \cup B) + Cardinality(C)
          BY <4>2, <5>2, <5>3, DisjointCount
        <5>5. Cardinality(A \cup B \cup C \cup D) = Cardinality(A \cup B \cup C) + Cardinality(D)
          BY <4>2, <5>2, <5>4, DisjointCount
        <5> QED
          BY <4>1, <5>3, <5>4, <5>5
      <4> QED
        BY <4>3 DEF A, B, C, D
    <3>4. \A s \in Status : Cardinality(Has(s)) \in Int
      <4>1. \A s \in Status : Has(s) \in SUBSET Host
        OBVIOUS
      <4> QED
        BY <4>1, FS_Subset, FS_CardinalityType
    <3>5. Summarize \in [Status -> Int]
      BY <3>4 DEF Summarize
    <3> QED
      BY <3>1, <3>3, <3>5 DEF Status
  <2>3. TypeOK'
    BY <2>1, <2>2 DEF IInv, TypeOK, progressVars
  <2>4. CapHolds' /\ ProgressIsHonest'
    BY <2>1, CountsFollowWork DEF IInv, CapHolds, ProgressIsHonest, progressVars
  <2>5. ReportIsComplete' /\ Phases'
    BY <2>1, <2>2, CountsFollowWork DEF IInv, ReportIsComplete, Phases, progressVars
  <2>6. Recorded' /\ Dispatched'
    BY <2>1 DEF IInv, Recorded, Dispatched, TasksOf
  <2> QED
    BY <2>3, <2>4, <2>5, <2>6 DEF IInv
<1>11. CASE ReturnFails
  <2>1. /\ phase = "reporting" /\ phase' = "raised"
        /\ UNCHANGED <<watched, cancelled, summary, progressVars, work, results,
                       completed, others, ran, refused>>
    BY <1>11 DEF ReturnFails
  <2>2. TypeOK'
    BY <2>1 DEF IInv, TypeOK, progressVars
  <2>3. CapHolds' /\ ProgressIsHonest' /\ ReportIsComplete' /\ Phases'
    BY <2>1, CountsFollowWork
    DEF IInv, CapHolds, ProgressIsHonest, ReportIsComplete, Phases, progressVars
  <2> QED
    BY <1>1, <2>1, <2>2, <2>3
<1>12. CASE Abandon
  <2>1. /\ Counted' = Counted \cup Unfinished /\ Counted \cap Unfinished = {}
        /\ Executing' = {} /\ Unfinished' = {}
        /\ Counted \in SUBSET Task /\ Unfinished \in SUBSET Task /\ Counted' \in SUBSET Task
    BY <1>12 DEF Abandon, AbandonCounting, IInv, TypeOK, Counted, Unfinished, Executing
  <2>2. Cardinality(Counted') = Cardinality(Counted) + Cardinality(Unfinished)
    BY <2>1, TaskSets, DisjointCount
  <2>3. completed' = Cardinality(Counted') /\ completed' >= completed /\ completed' \in 0..Total
    <3>1. Cardinality(Unfinished) \in 0..Total /\ Cardinality(Counted') \in 0..Total
      BY <2>1, TaskSets
    <3> QED
      BY <1>12, <2>2, <3>1 DEF Abandon, AbandonCounting, IInv, TypeOK, ProgressIsHonest
  <2>4. TypeOK'
    BY <1>12, <2>3 DEF Abandon, AbandonCounting, IInv, TypeOK, progressVars
  <2>5. CapHolds'
    <3>1. Cardinality(Executing') = 0
      BY <2>1, FS_EmptySet
    <3> QED
      BY <1>12, <3>1, BatchAssumption DEF Abandon, AbandonCounting, IInv, TypeOK, CapHolds
  <2>6. ProgressIsHonest' /\ ReportIsComplete'
    <3>1. reported' <= completed'
      BY <1>12, <2>3 DEF Abandon, AbandonCounting, IInv, TypeOK, ProgressIsHonest, progressVars
    <3> QED
      BY <1>12, <2>3, <3>1 DEF Abandon, AbandonCounting, ProgressIsHonest, ReportIsComplete
  <2>7. Recorded' /\ Dispatched' /\ Phases'
    BY <1>12, <2>1
    DEF Abandon, AbandonCounting, IInv, TypeOK, Recorded, Dispatched, Phases, TasksOf, Unfinished
  <2> QED
    BY <2>4, <2>5, <2>6, <2>7 DEF IInv
<1>13. CASE AbandonEarly
  <2>1. /\ UNCHANGED <<watched, cancelled, summary, reported, work, results,
                       completed, others, ran, refused>>
        /\ phase = "created" /\ phase' = "abandoned" /\ emitter' \in {"off", "sleeping"}
    BY <1>13 DEF AbandonEarly
  <2>2. TypeOK'
    BY <2>1 DEF IInv, TypeOK
  <2>3. CapHolds' /\ ProgressIsHonest' /\ ReportIsComplete' /\ Phases'
    BY <2>1, CountsFollowWork DEF IInv, CapHolds, ProgressIsHonest, ReportIsComplete, Phases
  <2> QED
    BY <1>1, <2>1, <2>2, <2>3
<1>14. CASE UNCHANGED vars
  <2>1. UNCHANGED <<work, results, completed, ran, refused, others, summary, watched, phase,
                    emitter, reported, cancelled>>
    BY <1>14 DEF vars, batchVars, progressVars
  <2>2. TypeOK' /\ CapHolds' /\ ProgressIsHonest' /\ ReportIsComplete' /\ Phases'
    BY <2>1, CountsFollowWork
    DEF IInv, TypeOK, CapHolds, ProgressIsHonest, ReportIsComplete, Phases
  <2> QED
    BY <1>1, <2>1, <2>2
<1> QED
  BY <1>2, <1>3, <1>4, <1>5, <1>6, <1>7, <1>8, <1>9, <1>10, <1>11, <1>12, <1>13,
     <1>14
  DEF Next

-----------------------------------------------------------------------------
(* The inductive invariant holds of every reachable state.                  *)
THEOREM IInvHolds == Spec => []IInv
  BY InitIInv, StepIInv, PTL DEF Spec

(* Every variable keeps its range, for every list of hosts and every cap.   *)
THEOREM TypeCorrect == Spec => []TypeOK
<1>1. IInv => TypeOK
  BY DEF IInv
<1> QED BY <1>1, IInvHolds, PTL

(* However many hosts are listed, the manager's cap holds.                  *)
THEOREM CapHoldsAlways == Spec => []CapHolds
<1>1. IInv => CapHolds
  BY DEF IInv
<1> QED BY <1>1, IInvHolds, PTL

(* The progress never runs ahead and ends at the total.                     *)
THEOREM ProgressIsHonestHolds == Spec => []ProgressIsHonest
<1>1. IInv => ProgressIsHonest
  BY DEF IInv
<1> QED BY <1>1, IInvHolds, PTL

(* The summary counts every distinct host under exactly one status, and is  *)
(* only made when nothing is running any more.                              *)
THEOREM ReportIsCompleteHolds == Spec => []ReportIsComplete
<1>1. IInv => ReportIsComplete
  BY DEF IInv
<1> QED BY <1>1, IInvHolds, PTL

(* "Not executed" is never said of a host to which a command was sent.      *)
THEOREM NotExecutedIsTrueHolds == Spec => []NotExecutedIsTrue
<1>1. IInv => NotExecutedIsTrue
  BY DEF IInv, TypeOK, Recorded, Dispatched, NotExecutedIsTrue, TasksOf
<1> QED BY <1>1, IInvHolds, PTL

(* Nothing but the end of one of its own tasks changes a recorded result.   *)
THEOREM OutcomesAreIndependentHolds == Spec => OutcomesAreIndependent
<1> DEFINE Kept == \A h \in Host :
             results[h] # Unrecorded /\ results'[h] # results[h]
               => \E t \in TasksOf(h) : work[t] # "done" /\ work'[t] = "done"
<1>1. IInv /\ [Next]_vars => [Kept]_vars
  <2> SUFFICES ASSUME IInv, Next PROVE Kept
    OBVIOUS
  <2>1. ASSUME NEW t \in Task, NEW o \in Outcome, Ends(t, o), work[t] # "done"
        PROVE  Kept
    BY <2>1, TasksAndHosts DEF Ends, Record, IInv, TypeOK, TasksOf
  <2>2. CASE Launch
    BY <2>2 DEF Launch, StartWith, IInv, Phases
  <2>3. CASE Join
    BY <2>3 DEF Join, JoinWhen, Marked
  <2>4. ASSUME results' = results PROVE Kept
    BY <2>4
  <2> QED
    BY <2>1, <2>2, <2>3, <2>4
    DEF Next, OthersTake, OthersRelease, Create, Cancel, EndsUnexecuted, TakesSlot,
        EndsExecution, Tick, CallbackReturns, CallbackRaises, Return, ReturnFails,
        Abandon, AbandonCounting, AbandonEarly, Outcome, Unexecuted
<1> QED BY <1>1, IInvHolds, PTL DEF Spec, OutcomesAreIndependent

(* The tasks of a batch, and the manager's other callers, go through the    *)
(* manager's slots as through a pool that refuses only when it is full.     *)
THEOREM SlotPoolRefinement == Spec => ImplementsSlotPool
<1>1. Init => Pool!Init
  BY DEF Init, Pool!Init, Executing, Over
<1>2. IInv /\ [Next]_vars => [Pool!Next]_(Pool!pool)
  <2> SUFFICES ASSUME IInv, [Next]_vars PROVE [Pool!Next]_(Pool!pool)
    OBVIOUS
  <2> USE DEF history, Pool!pool
  <2>0. Pool!Free <=> ~AtCap
    <3>1. Cardinality(Executing) \in Nat
      BY TaskSets DEF Executing
    <3> QED
      BY <3>1, BatchAssumption
      DEF Pool!Free, Pool!Cardinality, Cardinality, AtCap, IInv, TypeOK
  <2>1. ASSUME UNCHANGED <<work, others, refused>> PROVE UNCHANGED Pool!pool
    BY <2>1 DEF Executing, Over
  <2>2. CASE OthersTake
    <3>1. Pool!OthersTake
      BY <2>0, <2>2 DEF OthersTake, Pool!OthersTake, Executing, Over
    <3> QED BY <3>1 DEF Pool!Next
  <2>3. CASE OthersRelease
    <3>1. Pool!OthersRelease
      BY <2>3 DEF OthersRelease, Pool!OthersRelease, Executing, Over
    <3> QED BY <3>1 DEF Pool!Next
  <2>4. CASE Create \/ Cancel \/ Tick \/ CallbackReturns \/ CallbackRaises \/ Join
             \/ Return \/ ReturnFails \/ AbandonEarly \/ UNCHANGED vars
    BY <2>1, <2>4
    DEF Create, Cancel, Tick, CallbackReturns, CallbackRaises, Join, JoinWhen, Return,
        ReturnFails, AbandonEarly, vars, batchVars, progressVars
  (* Tasks that come back, whatever they held. *)
  <2>5. ASSUME NEW C \in SUBSET Task, C \cap Over = {}, Over' = Over \cup C,
               Executing' = Executing \ C, UNCHANGED <<refused, others>>
        PROVE  Pool!Next
    <3>1. Pool!Leave(C)
      BY <2>5 DEF Pool!Leave
    <3> QED BY <3>1 DEF Pool!Next
  <2>6. CASE Launch
    <3>1. CASE cancelled
      <4>1. Over = {} /\ Over' = Task /\ Executing = {} /\ Executing' = {}
        BY <2>6, <3>1 DEF Launch, StartWith, IInv, Phases, Over, Executing
      <4>2. UNCHANGED <<refused, others>>
        BY <2>6 DEF Launch, StartWith
      <4> QED BY <2>5, <4>1, <4>2
    <3>2. CASE ~cancelled
      <4>1. Over = {} /\ Over' = {} /\ Executing = {} /\ Executing' = {}
        BY <2>6, <3>2 DEF Launch, StartWith, IInv, Phases, Over, Executing
      <4> QED BY <2>6, <4>1 DEF Launch, StartWith
    <3> QED BY <3>1, <3>2
  <2>7. CASE Abandon
    <3>1. /\ Unfinished \cap Over = {} /\ Over' = Over \cup Unfinished
          /\ Executing' = Executing \ Unfinished
      BY <2>7 DEF Abandon, AbandonCounting, IInv, TypeOK, Unfinished, Over, Executing
    <3> QED
      BY <2>5, <2>7, <3>1 DEF Abandon, AbandonCounting, Unfinished
  <2>8. ASSUME NEW t \in Task, NEW o \in Unexecuted, EndsUnexecuted(t, o)
        PROVE  Pool!Next
    <3>1. /\ t \notin Over /\ t \notin Executing /\ Over' = Over \cup {t}
          /\ Executing' = Executing /\ UNCHANGED others
      BY <2>8 DEF EndsUnexecuted, Ends, Record, IInv, TypeOK, Over, Executing
    <3>2. CASE o = "queued"
      <4>1. Pool!Refuse(t)
        BY <2>0, <2>8, <3>1, <3>2 DEF EndsUnexecuted, Pool!Refuse, Pool!Outside
      <4> QED BY <4>1 DEF Pool!Next
    <3>3. CASE o # "queued"
      <4>1. /\ {t} \cap Over = {} /\ Over' = Over \cup {t} /\ Executing' = Executing \ {t}
            /\ UNCHANGED <<refused, others>>
        BY <2>8, <3>1, <3>3 DEF EndsUnexecuted
      <4> QED BY <2>5, <4>1
    <3> QED BY <3>2, <3>3
  <2>9. ASSUME NEW t \in Task, TakesSlot(t) PROVE Pool!Next
    <3>1. /\ t \notin Over /\ t \notin Executing /\ Over' = Over
          /\ Executing' = Executing \cup {t} /\ UNCHANGED <<others, refused>>
      BY <2>9 DEF TakesSlot, IInv, TypeOK, Over, Executing
    <3>2. Pool!Admit(t)
      BY <2>0, <2>9, <3>1 DEF TakesSlot, Pool!Admit, Pool!Outside
    <3> QED BY <3>2 DEF Pool!Next
  <2>10. ASSUME NEW t \in Task, NEW o \in {"executed", "raised"}, EndsExecution(t, o)
         PROVE  Pool!Next
    <3>1. /\ {t} \cap Over = {} /\ Over' = Over \cup {t}
          /\ Executing' = Executing \ {t} /\ UNCHANGED <<refused, others>>
      BY <2>10 DEF EndsExecution, Ends, Record, IInv, TypeOK, Over, Executing
    <3> QED BY <2>5, <3>1
  <2> QED
    BY <2>2, <2>3, <2>4, <2>6, <2>7, <2>8, <2>9, <2>10 DEF Next
<1> QED
  BY <1>1, <1>2, IInvHolds, PTL DEF Spec, ImplementsSlotPool, Pool!Spec
=============================================================================
