---------------------------- MODULE BatchInFlight ----------------------------
(***************************************************************************)
(* A batch that is cancelled while hosts execute, and what its report then  *)
(* says of them.  To the state of Batch it adds a history variable: the     *)
(* tasks that were executing at the moment of the cancellation.             *)
(***************************************************************************)
EXTENDS MCBatch

VARIABLE caught   \* history: the tasks that were executing when cancel() came

InitInFlight == Init /\ caught = {}

(* Batch's steps; the first cancel() catches what is executing.             *)
NextInFlight ==
  /\ Next
  /\ caught' = IF ~cancelled /\ cancelled' THEN Executing ELSE caught

SpecInFlight == InitInFlight /\ [][NextInFlight]_<<vars, caught>>

-----------------------------------------------------------------------------
(* batch-operations/spec.md:107-109: a host that was mid-execution when the *)
(* batch was cancelled is not reported as a success: no task that was       *)
(* caught by the cancellation is recorded as one when it ends.              *)
CancelledInFlightIsInterrupted ==
  [][\A t \in caught :
       work[t] = "executing" /\ work'[t] = "done" /\ phase' = phase
         => StatusOf(results'[Hosts[t]]) # "succeeded"]_<<vars, caught>>
=============================================================================
