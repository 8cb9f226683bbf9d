------------------------------- MODULE JobRun -------------------------------
(***************************************************************************)
(* What one OpsJobExecutor.run() promises its caller.  A job is posted once *)
(* or more, and each post may be carried out at any time, even after run()  *)
(* is over.  A result is that of a post that was carried out, the last one  *)
(* made: what a duplicate does comes from an earlier post.  OpsJob          *)
(* implements this; CommandRun is written on it.                            *)
(***************************************************************************)
EXTENDS Naturals

CONSTANT Post   \* the posts of the job, numbered from 1

VARIABLES
  place,      \* run() is "idle", "busy" or "over"
  performed,  \* the posts that JumpServer has carried out
  answer      \* the post whose result run() returned, or NoAnswer

run == <<place, performed, answer>>

NoAnswer == 0

Init == place = "idle" /\ performed = {} /\ answer = NoAnswer

Begin ==
  /\ place = "idle" /\ place' = "busy"
  /\ UNCHANGED <<performed, answer>>

Perform(k) ==
  /\ place # "idle"
  /\ k \notin performed
  /\ answer # NoAnswer => k < answer
  /\ performed' = performed \cup {k}
  /\ UNCHANGED <<place, answer>>

Finish(k) ==
  /\ place = "busy" /\ place' = "over"
  /\ k \in performed /\ \A j \in performed : j <= k
  /\ answer' = k
  /\ UNCHANGED performed

Fail ==
  /\ place = "busy" /\ place' = "over"
  /\ UNCHANGED <<performed, answer>>

Next ==
  \/ Begin
  \/ \E k \in Post : Perform(k) \/ Finish(k)
  \/ Fail

Spec == Init /\ [][Next]_run
=============================================================================
