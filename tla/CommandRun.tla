----------------------------- MODULE CommandRun -----------------------------
(***************************************************************************)
(* CommandRunner.run() (command_execution.py): a dispatch job runs the      *)
(* user's command on the host and stages its encoded output in parts, one   *)
(* job per part fetches them, a last job removes the staged directory.      *)
(*                                                                          *)
(* The dispatch job is one OpsJobExecutor.run(), which is known here only   *)
(* by what it promises: JobRun, implemented by OpsJob.  Whether run() raises *)
(* or gives a summary, JumpServer may have carried out the job once for     *)
(* each POST, or may yet do so.  The host is external.  A part is its       *)
(* number; Hole is whatever a fetch job gives instead of its part (a dark   *)
(* host, a dropped value, an error text).                                   *)
(***************************************************************************)
EXTENDS Integers, Sequences

CONSTANTS
  Posts,      \* how often OpsJobExecutor may post one job
  MaxParts,   \* bound: the host stages at most so many parts
  PartNames   \* how many names list_part_names() can form

ASSUME CommandRunAssumption ==
  Posts \in Nat \ {0} /\ MaxParts \in Nat /\ PartNames \in Nat

VARIABLES
  pc,        \* "idle", "dispatching", "fetching", "cleaning" or "done"
  dir,       \* meta["tmp"]: the staged directory run() follows, or NoDir
  parts,     \* meta["parts"]
  pieces,    \* what the fetch jobs gave, in order
  exitCode,  \* "known", "unknown", or "echoed": a marker the command itself printed
  result,    \* how run() ended
  jobs,      \* history: how many jobs run() has started
  staged,    \* the parts in each directory on the host
  ran,       \* history: the directories that the dispatch script made
  performed  \* JobRun: the posts of the dispatch job that were carried out

client == <<pc, dir, parts, pieces, exitCode, result, jobs>>
host == <<staged, ran, performed>>
vars == <<client, host>>

Dir == 1..Posts
NoDir == 0
Hole == 0
Absent == -1

(* Each post makes a directory of its own; the one that run() follows is    *)
(* the answer of the dispatch job.                                          *)
Place == CASE pc = "idle" -> "idle" [] pc = "dispatching" -> "busy" [] OTHER -> "over"

Dispatch == INSTANCE JobRun WITH Post <- Dir, place <- Place, answer <- dir

TypeOK ==
  /\ pc \in {"idle", "dispatching", "fetching", "cleaning", "done"}
  /\ dir \in Dir \cup {NoDir}
  /\ parts \in 0..MaxParts
  /\ pieces \in Seq(0..MaxParts)
  /\ exitCode \in {"unknown", "known", "echoed"}
  /\ result \in {"none", "ok", "target_unreachable", "error"}
  /\ jobs \in 0..(MaxParts + 2)
  /\ staged \in [Dir -> (0..MaxParts) \cup {Absent}]
  /\ ran \in SUBSET Dir /\ performed \in SUBSET Dir

Init ==
  /\ pc = "idle" /\ dir = NoDir /\ parts = 0 /\ pieces = <<>>
  /\ exitCode = "unknown" /\ result = "none" /\ jobs = 0
  /\ staged = [d \in Dir |-> Absent]
  /\ ran = {} /\ performed = {}

-----------------------------------------------------------------------------
(* The host (external).                                                     *)

(* The dispatch script runs, in a directory of its own (mktemp -d).         *)
HostStages(d, n) ==
  /\ UNCHANGED client
  /\ Dispatch!Perform(d)
  /\ staged' = [staged EXCEPT ![d] = n]
  /\ ran' = ran \cup {d}

(* JumpServer carries out the job without the script: the host is dark, or  *)
(* denied to the runas user.                                                *)
HostMissed(d) ==
  /\ UNCHANGED <<client, staged, ran>>
  /\ Dispatch!Perform(d)

-----------------------------------------------------------------------------
(* run() starts a job, or ends.                                             *)
NextJob(place) ==
  /\ pc' = place
  /\ jobs' = jobs + 1
  /\ UNCHANGED result

End(how) ==
  /\ pc' = "done"
  /\ result' = how
  /\ UNCHANGED jobs

Start ==
  /\ pc = "idle"
  /\ NextJob("dispatching")
  /\ Dispatch!Begin
  /\ UNCHANGED <<parts, pieces, exitCode, staged, ran>>

(* The dispatch job gives no metadata.  The executor raises; a host is dark *)
(* ("target_unreachable"); or the summary's text, if any, is the result.    *)
DispatchWithoutMeta(how) ==
  /\ how # "error" => performed # {}
  /\ End(how)
  /\ Dispatch!Fail
  /\ UNCHANGED <<parts, pieces, exitCode, staged, ran>>

\* Seeded defect: a missing exit code is taken for 0.
DecodeAsSuccess(gathered, n) ==
  /\ exitCode' = "known"
  /\ NextJob("cleaning") \/ End("ok")

(* _decode_payload(): the last marker in what was gathered.  The wrapper's  *)
(* stands at the end of the last part; with a hole it may be lost, garbled, *)
(* or give way to one in the command's own output.                          *)
Present(gathered) == {i \in DOMAIN gathered : gathered[i] # Hole}

ExitCodes(gathered, n) ==
  {"unknown"}
    \cup {c \in {"known"} : n \in Present(gathered)}
    \cup {c \in {"echoed"} : Present(gathered) \notin {{}, 1..n}}

(* After the last part; the directory is removed if it is under /tmp.       *)
Decode(gathered, n) ==
  /\ exitCode' \in ExitCodes(gathered, n)
  /\ NextJob("cleaning") \/ End("ok")

(* The metadata of directory d.  More parts than names: IndexError.         *)
DispatchMeta(d) ==
  /\ staged[d] # Absent
  /\ parts' = staged[d]
  /\ \/ parts' > PartNames /\ End("error") /\ UNCHANGED exitCode
     \/ parts' \in 1..PartNames /\ NextJob("fetching") /\ UNCHANGED exitCode
     \/ parts' = 0 /\ Decode(<<>>, 0)
  /\ Dispatch!Finish(d)
  /\ UNCHANGED <<pieces, staged, ran>>

\* Seeded defect: a part that did not come is fetched once more.
FetchTwice ==
  /\ pc = "fetching"
  /\ \E piece \in {Len(pieces) + 1, Hole} :
       /\ pieces' = Append(pieces, piece)
       /\ IF Len(pieces') < parts
          THEN /\ UNCHANGED <<exitCode, pc, result>>
               /\ jobs' = IF piece = Hole THEN jobs + 2 ELSE jobs + 1
          ELSE Decode(pieces', parts)
  /\ UNCHANGED <<dir, parts, host>>

(* The next part, or whatever the job gives instead, is appended; after the *)
(* last one the output is decoded.                                          *)
Fetch ==
  /\ pc = "fetching"
  /\ \E piece \in {Len(pieces) + 1, Hole} : pieces' = Append(pieces, piece)
  /\ IF Len(pieces') < parts THEN NextJob("fetching") /\ UNCHANGED exitCode
     ELSE Decode(pieces', parts)
  /\ UNCHANGED <<dir, parts, host>>

(* A fetch job raises, or the call is cancelled while it waits: the output  *)
(* is lost and the directory stays.                                         *)
FetchFails ==
  /\ pc = "fetching"
  /\ End("error")
  /\ UNCHANGED <<dir, parts, pieces, exitCode, host>>

\* Seeded defect: every staged directory on the host is removed.
CleanupAll ==
  /\ pc = "cleaning"
  /\ End("ok")
  /\ staged' = [d \in Dir |-> Absent]
  /\ UNCHANGED <<dir, parts, pieces, exitCode, ran, performed>>

(* The cleanup job ends; whether it removed the directory or failed, the    *)
(* result is returned.                                                      *)
Cleanup ==
  /\ pc = "cleaning"
  /\ End("ok")
  /\ staged' \in {staged, [staged EXCEPT ![dir] = Absent]}
  /\ UNCHANGED <<dir, parts, pieces, exitCode, ran, performed>>

(* The call is cancelled during the cleanup: the result is lost.            *)
CleanupCancelled ==
  /\ pc = "cleaning"
  /\ End("error")
  /\ staged' \in {staged, [staged EXCEPT ![dir] = Absent]}
  /\ UNCHANGED <<dir, parts, pieces, exitCode, ran, performed>>

-----------------------------------------------------------------------------
Next ==
  \/ \E d \in Dir, n \in 0..MaxParts : HostStages(d, n)
  \/ \E d \in Dir : HostMissed(d)
  \/ Start
  \/ \E how \in {"error", "target_unreachable", "ok"} : DispatchWithoutMeta(how)
  \/ \E d \in Dir : DispatchMeta(d)
  \/ Fetch
  \/ FetchFails
  \/ Cleanup
  \/ CleanupCancelled

Spec == Init /\ [][Next]_vars

-----------------------------------------------------------------------------
(* The output is put together in order: every piece is the part of its      *)
(* place or a hole, never another part, and nothing is asked for beyond the *)
(* parts that the metadata announced.                                       *)
OutputIsInOrder ==
  /\ Len(pieces) <= parts
  /\ \A i \in DOMAIN pieces : pieces[i] \in {i, Hole}

(* The wrapper's exit code is only reported for a command that ran, and     *)
(* only if the end of its output was fetched.                               *)
ExitCodeIsEarned ==
  exitCode = "known" =>
    /\ dir \in ran
    /\ parts > 0 /\ Len(pieces) = parts /\ pieces[parts] = parts

(* Nothing is fetched twice: a result costs one job per part beside the     *)
(* dispatch and at most one cleanup.                                        *)
JobsPerRun ==
  result = "ok" => jobs \in {1 + Len(pieces), 2 + Len(pieces)} /\ Len(pieces) = parts

(* A staged directory is removed only by the run that follows it, and only  *)
(* after every part was fetched; whatever a duplicate of the dispatch job   *)
(* staged is left alone (command_execution.py 147-150, 321-322).            *)
RemovesOnlyItsOwn ==
  [][\A d \in Dir :
       staged[d] # Absent /\ staged'[d] = Absent
         => d = dir /\ Len(pieces) = parts]_vars

(* data-handling/spec.md:42-44: output within the limit is returned in full.*)
OkIsComplete ==
  result = "ok" /\ dir # NoDir => \A i \in 1..parts : pieces[i] = i
=============================================================================
