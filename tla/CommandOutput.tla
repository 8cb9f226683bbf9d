---------------------------- MODULE CommandOutput ----------------------------
(***************************************************************************)
(* CommandRunner.run() with the bytes: what the command prints and exits    *)
(* with is staged as its stream's parts, the parts that arrive are decoded, *)
(* and the caller gets what finalize_output() makes of them.  The pieces,   *)
(* jobs and directories are CommandRun's.                                   *)
(***************************************************************************)
EXTENDS CommandRun, Output

CONSTANTS
  Printed,   \* what commands print
  ExitDigits \* the digits of their exit codes

ASSUME CommandOutputAssumption ==
  /\ Printed \subseteq Seq(Byte) /\ ExitDigits \subseteq Seq(Digit) \ {<<>>}
  /\ \A p \in Printed, c \in ExitDigits : NumParts(Stream(p, c)) <= MaxParts

VARIABLES
  printed,  \* what the command prints
  code      \* the digits of its exit code

runVars == <<vars, printed, code>>

InitOutput == Init /\ printed \in Printed /\ code \in ExitDigits

TheStream == Stream(printed, code)

(* CommandRun's steps, where the script stages this stream, or nothing if   *)
(* its pipeline fails (a full disk, no base64).                             *)
NextOutput ==
  /\ \/ \E d \in Dir, n \in {0, NumParts(TheStream)} : HostStages(d, n)
     \/ \E d \in Dir : HostMissed(d)
     \/ Start
     \/ \E how \in {"error", "target_unreachable", "ok"} : DispatchWithoutMeta(how)
     \/ \E d \in Dir : DispatchMeta(d)
     \/ Fetch
     \/ FetchFails
     \/ Cleanup
     \/ CleanupCancelled
  /\ UNCHANGED <<printed, code>>

SpecOutput == InitOutput /\ [][NextOutput]_runVars

(* "".join(pieces), where a hole is an empty value: a dark host's, or a      *)
(* dropped value's.                                                         *)
Gathered ==
  FlattenSeq([i \in DOMAIN pieces |->
                IF pieces[i] = Hole THEN <<>> ELSE Part(TheStream, pieces[i])])

Payload == Decoded(Gathered)
Outcome == Finalize(Payload.body)

-----------------------------------------------------------------------------
AllFetched == dir # NoDir /\ Len(pieces) = parts

(* The wrapper's marker and code came whole.                                *)
TrailerFetched ==
  \A i \in DOMAIN pieces :
    pieces[i] = Hole => i * PartBytes <= Len(TheStream) - Len(Marker \o code) - 1

(* CommandRun knows only which pieces came.  What it takes the exit code    *)
(* for, the decoded bytes confirm: the wrapper's only with the last part,   *)
(* one the command itself printed only if a part is missing, and none but   *)
(* a number.                                                                *)
DecodeAgrees ==
  AllFetched =>
    (CASE Payload.code = Missing -> "unknown"
       [] Payload.code # Missing /\ parts > 0 /\ TrailerFetched -> "known"
       [] OTHER -> "echoed") \in ExitCodes(pieces, parts)

(* A whole payload gives the caller the command's own exit code, whatever   *)
(* markers it printed, and its bytes up to the cap, in order and with       *)
(* nothing lost but at most one newline at the end; printable UTF-8 within  *)
(* the cap comes back as text (data-handling/spec.md:42-44), cut parts and  *)
(* sniffed characters notwithstanding.  That the newline may go is the      *)
(* code's doing: data-handling/spec.md:20-22 returns UTF-8 unchanged.       *)
OutputSurvives ==
  AllFetched /\ parts > 0 /\ Hole \notin ToSet(pieces) =>
    /\ Payload.code = ValueOf(code)
    /\ \E body \in {printed, Shorn(printed)} :
         /\ Outcome.bytes = Cut(body, Cap)
         /\ Outcome.truncated <=> Len(body) > Cap
    /\ Utf8(printed) /\ ~Outcome.truncated /\ ~Contains(printed, "nul")
         /\ ~Contains(printed, "x1f") => Outcome.form = "utf-8"
    /\ Contains(Cut(Outcome.bytes, SniffBytes), "nul") => Outcome.form = "binary"
=============================================================================
