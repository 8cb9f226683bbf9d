-------------------------- MODULE CommandRunProofs --------------------------
(***************************************************************************)
(* For any number of parts, of part names and of POST attempts: the output  *)
(* is put together in order, each part asked for once, an exit code comes   *)
(* from the end of a command that ran, and only the followed directory is   *)
(* ever removed.  For any output and any sizes of its parts, the cap and the*)
(* sniffed window: what is staged, gathered and decoded is what the command *)
(* printed and exited with.                                                 *)
(***************************************************************************)
EXTENDS CommandOutput, FiniteSetTheorems, SequenceTheorems, WellFoundedInduction, TLAPS

(* What the host has done by the place run() has got to.                    *)
Hosted ==
  /\ ran \subseteq performed
  /\ \A d \in Dir : staged[d] # Absent => d \in ran
  /\ dir # NoDir => dir \in ran
  /\ pc \in {"idle", "dispatching"} => dir = NoDir
  /\ pc = "idle" => performed = {}

(* How far the fetching is, and how many jobs that took.                    *)
Fetched ==
  /\ \A i \in DOMAIN pieces : pieces[i] \in {i, Hole}
  /\ dir = NoDir => parts = 0
  /\ pc = "idle" => jobs = 0 /\ parts = 0
  /\ pc = "dispatching" => jobs = 1 /\ parts = 0
  /\ parts = 0 => Len(pieces) = 0
  /\ Len(pieces) <= parts
  /\ pc = "fetching" => Len(pieces) < parts /\ jobs = Len(pieces) + 2
  /\ pc = "cleaning" => Len(pieces) = parts /\ jobs = parts + 2 /\ dir # NoDir
  /\ pc # "done" => result = "none"
  /\ pc \in {"idle", "dispatching", "fetching"} => exitCode = "unknown"

IInv == TypeOK /\ Hosted /\ Fetched /\ ExitCodeIsEarned /\ JobsPerRun

(* It holds before run() is called.                                         *)
LEMMA InitIInv == Init => IInv
<1> SUFFICES ASSUME Init PROVE IInv
  OBVIOUS
<1>1. Len(pieces) = 0 /\ pieces \in Seq(0..MaxParts) /\ DOMAIN pieces = {}
  BY DEF Init
<1>2. 0 \in 0..MaxParts /\ 0 \in 0..(MaxParts + 2)
  BY CommandRunAssumption
<1>3. TypeOK
  BY <1>1, <1>2 DEF Init, TypeOK
<1>4. Hosted /\ Fetched /\ ExitCodeIsEarned /\ JobsPerRun
  BY <1>1 DEF Init, Hosted, Fetched, ExitCodeIsEarned, JobsPerRun, Absent
<1> QED
  BY <1>3, <1>4 DEF IInv

(* What the exit code of a decoded output can be.                           *)
LEMMA ExitCodesEarned ==
  ASSUME NEW g, NEW n, NEW c \in ExitCodes(g, n)
  PROVE  /\ c \in {"unknown", "known", "echoed"}
         /\ c = "known" => n \in DOMAIN g /\ g[n] # Hole
         /\ DOMAIN g = {} => c = "unknown"
<1>1. Present(g) \subseteq DOMAIN g /\ \A i \in Present(g) : g[i] # Hole
  BY DEF Present
<1>2. /\ c \in {"unknown", "known", "echoed"}
      /\ c = "known" => n \in Present(g)
      /\ c = "echoed" => Present(g) # {}
  BY DEF ExitCodes
<1>3. DOMAIN g = {} => Present(g) = {}
  BY <1>1
<1> QED
  BY <1>1, <1>2, <1>3

(* Appending the next piece keeps the output in order.                      *)
LEMMA AppendKeepsOrder ==
  ASSUME NEW n \in Nat, NEW s \in Seq(0..n), Len(s) < n,
         \A i \in DOMAIN s : s[i] \in {i, Hole},
         NEW piece \in {Len(s) + 1, Hole}
  PROVE  /\ Append(s, piece) \in Seq(0..n)
         /\ Len(Append(s, piece)) = Len(s) + 1
         /\ \A i \in DOMAIN Append(s, piece) : Append(s, piece)[i] \in {i, Hole}
<1>1. piece \in 0..n
  BY DEF Hole
<1> QED
  BY <1>1

(* No step leaves the inductive invariant.                                  *)
LEMMA StepIInv == IInv /\ [Next]_vars => IInv'
<1> SUFFICES ASSUME IInv, [Next]_vars PROVE IInv'
  OBVIOUS
<1>0. /\ MaxParts \in Nat /\ parts \in Nat /\ jobs \in Nat /\ Len(pieces) \in Nat
      /\ parts <= MaxParts /\ Dir # {} /\ NoDir \notin Dir
  <2>1. MaxParts \in Nat /\ Dir # {} /\ NoDir \notin Dir
    BY CommandRunAssumption DEF Dir, NoDir
  <2>2. parts \in Nat /\ parts <= MaxParts /\ jobs \in Nat
    BY <2>1 DEF IInv, TypeOK
  <2>3. Len(pieces) \in Nat
    BY DEF IInv, TypeOK
  <2> QED BY <2>1, <2>2, <2>3
<1> USE <1>0 DEF IInv
<1>1. ASSUME NEW d \in Dir, NEW n \in 0..MaxParts, HostStages(d, n)
      PROVE  IInv'
  <2>1. /\ pc # "idle" /\ UNCHANGED client
        /\ performed' = performed \cup {d} /\ ran' = ran \cup {d}
        /\ staged' = [staged EXCEPT ![d] = n]
    BY <1>1 DEF HostStages, Dispatch!Perform, Place
  <2> USE <2>1 DEF client
  <2>2. TypeOK'
    BY DEF TypeOK
  <2>3. Hosted'
    BY DEF TypeOK, Hosted, Absent
  <2>4. Fetched' /\ ExitCodeIsEarned' /\ JobsPerRun'
    BY DEF Fetched, ExitCodeIsEarned, JobsPerRun
  <2> QED BY <2>2, <2>3, <2>4
<1>2. ASSUME NEW d \in Dir, HostMissed(d)
      PROVE  IInv'
  <2>1. /\ pc # "idle" /\ UNCHANGED <<client, staged, ran>>
        /\ performed' = performed \cup {d}
    BY <1>2 DEF HostMissed, Dispatch!Perform, Place
  <2> USE <2>1 DEF client
  <2>2. TypeOK'
    BY DEF TypeOK
  <2>3. Hosted'
    BY DEF TypeOK, Hosted
  <2>4. Fetched' /\ ExitCodeIsEarned' /\ JobsPerRun'
    BY DEF Fetched, ExitCodeIsEarned, JobsPerRun
  <2> QED BY <2>2, <2>3, <2>4
<1>3. CASE Start
  <2> USE <1>3 DEF Start, NextJob, Dispatch!Begin
  <2>1. jobs' = 1 /\ 1 \in 0..(MaxParts + 2) /\ pc' = "dispatching" /\ result = "none"
    BY DEF Fetched
  <2>2. TypeOK'
    BY <2>1 DEF TypeOK
  <2>3. Hosted' /\ ExitCodeIsEarned' /\ JobsPerRun'
    BY <2>1 DEF TypeOK, Hosted, Fetched, ExitCodeIsEarned, JobsPerRun
  <2>4. Fetched'
    BY <2>1 DEF Fetched
  <2> QED BY <2>2, <2>3, <2>4
<1>4. ASSUME NEW how \in {"error", "target_unreachable", "ok"}, DispatchWithoutMeta(how)
      PROVE  IInv'
  <2>0. /\ pc = "dispatching" /\ pc' = "done" /\ result' = how
        /\ UNCHANGED <<jobs, dir, parts, pieces, exitCode, staged, ran, performed>>
    BY <1>4 DEF DispatchWithoutMeta, End, Dispatch!Fail, Place, TypeOK
  <2> USE <2>0
  <2>1. parts = 0 /\ Len(pieces) = 0 /\ jobs = 1 /\ dir = NoDir /\ exitCode = "unknown"
    BY DEF Fetched, Hosted
  <2>2. TypeOK'
    BY DEF TypeOK
  <2>3. Hosted' /\ ExitCodeIsEarned' /\ JobsPerRun'
    BY <2>1 DEF Hosted, ExitCodeIsEarned, JobsPerRun
  <2>4. Fetched'
    BY <2>1 DEF Fetched
  <2> QED BY <2>2, <2>3, <2>4
<1>5. ASSUME NEW d \in Dir, DispatchMeta(d)
      PROVE  IInv'
  <2>0. /\ pc = "dispatching" /\ staged[d] # Absent
        /\ dir' = d /\ parts' = staged[d]
        /\ UNCHANGED <<pieces, staged, ran, performed>>
    BY <1>5 DEF DispatchMeta, Dispatch!Finish, Place, TypeOK
  <2>1. /\ parts = 0 /\ Len(pieces) = 0 /\ jobs = 1 /\ dir = NoDir /\ exitCode = "unknown"
        /\ d \in ran /\ dir' = d /\ parts' = staged[d] /\ parts' \in 0..MaxParts
        /\ result = "none" /\ UNCHANGED <<pieces, staged, ran, performed>>
    BY <2>0 DEF TypeOK, Fetched, Hosted
  <2>2. CASE parts' > PartNames /\ End("error") /\ UNCHANGED exitCode
    <3>1. TypeOK' /\ Hosted'
      BY <2>1, <2>2 DEF End, TypeOK, Hosted
    <3>2. Fetched' /\ ExitCodeIsEarned' /\ JobsPerRun'
      BY <2>1, <2>2 DEF End, Fetched, ExitCodeIsEarned, JobsPerRun
    <3> QED BY <3>1, <3>2
  <2>3. CASE parts' \in 1..PartNames /\ NextJob("fetching") /\ UNCHANGED exitCode
    <3>0. parts' > 0 /\ jobs' = 2 /\ 2 \in 0..(MaxParts + 2) /\ pc' = "fetching" /\ result' = "none"
      BY <2>1, <2>3 DEF NextJob
    <3>1. TypeOK' /\ Hosted'
      BY <2>1, <2>3, <3>0 DEF TypeOK, Hosted
    <3>2. Fetched' /\ ExitCodeIsEarned' /\ JobsPerRun'
      BY <2>1, <2>3, <3>0 DEF Fetched, ExitCodeIsEarned, JobsPerRun
    <3> QED BY <3>1, <3>2
  <2>4. CASE parts' = 0 /\ Decode(<<>>, 0)
    <3>0. /\ exitCode' = "unknown"
          /\ \/ pc' = "cleaning" /\ jobs' = 2 /\ result' = "none"
             \/ pc' = "done" /\ jobs' = 1 /\ result' = "ok"
          /\ 2 \in 0..(MaxParts + 2) /\ 1 \in 0..(MaxParts + 2)
      <4>1. exitCode' \in ExitCodes(<<>>, 0)
        BY <2>4 DEF Decode
      <4>2. exitCode' = "unknown"
        BY <4>1, ExitCodesEarned
      <4> QED
        BY <4>2, <2>1, <2>4 DEF Decode, NextJob, End
    <3>1. TypeOK' /\ Hosted'
      BY <2>1, <2>4, <3>0 DEF TypeOK, Hosted
    <3>2. Fetched' /\ ExitCodeIsEarned' /\ JobsPerRun'
      BY <2>1, <2>4, <3>0 DEF Fetched, ExitCodeIsEarned, JobsPerRun
    <3> QED BY <3>1, <3>2
  <2> QED BY <1>5, <2>2, <2>3, <2>4 DEF DispatchMeta
<1>6. CASE Fetch
  <2>1. PICK piece \in {Len(pieces) + 1, Hole} : pieces' = Append(pieces, piece)
    BY <1>6 DEF Fetch
  <2>2. /\ pieces' \in Seq(0..MaxParts) /\ Len(pieces') = Len(pieces) + 1
        /\ \A i \in DOMAIN pieces' : pieces'[i] \in {i, Hole}
    <3>1. Len(pieces) < MaxParts
      BY <1>6 DEF Fetch, Fetched
    <3>2. pieces \in Seq(0..MaxParts) /\ \A i \in DOMAIN pieces : pieces[i] \in {i, Hole}
      BY DEF TypeOK, Fetched
    <3> QED BY <2>1, <3>1, <3>2, AppendKeepsOrder
  <2>3. /\ pc = "fetching" /\ Len(pieces) < parts /\ jobs = Len(pieces) + 2
        /\ result = "none" /\ exitCode = "unknown" /\ dir # NoDir /\ parts > 0
        /\ dir \in ran /\ UNCHANGED <<dir, parts, staged, ran, performed>>
    BY <1>6 DEF Fetch, Fetched, Hosted, TypeOK, host
  <2>4. Hosted'
    <3>1. pc' \in {"fetching", "cleaning", "done"}
      BY <1>6 DEF Fetch, Decode, NextJob, End
    <3> QED BY <2>3, <3>1 DEF Hosted
  <2>5. CASE Len(pieces') < parts
    <3>1. pc' = "fetching" /\ jobs' = jobs + 1 /\ result' = "none" /\ exitCode' = "unknown"
      BY <1>6, <2>3, <2>5 DEF Fetch, NextJob
    <3>2. TypeOK'
      BY <2>2, <2>3, <2>5, <3>1 DEF TypeOK
    <3>3. Fetched' /\ ExitCodeIsEarned' /\ JobsPerRun'
      BY <2>2, <2>3, <2>5, <3>1 DEF Fetched, ExitCodeIsEarned, JobsPerRun
    <3> QED BY <2>4, <3>2, <3>3
  <2>6. CASE ~(Len(pieces') < parts)
    <3>1. Len(pieces') = parts /\ Decode(pieces', parts)
      BY <1>6, <2>2, <2>3, <2>6 DEF Fetch
    <3>2. \/ pc' = "cleaning" /\ jobs' = parts + 2 /\ result' = "none"
          \/ pc' = "done" /\ jobs' = parts + 1 /\ result' = "ok"
      BY <3>1, <2>2, <2>3 DEF Decode, NextJob, End
    <3>3. /\ exitCode' \in {"known", "unknown", "echoed"}
          /\ exitCode' = "known" => pieces'[parts] = parts
      <4>1. parts \in DOMAIN pieces'
        BY <3>1, <2>2, <2>3
      <4>2. exitCode' \in ExitCodes(pieces', parts)
        BY <3>1 DEF Decode
      <4>3. /\ exitCode' \in {"unknown", "known", "echoed"}
            /\ exitCode' = "known" => pieces'[parts] # Hole
        BY <4>2, ExitCodesEarned
      <4> QED
        BY <4>1, <4>3, <2>2
    <3>4. TypeOK'
      BY <2>2, <2>3, <3>2, <3>3 DEF TypeOK
    <3>5. Fetched'
      BY <2>2, <2>3, <3>1, <3>2 DEF Fetched
    <3>6. ExitCodeIsEarned' /\ JobsPerRun'
      BY <2>2, <2>3, <3>1, <3>2, <3>3 DEF ExitCodeIsEarned, JobsPerRun
    <3> QED BY <2>4, <3>4, <3>5, <3>6
  <2> QED BY <2>5, <2>6
<1>7. CASE FetchFails
  <2> USE <1>7 DEF FetchFails, End, host
  <2>1. TypeOK' /\ Hosted'
    BY DEF TypeOK, Hosted
  <2>2. Fetched' /\ ExitCodeIsEarned' /\ JobsPerRun'
    BY DEF Fetched, ExitCodeIsEarned, JobsPerRun
  <2> QED BY <2>1, <2>2
<1>8. CASE Cleanup \/ CleanupCancelled
  <2>1. /\ pc = "cleaning" /\ pc' = "done" /\ result' \in {"ok", "error"}
        /\ staged' \in {staged, [staged EXCEPT ![dir] = Absent]}
        /\ UNCHANGED <<jobs, dir, parts, pieces, exitCode, ran, performed>>
    BY <1>8 DEF Cleanup, CleanupCancelled, End
  <2>2. TypeOK'
    BY <2>1 DEF TypeOK
  <2>3. Hosted'
    BY <2>1 DEF TypeOK, Hosted, Fetched
  <2>4. Fetched' /\ ExitCodeIsEarned' /\ JobsPerRun'
    BY <2>1 DEF Fetched, ExitCodeIsEarned, JobsPerRun
  <2> QED BY <2>2, <2>3, <2>4
<1>9. CASE UNCHANGED vars
  BY <1>9 DEF vars, client, host, TypeOK, Hosted, Fetched, ExitCodeIsEarned, JobsPerRun
<1> QED
  BY <1>1, <1>2, <1>3, <1>4, <1>5, <1>6, <1>7, <1>8, <1>9 DEF Next

-----------------------------------------------------------------------------
(* The inductive invariant holds of every reachable state.                  *)
THEOREM IInvHolds == Spec => []IInv
  BY InitIInv, StepIInv, PTL DEF Spec

(* Every variable keeps its range, for any number of parts and POSTs.       *)
THEOREM TypeCorrect == Spec => []TypeOK
<1>1. IInv => TypeOK
  BY DEF IInv
<1> QED BY <1>1, IInvHolds, PTL

(* The pieces of the output are never permuted and never too many.          *)
THEOREM OutputIsInOrderHolds == Spec => []OutputIsInOrder
<1>1. IInv => OutputIsInOrder
  BY DEF IInv, Fetched, OutputIsInOrder
<1> QED BY <1>1, IInvHolds, PTL

(* A known exit code stands at the end of the output of a command that ran. *)
THEOREM ExitCodeIsEarnedHolds == Spec => []ExitCodeIsEarned
<1>1. IInv => ExitCodeIsEarned
  BY DEF IInv
<1> QED BY <1>1, IInvHolds, PTL

(* A result costs one job per part, the dispatch and at most a cleanup.     *)
THEOREM JobsPerRunHolds == Spec => []JobsPerRun
<1>1. IInv => JobsPerRun
  BY DEF IInv
<1> QED BY <1>1, IInvHolds, PTL

(* Only the followed directory is removed, after its last part.             *)
THEOREM RemovesOnlyItsOwnHolds == Spec => RemovesOnlyItsOwn
<1> DEFINE Own == \A d \in Dir :
             staged[d] # Absent /\ staged'[d] = Absent => d = dir /\ Len(pieces) = parts
<1>1. IInv /\ [Next]_vars => [Own]_vars
  <2> SUFFICES ASSUME IInv, Next PROVE Own
    OBVIOUS
  <2>1. CASE staged' = staged
    BY <2>1
  <2>2. ASSUME NEW d \in Dir, NEW n \in 0..MaxParts, HostStages(d, n) PROVE Own
    <3>1. n # Absent
      BY CommandRunAssumption DEF Absent
    <3> QED
      BY <2>2, <3>1 DEF HostStages, IInv, TypeOK
  <2>3. CASE Cleanup \/ CleanupCancelled
    BY <2>3 DEF Cleanup, CleanupCancelled, IInv, TypeOK, Fetched
  <2> QED
    BY <2>1, <2>2, <2>3
    DEF Next, HostMissed, Start, DispatchWithoutMeta, DispatchMeta, Fetch, FetchFails, host
<1> QED BY <1>1, IInvHolds, PTL DEF Spec, RemovesOnlyItsOwn

-----------------------------------------------------------------------------
(* Sequences.  What a recursive definition computes is shown by induction,  *)
(* where the induction hypothesis is a set of numbers.                      *)
(* A set of numbers that is not empty has a least one.                      *)
LEMMA LeastOfSet ==
  ASSUME NEW S \in SUBSET Nat, S # {}
  PROVE  \E i \in S : \A j \in S : i <= j
<1>1. \E i \in S : \A j \in S : ~(<<j, i>> \in OpToRel(<, Nat))
  <2>1. IsWellFoundedOn(OpToRel(<, Nat), Nat)
    BY NatLessThanWellFounded
  <2> HIDE DEF OpToRel
  <2>2. ASSUME NEW R, IsWellFoundedOn(R, Nat)
        PROVE  \E i \in S : \A j \in S : ~(<<j, i>> \in R)
    BY <2>2, WFMin, Zenon
  <2> QED BY <2>1, <2>2
<1>2. \A i, j \in S : ~(<<j, i>> \in OpToRel(<, Nat)) => i <= j
  BY DEF OpToRel
<1> QED BY <1>1, <1>2

(* A set with 0 and with the successor of each of its numbers has them all. *)
LEMMA Induct ==
  ASSUME NEW S, 0 \in S, \A n \in Nat : n \in S => n + 1 \in S
  PROVE  Nat \subseteq S
<1> SUFFICES ASSUME Nat \ S # {} PROVE FALSE
  OBVIOUS
<1>1. PICK i \in Nat \ S : \A j \in Nat \ S : i <= j
  <2> DEFINE D == Nat \ S
  <2>1. D \in SUBSET Nat /\ D # {}
    OBVIOUS
  <2> HIDE DEF D
  <2>2. \E i \in D : \A j \in D : i <= j
    BY <2>1, LeastOfSet
  <2> QED BY <2>2 DEF D
<1>2. i # 0
  BY <1>1
<1>3. i - 1 \in Nat /\ i - 1 \notin S
  BY <1>1, <1>2
<1> QED
  BY <1>1, <1>3

(* f joins the first n of seqs, from the left.                              *)
Joins(seqs, f, n) ==
  f = [i \in 1..n |-> IF i = 1 THEN seqs[i] ELSE f[i-1] \o seqs[i]]

(* The sequences can be joined, however many.                               *)
LEMMA JoinExists ==
  ASSUME NEW seqs, NEW n \in Nat
  PROVE  \E f : Joins(seqs, f, n)
<1> DEFINE S == {m \in Nat : \E f : Joins(seqs, f, m)}
<1>1. 0 \in S
  <2>1. Joins(seqs, [i \in 1..0 |-> 0], 0)
    BY DEF Joins
  <2> QED BY <2>1
<1>2. ASSUME NEW m \in Nat, m \in S PROVE m + 1 \in S
  <2>1. PICK f : Joins(seqs, f, m)
    BY <1>2
  <2> DEFINE g == [i \in 1..(m + 1) |->
                     IF i <= m THEN f[i] ELSE IF i = 1 THEN seqs[i] ELSE f[m] \o seqs[i]]
  <2>2. ASSUME NEW i \in 1..(m + 1)
        PROVE  g[i] = IF i = 1 THEN seqs[i] ELSE g[i-1] \o seqs[i]
    <3>1. CASE i = m + 1
      BY <3>1
    <3>2. CASE i <= m
      <4>1. i \in 1..m /\ (i # 1 => i - 1 \in 1..(m + 1) /\ i - 1 <= m)
        BY <3>2
      <4>2. f[i] = IF i = 1 THEN seqs[i] ELSE f[i-1] \o seqs[i]
        BY <2>1, <4>1 DEF Joins
      <4>3. g[i] = f[i] /\ (i # 1 => g[i - 1] = f[i - 1])
        BY <4>1
      <4> QED BY <4>2, <4>3
    <3> QED BY <3>1, <3>2
  <2>3. Joins(seqs, g, m + 1)
    <3>1. g = [i \in 1..(m + 1) |-> g[i]]
      OBVIOUS
    <3> HIDE DEF g
    <3> QED BY <2>2, <3>1 DEF Joins
  <2> QED BY <2>3
<1>3. Nat \subseteq S
  <2> HIDE DEF S
  <2> QED BY <1>1, <1>2, Induct
<1> QED BY <1>3

(* FlattenSeq joins them all.                                               *)
LEMMA FlattenUnfolds ==
  ASSUME NEW seqs, Len(seqs) \in Nat \ {0}
  PROVE  \E f : Joins(seqs, f, Len(seqs)) /\ FlattenSeq(seqs) = f[Len(seqs)]
<1> DEFINE F == CHOOSE f : Joins(seqs, f, Len(seqs))
<1>1. Joins(seqs, F, Len(seqs))
  BY JoinExists
<1>2. FlattenSeq(seqs) = F[Len(seqs)]
  BY DEF FlattenSeq, Joins
<1> QED BY <1>1, <1>2

(* Nothing comes of joining nothing, however often.                         *)
LEMMA NothingJoins ==
  ASSUME NEW seqs \in Seq(Seq(Byte)), \A i \in 1..Len(seqs) : seqs[i] = <<>>
  PROVE  FlattenSeq(seqs) = <<>>
<1>1. CASE Len(seqs) = 0
  BY <1>1 DEF FlattenSeq
<1>2. CASE Len(seqs) # 0
  <2> DEFINE n == Len(seqs)
  <2>1. n \in Nat \ {0}
    BY <1>2
  <2>2. PICK f : Joins(seqs, f, n) /\ FlattenSeq(seqs) = f[n]
    BY <2>1, FlattenUnfolds
  <2>3. \A i \in 1..n : f[i] = IF i = 1 THEN seqs[i] ELSE f[i - 1] \o seqs[i]
    BY <2>2 DEF Joins
  <2> HIDE DEF n
  <2> DEFINE S == {i \in Nat : i \in 1..n => f[i] = <<>>}
  <2>4. 0 \in S
    OBVIOUS
  <2>5. ASSUME NEW i \in Nat, i \in S PROVE i + 1 \in S
    <3> SUFFICES ASSUME i + 1 \in 1..n PROVE f[i + 1] = <<>>
      OBVIOUS
    <3>1. seqs[i + 1] = <<>>
      BY DEF n
    <3>2. CASE i = 0
      BY <2>3, <3>1, <3>2
    <3>3. CASE i # 0
      <4>1. i \in 1..n /\ i + 1 # 1 /\ (i + 1) - 1 = i
        BY <2>1, <3>3
      <4>2. f[i + 1] = <<>> \o <<>>
        BY <2>3, <2>5, <3>1, <4>1
      <4> QED BY <4>2
    <3> QED BY <3>2, <3>3
  <2>6. Nat \subseteq S
    <3> HIDE DEF S
    <3> QED BY <2>4, <2>5, Induct
  <2> QED BY <2>1, <2>2, <2>6
<1> QED BY <1>1, <1>2

(* A run of s that agrees with t at every place is t.                       *)
LEMMA SliceIs ==
  ASSUME NEW S, NEW s \in Seq(S), NEW t \in Seq(S), NEW a \in Nat \ {0}, NEW b \in 0..Len(s),
         Len(t) = b - a + 1, \A j \in 1..Len(t) : s[a + j - 1] = t[j]
  PROVE  SubSeq(s, a, b) = t
<1> DEFINE u == SubSeq(s, a, b)
<1>1. Len(t) \in Nat /\ Len(s) \in Nat
  OBVIOUS
<1>2. \A i \in a..b : s[i] \in S
  BY <1>1
<1>3. a \in Int /\ b \in Int /\ (a <= b => Len(t) > 0) /\ (b < a => Len(t) = 0)
  BY <1>1
<1>4. /\ u \in Seq(S) /\ Len(u) = IF a <= b THEN b - a + 1 ELSE 0
      /\ \A j \in 1..(b - a + 1) : u[j] = s[a + j - 1]
  BY <1>2, <1>3, SubSeqProperties
<1> HIDE DEF u
<1>5. Len(u) = Len(t)
  BY <1>1, <1>3, <1>4
<1>6. \A j \in 1..Len(u) : u[j] = t[j]
  BY <1>4, <1>5
<1>7. u = t
  BY <1>4, <1>5, <1>6, SeqEqual
<1> QED BY <1>7 DEF u

(* Cutting a sequence leaves its beginning, or all of it.                   *)
LEMMA CutFacts ==
  ASSUME NEW s \in Seq(Byte), NEW n \in Nat
  PROVE  /\ Cut(s, n) \in Seq(Byte) /\ Len(Cut(s, n)) = IF n < Len(s) THEN n ELSE Len(s)
         /\ \A i \in 1..Len(Cut(s, n)) : Cut(s, n)[i] = s[i]
         /\ Len(s) <= n => Cut(s, n) = s
<1> DEFINE m == IF n < Len(s) THEN n ELSE Len(s)
<1>1. m \in 0..Len(s) /\ (Len(s) <= n => m = Len(s))
  OBVIOUS
<1>2. Cut(s, n) = SubSeq(s, 1, m)
  BY DEF Cut
<1> HIDE DEF m
<1>3. /\ SubSeq(s, 1, m) \in Seq(Byte) /\ Len(SubSeq(s, 1, m)) = m
      /\ \A i \in 1..m : SubSeq(s, 1, m)[i] = s[i]
  BY <1>1
<1> QED BY <1>1, <1>2, <1>3, SubSeqFull DEF m

(* What is left of s after its first k bytes.                               *)
LEMMA FromIsRun ==
  ASSUME NEW s \in Seq(Byte), NEW k \in 0..Len(s)
  PROVE  From(s, k + 1) \in Seq(Byte) /\ Len(From(s, k + 1)) = Len(s) - k
<1>1. Len(s) \in Nat /\ k \in Int /\ k + 1 \in Int
  OBVIOUS
<1>2. \A j \in (k + 1)..Len(s) : s[j] \in Byte
  OBVIOUS
<1>3. /\ SubSeq(s, k + 1, Len(s)) \in Seq(Byte)
      /\ Len(SubSeq(s, k + 1, Len(s))) = IF k + 1 <= Len(s) THEN Len(s) - (k + 1) + 1 ELSE 0
  BY <1>1, <1>2, SubSeqProperties
<1> QED BY <1>1, <1>3 DEF From

-----------------------------------------------------------------------------
(* There are as many parts as the bytes need, and no more.                  *)
LEMMA NumPartsCover ==
  ASSUME NEW s \in Seq(Byte), s # <<>>
  PROVE  /\ NumParts(s) \in Nat \ {0}
         /\ Len(s) <= NumParts(s) * PartBytes
         /\ (NumParts(s) - 1) * PartBytes < Len(s)
<1> DEFINE a == Len(s) + PartBytes - 1
           n == a \div PartBytes
<1>1. a \in Nat /\ a >= PartBytes /\ PartBytes \in Nat \ {0} /\ Len(s) \in Nat \ {0}
  BY OutputAssumption
<1>2. /\ n \in Int
      /\ n * PartBytes <= a /\ a < n * PartBytes + PartBytes
  <2> HIDE DEF a
  <2> QED BY <1>1
<1>3. NumParts(s) = n
  BY DEF NumParts
<1> HIDE DEF n
<1>4. (n - 1) * PartBytes = n * PartBytes - PartBytes
  BY <1>1, <1>2
<1>5. n > 0
  <2> HIDE DEF a
  <2>1. SUFFICES ASSUME n <= 0 PROVE FALSE
    BY <1>2
  <2>2. n * PartBytes <= 0
    BY <1>1, <1>2, <2>1
  <2> QED BY <1>1, <1>2, <2>2
<1> QED BY <1>1, <1>2, <1>3, <1>4, <1>5

(* The i-th part is the i-th run of PartBytes bytes, or what is left.       *)
LEMMA PartIsRun ==
  ASSUME NEW s \in Seq(Byte), NEW i \in Nat \ {0}, NEW k \in 0..Len(s), k = (i - 1) * PartBytes
  PROVE  Part(s, i) = SubSeq(s, k + 1, IF k + PartBytes <= Len(s) THEN k + PartBytes ELSE Len(s))
<1> DEFINE t == From(s, k + 1)
           m == IF PartBytes < Len(t) THEN PartBytes ELSE Len(t)
           e == IF k + PartBytes <= Len(s) THEN k + PartBytes ELSE Len(s)
<1>1. PartBytes \in Nat \ {0} /\ Len(s) \in Nat /\ k \in Nat /\ k <= Len(s)
  BY OutputAssumption
<1>2. t \in Seq(Byte) /\ Len(t) = Len(s) - k
  BY FromIsRun
<1>3. Part(s, i) = SubSeq(t, 1, m)
  BY DEF Part, Cut
<1>4. t = SubSeq(s, k + 1, Len(s))
  BY DEF From
<1> HIDE DEF t
<1>5. m \in Nat /\ k + m = e /\ m <= Len(s) - k /\ (k < Len(s) => m > 0)
  <2>1. CASE PartBytes < Len(t)
    <3>1. m = PartBytes /\ e = k + PartBytes
      BY <1>1, <1>2, <2>1
    <3> QED BY <1>1, <1>2, <2>1, <3>1
  <2>2. CASE ~(PartBytes < Len(t))
    <3>1. m = Len(s) - k /\ e = Len(s)
      BY <1>1, <1>2, <2>2
    <3> HIDE DEF m, e
    <3> QED BY <1>1, <3>1
  <2> QED BY <2>1, <2>2
<1> HIDE DEF m, e
<1>6. CASE k = Len(s)
  <2>1. SubSeq(t, 1, 0) = <<>> /\ SubSeq(s, k + 1, Len(s)) = <<>>
    BY <1>1, <1>6, SubSeqEmpty
  <2>2. e = Len(s) /\ m = 0
    BY <1>1, <1>5, <1>6
  <2> QED BY <1>3, <1>5, <1>6, <2>1, <2>2 DEF e
<1>7. CASE k < Len(s)
  <2>1. /\ \A j \in 1..m : t[j] \in Byte
        /\ \A j \in (k + 1)..(k + m) : s[j] \in Byte
    BY <1>1, <1>2, <1>5
  <2>2. /\ SubSeq(t, 1, m) \in Seq(Byte) /\ Len(SubSeq(t, 1, m)) = m
        /\ \A j \in 1..m : SubSeq(t, 1, m)[j] = t[j]
    <3>1. 1 \in Int /\ m \in Int /\ m - 1 + 1 = m /\ \A j \in 1..m : 1 + j - 1 = j
      BY <1>5
    <3>2. /\ SubSeq(t, 1, m) \in Seq(Byte)
          /\ Len(SubSeq(t, 1, m)) = IF 1 <= m THEN m - 1 + 1 ELSE 0
          /\ \A j \in 1..(m - 1 + 1) : SubSeq(t, 1, m)[j] = t[1 + j - 1]
      BY <2>1, <3>1, SubSeqProperties
    <3> QED BY <1>5, <1>7, <3>1, <3>2
  <2>3. /\ SubSeq(s, k + 1, k + m) \in Seq(Byte) /\ Len(SubSeq(s, k + 1, k + m)) = m
        /\ \A j \in 1..m : SubSeq(s, k + 1, k + m)[j] = s[k + j]
    BY <1>1, <1>5, <2>1, SubSeqProperties
  <2>4. \A j \in 1..m : t[j] = s[k + j]
    BY <1>1, <1>4, <1>5
  <2>5. SubSeq(t, 1, m) = SubSeq(s, k + 1, k + m)
    <3> DEFINE u == SubSeq(t, 1, m)
               v == SubSeq(s, k + 1, k + m)
    <3>1. /\ u \in Seq(Byte) /\ v \in Seq(Byte) /\ Len(u) = Len(v) /\ Len(u) = m
          /\ \A j \in 1..m : u[j] = v[j]
      BY <2>2, <2>3, <2>4
    <3> HIDE DEF u, v
    <3>2. u = v
      BY <3>1, SeqEqual
    <3> QED BY <3>2 DEF u, v
  <2>6. SubSeq(t, 1, m) = SubSeq(s, k + 1, e)
    BY <1>5, <2>5
  <2> QED BY <1>3, <2>6 DEF e
<1>8. k < Len(s) \/ k = Len(s)
  BY <1>1
<1> QED BY <1>6, <1>7, <1>8

(* A part is a sequence of bytes.                                           *)
LEMMA PartIsBytes ==
  ASSUME NEW s \in Seq(Byte), NEW i \in 1..NumParts(s), s # <<>>
  PROVE  Part(s, i) \in Seq(Byte)
<1>1. PartBytes \in Nat \ {0} /\ Len(s) \in Nat /\ i \in Nat \ {0}
  BY OutputAssumption, NumPartsCover
<1> DEFINE k == (i - 1) * PartBytes
           e == IF k + PartBytes <= Len(s) THEN k + PartBytes ELSE Len(s)
<1>2. k \in 0..Len(s)
  <2>1. NumParts(s) \in Nat /\ (NumParts(s) - 1) * PartBytes < Len(s)
    BY NumPartsCover
  <2>2. (i - 1) * PartBytes <= (NumParts(s) - 1) * PartBytes
    BY <1>1, <2>1
  <2>3. (i - 1) * PartBytes \in Nat /\ (NumParts(s) - 1) * PartBytes \in Nat
    BY <1>1, <2>1
  <2> QED BY <1>1, <2>1, <2>2, <2>3
<1>3. Part(s, i) = SubSeq(s, k + 1, e)
  <2>1. k = (i - 1) * PartBytes
    OBVIOUS
  <2> HIDE DEF k
  <2> QED BY <1>1, <1>2, <2>1, PartIsRun
<1> HIDE DEF k
<1>4. k + 1 \in Int /\ e \in Int /\ \A j \in (k + 1)..e : s[j] \in Byte
  BY <1>1, <1>2
<1> HIDE DEF e
<1>5. SubSeq(s, k + 1, e) \in Seq(Byte)
  BY <1>4, SubSeqProperties
<1> QED BY <1>3, <1>5

(* All parts of a stream, put together, are the stream: splitting and       *)
(* gathering lose nothing, whatever the length and the size of the parts.   *)
LEMMA PartsJoin ==
  ASSUME NEW s \in Seq(Byte), s # <<>>, NEW seqs, Len(seqs) = NumParts(s),
         \A i \in 1..NumParts(s) : seqs[i] = Part(s, i)
  PROVE  FlattenSeq(seqs) = s
<1> DEFINE n == NumParts(s)
           end(i) == IF i * PartBytes <= Len(s) THEN i * PartBytes ELSE Len(s)
<1>1. n \in Nat \ {0} /\ Len(s) <= n * PartBytes /\ (n - 1) * PartBytes < Len(s)
  BY NumPartsCover
<1>2. PICK f : Joins(seqs, f, n) /\ FlattenSeq(seqs) = f[n]
  BY <1>1, FlattenUnfolds
<1>3. \A i \in 1..n : f[i] = IF i = 1 THEN seqs[i] ELSE f[i - 1] \o seqs[i]
  BY <1>2 DEF Joins
<1>4. PartBytes \in Nat \ {0} /\ Len(s) \in Nat
  BY OutputAssumption
<1> HIDE DEF n
<1>5. \A i \in 1..n : /\ (i - 1) * PartBytes \in 0..Len(s)
                     /\ i * PartBytes = (i - 1) * PartBytes + PartBytes
  <2> SUFFICES ASSUME NEW i \in 1..n
               PROVE  /\ (i - 1) * PartBytes \in 0..Len(s)
                      /\ i * PartBytes = (i - 1) * PartBytes + PartBytes
    OBVIOUS
  <2>1. (i - 1) * PartBytes <= (n - 1) * PartBytes
    BY <1>1, <1>4
  <2>2. (i - 1) * PartBytes \in Nat /\ (n - 1) * PartBytes \in Nat
    BY <1>1, <1>4
  <2>3. i * PartBytes = (i - 1) * PartBytes + PartBytes
    BY <1>1, <1>4
  <2> QED BY <1>1, <1>4, <2>1, <2>2, <2>3
<1>6. \A i \in 1..n : Part(s, i) = SubSeq(s, (i - 1) * PartBytes + 1, end(i))
  <2> SUFFICES ASSUME NEW i \in 1..n
               PROVE  Part(s, i) = SubSeq(s, (i - 1) * PartBytes + 1, end(i))
    OBVIOUS
  <2> DEFINE k == (i - 1) * PartBytes
  <2>1. i \in Nat \ {0} /\ k \in 0..Len(s) /\ i * PartBytes = k + PartBytes
    BY <1>1, <1>5
  <2>2. k = (i - 1) * PartBytes
    OBVIOUS
  <2> HIDE DEF k
  <2>3. Part(s, i) = SubSeq(s, k + 1, IF k + PartBytes <= Len(s) THEN k + PartBytes ELSE Len(s))
    BY <2>1, <2>2, PartIsRun
  <2> QED BY <2>1, <2>2, <2>3
<1> DEFINE S == {i \in Nat : i \in 1..n => f[i] = SubSeq(s, 1, end(i))}
<1>7. 0 \in S
  OBVIOUS
<1>8. ASSUME NEW i \in Nat, i \in S PROVE i + 1 \in S
  <2> SUFFICES ASSUME i + 1 \in 1..n PROVE f[i + 1] = SubSeq(s, 1, end(i + 1))
    OBVIOUS
  <2>0. /\ i * PartBytes \in 0..Len(s) /\ (i + 1) * PartBytes = i * PartBytes + PartBytes
        /\ seqs[i + 1] = SubSeq(s, i * PartBytes + 1, end(i + 1))
    <3>1. (i + 1) - 1 = i
      OBVIOUS
    <3> QED BY <1>5, <1>6, <3>1 DEF n
  <2>1. CASE i = 0
    <3>1. f[1] = seqs[1]
      BY <1>3, <2>1
    <3>2. 0 * PartBytes = 0
      BY <1>4
    <3> QED BY <2>0, <2>1, <3>1, <3>2
  <2>2. CASE i # 0
    <3>1. i \in 1..n /\ f[i + 1] = f[i] \o seqs[i + 1]
      <4>1. i \in 1..n /\ i + 1 # 1 /\ (i + 1) - 1 = i
        BY <1>1, <2>2
      <4> QED BY <1>3, <4>1
    <3>2. end(i) = i * PartBytes
      BY <2>0
    <3>3. f[i] = SubSeq(s, 1, i * PartBytes)
      BY <1>8, <3>1, <3>2
    <3> DEFINE k == i * PartBytes
               e == end(i + 1)
    <3>4. k \in 0..Len(s) /\ e \in k..Len(s)
      BY <1>4, <2>0
    <3>5. f[i + 1] = SubSeq(s, 1, k) \o SubSeq(s, k + 1, e)
      BY <2>0, <3>1, <3>3
    <3> HIDE DEF k, e
    <3>6. 1 \in 1..(Len(s) + 1) /\ k \in (1 - 1)..Len(s)
      BY <1>4, <3>4
    <3>7. SubSeq(s, 1, k) \o SubSeq(s, k + 1, e) = SubSeq(s, 1, e)
      BY <3>4, <3>6, ConcatAdjacentSubSeq
    <3> QED BY <3>5, <3>7 DEF e
  <2> QED BY <2>1, <2>2
<1>9. Nat \subseteq S
  <2> HIDE DEF S
  <2> QED BY <1>7, <1>8, Induct
<1>10. f[n] = SubSeq(s, 1, end(n))
  BY <1>1, <1>9
<1>11. end(n) = Len(s)
  BY <1>1, <1>4
<1> QED BY <1>2, <1>10, <1>11, SubSeqFull DEF n

(* Where the output, the marker, the exit code and the newline stand.       *)
LEMMA StreamShape ==
  ASSUME NEW p \in Seq(Byte), NEW c \in Seq(Digit)
  PROVE  LET s == Stream(p, c)
         IN  /\ s \in Seq(Byte) /\ Len(s) = Len(p) + Len(c) + 3
             /\ \A i \in 1..Len(p) : s[i] = p[i]
             /\ s[Len(p) + 1] = "m1" /\ s[Len(p) + 2] = "m2"
             /\ \A j \in 1..Len(c) : s[Len(p) + 2 + j] = c[j]
             /\ s[Len(p) + Len(c) + 3] = "nl"
<1> DEFINE m == Marker
           l == <<"nl">>
           a == p \o m
           b == a \o c
           s == b \o l
<1>1. m \in Seq(Byte) /\ Len(m) = 2 /\ m[1] = "m1" /\ m[2] = "m2"
  BY DEF Marker, Byte, Printable
<1>2. l \in Seq(Byte) /\ Len(l) = 1 /\ l[1] = "nl"
  BY DEF Byte, Printable
<1>3. c \in Seq(Byte) /\ Len(p) \in Nat /\ Len(c) \in Nat
  BY DEF Byte, Printable, Digit
<1>4. Stream(p, c) = s
  BY DEF Stream
<1> HIDE DEF m, l
<1>5. /\ a \in Seq(Byte) /\ Len(a) = Len(p) + Len(m)
      /\ \A i \in 1..(Len(p) + Len(m)) : a[i] = IF i <= Len(p) THEN p[i] ELSE m[i - Len(p)]
  BY <1>1, ConcatProperties, Zenon DEF a
<1> HIDE DEF a
<1>6. /\ b \in Seq(Byte) /\ Len(b) = Len(a) + Len(c)
      /\ \A i \in 1..(Len(a) + Len(c)) : b[i] = IF i <= Len(a) THEN a[i] ELSE c[i - Len(a)]
  <2>1. a \in Seq(Byte) /\ c \in Seq(Byte)
    BY <1>3, <1>5
  <2> QED BY <2>1, ConcatProperties, Zenon DEF b
<1> HIDE DEF b
<1>7. /\ s \in Seq(Byte) /\ Len(s) = Len(b) + Len(l)
      /\ \A i \in 1..(Len(b) + Len(l)) : s[i] = IF i <= Len(b) THEN b[i] ELSE l[i - Len(b)]
  <2>1. b \in Seq(Byte) /\ l \in Seq(Byte)
    BY <1>2, <1>6
  <2> QED BY <2>1, ConcatProperties, Zenon DEF s
<1> HIDE DEF s
<1>8. Len(s) = Len(p) + Len(c) + 3
  BY <1>1, <1>2, <1>3, <1>5, <1>6, <1>7
<1>9. \A i \in 1..(Len(p) + 2) : s[i] = a[i]
  BY <1>1, <1>2, <1>3, <1>5, <1>6, <1>7
<1>10. \A i \in 1..Len(p) : s[i] = p[i]
  BY <1>1, <1>3, <1>5, <1>9
<1>11. s[Len(p) + 1] = "m1" /\ s[Len(p) + 2] = "m2"
  BY <1>1, <1>3, <1>5, <1>9
<1>12. \A j \in 1..Len(c) : s[Len(p) + 2 + j] = c[j]
  BY <1>1, <1>2, <1>3, <1>5, <1>6, <1>7
<1>13. s[Len(p) + Len(c) + 3] = "nl"
  BY <1>1, <1>2, <1>3, <1>5, <1>6, <1>7
<1> QED BY <1>4, <1>7, <1>8, <1>10, <1>11, <1>12, <1>13

(* _decode_payload() finds the wrapper's marker and code at the end of every*)
(* whole stream, whatever markers the output itself has, for digits and a   *)
(* newline after the last marker hold none.                                 *)
LEMMA DecodedStream ==
  ASSUME NEW p \in Seq(Byte), NEW c \in Seq(Digit), c # <<>>
  PROVE  Decoded(Stream(p, c)) = [body |-> Shorn(p), code |-> ValueOf(c)]
<1> DEFINE s == Stream(p, c)
           n == Len(p)
<1>1. n \in Nat /\ Len(c) \in Nat \ {0}
  OBVIOUS
<1>2. /\ s \in Seq(Byte) /\ Len(s) = n + Len(c) + 3
      /\ \A i \in 1..n : s[i] = p[i]
      /\ s[n + 1] = "m1" /\ s[n + 2] = "m2"
      /\ \A j \in 1..Len(c) : s[n + 2 + j] = c[j]
      /\ s[n + Len(c) + 3] = "nl"
  BY StreamShape
<1> HIDE DEF s
<1>3. LastMarker(s) = n + 1 /\ MarkersIn(s) # {}
  <2>1. n + 1 \in MarkersIn(s)
    <3>1. Marker \in Seq(Byte) /\ Len(Marker) = 2 /\ Marker[1] = "m1" /\ Marker[2] = "m2"
      BY DEF Marker, Byte, Printable
    <3>2. SubSeq(s, n + 1, n + 2) = Marker
      <4> DEFINE m == Marker
      <4>1. n + 1 \in Nat \ {0} /\ n + 2 \in 0..Len(s) /\ Len(m) = (n + 2) - (n + 1) + 1
        BY <1>1, <1>2, <3>1
      <4>2. \A j \in 1..Len(m) : s[(n + 1) + j - 1] = m[j]
        BY <1>1, <1>2, <3>1
      <4>3. m \in Seq(Byte)
        BY <3>1
      <4> HIDE DEF m
      <4>4. SubSeq(s, n + 1, n + 2) = m
        BY <1>2, <4>1, <4>2, <4>3, SliceIs
      <4> QED BY <4>4 DEF m
    <3>3. n + 1 \in 1..(Len(s) - 1) /\ (n + 1) + 1 = n + 2
      BY <1>1, <1>2
    <3> QED BY <3>2, <3>3 DEF MarkersIn
  <2>2. ASSUME NEW i \in MarkersIn(s), ~(i <= n + 1) PROVE FALSE
    <3>1. i \in (n + 2)..(Len(s) - 1) /\ SubSeq(s, i, i + 1) = Marker
      BY <1>1, <1>2, <2>2 DEF MarkersIn
    <3>2. SubSeq(s, i, i + 1)[1] = s[i]
      <4>1. i \in 1..Len(s) /\ i + 1 \in 1..Len(s) /\ s \in Seq(Byte)
        BY <1>1, <1>2, <3>1
      <4> QED BY <4>1
    <3>3. s[i] = "m1"
      <4>1. Marker[1] = "m1"
        BY DEF Marker
      <4> QED BY <3>1, <3>2, <4>1
    <3>4. CASE i = n + 2
      BY <1>2, <3>3, <3>4
    <3>5. CASE i > n + 2
      <4>1. i - n - 2 \in 1..Len(c) /\ n + 2 + (i - n - 2) = i
        BY <1>1, <1>2, <3>1, <3>5
      <4>2. s[i] = c[i - n - 2] /\ c[i - n - 2] \in Digit
        BY <1>2, <4>1
      <4> QED BY <3>3, <4>2 DEF Digit
    <3> QED BY <1>1, <3>1, <3>4, <3>5
  <2>3. MarkersIn(s) \subseteq Int
    BY <1>2 DEF MarkersIn
  <2>4. \A i \in MarkersIn(s) : (\A j \in MarkersIn(s) : j <= i) => i = n + 1
    BY <1>1, <2>1, <2>2, <2>3
  <2> QED BY <2>1, <2>2, <2>4 DEF LastMarker
<1>4. Cut(s, (n + 1) - 1) = p
  <2>1. 1 \in Nat \ {0} /\ n \in 0..Len(s) /\ n < Len(s) /\ Len(p) = n - 1 + 1 /\ (n + 1) - 1 = n
    BY <1>1, <1>2
  <2>2. \A j \in 1..Len(p) : s[1 + j - 1] = p[j]
    BY <1>1, <1>2
  <2>3. SubSeq(s, 1, n) = p
    BY <1>2, <2>1, <2>2, SliceIs
  <2> QED BY <2>1, <2>3 DEF Cut
<1> DEFINE r == From(s, (n + 1) + 2)
<1>5. /\ r \in Seq(Byte) /\ Len(r) = Len(c) + 1 /\ r[Len(c) + 1] = "nl"
      /\ \A j \in 1..Len(c) : r[j] = c[j]
  <2>1. (n + 1) + 2 = n + 2 + 1 /\ n + 2 \in 0..Len(s) /\ Len(s) - (n + 2) = Len(c) + 1
    BY <1>1, <1>2
  <2>2. r \in Seq(Byte) /\ Len(r) = Len(c) + 1
    BY <1>2, <2>1, FromIsRun
  <2>3. \A j \in 1..(Len(c) + 1) : r[j] = s[n + 2 + j]
    BY <1>1, <1>2 DEF From
  <2> QED BY <1>1, <1>2, <2>2, <2>3
<1> HIDE DEF r
<1>6. LineOf(r) = c
  <2>1. Contains(r, "nl")
    BY <1>1, <1>5 DEF Contains
  <2>2. FirstLine(r) = Len(c) + 1
    <3> DEFINE I == {i \in 1..Len(r) : r[i] = "nl"}
    <3>1. Len(c) + 1 \in I
      BY <1>1, <1>5
    <3>2. ASSUME NEW i \in I PROVE i = Len(c) + 1
      <4>1. i \in 1..Len(c) => r[i] \in Digit
        BY <1>5
      <4> QED BY <1>1, <1>5, <4>1 DEF Digit
    <3>3. I = {Len(c) + 1}
      BY <3>1, <3>2
    <3>4. Min(I) = Len(c) + 1
      BY <1>1, <3>3 DEF Min
    <3> QED BY <3>1, <3>4 DEF FirstLine, SelectInSeq
  <2>3. SubSeq(r, 1, Len(c)) = c
    <3>1. c \in Seq(Byte)
      BY DEF Byte, Printable, Digit
    <3>2. 1 \in Nat \ {0} /\ Len(c) \in 0..Len(r) /\ Len(c) = Len(c) - 1 + 1
      BY <1>1, <1>5
    <3>3. \A j \in 1..Len(c) : r[1 + j - 1] = c[j]
      BY <1>5
    <3> QED BY <1>5, <3>1, <3>2, <3>3, SliceIs
  <2>4. Len(c) < Len(r) /\ (Len(c) + 1) - 1 = Len(c)
    BY <1>1, <1>5
  <2> QED BY <2>1, <2>2, <2>3, <2>4 DEF LineOf, Cut
<1>7. Number(c) = ValueOf(c)
  BY DEF Number, ToSet
<1> QED BY <1>3, <1>4, <1>6, <1>7 DEF Decoded, r, s

(* Taking a newline from the end leaves the bytes before it, and text text. *)
LEMMA ShornFacts ==
  ASSUME NEW p \in Seq(Byte)
  PROVE  /\ Shorn(p) \in Seq(Byte) /\ Len(Shorn(p)) <= Len(p)
         /\ \A i \in 1..Len(Shorn(p)) : Shorn(p)[i] = p[i]
         /\ Utf8(p) => Utf8(Shorn(p))
<1> DEFINE b == Shorn(p)
<1>1. CASE p # <<>> /\ p[Len(p)] = "nl"
  <2>1. b = Cut(p, Len(p) - 1) /\ Len(p) - 1 \in Nat /\ Len(p) - 1 < Len(p)
    BY <1>1 DEF Shorn
  <2>2. b \in Seq(Byte) /\ Len(b) = Len(p) - 1 /\ \A i \in 1..Len(b) : b[i] = p[i]
    BY <2>1, CutFacts
  <2> HIDE DEF b
  <2>3. ASSUME Utf8(p) PROVE Utf8(b)
    <3> SUFFICES ASSUME NEW i \in 1..Len(b)
                 PROVE  /\ b[i] = "xc3" => i < Len(b) /\ b[i + 1] = "x8b"
                        /\ b[i] = "x8b" => i > 1 /\ b[i - 1] = "xc3"
      BY <2>2 DEF Utf8
    <3>1. i \in DOMAIN p /\ i < Len(p) /\ b[i] = p[i] /\ Len(p) \in Nat
      BY <2>2
    <3>2. /\ p[i] = "xc3" => i < Len(p) /\ p[i + 1] = "x8b"
          /\ p[i] = "x8b" => i > 1 /\ p[i - 1] = "xc3"
      BY <2>3, <3>1 DEF Utf8
    <3>3. p[i] = "xc3" => i + 1 # Len(p)
      BY <1>1, <3>2
    <3>4. p[i] = "xc3" => i + 1 \in 1..Len(b)
      BY <2>2, <3>1, <3>3
    <3>5. p[i] = "x8b" => i - 1 \in 1..Len(b)
      BY <2>2, <3>1, <3>2
    <3> QED BY <2>2, <3>1, <3>2, <3>4, <3>5
  <2> QED BY <2>2, <2>3 DEF b
<1>2. CASE ~(p # <<>> /\ p[Len(p)] = "nl")
  BY <1>2 DEF Shorn
<1> QED BY <1>1, <1>2

(* finalize_output() takes no printable UTF-8 within the cap for binary,    *)
(* even where the sniffed window cuts a character in two.                   *)
LEMMA TextStaysText ==
  ASSUME NEW s \in Seq(Byte), Utf8(s), Len(s) <= Cap,
         \A i \in 1..Len(s) : s[i] \notin {"nul", "x1f"}
  PROVE  Finalize(s).form = "utf-8"
<1>1. Cut(s, Cap) = s
  BY CutFacts, OutputAssumption
<1> DEFINE sample == Cut(s, SniffBytes)
<1>2. sample \in Seq(Byte) /\ \A i \in 1..Len(sample) : sample[i] \notin {"nul", "x1f"}
  BY CutFacts, OutputAssumption
<1> HIDE DEF sample
<1>3. ~HasMagic(s)
  <2>1. ASSUME HasMagic(s) PROVE FALSE
    <3> DEFINE magic == <<"x1f", "x8b">>
    <3>1. Len(magic) = 2 /\ magic[1] = "x1f"
      OBVIOUS
    <3>2. 2 <= Len(s) /\ SubSeq(magic, 1, 2) = SubSeq(s, 1, 2)
      BY <2>1, <3>1 DEF HasMagic, IsPrefix
    <3>3. SubSeq(magic, 1, 2)[1] = "x1f" /\ SubSeq(s, 1, 2)[1] = s[1]
      BY <3>1, <3>2
    <3> QED BY <3>2, <3>3
  <2> QED BY <2>1
<1>4. ~Contains(sample, "nul")
  BY <1>2 DEF Contains
<1>5. ~MostlyControl(sample)
  <2>1. {i \in DOMAIN sample : sample[i] \in {"nul", "x1f"}} = {}
    BY <1>2
  <2>2. Cardinality({}) = 0
    BY FS_EmptySet
  <2>3. MostlyControl(sample) => 0 > 3 * Len(sample)
    BY <2>1, <2>2 DEF MostlyControl
  <2> QED BY <1>2, <2>3
<1>6. ~LooksBinary(s)
  BY <1>3, <1>4, <1>5 DEF LooksBinary, sample
<1> QED BY <1>1, <1>6 DEF Finalize, DecodeText

-----------------------------------------------------------------------------
(* With the bytes: what is staged and announced are the stream's parts.     *)
StreamKnown ==
  /\ printed \in Printed /\ code \in ExitDigits
  /\ \A d \in Dir : staged[d] \in {Absent, 0, NumParts(TheStream)}
  /\ parts \in {0, NumParts(TheStream)}

(* The stream is not empty, for its marker is there, and its parts fit.     *)
LEMMA StreamFits ==
  ASSUME printed \in Printed, code \in ExitDigits
  PROVE  /\ printed \in Seq(Byte) /\ code \in Seq(Digit) /\ code # <<>>
         /\ TheStream \in Seq(Byte) /\ TheStream # <<>>
         /\ Len(TheStream) = Len(printed) + Len(code) + 3
         /\ NumParts(TheStream) \in Nat \ {0} /\ NumParts(TheStream) \in 0..MaxParts
<1>1. printed \in Seq(Byte) /\ code \in Seq(Digit) /\ code # <<>>
  BY CommandOutputAssumption
<1>2. TheStream \in Seq(Byte) /\ Len(TheStream) = Len(printed) + Len(code) + 3
  BY <1>1, StreamShape DEF TheStream
<1>3. TheStream # <<>>
  BY <1>1, <1>2
<1>4. NumParts(TheStream) \in Nat \ {0}
  BY <1>2, <1>3, NumPartsCover
<1>5. NumParts(TheStream) <= MaxParts
  BY CommandOutputAssumption DEF TheStream
<1> QED BY <1>1, <1>2, <1>3, <1>4, <1>5, CommandRunAssumption

(* A step with the bytes is a step of CommandRun.                           *)
LEMMA OutputStep == StreamKnown /\ [NextOutput]_runVars => [Next]_vars
<1> SUFFICES ASSUME StreamKnown, NextOutput PROVE [Next]_vars
  BY DEF runVars
<1>1. ASSUME NEW d \in Dir, NEW n \in {0, NumParts(TheStream)}, HostStages(d, n) PROVE Next
  <2>1. n \in 0..MaxParts
    BY StreamFits, CommandRunAssumption DEF StreamKnown
  <2> QED BY <1>1, <2>1 DEF Next
<1> QED BY <1>1 DEF NextOutput, Next

(* Nothing but the stream's parts is ever staged.                           *)
LEMMA StreamStaysKnown == StreamKnown /\ IInv /\ [NextOutput]_runVars => StreamKnown'
<1> SUFFICES ASSUME StreamKnown, IInv, [NextOutput]_runVars PROVE StreamKnown'
  OBVIOUS
<1>1. UNCHANGED <<printed, code>>
  BY DEF NextOutput, runVars
<1>2. TheStream' = TheStream
  BY <1>1 DEF TheStream
<1> DEFINE n == NumParts(TheStream)
           Kept == staged' = staged /\ parts' = parts
<1>3. NumParts(TheStream)' = n
  BY <1>2 DEF NumParts
<1> HIDE DEF n
<1>4. /\ printed \in Printed /\ code \in ExitDigits
      /\ staged \in [Dir -> (0..MaxParts) \cup {Absent}]
      /\ \A d \in Dir : staged[d] \in {Absent, 0, n}
      /\ parts \in {0, n}
  BY DEF StreamKnown, IInv, TypeOK, n
<1>5. SUFFICES (\A d \in Dir : staged'[d] \in {Absent, 0, n}) /\ parts' \in {0, n}
  BY <1>1, <1>3, <1>4 DEF StreamKnown
<1>6. CASE Kept
  BY <1>4, <1>6
<1>7. ASSUME NEW d \in Dir, NEW m \in {0, n}, HostStages(d, m)
      PROVE  (\A e \in Dir : staged'[e] \in {Absent, 0, n}) /\ parts' \in {0, n}
  BY <1>4, <1>7 DEF HostStages, client
<1>8. ASSUME NEW d \in Dir, DispatchMeta(d) PROVE staged' = staged /\ parts' \in {0, n}
  BY <1>4, <1>8 DEF DispatchMeta
<1>9. CASE Cleanup \/ CleanupCancelled
  BY <1>4, <1>9 DEF Cleanup, CleanupCancelled
<1>10. ASSUME \/ \E d \in Dir : HostMissed(d)
              \/ Start \/ Fetch \/ FetchFails \/ UNCHANGED runVars
              \/ \E how \in {"error", "target_unreachable", "ok"} : DispatchWithoutMeta(how)
       PROVE  Kept
  BY <1>10 DEF HostMissed, Start, Fetch, FetchFails, DispatchWithoutMeta, runVars, vars,
               client, host
<1> QED BY <1>4, <1>6, <1>7, <1>8, <1>9, <1>10 DEF NextOutput, n

(* Before the command is dispatched nothing is staged.                      *)
LEMMA InitKnown == InitOutput => StreamKnown
BY DEF InitOutput, Init, StreamKnown

(* CommandRun's inductive invariant holds with the bytes, too.              *)
THEOREM OutputIInvHolds == SpecOutput => [](IInv /\ StreamKnown)
<1>1. InitOutput => IInv /\ StreamKnown
  BY InitIInv, InitKnown DEF InitOutput
<1>2. IInv /\ StreamKnown /\ [NextOutput]_runVars => (IInv /\ StreamKnown)'
  BY StepIInv, OutputStep, StreamStaysKnown
<1> QED BY <1>1, <1>2, PTL DEF SpecOutput

(* So CommandOutput implements CommandRun, and keeps what it promises.      *)
THEOREM OutputRefinesRun == SpecOutput => Spec
<1>1. InitOutput => Init
  BY DEF InitOutput
<1> QED BY <1>1, OutputStep, OutputIInvHolds, PTL DEF SpecOutput, Spec

(* The promises of CommandRun, kept with the bytes.                         *)
THEOREM OutputKeepsPromises ==
  SpecOutput => [](TypeOK /\ OutputIsInOrder /\ ExitCodeIsEarned /\ JobsPerRun)
                  /\ RemovesOnlyItsOwn
BY OutputRefinesRun, TypeCorrect, OutputIsInOrderHolds, ExitCodeIsEarnedHolds,
   JobsPerRunHolds, RemovesOnlyItsOwnHolds, PTL

(* The values that are joined: the parts that came, and holes.              *)
Values == [i \in DOMAIN pieces |->
             IF pieces[i] = Hole THEN <<>> ELSE Part(TheStream, pieces[i])]

(* Once all is fetched there is one value for each announced part.          *)
LEMMA FetchedValues ==
  ASSUME IInv, StreamKnown, AllFetched
  PROVE  /\ Len(pieces) = parts /\ parts \in {0, NumParts(TheStream)}
         /\ DOMAIN pieces = 1..parts /\ parts \in Nat
         /\ \A i \in 1..parts : pieces[i] \in {i, Hole}
         /\ Values \in Seq(Seq(Byte)) /\ Len(Values) = parts
         /\ \A i \in 1..parts :
              Values[i] = IF pieces[i] = Hole THEN <<>> ELSE Part(TheStream, i)
         /\ Gathered = FlattenSeq(Values)
<1>1. /\ Len(pieces) = parts /\ parts \in {0, NumParts(TheStream)} /\ parts \in Nat
      /\ pieces \in Seq(0..MaxParts) /\ \A i \in DOMAIN pieces : pieces[i] \in {i, Hole}
  BY CommandRunAssumption DEF IInv, TypeOK, Fetched, StreamKnown, AllFetched
<1>2. DOMAIN pieces = 1..parts
  BY <1>1
<1>3. ASSUME NEW i \in 1..parts PROVE Part(TheStream, i) \in Seq(Byte)
  <2>1. i \in 1..NumParts(TheStream) /\ TheStream \in Seq(Byte) /\ TheStream # <<>>
    BY <1>1, StreamFits DEF StreamKnown
  <2> QED BY <2>1, PartIsBytes
<1>4. Values = [i \in 1..parts |-> IF pieces[i] = Hole THEN <<>> ELSE Part(TheStream, i)]
  <2>1. \A i \in 1..parts : pieces[i] # Hole => pieces[i] = i
    BY <1>1, <1>2
  <2> QED BY <1>2, <2>1 DEF Values
<1>5. Values \in Seq(Seq(Byte)) /\ Len(Values) = parts
  <2>1. \A i \in 1..parts : (IF pieces[i] = Hole THEN <<>> ELSE Part(TheStream, i)) \in Seq(Byte)
    BY <1>3
  <2> QED BY <1>1, <1>4, <2>1
<1>6. Gathered = FlattenSeq(Values)
  BY DEF Gathered, Values
<1> QED BY <1>1, <1>2, <1>4, <1>5, <1>6

(* Without holes the gathered bytes are the stream.                         *)
LEMMA WholeStream ==
  ASSUME IInv, StreamKnown, AllFetched, parts > 0, Hole \notin ToSet(pieces)
  PROVE  Gathered = TheStream
<1>1. /\ DOMAIN pieces = 1..parts /\ parts = NumParts(TheStream) /\ Len(Values) = parts
      /\ \A i \in 1..parts : Values[i] = IF pieces[i] = Hole THEN <<>> ELSE Part(TheStream, i)
      /\ Gathered = FlattenSeq(Values)
  BY FetchedValues
<1>2. \A i \in 1..parts : pieces[i] # Hole
  BY <1>1 DEF ToSet
<1>3. \A i \in 1..NumParts(TheStream) : Values[i] = Part(TheStream, i)
  BY <1>1, <1>2
<1>4. TheStream \in Seq(Byte) /\ TheStream # <<>>
  BY StreamFits DEF StreamKnown
<1> HIDE DEF Values
<1>5. FlattenSeq(Values) = TheStream
  BY <1>1, <1>3, <1>4, PartsJoin
<1> QED BY <1>1, <1>5

(* A whole payload gives the caller the command's own exit code and its     *)
(* bytes, up to the cap and one newline; and its text as text, for every    *)
(* output, part size, cap and sniffed window.                               *)
THEOREM OutputSurvivesHolds == SpecOutput => []OutputSurvives
<1>1. IInv /\ StreamKnown => OutputSurvives
  <2> SUFFICES ASSUME IInv, StreamKnown, AllFetched, parts > 0,
                      Hole \notin ToSet(pieces)
               PROVE  /\ Payload.code = ValueOf(code)
                      /\ \E body \in {printed, Shorn(printed)} :
                           /\ Outcome.bytes = Cut(body, Cap)
                           /\ Outcome.truncated <=> Len(body) > Cap
                      /\ Utf8(printed) /\ ~Outcome.truncated /\ ~Contains(printed, "nul")
                           /\ ~Contains(printed, "x1f") => Outcome.form = "utf-8"
                      /\ Contains(Cut(Outcome.bytes, SniffBytes), "nul") => Outcome.form = "binary"
    BY DEF OutputSurvives
  <2>1. printed \in Seq(Byte) /\ code \in Seq(Digit) /\ code # <<>>
    BY StreamFits DEF StreamKnown
  <2>2. Payload = [body |-> Shorn(printed), code |-> ValueOf(code)]
    BY <2>1, WholeStream, DecodedStream DEF Payload, TheStream
  <2> DEFINE body == Shorn(printed)
  <2>3. /\ body \in Seq(Byte) /\ Len(body) <= Len(printed)
        /\ \A i \in 1..Len(body) : body[i] = printed[i]
        /\ Utf8(printed) => Utf8(body)
    BY <2>1, ShornFacts
  <2>4. Outcome = Finalize(body) /\ Payload.code = ValueOf(code)
    BY <2>2 DEF Outcome
  <2> HIDE DEF body
  <2>5. Outcome.bytes = Cut(body, Cap) /\ Outcome.truncated = (Len(body) > Cap)
    BY <2>4 DEF Finalize
  <2>8. \E kept \in {printed, body} :
          Outcome.bytes = Cut(kept, Cap) /\ (Outcome.truncated <=> Len(kept) > Cap)
    BY <2>5
  <2>6. ASSUME Utf8(printed), ~Outcome.truncated, ~Contains(printed, "nul"),
               ~Contains(printed, "x1f")
        PROVE  Outcome.form = "utf-8"
    <3>1. Len(body) <= Cap /\ Utf8(body)
      <4>1. ~(Len(body) > Cap) /\ Utf8(body)
        BY <2>3, <2>5, <2>6, Zenon
      <4> QED BY <2>3, <4>1, OutputAssumption
    <3>2. \A i \in 1..Len(body) : body[i] \notin {"nul", "x1f"}
      BY <2>1, <2>3, <2>6 DEF Contains
    <3> QED BY <2>3, <2>4, <3>1, <3>2, TextStaysText
  <2>7. ASSUME Contains(Cut(Outcome.bytes, SniffBytes), "nul") PROVE Outcome.form = "binary"
    BY <2>4, <2>5, <2>7 DEF Finalize, LooksBinary
  <2> QED BY <2>4, <2>6, <2>7, <2>8 DEF body
<1> QED BY <1>1, OutputIInvHolds, PTL

(* What CommandRun takes the exit code for agrees with the decoded bytes,   *)
(* whichever parts came.                                                    *)
THEOREM DecodeAgreesHolds == SpecOutput => []DecodeAgrees
<1>1. IInv /\ StreamKnown => DecodeAgrees
  <2> SUFFICES ASSUME IInv, StreamKnown, AllFetched
               PROVE  (CASE Payload.code = Missing -> "unknown"
                         [] Payload.code # Missing /\ parts > 0 /\ TrailerFetched -> "known"
                         [] OTHER -> "echoed") \in ExitCodes(pieces, parts)
    BY DEF DecodeAgrees
  <2>1. /\ DOMAIN pieces = 1..parts /\ parts \in Nat /\ parts \in {0, NumParts(TheStream)}
        /\ Len(Values) = parts /\ Values \in Seq(Seq(Byte))
        /\ \A i \in 1..parts : Values[i] = IF pieces[i] = Hole THEN <<>> ELSE Part(TheStream, i)
        /\ Gathered = FlattenSeq(Values)
    BY FetchedValues
  <2>2. "unknown" \in ExitCodes(pieces, parts)
    BY DEF ExitCodes
  <2>3. ASSUME parts > 0, TrailerFetched PROVE "known" \in ExitCodes(pieces, parts)
    <3>1. TheStream \in Seq(Byte) /\ TheStream # <<>> /\ parts = NumParts(TheStream)
      BY <2>1, <2>3, StreamFits DEF StreamKnown
    <3>2. Len(TheStream) <= parts * PartBytes
      BY <3>1, NumPartsCover
    <3>3. pieces[parts] # Hole
      <4>1. ASSUME pieces[parts] = Hole PROVE FALSE
        <5>1. parts * PartBytes <= Len(TheStream) - Len(Marker \o code) - 1
          BY <2>1, <2>3, <4>1 DEF TrailerFetched
        <5>2. Len(Marker \o code) \in Nat
          <6>1. Marker \in Seq(Byte) /\ code \in Seq(Byte)
            BY StreamFits DEF StreamKnown, Marker, Byte, Printable, Digit
          <6> QED BY <6>1, ConcatProperties
        <5>3. Len(TheStream) \in Nat /\ parts * PartBytes \in Nat
          BY <2>1, <3>1, OutputAssumption
        <5> QED BY <3>2, <5>1, <5>2, <5>3
      <4> QED BY <4>1
    <3>4. parts \in Present(pieces)
      BY <2>1, <2>3, <3>3 DEF Present
    <3> QED BY <3>4 DEF ExitCodes
  <2>4. ASSUME Payload.code # Missing, ~(parts > 0 /\ TrailerFetched)
        PROVE  "echoed" \in ExitCodes(pieces, parts)
    <3>1. Present(pieces) # {}
      <4>1. ASSUME Present(pieces) = {} PROVE FALSE
        <5>1. \A i \in 1..Len(Values) : Values[i] = <<>>
          BY <2>1, <4>1 DEF Present
        <5> HIDE DEF Values
        <5>2. Gathered = <<>>
          BY <2>1, <5>1, NothingJoins
        <5>3. MarkersIn(<<>>) = {}
          BY DEF MarkersIn
        <5>4. Payload.code = Missing
          BY <5>2, <5>3 DEF Payload, Decoded
        <5> QED BY <2>4, <5>4
      <4> QED BY <4>1
    <3>2. Present(pieces) # 1..parts
      <4>1. ASSUME Present(pieces) = 1..parts PROVE FALSE
        <5>1. parts > 0
          BY <2>1, <3>1, <4>1
        <5>2. TrailerFetched
          BY <2>1, <4>1 DEF Present, TrailerFetched
        <5> QED BY <2>4, <5>1, <5>2
      <4> QED BY <4>1
    <3> QED BY <3>1, <3>2 DEF ExitCodes
  <2> QED BY <2>2, <2>3, <2>4
<1> QED BY <1>1, OutputIInvHolds, PTL
=============================================================================
