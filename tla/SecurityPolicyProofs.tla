------------------------ MODULE SecurityPolicyProofs ------------------------
(***************************************************************************)
(* What the policy's operators return, for every configuration, command and *)
(* list of patterns: FirstMatch finds the first match if there is one, and  *)
(* the verdict of Evaluate by cases.  PolicyProofs and SessionsProofs build *)
(* on these.                                                                *)
(***************************************************************************)
EXTENDS SecurityPolicy, WellFoundedInduction, TLAPS

(* What the evaluation needs of a configuration: its lists are lists of     *)
(* patterns, whatever its mode says.                                        *)
HasPatternLists(cfg) ==
  /\ cfg.tier1 \in Seq(Pattern)
  /\ cfg.tier2 \in Seq(Pattern)
  /\ cfg.whitelist \in Seq(Pattern)

(* A set of positions that is not empty has a first one.                    *)
LEMMA LeastPosition ==
  ASSUME NEW S \in SUBSET Nat, S # {}
  PROVE  \E i \in S : \A j \in S : i <= j
<1>1. \E i \in S : \A j \in S : ~(<<j, i>> \in OpToRel(<, Nat))
  <2>1. IsWellFoundedOn(OpToRel(<, Nat), Nat)
    BY NatLessThanWellFounded
  <2> HIDE DEF OpToRel
  <2>2. ASSUME NEW R, IsWellFoundedOn(R, Nat)
        PROVE  \E i \in S : \A j \in S : ~(<<j, i>> \in R)
    BY <2>2, WFMin, Zenon
  <2> QED BY <2>1, <2>2
<1>2. \A i, j \in S : ~(<<j, i>> \in OpToRel(<, Nat)) => i <= j
  BY DEF OpToRel
<1> QED BY <1>1, <1>2

(* _first_match() gives None exactly if no pattern of the list is found in  *)
(* the command, and otherwise one of the list that is, with none before it. *)
LEMMA FirstMatchFinds ==
  ASSUME NEW c, NEW patterns \in Seq(Pattern)
  PROVE  \/ /\ FirstMatch(c, patterns) = NoPattern
            /\ \A i \in DOMAIN patterns : <<c, patterns[i]>> \notin Hits
         \/ \E i \in DOMAIN patterns :
              /\ FirstMatch(c, patterns) = patterns[i]
              /\ <<c, patterns[i]>> \in Hits
              /\ \A j \in 1..(i - 1) : <<c, patterns[j]>> \notin Hits
<1> DEFINE found == {i \in DOMAIN patterns : <<c, patterns[i]>> \in Hits}
<1>1. found \in SUBSET Nat /\ DOMAIN patterns = 1..Len(patterns) /\ Len(patterns) \in Nat
  OBVIOUS
<1>2. CASE found = {}
  BY <1>2 DEF FirstMatch
<1>3. CASE found # {}
  <2> DEFINE i == CHOOSE k \in found : \A j \in found : k <= j
  <2>1. i \in found /\ \A j \in found : i <= j
    <3> HIDE DEF found
    <3> QED BY <1>1, <1>3, LeastPosition
  <2>2. FirstMatch(c, patterns) = patterns[i]
    BY <1>3 DEF FirstMatch
  <2> HIDE DEF i
  <2>3. ASSUME NEW j \in 1..(i - 1), <<c, patterns[j]>> \in Hits PROVE FALSE
    <3>1. i \in 1..Len(patterns)
      BY <1>1, <2>1
    <3>2. j \in 1..Len(patterns) /\ ~(i <= j)
      BY <1>1, <3>1
    <3> QED BY <1>1, <2>1, <2>3, <3>2
  <2> QED BY <2>1, <2>2, <2>3
<1> QED BY <1>2, <1>3

(* The scan returns a pattern of the list, or nothing exactly if no pattern *)
(* of the list matches.                                                     *)
LEMMA FirstMatchType ==
  ASSUME NEW c, NEW patterns \in Seq(Pattern)
  PROVE  /\ FirstMatch(c, patterns) \in Pattern \cup {NoPattern}
         /\ FirstMatch(c, patterns) = NoPattern
              <=> \A i \in DOMAIN patterns : <<c, patterns[i]>> \notin Hits
<1>1. \A i \in DOMAIN patterns : patterns[i] \in Pattern /\ patterns[i] # NoPattern
  BY PatternAssumption
<1> HIDE DEF FirstMatch
<1>2. CASE \A i \in DOMAIN patterns : <<c, patterns[i]>> \notin Hits
  BY <1>2, FirstMatchFinds
<1>3. CASE \E i \in DOMAIN patterns : <<c, patterns[i]>> \in Hits
  <2>1. PICK i \in DOMAIN patterns : FirstMatch(c, patterns) = patterns[i]
    BY <1>3, FirstMatchFinds
  <2> QED BY <1>1, <1>3, <2>1
<1> QED BY <1>2, <1>3

(* A whole configuration's evaluation, by its decision: a block names tier  *)
(* 1 or a command that no whitelist pattern matches; whatever else is       *)
(* decided passed both, and depends on the first risky pattern alone.       *)
LEMMA EvaluateDecides ==
  ASSUME NEW cfg, HasPatternLists(cfg), NEW c, NEW exempt, NEW preapproved
  PROVE  LET verdict == Evaluate(cfg, c, exempt, preapproved)
             floor == FirstMatch(c, cfg.tier1)
             risk == FirstMatch(c, cfg.tier2)
             unlisted == cfg.mode = "whitelist" /\ FirstMatch(c, cfg.whitelist) = NoPattern
             cleared == risk \in exempt \/ Preapproved(risk, preapproved)
         IN  /\ verdict \in [decision : {"allow", "block", "pending_approval"},
                             tier : 0..2, matched : Pattern \cup {NoPattern}]
             /\ verdict.decision = "block" <=> floor # NoPattern \/ unlisted
             /\ floor # NoPattern => verdict = Block(1, floor)
             /\ verdict.decision = "allow" <=>
                  /\ floor = NoPattern /\ ~unlisted
                  /\ risk = NoPattern \/ cleared
             /\ verdict.decision = "pending_approval" =>
                  verdict = Pending(risk) /\ risk # NoPattern
<1>1. /\ FirstMatch(c, cfg.tier1) \in Pattern \cup {NoPattern}
      /\ FirstMatch(c, cfg.tier2) \in Pattern \cup {NoPattern}
  BY FirstMatchType DEF HasPatternLists
<1> QED
  BY <1>1
  DEF Evaluate, EvaluateWhitelist, EvaluateBlacklist, Tier2Outcome, Block, Allow, Pending
=============================================================================
