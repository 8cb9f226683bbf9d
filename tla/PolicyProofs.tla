---------------------------- MODULE PolicyProofs ----------------------------
(***************************************************************************)
(* For every policy file, pattern list and sequence of approvals: the floor *)
(* holds, a command runs unasked exactly as documented, and an approval     *)
(* changes nothing but what it was given for.                               *)
(***************************************************************************)
EXTENDS PolicySession, SecurityPolicyProofs

(* However it was loaded, a configuration has the built-in floor in tier 1. *)
LEMMA LoadableKeepsFloor ==
  ASSUME NEW cfg \in Loadable
  PROVE  /\ HasPatternLists(cfg)
         /\ \A i \in DOMAIN DefaultTier1 :
              i \in DOMAIN cfg.tier1 /\ cfg.tier1[i] = DefaultTier1[i]
<1>1. ASSUME NEW f \in PolicyFile, cfg = FromFile(f)
      PROVE  /\ HasPatternLists(cfg)
             /\ \A i \in DOMAIN DefaultTier1 :
                  i \in DOMAIN cfg.tier1 /\ cfg.tier1[i] = DefaultTier1[i]
  <2>1. /\ f.tier1 \in Seq(Pattern) /\ f.tier2 \in Seq(Pattern)
        /\ f.whitelist \in Seq(Pattern)
    BY FileAssumption
  <2>2. DefaultTier1 \in Seq(Pattern) /\ DefaultTier2 \in Seq(Pattern)
    BY PatternAssumption
  <2>3. /\ DefaultTier1 \o f.tier1 \in Seq(Pattern)
        /\ \A i \in DOMAIN DefaultTier1 :
             /\ i \in DOMAIN (DefaultTier1 \o f.tier1)
             /\ (DefaultTier1 \o f.tier1)[i] = DefaultTier1[i]
    <3>1. \A a, b \in Seq(Pattern) :
            /\ a \o b \in Seq(Pattern)
            /\ \A i \in DOMAIN a : i \in DOMAIN (a \o b) /\ (a \o b)[i] = a[i]
      OBVIOUS
    <3> QED BY <2>1, <2>2, <3>1
  <2>4. Default(f.tier2, DefaultTier2) \in Seq(Pattern)
    BY <2>1, <2>2, Zenon DEF Default
  <2>5. /\ cfg.tier1 = DefaultTier1 \o f.tier1
        /\ cfg.tier2 = Default(f.tier2, DefaultTier2)
        /\ cfg.whitelist = f.whitelist
    BY <1>1, Zenon DEF FromFile
  <2> QED BY <2>1, <2>3, <2>4, <2>5, Zenon DEF HasPatternLists
<1>2. ASSUME NEW m \in EnvMode, cfg = FromEnvironment(m)
      PROVE  /\ HasPatternLists(cfg)
             /\ \A i \in DOMAIN DefaultTier1 :
                  i \in DOMAIN cfg.tier1 /\ cfg.tier1[i] = DefaultTier1[i]
  BY <1>2, PatternAssumption DEF FromEnvironment, Default, HasPatternLists
<1> QED BY <1>1, <1>2 DEF Loadable

(* At the start some policy is loaded and nothing was approved.             *)
LEMMA InitTypeOK == Init => TypeOK
  BY DEF Init, TypeOK

(* What waits for approval waits for a pattern.                             *)
LEMMA PendingIsMatched ==
  ASSUME TypeOK, NEW c \in Command, Verdict(c).decision = "pending_approval"
  PROVE  Verdict(c).matched \in Pattern
<1>1. HasPatternLists(config)
  BY LoadableKeepsFloor DEF TypeOK
<1>2. /\ Verdict(c).matched \in Pattern \cup {NoPattern}
      /\ Verdict(c) = Pending(FirstMatch(c, config.tier2))
      /\ FirstMatch(c, config.tier2) # NoPattern
  BY <1>1, EvaluateDecides DEF Verdict
<1> QED BY <1>2 DEF Pending

(* An approval keeps the types: what it exempts is a pattern.               *)
LEMMA StepTypeOK == TypeOK /\ [Next]_vars => TypeOK'
<1> SUFFICES ASSUME TypeOK, [Next]_vars PROVE TypeOK'
  OBVIOUS
<1>1. ASSUME NEW c \in Command, Approve(c) PROVE TypeOK'
  BY <1>1, PendingIsMatched DEF Approve, TypeOK
<1>2. CASE UNCHANGED vars
  BY <1>2 DEF vars, TypeOK
<1> QED BY <1>1, <1>2 DEF Next

(* The loaded configuration stays one, and exemptions are patterns.         *)
THEOREM TypeCorrect == Spec => []TypeOK
  BY InitTypeOK, StepTypeOK, PTL DEF Spec

(* The built-in floor blocks whatever was loaded, approved or pre-approved. *)
THEOREM FloorHoldsAlways == Spec => []FloorHolds
<1>1. TypeOK => FloorHolds
  <2> SUFFICES ASSUME TypeOK, NEW c \in Command, Matches(c, DefaultTier1)
               PROVE  Verdict(c).decision = "block" /\ Verdict(c).tier = 1
    BY DEF FloorHolds
  <2>1. HasPatternLists(config) /\ config.tier1 \in Seq(Pattern)
    BY LoadableKeepsFloor DEF TypeOK, HasPatternLists
  <2>2. \E i \in DOMAIN config.tier1 : <<c, config.tier1[i]>> \in Hits
    BY LoadableKeepsFloor DEF TypeOK, Matches
  <2>3. FirstMatch(c, config.tier1) # NoPattern
    BY <2>1, <2>2, FirstMatchType
  <2>4. Verdict(c) = Block(1, FirstMatch(c, config.tier1))
    BY <2>1, <2>3, EvaluateDecides DEF Verdict
  <2> QED BY <2>4 DEF Block
<1> QED BY <1>1, TypeCorrect, PTL

(* What the first match of a list of risky patterns is cleared by, said     *)
(* without scanning the list.                                               *)
LEMMA FirstRiskIsUnique ==
  ASSUME NEW c, NEW patterns \in Seq(Pattern), NEW cleared
  PROVE  (FirstMatch(c, patterns) = NoPattern \/ FirstMatch(c, patterns) \in cleared)
         <=> \A i \in DOMAIN patterns :
               (/\ <<c, patterns[i]>> \in Hits
                /\ \A j \in 1..(i - 1) : <<c, patterns[j]>> \notin Hits)
               => patterns[i] \in cleared
<1>1. DOMAIN patterns = 1..Len(patterns) /\ Len(patterns) \in Nat
  OBVIOUS
<1>2. CASE \A i \in DOMAIN patterns : <<c, patterns[i]>> \notin Hits
  BY <1>2, FirstMatchType
<1>3. CASE \E i \in DOMAIN patterns : <<c, patterns[i]>> \in Hits
  <2>1. FirstMatch(c, patterns) # NoPattern
    BY <1>3, FirstMatchType
  <2>2. PICK k \in DOMAIN patterns :
          /\ FirstMatch(c, patterns) = patterns[k]
          /\ <<c, patterns[k]>> \in Hits
          /\ \A j \in 1..(k - 1) : <<c, patterns[j]>> \notin Hits
    BY <1>3, FirstMatchFinds
  <2>3. ASSUME NEW i \in DOMAIN patterns, <<c, patterns[i]>> \in Hits,
               \A j \in 1..(i - 1) : <<c, patterns[j]>> \notin Hits
        PROVE  i = k
    <3>1. ~(i \in 1..(k - 1)) /\ ~(k \in 1..(i - 1))
      BY <2>2, <2>3
    <3>2. i \in Nat \ {0} /\ k \in Nat \ {0}
      BY <1>1
    <3> QED BY <3>1, <3>2
  <2> QED BY <2>1, <2>2, <2>3
<1> QED BY <1>2, <1>3

(* A command runs unasked exactly if the documented conditions hold of the  *)
(* patterns that match it.                                                  *)
THEOREM AllowedIffClearedHolds == Spec => []AllowedIffCleared
<1>1. TypeOK => AllowedIffCleared
  <2> SUFFICES ASSUME TypeOK, NEW c \in Command
               PROVE  Verdict(c).decision = "allow" <=>
                        /\ ~Matches(c, config.tier1)
                        /\ config.mode = "whitelist" => Matches(c, config.whitelist)
                        /\ \A i \in DOMAIN config.tier2 :
                             (/\ <<c, config.tier2[i]>> \in Hits
                              /\ \A j \in 1..(i - 1) : <<c, config.tier2[j]>> \notin Hits)
                             => \/ config.tier2[i] \in exempt
                                \/ \E q \in preapproved :
                                     q = config.tier2[i] \/ <<q, config.tier2[i]>> \in Covers
    BY DEF AllowedIffCleared
  <2> DEFINE cleared == {p \in Pattern : p \in exempt \/ Preapproved(p, preapproved)}
             risk == FirstMatch(c, config.tier2)
  <2>1. /\ HasPatternLists(config) /\ config.tier1 \in Seq(Pattern)
        /\ config.tier2 \in Seq(Pattern) /\ config.whitelist \in Seq(Pattern)
    BY LoadableKeepsFloor DEF TypeOK, HasPatternLists
  <2>2. /\ FirstMatch(c, config.tier1) = NoPattern <=> ~Matches(c, config.tier1)
        /\ FirstMatch(c, config.whitelist) = NoPattern <=> ~Matches(c, config.whitelist)
    BY <2>1, FirstMatchType DEF Matches
  <2>3. Verdict(c).decision = "allow" <=>
          /\ ~Matches(c, config.tier1)
          /\ config.mode = "whitelist" => Matches(c, config.whitelist)
          /\ risk = NoPattern \/ risk \in exempt \/ Preapproved(risk, preapproved)
    BY <2>1, <2>2, EvaluateDecides DEF Verdict
  <2>4. (risk = NoPattern \/ risk \in exempt \/ Preapproved(risk, preapproved))
          <=> (risk = NoPattern \/ risk \in cleared)
    BY <2>1, FirstMatchType
  <2>5. (risk = NoPattern \/ risk \in cleared)
          <=> \A i \in DOMAIN config.tier2 :
                (/\ <<c, config.tier2[i]>> \in Hits
                 /\ \A j \in 1..(i - 1) : <<c, config.tier2[j]>> \notin Hits)
                => config.tier2[i] \in cleared
    BY <2>1, FirstRiskIsUnique
  <2>6. \A i \in DOMAIN config.tier2 :
          config.tier2[i] \in cleared <=>
            \/ config.tier2[i] \in exempt
            \/ \E q \in preapproved :
                 q = config.tier2[i] \/ <<q, config.tier2[i]>> \in Covers
    <3>1. \A i \in DOMAIN config.tier2 : config.tier2[i] \in Pattern
      BY <2>1
    <3> QED BY <3>1 DEF Preapproved
  <2> QED
    <3> HIDE DEF cleared, risk
    <3> QED BY <2>3, <2>4, <2>5, <2>6
<1> QED BY <1>1, TypeCorrect, PTL

(* What a verdict can turn into when the pattern p is exempted: nothing, or *)
(* the release of a command that waited for p.                              *)
LEMMA ExemptionIsNarrow ==
  ASSUME NEW cfg, NEW c, NEW waived, NEW granted, NEW p
  PROVE  LET before == Evaluate(cfg, c, waived, granted)
             after == Evaluate(cfg, c, waived \cup {p}, granted)
         IN  after # before =>
               before = Pending(p) /\ after = Allow(2, p)
  BY DEF Evaluate, EvaluateWhitelist, EvaluateBlacklist, Tier2Outcome

(* An approval releases the commands that waited for its pattern and changes*)
(* no other verdict.                                                        *)
THEOREM ApprovalIsNarrowHolds == Spec => ApprovalIsNarrow
<1>1. TypeOK /\ [Next]_vars =>
        [\A c \in Command :
           Verdict(c)' # Verdict(c) =>
             /\ Verdict(c) = Pending(Verdict(c).matched)
             /\ exempt' = exempt \cup {Verdict(c).matched}
             /\ Verdict(c)' = Allow(2, Verdict(c).matched)]_vars
  <2> SUFFICES ASSUME TypeOK, NEW c \in Command, NEW approved \in Command,
                      Approve(approved), Verdict(c)' # Verdict(c)
               PROVE  /\ Verdict(c) = Pending(Verdict(c).matched)
                      /\ exempt' = exempt \cup {Verdict(c).matched}
                      /\ Verdict(c)' = Allow(2, Verdict(c).matched)
    BY DEF Next
  <2> DEFINE p == Verdict(approved).matched
  <2>1. exempt' = exempt \cup {p} /\ config' = config /\ preapproved' = preapproved
    BY DEF Approve
  <2>2. Verdict(c)' = Evaluate(config, c, exempt \cup {p}, preapproved)
    BY <2>1 DEF Verdict
  <2> HIDE DEF p
  <2>3. Verdict(c) = Pending(p) /\ Verdict(c)' = Allow(2, p)
    BY <2>2, ExemptionIsNarrow DEF Verdict
  <2> QED BY <2>1, <2>3 DEF Pending
<1> QED BY <1>1, TypeCorrect, PTL DEF Spec, ApprovalIsNarrow
=============================================================================
