--------------------------- MODULE SecurityPolicy ---------------------------
(***************************************************************************)
(* The layered command policy (security_policy.py): PolicyConfig's loading  *)
(* and PolicyEngine.evaluate().  Regular expressions are abstract: Hits is  *)
(* the relation "pattern p is found in command c", Covers the relation      *)
(* "caller pattern q is found in the text of pattern p".                    *)
(***************************************************************************)
EXTENDS Integers, Sequences

CONSTANTS
  Command,       \* command lines
  Pattern,       \* regular expressions, as their source text
  NoPattern,     \* matched_pattern = None
  Hits,          \* <<c, p>>: re.search(p, c) finds something
  Covers,        \* <<q, p>>: re.search(q, text of p) finds something
  DefaultTier1,  \* _DEFAULT_TIER1, in order
  DefaultTier2   \* _DEFAULT_TIER2, in order

ASSUME PatternAssumption ==
  /\ NoPattern \notin Pattern
  /\ Hits \subseteq Command \X Pattern
  /\ Covers \subseteq Pattern \X Pattern
  /\ DefaultTier1 \in Seq(Pattern)
  /\ DefaultTier2 \in Seq(Pattern)

Config == [mode : STRING, tier1 : Seq(Pattern), tier2 : Seq(Pattern),
           whitelist : Seq(Pattern)]

Default(list, default) == IF list = <<>> THEN default ELSE list

\* Seeded defect: the file's tier 1 replaces the floor.
FromFileReplacing(data) ==
  [mode |-> IF data.mode = "" THEN "blacklist" ELSE data.mode,
   tier1 |-> Default(data.tier1, DefaultTier1),
   tier2 |-> Default(data.tier2, DefaultTier2),
   whitelist |-> data.whitelist]

(* PolicyConfig.from_file(): tier 1 of the file extends the built-in floor, *)
(* a missing or empty tier 2 falls back to the built-in one.                *)
FromFile(data) ==
  [mode |-> IF data.mode = "" THEN "blacklist" ELSE data.mode,
   tier1 |-> DefaultTier1 \o data.tier1,
   tier2 |-> Default(data.tier2, DefaultTier2),
   whitelist |-> data.whitelist]

(* PolicyConfig.load() without a policy file: the defaults, and the mode of *)
(* the environment.                                                         *)
FromEnvironment(mode) ==
  [mode |-> mode, tier1 |-> Default(DefaultTier1, DefaultTier1),
   tier2 |-> DefaultTier2, whitelist |-> <<>>]

\* Seeded defect: the last match wins.
LastMatch(c, patterns) ==
  LET found == {i \in DOMAIN patterns : <<c, patterns[i]>> \in Hits}
  IN  IF found = {}
      THEN NoPattern
      ELSE patterns[CHOOSE i \in found : \A j \in found : i >= j]

(* _first_match(): the first pattern of the list that is found, or None.    *)
FirstMatch(c, patterns) ==
  LET found == {i \in DOMAIN patterns : <<c, patterns[i]>> \in Hits}
  IN  IF found = {}
      THEN NoPattern
      ELSE patterns[CHOOSE i \in found : \A j \in found : i <= j]

Allow(tier, p) == [decision |-> "allow", tier |-> tier, matched |-> p]
Block(tier, p) == [decision |-> "block", tier |-> tier, matched |-> p]

\* Seeded defect: the exemption key is lost.
PendingUnkeyed(p) ==
  [decision |-> "pending_approval", tier |-> 2, matched |-> NoPattern]

Pending(p) == [decision |-> "pending_approval", tier |-> 2, matched |-> p]

(* A caller's pre-approved pattern counts if it is found in the matched     *)
(* pattern's text or is that text; one that does not compile is skipped     *)
(* (it covers nothing, and it cannot equal a pattern the engine compiled).  *)
Preapproved(p, preapproved) ==
  \E q \in preapproved : <<q, p>> \in Covers \/ q = p

(* _tier2_outcome(): what a risky match leads to.                           *)
Tier2Outcome(p, exempt, preapproved) ==
  IF p \in exempt \/ Preapproved(p, preapproved)
  THEN Allow(2, p)
  ELSE Pending(p)

(* The second half of both modes: default-allow unless tier 2 matches.      *)
EvaluateBlacklist(cfg, c, exempt, preapproved) ==
  LET t2 == FirstMatch(c, cfg.tier2)
  IN  IF t2 = NoPattern
      THEN Allow(0, NoPattern)
      ELSE Tier2Outcome(t2, exempt, preapproved)

\* Seeded defect: what is whitelisted runs unasked.
WhitelistTrusts(cfg, c, exempt, preapproved) ==
  IF FirstMatch(c, cfg.whitelist) = NoPattern
  THEN Block(0, NoPattern)
  ELSE Allow(0, NoPattern)

EvaluateWhitelist(cfg, c, exempt, preapproved) ==
  IF FirstMatch(c, cfg.whitelist) = NoPattern
  THEN Block(0, NoPattern)
  ELSE EvaluateBlacklist(cfg, c, exempt, preapproved)

(* PolicyEngine.evaluate(): the tier-1 floor first, then the mode's gate.   *)
Evaluate(cfg, c, exempt, preapproved) ==
  LET t1 == FirstMatch(c, cfg.tier1)
  IN  IF t1 # NoPattern
      THEN Block(1, t1)
      ELSE IF cfg.mode = "whitelist"
           THEN EvaluateWhitelist(cfg, c, exempt, preapproved)
           ELSE EvaluateBlacklist(cfg, c, exempt, preapproved)
=============================================================================
