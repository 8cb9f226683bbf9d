---------------------------- MODULE PolicySession ----------------------------
(***************************************************************************)
(* The policy as one session meets it: a configuration loaded at startup,   *)
(* a caller's pre-approved patterns fixed when the session is opened, and   *)
(* the session's exemptions, which grow with every approval                 *)
(* (sessions.py 239-285).                                                   *)
(***************************************************************************)
EXTENDS SecurityPolicy

CONSTANTS
  PolicyFile,    \* the admin policy files considered
  EnvMode        \* the values of the environment's policy_mode considered

ASSUME FileAssumption ==
  PolicyFile \subseteq [mode : STRING, tier1 : Seq(Pattern), tier2 : Seq(Pattern),
                        whitelist : Seq(Pattern)]

VARIABLES
  config,       \* PolicyEngine._config
  preapproved,  \* SessionContext.preapproved_patterns
  exempt        \* SessionContext.approved_regexes

vars == <<config, preapproved, exempt>>

(* PolicyConfig.load(): the policy file if there is one.                    *)
Loadable == {FromFile(f) : f \in PolicyFile} \cup {FromEnvironment(m) : m \in EnvMode}

Init ==
  /\ config \in Loadable
  /\ preapproved \in SUBSET Pattern
  /\ exempt = {}

Verdict(c) == Evaluate(config, c, exempt, preapproved)

\* Seeded defect: every tier-2 pattern the command hits is exempted.
ApproveAllHits(c) ==
  /\ Verdict(c).decision = "pending_approval"
  /\ exempt' = exempt \cup {p \in Pattern : <<c, p>> \in Hits}
  /\ UNCHANGED <<config, preapproved>>

(* A command waits for approval and is approved: the pattern that made it   *)
(* wait is exempted for the rest of the session.                            *)
Approve(c) ==
  /\ Verdict(c).decision = "pending_approval"
  /\ exempt' = exempt \cup {Verdict(c).matched}
  /\ UNCHANGED <<config, preapproved>>

Next == \E c \in Command : Approve(c)

Spec == Init /\ [][Next]_vars

TypeOK ==
  /\ config \in Loadable
  /\ preapproved \in SUBSET Pattern
  /\ exempt \in SUBSET Pattern

Matches(c, patterns) == \E i \in DOMAIN patterns : <<c, patterns[i]>> \in Hits

(* The built-in tier-1 floor blocks in every mode, whatever the policy file *)
(* says and whatever was approved or pre-approved (security_policy.py 5-8). *)
FloorHolds ==
  \A c \in Command :
    Matches(c, DefaultTier1) => Verdict(c).decision = "block" /\ Verdict(c).tier = 1

(* A command runs unasked exactly if no tier 1 pattern matches it, the      *)
(* whitelist (if on) matches it, and the FIRST tier-2 pattern that matches, *)
(* if any, was approved or pre-approved: decided from the set of patterns   *)
(* that match, with no reference to how the lists are scanned.  This is the *)
(* code's reading (security_policy.py 199-209, 244), not the specification's*)
(* in two points: security-controls/spec.md:235-237 allows whatever is on   *)
(* the whitelist and not tier 1, where the code still asks for a tier-2 hit;*)
(* spec.md:178-180 looks for the caller's pattern in the command, where the *)
(* code looks for it in the text of the tier-2 pattern.                     *)
AllowedIffCleared ==
  \A c \in Command :
    Verdict(c).decision = "allow" <=>
      /\ ~Matches(c, config.tier1)
      /\ config.mode = "whitelist" => Matches(c, config.whitelist)
      /\ \A i \in DOMAIN config.tier2 :
           (/\ <<c, config.tier2[i]>> \in Hits
            /\ \A j \in 1..(i - 1) : <<c, config.tier2[j]>> \notin Hits)
           => \/ config.tier2[i] \in exempt
              \/ \E q \in preapproved :
                   q = config.tier2[i] \/ <<q, config.tier2[i]>> \in Covers

(* An approval changes the verdict of no command but those that waited for  *)
(* exactly the approved pattern, and turns those into allowed ones: it      *)
(* never lifts a block and never makes another command wait.                *)
ApprovalIsNarrow ==
  [][\A c \in Command :
       Verdict(c)' # Verdict(c) =>
         /\ Verdict(c) = Pending(Verdict(c).matched)
         /\ exempt' = exempt \cup {Verdict(c).matched}
         /\ Verdict(c)' = Allow(2, Verdict(c).matched)]_vars
==============================================================================
