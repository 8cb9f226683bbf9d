-------------------------- MODULE MCGatedSessions --------------------------
(* Model-checking instance of GatedSessions: one risky command, under a     *)
(* whitelist that lets it pass to tier 2; callers pre-approve nothing, or   *)
(* its pattern.  What the policy blocks never meets the registry: Sessions  *)
(* has those commands.                                                      *)
EXTENDS GatedSessions

CONSTANTS restart, floor, svc

MCHits == {<<restart, svc>>}
MCCovers == {}
MCTier1 == <<floor>>
MCTier2 == <<svc>>
MCPolicy ==
  [mode |-> "whitelist", tier1 |-> MCTier1, tier2 |-> MCTier2, whitelist |-> <<svc>>]
MCAllowList == {{}, {svc}}
=============================================================================
