----------------------------- MODULE MCSessions -----------------------------
(* Model-checking instance of Sessions: a harmless command, two risky ones  *)
(* with different tier-2 patterns, and a destructive one; callers           *)
(* pre-approve nothing, or something that covers one of the risky patterns. *)
EXTENDS Sessions, TLC

CONSTANTS look, restart, remove, wipe, floor, svc, rm

MCHits ==
  {<<restart, svc>>, <<remove, rm>>, <<wipe, floor>>, <<wipe, rm>>}
    \cap (Command \X Pattern)
MCCovers == {}
MCTier1 == <<floor>>
MCTier2 == <<svc, rm>>
MCPolicy ==
  [mode |-> "blacklist", tier1 |-> MCTier1, tier2 |-> MCTier2, whitelist |-> <<>>]
MCAllowList == {{}, {rm}}
MCAllowNothing == {{}}

Symmetry == Permutations(Call) \cup Permutations(Session)
=============================================================================
