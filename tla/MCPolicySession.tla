--------------------------- MODULE MCPolicySession ---------------------------
(* Model-checking instance of PolicySession.  Commands are named by the     *)
(* patterns they hit: `wipe` hits the floor (and tier 2), `both` hits two   *)
(* tier-2 patterns, `extra` a tier-1 pattern a file may add, `plain` none.  *)
EXTENDS PolicySession

CONSTANTS wipe, both, late, extra, plain, floor, wider, risk, other

MCHits ==
  {<<wipe, floor>>, <<wipe, risk>>, <<both, risk>>, <<both, other>>, <<late, other>>,
   <<extra, wider>>, <<extra, other>>}
MCCovers == {<<wider, other>>}
MCDefaultTier1 == <<floor>>
MCDefaultTier2 == <<risk, other>>

MCPolicyFile ==
  [mode : {"", "blacklist", "whitelist"}, tier1 : {<<>>, <<wider>>},
   tier2 : {<<>>, <<other, risk>>, <<other>>}, whitelist : {<<>>, <<risk>>, <<floor, other>>}]
MCEnvMode == {"blacklist", "whitelist"}
==============================================================================
