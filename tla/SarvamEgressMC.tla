--------------------------- MODULE SarvamEgressMC ---------------------------
(* Values for the model checker: a process is live, switched off, or       *)
(* started without the governance or the key it needs.                     *)
EXTENDS SarvamEgress

CONSTANTS k1, k2, w1, w2

LiveConfig == [enabled |-> TRUE, permitted |-> TRUE, api_key |-> TRUE]
OnlyLive == {LiveConfig}
LiveOrRefused == {LiveConfig,
                  [enabled |-> FALSE, permitted |-> TRUE, api_key |-> TRUE],
                  [enabled |-> TRUE, permitted |-> FALSE, api_key |-> TRUE]}
=============================================================================
