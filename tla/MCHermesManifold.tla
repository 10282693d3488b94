-------------------------- MODULE MCHermesManifold --------------------------
(* Two domains, a well-formed, an ill-formed and an empty feature word, and  *)
(* three generations, so that the generation counter wraps.                  *)
EXTENDS HermesManifold

MCFeatureSet == {{}, {"BOOT_RPC", "COMMAND_RING", "EVENT_RING", "DISPLAY"},
                 {"BOOT_RPC", "COMPUTE"}, {"BOOT_RPC"}}
=============================================================================
