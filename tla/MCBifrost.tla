----------------------------- MODULE MCBifrost -----------------------------
(* Two descriptors per direction, so that the ring fills, wraps and can be  *)
(* refilled behind the back of a thread that loaded its index before; two   *)
(* threads transmit.                                                        *)
EXTENDS Bifrost
=============================================================================
