----------------------------- MODULE MCSpscRing -----------------------------
(* Three slots and two messages: the indices wrap, the ring is full and     *)
(* empty with either index anywhere, and both sides work on neighbouring    *)
(* slots and on the same slot.                                              *)
EXTENDS SpscRing
=============================================================================
