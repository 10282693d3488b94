----------------------------- MODULE MCSlabHeap -----------------------------
(* Two pages of four bytes for the classes of 2 and 4 bytes: a class can    *)
(* starve the other, a page holds one or two slots, and a layout can need   *)
(* the larger class for its size, for its alignment, or no class at all.    *)
EXTENDS SlabHeap

MCClassSize == <<2, 4>>
MCLayout == {[size |-> 2, align |-> 1], [size |-> 1, align |-> 4], [size |-> 5, align |-> 1]}
=============================================================================
