------------------------------ MODULE MCFabric ------------------------------
(* Three fibers; a closure returns an ordinary word, or the word that also  *)
(* means "pending".                                                         *)
EXTENDS Fabric
=============================================================================
