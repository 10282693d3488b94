--------------------------- MODULE MCArgusEndpoint ---------------------------
(* Two sessions whose leases differ only in the mapping generation and the   *)
(* expiry, two sequence numbers before the wrap, two records the transport   *)
(* would act on for the first, and one that it refuses for the second.       *)
EXTENDS ArgusEndpoint

MCLease ==
    [s \in Session |-> [endpoint |-> 11, mapping |-> 12, generation |-> 4,
                        mappingGeneration |-> IF s = "s1" THEN 9 ELSE 10,
                        expiry |-> IF s = "s1" THEN 1 ELSE 2]]
MCHttpLease == [id |-> "ours", origin |-> "a", budget |-> 1, expiry |-> 2]
MCWire ==
    [seq : {1}, lease : {"ours"}, origin : {"a"}, budget : {0, 1}]
        \cup [seq : {2}, lease : {"ours"}, origin : {"a", "b"}, budget : {1}]
=============================================================================
