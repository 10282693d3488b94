------------------------------- MODULE Kairos -------------------------------
(***************************************************************************)
(* kairos.rs: topology discovery.  Threads query the kernel through one    *)
(* process-wide reply buffer, guarded by a claim flag, validate the reply  *)
(* and build a snapshot from it; work is then partitioned over the NUMA    *)
(* domains in proportion to their enabled CPUs.                            *)
(*                                                                         *)
(* query_ref copies its snapshot into storage that lives as long as the    *)
(* process, and returns a reference to it.  The copy is not atomic: it is  *)
(* two steps here, the CPUs and the domains.  A thread with the reference  *)
(* sees what the latest query_ref of any thread has stored, and during the *)
(* copy of another thread any mixture of the old and the new topology.     *)
(*                                                                         *)
(* A reply has CPUs [id, enabled] and domains [id, kind, members, parent], *)
(* as sequences; parent 0 stands for none.  The kernel (external) may      *)
(* answer with anything, or fail after it wrote part of the buffer.  A     *)
(* thread drops the result of its previous query when it starts another.   *)
(***************************************************************************)
EXTENDS Naturals, Sequences, FiniteSets, Loops

CONSTANTS Thread,
          Reply,       \* the replies the kernel may write
          MaxCpus, MaxDomains, MaxMembers,  \* MAXIMUM_CPUS, _DOMAINS, _CPUS_PER_DOMAIN
          MaxTotal     \* bound on the work to partition

ASSUME KairosAssumption ==
    MaxCpus \in Nat /\ MaxDomains \in Nat \ {0} /\ MaxMembers \in Nat /\ MaxTotal \in Nat

\* A reply is a record of two lists, whatever their fields hold.
CpuRecords == [id : Nat, enabled : BOOLEAN]
DomainRecords == [id : Nat, kind : Nat, members : Seq(Nat), parent : Nat]
Topologies == [cpus : Seq(CpuRecords), domains : Seq(DomainRecords)]

ASSUME ReplyAssumption == <<>> \notin Reply /\ Reply \subseteq Topologies

VARIABLES claimed,   \* RawQuerySlot::claimed
          buffer,    \* RawQuerySlot::reply; <<>> before the first query
          storage,   \* SNAPSHOT_STORAGE; <<>> while uninitialized
          pc,        \* where each thread stands
          keep,      \* its last query is a query_ref
          answer,    \* what the kernel answers to the query under way, or <<>>
          snapshot,  \* the result of its last query, or <<>>
          work       \* its last partition_work: [of, total, slices, torn], or <<>>

vars == <<claimed, buffer, storage, pc, keep, answer, snapshot, work>>

Nothing == <<>>

\* The result of a query_ref is a reference: the topology itself has moved to
\* the storage.  No reply from_raw accepts is empty.
InStorage == [cpus |-> <<>>, domains |-> <<>>]

\* DomainKind: every other kind is read as Machine
Numa == 1

Init ==
    /\ claimed = FALSE
    /\ buffer = Nothing
    /\ storage = Nothing
    /\ pc = [t \in Thread |-> "idle"]
    /\ keep = [t \in Thread |-> FALSE]
    /\ answer = [t \in Thread |-> Nothing]
    /\ snapshot = [t \in Thread |-> Nothing]
    /\ work = [t \in Thread |-> Nothing]

-----------------------------------------------------------------------------
(* from_raw                                                                *)

Distinct(s) == \A i, j \in DOMAIN s : s[i] = s[j] => i = j
Ids(s) == [i \in DOMAIN s |-> s[i].id]
IdSet(s) == {s[i].id : i \in DOMAIN s}

\* Mutant: a domain may list a CPU more than once.
ValidDomainRepeats(reply, d) ==
    /\ Len(d.members) <= MaxMembers
    /\ d.kind <= Numa
    /\ \A m \in DOMAIN d.members : d.members[m] \in IdSet(reply.cpus)
    /\ d.parent = 0 \/ d.parent \in IdSet(reply.domains)

ValidDomain(reply, d) ==
    /\ Len(d.members) <= MaxMembers
    /\ d.kind <= Numa
    /\ Distinct(d.members)
    /\ \A m \in DOMAIN d.members : d.members[m] \in IdSet(reply.cpus)
    /\ d.parent = 0 \/ d.parent \in IdSet(reply.domains)

ValidReply(reply) ==
    /\ Len(reply.cpus) \in 1 .. MaxCpus
    /\ Len(reply.domains) \in 1 .. MaxDomains
    /\ Distinct(Ids(reply.cpus))
    /\ Distinct(Ids(reply.domains))
    /\ \A i \in DOMAIN reply.domains : ValidDomain(reply, reply.domains[i])

-----------------------------------------------------------------------------
(* query and query_ref                                                     *)

\* The flag is taken for a query, or for a query_ref if k.
TakeSlot(t, k) ==
    /\ claimed' = TRUE
    /\ keep' = [keep EXCEPT ![t] = k]
    /\ snapshot' = [snapshot EXCEPT ![t] = Nothing]
    /\ work' = [work EXCEPT ![t] = Nothing]
    /\ pc' = [pc EXCEPT ![t] = "claimed"]
    /\ UNCHANGED <<buffer, storage, answer>>

\* Mutant: the flag is set without looking.
AcquireBlind(t) ==
    /\ pc[t] = "idle"
    /\ \E k \in BOOLEAN : TakeSlot(t, k)

\* RawQuerySlot::acquire; a thread that finds it claimed answers Busy
Acquire(t) ==
    /\ pc[t] = "idle"
    /\ ~claimed
    /\ \E k \in BOOLEAN : TakeSlot(t, k)

\* SYS_KAIROS_QUERY
Syscall(t, reply) ==
    /\ pc[t] = "claimed"
    /\ buffer' = reply
    /\ answer' = [answer EXCEPT ![t] = reply]
    /\ \E ok \in BOOLEAN : pc' = [pc EXCEPT ![t] = IF ok THEN "answered" ELSE "release"]
    /\ UNCHANGED <<claimed, storage, keep, snapshot, work>>

\* from_raw, into a local
Convert(t) ==
    /\ pc[t] = "answered"
    /\ \/ /\ ValidReply(buffer)
          /\ snapshot' = [snapshot EXCEPT ![t] = buffer]
          /\ pc' = [pc EXCEPT ![t] = IF keep[t] THEN "store1" ELSE "release"]
       \/ /\ ~ValidReply(buffer)
          /\ pc' = [pc EXCEPT ![t] = "release"]
          /\ UNCHANGED snapshot
    /\ UNCHANGED <<claimed, buffer, storage, keep, answer, work>>

\* Mutant: only the first snapshot brings its CPUs along.
StoreCpusOnce(t) ==
    /\ pc[t] = "store1"
    /\ storage' = IF storage = Nothing
                  THEN [cpus |-> snapshot[t].cpus, domains |-> <<>>]
                  ELSE storage
    /\ pc' = [pc EXCEPT ![t] = "store2"]
    /\ UNCHANGED <<claimed, buffer, keep, answer, snapshot, work>>

\* (*storage).write(snapshot), with the claim still held
StoreCpus(t) ==
    /\ pc[t] = "store1"
    /\ storage' = [cpus |-> snapshot[t].cpus,
                   domains |-> IF storage = Nothing THEN <<>> ELSE storage.domains]
    /\ pc' = [pc EXCEPT ![t] = "store2"]
    /\ UNCHANGED <<claimed, buffer, keep, answer, snapshot, work>>

StoreDomains(t) ==
    /\ pc[t] = "store2"
    /\ storage' = [storage EXCEPT !.domains = snapshot[t].domains]
    /\ snapshot' = [snapshot EXCEPT ![t] = InStorage]
    /\ pc' = [pc EXCEPT ![t] = "release"]
    /\ UNCHANGED <<claimed, buffer, keep, answer, work>>

\* RawQueryGuard::drop, on every way out
Release(t) ==
    /\ pc[t] = "release"
    /\ claimed' = FALSE
    /\ answer' = [answer EXCEPT ![t] = Nothing]
    /\ pc' = [pc EXCEPT ![t] = "idle"]
    /\ UNCHANGED <<buffer, storage, keep, snapshot, work>>

-----------------------------------------------------------------------------
(* partition_work                                                          *)

Enabled(snap, id) == \E i \in DOMAIN snap.cpus : snap.cpus[i].id = id /\ snap.cpus[i].enabled

\* enabled_member_count
Weight(snap, d) == Cardinality({m \in DOMAIN d.members : Enabled(snap, d.members[m])})

\* The NUMA domains with an enabled CPU, in order.
Workers(snap) ==
    LET IsWorker(d) == d.kind = Numa /\ Weight(snap, d) # 0
    IN  Selected(snap.domains, {k \in DOMAIN snap.domains : IsWorker(snap.domains[k])})

\* Mutant: the remainder is not handed out.
ChunksRoundedDown(n, weights) ==
    LET all == Total(weights)
    IN  [i \in DOMAIN weights |->
            (n \div all) * weights[i] + ((n % all) * weights[i]) \div all]

Chunks(n, weights) ==
    LET all == Total(weights)
        base == [i \in DOMAIN weights |->
                    (n \div all) * weights[i] + ((n % all) * weights[i]) \div all]
        left == n - Total(base)
    IN  [i \in DOMAIN base |-> IF i <= left THEN base[i] + 1 ELSE base[i]]

PartitionWork(snap, n) ==
    LET workers == Workers(snap)
        weights == [i \in DOMAIN workers |-> Weight(snap, workers[i])]
        chunks == Chunks(n, weights)
        cursor == Totals(chunks)
    IN  IF workers = <<>>
        THEN <<[domain |-> 0, start |-> 0, end |-> n]>>
        ELSE [i \in DOMAIN workers |->
                [domain |-> workers[i].id, start |-> cursor[i - 1], end |-> cursor[i]]]

\* The threads in the middle of the copy.
Storing == {u \in Thread : pc[u] \in {"store1", "store2"}}

\* What the methods of t's topology may read: its own value, or what the
\* reference shows, which is a race while another thread stores.
Readable(t) ==
    LET sources == {storage} \cup {snapshot[u] : u \in Storing}
    IN  IF snapshot[t] = InStorage
        THEN {[cpus |-> x.cpus, domains |-> y.domains] : x, y \in sources}
        ELSE {snapshot[t]}

Partition(t, n) ==
    /\ pc[t] = "idle"
    /\ snapshot[t] # Nothing
    /\ \E seen \in Readable(t) :
        work' = [work EXCEPT ![t] = [of |-> seen, total |-> n,
                                     slices |-> PartitionWork(seen, n),
                                     torn |-> snapshot[t] = InStorage /\ Storing # {}]]
    /\ UNCHANGED <<claimed, buffer, storage, pc, keep, answer, snapshot>>

Next ==
    \E t \in Thread :
        \/ Acquire(t)
        \/ \E reply \in Reply : Syscall(t, reply)
        \/ Convert(t)
        \/ StoreCpus(t)
        \/ StoreDomains(t)
        \/ Release(t)
        \/ \E n \in 0 .. MaxTotal : Partition(t, n)

Spec == Init /\ [][Next]_vars

-----------------------------------------------------------------------------
\* Every variable has its type; the counts of a snapshot and of the storage
\* are within the bounds of their arrays, also in the middle of a copy.
TypeOK ==
    /\ claimed \in BOOLEAN
    /\ buffer \in Reply \cup {Nothing}
    /\ pc \in [Thread -> {"idle", "claimed", "answered", "store1", "store2", "release"}]
    /\ keep \in [Thread -> BOOLEAN]
    /\ answer \in [Thread -> Reply \cup {Nothing}]
    /\ \A s \in {storage} \cup {snapshot[t] : t \in Thread} :
        s = Nothing \/ (Len(s.cpus) <= MaxCpus /\ Len(s.domains) <= MaxDomains)
    /\ \A t \in Thread : work[t] = Nothing \/ Len(work[t].slices) <= MaxDomains

\* "`claimed` gives the single mutable user exclusive access to `reply`"
\* (line 223): what a thread validates is what the kernel wrote for it.
ReplyIsOwn == \A t \in Thread : pc[t] = "answered" => buffer = answer[t]

\* Every unit of work is in exactly one slice, in domain order and with no
\* gap: the remainder that rounding leaves is smaller than the number of
\* slices it is dealt to (lines 494-496).  This holds whatever topology is
\* read, a mixture included, because the weights are read only once.
WorkIsCovered ==
    \A t \in Thread : work[t] # Nothing =>
        LET p == work[t].slices
        IN  /\ p[1].start = 0
            /\ p[Len(p)].end = work[t].total
            /\ \A i \in 1 .. Len(p) - 1 : p[i].end = p[i + 1].start
            /\ \A i \in DOMAIN p : p[i].start <= p[i].end

\* The enabled CPUs of a domain, as a set.
EnabledCpus(snap, d) == {c \in IdSet(snap.cpus) : Enabled(snap, c) /\ \E m \in DOMAIN d.members : d.members[m] = c}

\* The enabled CPUs of the NUMA domains, by domain.
NumaCpus(snap) ==
    [k \in DOMAIN snap.domains |->
        IF snap.domains[k].kind = Numa THEN Cardinality(EnabledCpus(snap, snap.domains[k])) ELSE 0]

\* "Partitions work proportionally to the number of enabled CPUs in each NUMA
\* domain" (lines 453-454): counting CPUs, not list entries, the share of a
\* domain is short of the exact proportion by less than one unit, and over it
\* by at most one.  Where no NUMA domain has an enabled CPU there is no
\* proportion to keep, and one slice has it all; a topology that was read in
\* the middle of a copy keeps no proportion to anything.
WorkIsProportional ==
    \A t \in Thread : (work[t] # Nothing /\ ~work[t].torn) =>
        LET snap == work[t].of
            slices == work[t].slices
            cpus == NumaCpus(snap)
            all == Total(cpus)
        IN  \A k \in DOMAIN cpus, i \in DOMAIN slices :
                (all # 0 /\ slices[i].domain = snap.domains[k].id) =>
                    LET share == slices[i].end - slices[i].start
                    IN  /\ share * all <= work[t].total * cpus[k] + all
                        /\ work[t].total * cpus[k] < share * all + all
=============================================================================
