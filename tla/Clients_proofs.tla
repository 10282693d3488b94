--------------------------- MODULE Clients_proofs ---------------------------
(***************************************************************************)
(* Safety of three client-side state machines, each by itself: the         *)
(* endpoint gate (any number of sessions, any records a client may write,  *)
(* any width of the sequence counter), the phase manifold (any domains,    *)
(* feature words and number of generations) and the fiber pool (any number *)
(* of fibers and any words their closures return).                         *)
(***************************************************************************)
EXTENDS ArgusEndpoint, HermesManifold, Fabric, TLAPS

-----------------------------------------------------------------------------
(* The endpoint gate and the HTTPS lease.                                  *)

\* Until the counter wraps: no envelope and no executed record is ahead of the
\* sequence the session waits for; a record executed for that sequence is the
\* one in flight, or the session is revoked; and after a late execution the
\* clock is past the lease and no envelope for the awaited sequence is left,
\* unless the late request is itself still in flight or the session revoked.
TurnInv ==
    \A s \in Session : ~wrapped[s] =>
        /\ \A e \in envelopes : e.by = s => e.wire.seq <= nextSeq[s]
        /\ \A x \in executed : x.by = s =>
              /\ x.wire.seq <= nextSeq[s]
              /\ x.wire.seq = nextSeq[s] => revoked[s] \/ (inFlight[s] /\ flying[s].wire = x.wire)
              /\ x.late =>
                    /\ epoch >= Lease[s].expiry
                    /\ \/ revoked[s]
                       \/ inFlight[s] /\ flying[s].wire = x.wire
                       \/ ~inFlight[s] /\ \A e \in envelopes : e.by = s => e.wire.seq # nextSeq[s]

\* BoundToSession needs to know that prepare tags envelopes truthfully, and
\* NoReplayBeforeWrap that only the awaited sequence is ever committed.
EndpointInv ==
    /\ TypeOK
    /\ TaggedByLease
    /\ BoundToSession
    /\ RevocationIsTerminal
    /\ NoReplayBeforeWrap
    /\ TurnInv
    /\ OneRequestPerTurn

\* next_sequence stays a non-zero u32 (line 645).
LEMMA SuccessorInRange == \A n \in 1 .. MaxSequence : Successor(n) \in 1 .. MaxSequence
  BY EndpointAssumption DEF Successor

\* An envelope that passes validate_envelope at a session was made for it.
LEMMA ValidatedIsOwn ==
  ASSUME EndpointInv, NEW s \in Session, NEW e \in envelopes, ValidateEnvelope(s, e)
  PROVE  e.by = s /\ e.wire.seq = nextSeq[s] /\ e \in Envelope
<1>1. e \in Envelope /\ e.by \in Session /\ e.lease = Lease[e.by]
  BY DEF EndpointInv, TypeOK, TaggedByLease, Envelope
<1>2. SameLease(Lease[e.by], Lease[s])
  BY <1>1 DEF ValidateEnvelope
<1>3. e.by = s
  BY <1>1, <1>2, EndpointAssumption
<1>4. QED
  BY <1>1, <1>3 DEF ValidateEnvelope

\* Every call of the session, the transport and the clock preserves EndpointInv.
LEMMA EndpointInductive == Spec => []EndpointInv
<1>1. Init => EndpointInv
  BY EndpointAssumption
     DEF Init, EndpointInv, TypeOK, TaggedByLease, BoundToSession, RevocationIsTerminal,
         NoReplayBeforeWrap, TurnInv, OneRequestPerTurn
<1>2. EndpointInv /\ [Next]_vars => EndpointInv'
  <2> SUFFICES ASSUME EndpointInv, [Next]_vars
               PROVE  EndpointInv'
    OBVIOUS
  <2> USE EndpointAssumption DEF sessionVars, ghostVars
  <2>0. /\ TypeOK /\ TaggedByLease /\ BoundToSession /\ RevocationIsTerminal
        /\ NoReplayBeforeWrap /\ TurnInv /\ OneRequestPerTurn
    BY DEF EndpointInv
  <2>1. CASE Tick
    <3>1. /\ TypeOK' /\ TaggedByLease' /\ BoundToSession' /\ RevocationIsTerminal'
          /\ NoReplayBeforeWrap' /\ OneRequestPerTurn'
      BY <2>0, <2>1 DEF Tick, TypeOK, TaggedByLease, BoundToSession, RevocationIsTerminal,
           NoReplayBeforeWrap, OneRequestPerTurn
    <3>2. TurnInv'
      BY <2>0, <2>1 DEF Tick, TypeOK, TurnInv
    <3>3. QED
      BY <3>1, <3>2 DEF EndpointInv
  <2>2. ASSUME NEW e \in envelopes, Discard(e) PROVE EndpointInv'
    <3>1. /\ TypeOK' /\ TaggedByLease' /\ BoundToSession' /\ RevocationIsTerminal'
          /\ NoReplayBeforeWrap' /\ OneRequestPerTurn'
      BY <2>0, <2>2 DEF Discard, TypeOK, TaggedByLease, BoundToSession, RevocationIsTerminal,
           NoReplayBeforeWrap, OneRequestPerTurn
    <3>2. TurnInv'
      BY <2>0, <2>2 DEF Discard, TurnInv
    <3>3. QED
      BY <3>1, <3>2 DEF EndpointInv
  <2>3. ASSUME NEW s \in Session, NEW w \in Wire, Prepare(s, w) PROVE EndpointInv'
    <3>1. /\ TypeOK' /\ TaggedByLease' /\ BoundToSession' /\ RevocationIsTerminal'
          /\ NoReplayBeforeWrap' /\ OneRequestPerTurn'
      BY <2>0, <2>3 DEF Prepare, Envelope, TypeOK, TaggedByLease, BoundToSession,
           RevocationIsTerminal, NoReplayBeforeWrap, OneRequestPerTurn
    <3>2. TurnInv'
      <4>1. /\ envelopes' = envelopes \cup {[by |-> s, lease |-> Lease[s], wire |-> w]}
            /\ w.seq = nextSeq[s] /\ epoch < Lease[s].expiry
            /\ UNCHANGED <<epoch, nextSeq, inFlight, revoked, flying, wrapped, executed>>
        BY <2>3 DEF Prepare, AuthorizeRequest
      <4>2. epoch \in Nat /\ Lease[s].expiry \in Nat /\ nextSeq[s] \in Nat
        BY <2>0 DEF TypeOK
      <4>3. QED
        BY <2>0, <4>1, <4>2 DEF TurnInv
    <3>3. QED
      BY <3>1, <3>2 DEF EndpointInv
  <2>4. ASSUME NEW s \in Session, NEW e \in envelopes, Commit(s, e) PROVE EndpointInv'
    <3>1. e.by = s /\ e.wire.seq = nextSeq[s] /\ e \in Envelope /\ e # None
      BY <2>4, ValidatedIsOwn DEF Commit, Envelope
    <3>2. TypeOK' /\ TaggedByLease' /\ OneRequestPerTurn'
      BY <2>0, <2>4, <3>1 DEF Commit, TypeOK, TaggedByLease, OneRequestPerTurn
    <3>3. BoundToSession' /\ RevocationIsTerminal'
      BY <2>0, <2>4, <3>1 DEF Commit, TypeOK, BoundToSession, RevocationIsTerminal
    <3>4. NoReplayBeforeWrap'
      BY <2>0, <2>4, <3>1 DEF Commit, TypeOK, NoReplayBeforeWrap
    <3>5. TurnInv'
      <4>1. /\ ~revoked[s] /\ ~inFlight[s]
            /\ inFlight' = [inFlight EXCEPT ![s] = TRUE]
            /\ flying' = [flying EXCEPT ![s] = e]
            /\ UNCHANGED <<epoch, nextSeq, revoked, envelopes, wrapped, executed>>
        BY <2>4 DEF Commit
      <4>2. \A x \in executed : x.by = s /\ ~wrapped[s] => x.wire.seq # nextSeq[s] /\ ~x.late
        BY <2>0, <3>1, <4>1 DEF TurnInv
      <4>3. QED
        BY <2>0, <4>1, <4>2 DEF TypeOK, TurnInv
    <3>6. QED
      BY <3>2, <3>3, <3>4, <3>5 DEF EndpointInv
  <2>5. ASSUME NEW s \in Session, Execute(s) PROVE EndpointInv'
    <3> DEFINE new == [by |-> s, wire |-> flying[s].wire, late |-> epoch >= Lease[s].expiry]
    <3>1. /\ flying[s].wire \in Wire /\ flying[s].wire.seq = nextSeq[s]
          /\ inFlight[s] /\ ~revoked[s]
      BY <2>0, <2>5 DEF Execute, Envelope, TypeOK, BoundToSession, RevocationIsTerminal
    <3>2. /\ executed' = executed \cup {new}
          /\ UNCHANGED <<epoch, nextSeq, inFlight, revoked, envelopes, flying, committed, wrapped>>
      BY <2>5 DEF Execute
    <3>3. /\ new \in [by : Session, wire : Wire, late : BOOLEAN]
          /\ new.by = s /\ new.wire = flying[s].wire
          /\ new.late => epoch >= Lease[s].expiry
      <4> DEFINE late == epoch >= Lease[s].expiry
      <4>1. late \in BOOLEAN
        OBVIOUS
      <4>2. late => epoch >= Lease[s].expiry
        OBVIOUS
      <4>3. new = [by |-> s, wire |-> flying[s].wire, late |-> late]
        OBVIOUS
      <4> HIDE DEF late
      <4>4. QED
        BY <3>1, <4>1, <4>2, <4>3, Zenon
    <3> HIDE DEF new
    <3>4. /\ TypeOK' /\ TaggedByLease' /\ BoundToSession' /\ RevocationIsTerminal'
          /\ NoReplayBeforeWrap'
      BY <2>0, <3>2, <3>3 DEF TypeOK, TaggedByLease, BoundToSession, RevocationIsTerminal,
           NoReplayBeforeWrap
    <3>5. \A x \in executed : x.by = s /\ ~wrapped[s] /\ (x.wire.seq = nextSeq[s] \/ x.late)
                              => x.wire = new.wire
      BY <2>0, <3>1, <3>3 DEF TurnInv
    <3>6. OneRequestPerTurn'
      BY <2>0, <3>1, <3>2, <3>3, <3>5 DEF OneRequestPerTurn
    <3>7. TurnInv'
      <4>1. nextSeq[s] \in Nat
        BY <2>0 DEF TypeOK
      <4>2. QED
        BY <2>0, <3>1, <3>2, <3>3, <4>1 DEF TurnInv
    <3>8. QED
      BY <3>4, <3>6, <3>7 DEF EndpointInv
  <2>6. ASSUME NEW s \in Session, Complete(s) PROVE EndpointInv'
    <3>1. TypeOK' /\ TaggedByLease'
      BY <2>0, <2>6, SuccessorInRange DEF Complete, TypeOK, TaggedByLease
    <3>2. BoundToSession' /\ RevocationIsTerminal'
      BY <2>0, <2>6 DEF Complete, TypeOK, BoundToSession, RevocationIsTerminal
    <3>3. NoReplayBeforeWrap'
      BY <2>0, <2>6 DEF Complete, Successor, TypeOK, BoundToSession, RevocationIsTerminal,
           NoReplayBeforeWrap
    <3>4. OneRequestPerTurn'
      BY <2>0, <2>6 DEF Complete, TypeOK, OneRequestPerTurn
    <3>5. TurnInv'
      <4>1. /\ inFlight[s] /\ ~revoked[s]
            /\ inFlight' = [inFlight EXCEPT ![s] = FALSE]
            /\ nextSeq' = [nextSeq EXCEPT ![s] = Successor(nextSeq[s])]
            /\ wrapped' = [wrapped EXCEPT ![s] = wrapped[s] \/ nextSeq[s] = MaxSequence]
            /\ flying' = [flying EXCEPT ![s] = None]
            /\ UNCHANGED <<epoch, revoked, envelopes, executed>>
        BY <2>0, <2>6 DEF Complete, RevocationIsTerminal
      <4>2. \A t \in Session : t # s => /\ nextSeq'[t] = nextSeq[t] /\ wrapped'[t] = wrapped[t]
                                         /\ inFlight'[t] = inFlight[t] /\ flying'[t] = flying[t]
        BY <2>0, <4>1 DEF TypeOK
      <4>3. /\ nextSeq[s] \in Nat /\ ~inFlight'[s]
            /\ ~wrapped'[s] => ~wrapped[s] /\ nextSeq'[s] = nextSeq[s] + 1
        BY <2>0, <4>1 DEF TypeOK, Successor
      <4>4. /\ \A x \in executed : x.wire.seq \in Nat
            /\ \A e \in envelopes : e.wire.seq \in Nat
        BY <2>0 DEF TypeOK, Envelope
      <4>5. ASSUME NEW t \in Session, ~wrapped'[t]
            PROVE  /\ \A e \in envelopes' : e.by = t => e.wire.seq <= nextSeq'[t]
                   /\ \A x \in executed' : x.by = t =>
                        /\ x.wire.seq <= nextSeq'[t]
                        /\ x.wire.seq = nextSeq'[t] =>
                              revoked'[t] \/ (inFlight'[t] /\ flying'[t].wire = x.wire)
                        /\ x.late =>
                              /\ epoch' >= Lease[t].expiry
                              /\ \/ revoked'[t]
                                 \/ inFlight'[t] /\ flying'[t].wire = x.wire
                                 \/ ~inFlight'[t] /\ \A e \in envelopes' :
                                        e.by = t => e.wire.seq # nextSeq'[t]
        <5>1. CASE t = s
          BY <2>0, <4>1, <4>3, <4>4, <4>5, <5>1 DEF TurnInv
        <5>2. CASE t # s
          BY <2>0, <4>1, <4>2, <4>5, <5>2 DEF TurnInv
        <5>3. QED
          BY <5>1, <5>2
      <4>6. QED
        BY <4>5 DEF TurnInv
    <3>6. QED
      BY <3>1, <3>2, <3>3, <3>4, <3>5 DEF EndpointInv
  <2>7. ASSUME NEW s \in Session, Revoke(s) PROVE EndpointInv'
    <3>1. /\ TypeOK' /\ TaggedByLease' /\ BoundToSession' /\ RevocationIsTerminal'
          /\ NoReplayBeforeWrap' /\ OneRequestPerTurn'
      BY <2>0, <2>7 DEF Revoke, TypeOK, TaggedByLease, BoundToSession, RevocationIsTerminal,
           NoReplayBeforeWrap, OneRequestPerTurn
    <3>2. TurnInv'
      BY <2>0, <2>7 DEF Revoke, TypeOK, TurnInv
    <3>3. QED
      BY <3>1, <3>2 DEF EndpointInv
  <2>8. CASE UNCHANGED vars
    BY <2>0, <2>8 DEF vars, EndpointInv, TypeOK, TaggedByLease, BoundToSession,
         RevocationIsTerminal, NoReplayBeforeWrap, TurnInv, OneRequestPerTurn
  <2>9. QED
    BY <2>1, <2>2, <2>3, <2>4, <2>5, <2>6, <2>7, <2>8 DEF Next
<1>3. QED
  BY <1>1, <1>2, PTL DEF Spec

\* Type correctness: in particular next_sequence is never zero.
THEOREM EndpointTypeCorrect == Spec => []TypeOK
<1>1. EndpointInv => TypeOK
  BY DEF EndpointInv
<1>2. QED
  BY <1>1, EndpointInductive, PTL

\* A request prepared for another endpoint or mapping generation is never in
\* flight at a session.
THEOREM NoCrossReplay == Spec => []BoundToSession
<1>1. EndpointInv => BoundToSession
  BY DEF EndpointInv
<1>2. QED
  BY <1>1, EndpointInductive, PTL

\* Revocation is terminal.
THEOREM RevocationTerminal == Spec => []RevocationIsTerminal
<1>1. EndpointInv => RevocationIsTerminal
  BY DEF EndpointInv
<1>2. QED
  BY <1>1, EndpointInductive, PTL

\* No sequence is committed twice at a session before the counter wraps.
THEOREM NoReplay == Spec => []NoReplayBeforeWrap
<1>1. EndpointInv => NoReplayBeforeWrap
  BY DEF EndpointInv
<1>2. QED
  BY <1>1, EndpointInductive, PTL

\* Until the counter wraps the transport acts on one record per sequence, and
\* on one at most after the endpoint lease has expired.
THEOREM OneRequestActedOn == Spec => []OneRequestPerTurn
<1>1. EndpointInv => OneRequestPerTurn
  BY DEF EndpointInv
<1>2. QED
  BY <1>1, EndpointInductive, PTL

-----------------------------------------------------------------------------
(* The phase manifold.                                                     *)

\* The type invariant, the ladder and the earned certificate are inductive
\* together: a certificate is sealed over evidence the ladder has gathered.
HermesInv == HermesTypeOK /\ EvidenceLadder /\ OnlineIsEarned

\* generation.wrapping_add(1) (line 388) stays a generation.
LEMMA GenerationWraps == \A g \in 0 .. Generations - 1 : (g + 1) % Generations \in 0 .. Generations - 1
  BY HermesAssumption

\* Every transition of the manifold (lines 281-390) preserves HermesInv.
LEMMA HermesInductive == HermesSpec => []HermesInv
<1>1. HermesInit => HermesInv
  BY HermesAssumption
     DEF HermesInit, HermesInv, HermesTypeOK, EvidenceLadder, OnlineIsEarned, NoEvidence, Phases, Certified
<1>2. HermesInv /\ [HermesNext]_hermesVars => HermesInv'
  <2> SUFFICES ASSUME HermesInv, [HermesNext]_hermesVars
               PROVE  HermesInv'
    OBVIOUS
  <2> USE HermesAssumption
      DEF HermesInv, HermesTypeOK, EvidenceLadder, OnlineIsEarned, Phases, Certified
  <2>1. CASE ObserveProbe
    BY <2>1 DEF ObserveProbe
  <2>2. CASE ObserveFirmware
    BY <2>2 DEF ObserveFirmware
  <2>3. ASSUME NEW domain \in Domain, ArmQueues(domain) PROVE HermesInv'
    BY <2>3 DEF ArmQueues
  <2>4. ASSUME NEW features \in FeatureSet, Negotiate(features) PROVE HermesInv'
    BY <2>4 DEF Negotiate
  <2>5. ASSUME NEW wpr \in BOOLEAN, NEW mailbox \in BOOLEAN, NEW ready \in BOOLEAN,
               Ignite(wpr, mailbox, ready)
        PROVE  HermesInv'
    <3>1. CASE OnlineReady(evidence')
      <4>1. /\ evidence' = [evidence EXCEPT !.wpr = wpr, !.mailbox = mailbox, !.ready = ready]
            /\ certificate' = Seal(generation, evidence')
            /\ phase = "Negotiated" /\ phase' = "Online"
            /\ UNCHANGED <<generation, corrected, fatal>>
        BY <2>5, <3>1 DEF Ignite
      <4>2. /\ evidence'.domain = evidence.domain /\ evidence'.features = evidence.features
            /\ evidence'.pci = evidence.pci /\ evidence'.firmware = evidence.firmware
            /\ evidence'.iommu = evidence.iommu
        BY <4>1
      <4>3. evidence.domain \in Domain /\ evidence.features \in FeatureSet
        BY <4>1
      <4>4. HermesTypeOK'
        BY <4>1, <4>2, <4>3, ZenonT(60) DEF Seal
      <4>5. EvidenceLadder'
        BY <4>1, <4>2
      <4>6. OnlineIsEarned'
        BY <3>1, <4>1 DEF OnlineReady
      <4>7. QED
        BY <4>4, <4>5, <4>6
    <3>2. CASE ~OnlineReady(evidence')
      BY <2>5, <3>2 DEF Ignite
    <3>3. QED
      BY <3>1, <3>2
  <2>6. ASSUME NEW isFatal \in BOOLEAN, DetectFault(isFatal) PROVE HermesInv'
    BY <2>6 DEF DetectFault, Count, Seal
  <2>7. CASE Restore
    BY <2>7 DEF Restore, Seal
  <2>8. CASE Contain
    BY <2>8 DEF Contain, Seal
  <2>9. CASE Release
    BY <2>9, GenerationWraps DEF Release, NoEvidence
  <2>10. CASE UNCHANGED hermesVars
    BY <2>10 DEF hermesVars, Seal
  <2>11. QED
    BY <2>1, <2>2, <2>3, <2>4, <2>5, <2>6, <2>7, <2>8, <2>9, <2>10 DEF HermesNext
<1>3. QED
  BY <1>1, <1>2, PTL DEF HermesSpec

\* Type correctness of the manifold.
THEOREM HermesTypeCorrect == HermesSpec => []HermesTypeOK
<1>1. HermesInv => HermesTypeOK
  BY DEF HermesInv
<1>2. QED
  BY <1>1, HermesInductive, PTL

\* Evidence never runs ahead of the phase.
THEOREM LadderHolds == HermesSpec => []EvidenceLadder
<1>1. HermesInv => EvidenceLadder
  BY DEF HermesInv
<1>2. QED
  BY <1>1, HermesInductive, PTL

\* Online, Recovering and Quarantined rest on complete evidence and on the
\* certificate sealed over it; no other phase has a certificate.
THEOREM OnlineEarned == HermesSpec => []OnlineIsEarned
<1>1. HermesInv => OnlineIsEarned
  BY DEF HermesInv
<1>2. QED
  BY <1>1, HermesInductive, PTL

\* The snapshot flags name the phase: is_online (line 258) never disagrees
\* with the phase, because Online always has its certificate.
THEOREM FlagsArePhase == HermesSpec => []FlagsTellPhase
<1>1. HermesInv => FlagsTellPhase
  <2> SUFFICES ASSUME HermesInv
               PROVE  FlagsTellPhase
    OBVIOUS
  <2>1. phase = "Online" => certificate # NoCertificate
    BY HermesAssumption DEF HermesInv, HermesTypeOK, OnlineIsEarned, Certified, Seal
  <2>2. QED
    BY <2>1 DEF FlagsTellPhase, SnapshotFlags, IsOnline
<1>2. QED
  BY <1>1, HermesInductive, PTL

\* A certificate ends only with its generation.
THEOREM CertificateFinal == HermesSpec => CertificateIsFinal
<1>1. HermesInv /\ [HermesNext]_hermesVars =>
        [(certificate # NoCertificate /\ certificate' # certificate) =>
            (certificate' = NoCertificate /\ generation' = (generation + 1) % Generations
             /\ phase = "Quarantined")]_hermesVars
  <2> SUFFICES ASSUME HermesInv, HermesNext, certificate # NoCertificate, certificate' # certificate
               PROVE  certificate' = NoCertificate /\ generation' = (generation + 1) % Generations
                      /\ phase = "Quarantined"
    BY DEF hermesVars
  <2>1. phase # "Negotiated"
    BY DEF HermesInv, OnlineIsEarned, Certified
  <2>2. QED
    BY <2>1 DEF HermesNext, ObserveProbe, ObserveFirmware, ArmQueues, Negotiate, Ignite,
                DetectFault, Restore, Contain, Release
<1>2. QED
  BY <1>1, HermesInductive, PTL DEF HermesSpec, CertificateIsFinal

-----------------------------------------------------------------------------
(* The fiber pool.                                                         *)

\* The owner's cursor and the slots it has not lent yet.
PoolShape ==
    /\ pc \in {"spawn", "spawned"} => cursor + 1 = count
    /\ pc \in {"harvest", "join"} => cursor <= count
    /\ pc = "spawn" => thread[cursor] = "none"
    /\ \A s \in Slots : s >= count => thread[s] = "none"

\* An outcome other than the pending mark was stored by the slot's own fiber,
\* whose tid the owner knows as soon as it is back from spawn.
OutcomesAreOwn ==
    \A s \in Slots :
        /\ outcome[s] # Pending => s \in Completed /\ outcome[s] = result[s]
        /\ thread[s] # "none" => tid[s] # 0 \/ (pc = "spawned" /\ cursor = s)

\* join_all has passed only slots with an outcome.
JoinedIsDone == pc = "join" => \A s \in Slots : s < cursor => outcome[s] # Pending

FabricInv == FabricTypeOK /\ PoolShape /\ OutcomesAreOwn /\ JoinedIsDone /\ HarvestIsTruthful

\* Every step of the owner and of the fibers preserves FabricInv.
LEMMA FabricInductive == FabricSpec => []FabricInv
<1> USE FabricAssumption
<1>1. FabricInit => FabricInv
  BY DEF FabricInit, FabricInv, FabricTypeOK, PoolShape, OutcomesAreOwn, JoinedIsDone,
         HarvestIsTruthful, Slots
<1>2. FabricInv /\ [FabricNext]_fabricVars => FabricInv'
  <2> SUFFICES ASSUME FabricInv, [FabricNext]_fabricVars
               PROVE  FabricInv'
    OBVIOUS
  <2> USE DEF FabricInv, fiber
  <2>1. CASE NextSlot
    <3>1. FabricTypeOK' /\ PoolShape'
      BY <2>1 DEF NextSlot, FabricTypeOK, PoolShape, Slots
    <3>2. OutcomesAreOwn' /\ JoinedIsDone' /\ HarvestIsTruthful'
      BY <2>1 DEF NextSlot, OutcomesAreOwn, JoinedIsDone, HarvestIsTruthful, Completed
    <3>3. QED
      BY <3>1, <3>2
  <2>2. CASE SpawnCall
    <3>1. FabricTypeOK' /\ PoolShape'
      BY <2>2 DEF SpawnCall, FabricTypeOK, PoolShape, Slots
    <3>2. OutcomesAreOwn' /\ JoinedIsDone' /\ HarvestIsTruthful'
      BY <2>2 DEF SpawnCall, FabricTypeOK, PoolShape, OutcomesAreOwn, JoinedIsDone,
                  HarvestIsTruthful, Completed
    <3>3. QED
      BY <3>1, <3>2
  <2>3. CASE SpawnReturn
    <3>1. FabricTypeOK' /\ PoolShape'
      BY <2>3 DEF SpawnReturn, FabricTypeOK, PoolShape, Slots
    <3>2. OutcomesAreOwn' /\ JoinedIsDone' /\ HarvestIsTruthful'
      BY <2>3 DEF SpawnReturn, FabricTypeOK, PoolShape, OutcomesAreOwn, JoinedIsDone,
                  HarvestIsTruthful, Completed, Slots
    <3>3. QED
      BY <3>1, <3>2
  <2>4. CASE SpawnFail
    <3>1. FabricTypeOK' /\ PoolShape'
      BY <2>4 DEF SpawnFail, FabricTypeOK, PoolShape, Slots
    <3>2. OutcomesAreOwn' /\ JoinedIsDone' /\ HarvestIsTruthful'
      BY <2>4 DEF SpawnFail, FabricTypeOK, PoolShape, OutcomesAreOwn, JoinedIsDone,
                  HarvestIsTruthful, Completed
    <3>3. QED
      BY <3>1, <3>2
  <2>5. ASSUME NEW s \in Slots, FiberStore(s) PROVE FabricInv'
    <3>1. FabricTypeOK' /\ PoolShape'
      BY <2>5 DEF FiberStore, FabricTypeOK, PoolShape, Slots
    <3>2. OutcomesAreOwn' /\ JoinedIsDone' /\ HarvestIsTruthful'
      BY <2>5 DEF FiberStore, FabricTypeOK, PoolShape, OutcomesAreOwn, JoinedIsDone,
                  HarvestIsTruthful, Completed
    <3>3. QED
      BY <3>1, <3>2
  <2>6. ASSUME NEW s \in Slots, FiberExit(s) PROVE FabricInv'
    <3>1. FabricTypeOK' /\ PoolShape'
      BY <2>6 DEF FiberExit, FabricTypeOK, PoolShape, Slots
    <3>2. OutcomesAreOwn' /\ JoinedIsDone' /\ HarvestIsTruthful'
      BY <2>6 DEF FiberExit, FabricTypeOK, PoolShape, OutcomesAreOwn, JoinedIsDone,
                  HarvestIsTruthful, Completed
    <3>3. QED
      BY <3>1, <3>2
  <2>7. CASE HarvestCall \/ JoinCall
    BY <2>7 DEF HarvestCall, JoinCall, Begin, FabricTypeOK, PoolShape, OutcomesAreOwn,
                JoinedIsDone, HarvestIsTruthful, Completed, Slots
  <2>8. CASE HarvestStep
    <3>1. PoolShape' /\ OutcomesAreOwn' /\ JoinedIsDone'
      BY <2>8 DEF HarvestStep, FabricTypeOK, PoolShape, OutcomesAreOwn, JoinedIsDone, Completed
    <3>2. FabricTypeOK'
      BY <2>8 DEF HarvestStep, FabricTypeOK, PoolShape, Slots
    <3>3. HarvestIsTruthful'
      BY <2>8 DEF HarvestStep, FabricTypeOK, OutcomesAreOwn, HarvestIsTruthful, Completed, Done, Slots
    <3>4. QED
      BY <3>1, <3>2, <3>3
  <2>9. CASE JoinStep
    <3>1. FabricTypeOK' /\ PoolShape'
      BY <2>9 DEF JoinStep, FabricTypeOK, PoolShape, Slots
    <3>2. OutcomesAreOwn' /\ JoinedIsDone' /\ HarvestIsTruthful'
      BY <2>9 DEF JoinStep, FabricTypeOK, PoolShape, OutcomesAreOwn, JoinedIsDone,
                  HarvestIsTruthful, Completed, Done, Slots
    <3>3. QED
      BY <3>1, <3>2
  <2>10. CASE UNCHANGED fabricVars
    BY <2>10 DEF fabricVars, FabricTypeOK, PoolShape, OutcomesAreOwn, JoinedIsDone,
                 HarvestIsTruthful, Completed
  <2>11. QED
    BY <2>1, <2>2, <2>3, <2>4, <2>5, <2>6, <2>7, <2>8, <2>9, <2>10 DEF FabricNext, JoinSpin
<1>3. QED
  BY <1>1, <1>2, PTL DEF FabricSpec

\* What harvest_all reports is the outcome of a finished fiber, under its tid.
THEOREM HarvestsAreTruthful == FabricSpec => []HarvestIsTruthful
<1>1. FabricInv => HarvestIsTruthful
  BY DEF FabricInv
<1>2. QED
  BY <1>1, FabricInductive, PTL

\* join_all does not return while a spawned fiber is still running.
THEOREM JoinIsPatient == FabricSpec => JoinWaits
<1>1. FabricInv /\ [FabricNext]_fabricVars =>
        [(pc = "join" /\ pc' = "idle") => Spawned \subseteq Completed]_fabricVars
  <2> SUFFICES ASSUME FabricInv, FabricNext, pc = "join", pc' = "idle", NEW s \in Spawned
               PROVE  s \in Completed
    BY DEF fabricVars
  <2>1. cursor = count
    BY DEF FabricNext, NextSlot, SpawnCall, SpawnReturn, SpawnFail, FiberStore, FiberExit,
           HarvestCall, JoinCall, Begin, HarvestStep, JoinStep, JoinSpin, fabricVars
  <2>2. s \in Slots /\ s < count
    BY FabricAssumption DEF FabricInv, FabricTypeOK, PoolShape, Spawned, Slots
  <2>3. QED
    BY <2>1, <2>2 DEF FabricInv, JoinedIsDone, OutcomesAreOwn
<1>2. QED
  BY <1>1, FabricInductive, PTL DEF FabricSpec, JoinWaits
=============================================================================
