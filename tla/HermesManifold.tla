--------------------------- MODULE HermesManifold ---------------------------
(***************************************************************************)
(* hermes_manifold.rs: the phases of the Hermes device, the evidence       *)
(* gathered on the way, and the certificate that Online rests on.  A call  *)
(* made in the wrong phase or with insufficient evidence is refused; all   *)
(* of them leave the state alone except ignite, which records its three    *)
(* observations before the certificate is sealed.                          *)
(***************************************************************************)
EXTENDS Naturals, FiniteSets

CONSTANTS Domain,         \* DMA domains, without the reserved 0
          FeatureSet,     \* feature words a device may offer, as sets of bits
          Generations,    \* 2^32, the number of generations before the wrap
          MaxFaults,      \* u32::MAX, where the fault counters saturate
          NoCertificate

ASSUME HermesAssumption ==
    /\ Generations \in Nat \ {0}
    /\ MaxFaults \in Nat
    /\ 0 \notin Domain
    /\ NoCertificate \notin [generation : Nat, domain : Domain, features : FeatureSet]

VARIABLES generation, phase, evidence, certificate, corrected, fatal

hermesVars == <<generation, phase, evidence, certificate, corrected, fatal>>

\* HermesEvidence::empty
NoEvidence ==
    [pci |-> FALSE, firmware |-> FALSE, iommu |-> FALSE, domain |-> 0,
     wpr |-> FALSE, mailbox |-> FALSE, ready |-> FALSE, features |-> {}]

\* feature::well_formed
WellFormed(bits) ==
    bits # {} =>
        /\ "BOOT_RPC" \in bits
        /\ "COMMAND_RING" \in bits <=> "EVENT_RING" \in bits
        /\ "DISPLAY" \in bits => "COMMAND_RING" \in bits
        /\ "COMPUTE" \in bits => "MEMORY_MANAGEMENT" \in bits
        /\ "POWER" \in bits => "TELEMETRY" \in bits

\* Mutant: the silent ready queue is not noticed.
OnlineReadyNoQueue(e) ==
    /\ e.pci /\ e.firmware /\ e.iommu /\ e.domain # 0
    /\ e.wpr /\ e.mailbox
    /\ e.features # {} /\ WellFormed(e.features)

\* HermesEvidence::online_ready
OnlineReady(e) ==
    /\ e.pci /\ e.firmware /\ e.iommu /\ e.domain # 0
    /\ e.wpr /\ e.mailbox /\ e.ready
    /\ e.features # {} /\ WellFormed(e.features)

\* OnlineCertificate::seal; its root is a function of these fields.
Seal(gen, e) == [generation |-> gen, domain |-> e.domain, features |-> e.features]

\* HermesManifold::dark(0)
HermesInit ==
    /\ generation = 0
    /\ phase = "Offline"
    /\ evidence = NoEvidence
    /\ certificate = NoCertificate
    /\ corrected = 0
    /\ fatal = 0

ObserveProbe ==
    /\ phase = "Offline"
    /\ evidence' = [evidence EXCEPT !.pci = TRUE]
    /\ phase' = "Probed"
    /\ UNCHANGED <<generation, certificate, corrected, fatal>>

ObserveFirmware ==
    /\ phase = "Probed"
    /\ evidence' = [evidence EXCEPT !.firmware = TRUE]
    /\ phase' = "Firmwared"
    /\ UNCHANGED <<generation, certificate, corrected, fatal>>

ArmQueues(domain) ==
    /\ phase = "Firmwared"
    /\ evidence' = [evidence EXCEPT !.iommu = TRUE, !.domain = domain]
    /\ phase' = "Queued"
    /\ UNCHANGED <<generation, certificate, corrected, fatal>>

Negotiate(features) ==
    /\ phase = "Queued"
    /\ features # {}
    /\ WellFormed(features)
    /\ evidence' = [evidence EXCEPT !.features = features]
    /\ phase' = "Negotiated"
    /\ UNCHANGED <<generation, certificate, corrected, fatal>>

Ignite(wpr, mailbox, ready) ==
    /\ phase = "Negotiated"
    /\ evidence' = [evidence EXCEPT !.wpr = wpr, !.mailbox = mailbox, !.ready = ready]
    /\ IF OnlineReady(evidence')
       THEN /\ certificate' = Seal(generation, evidence')
            /\ phase' = "Online"
       ELSE UNCHANGED <<certificate, phase>>
    /\ UNCHANGED <<generation, corrected, fatal>>

Count(n) == IF n = MaxFaults THEN n ELSE n + 1

DetectFault(isFatal) ==
    /\ phase = "Online"
    /\ certificate # NoCertificate
    /\ IF isFatal
       THEN fatal' = Count(fatal) /\ UNCHANGED corrected
       ELSE corrected' = Count(corrected) /\ UNCHANGED fatal
    /\ phase' = "Recovering"
    /\ UNCHANGED <<generation, evidence, certificate>>

Restore ==
    /\ phase = "Recovering"
    /\ certificate # NoCertificate
    /\ phase' = "Online"
    /\ UNCHANGED <<generation, evidence, certificate, corrected, fatal>>

Contain ==
    /\ phase = "Recovering"
    /\ phase' = "Quarantined"
    /\ UNCHANGED <<generation, evidence, certificate, corrected, fatal>>

\* Mutant: the generation is not advanced.
ReleaseSameGeneration ==
    /\ phase = "Quarantined"
    /\ phase' = "Offline"
    /\ evidence' = NoEvidence
    /\ certificate' = NoCertificate
    /\ corrected' = 0 /\ fatal' = 0
    /\ UNCHANGED generation

Release ==
    /\ phase = "Quarantined"
    /\ generation' = (generation + 1) % Generations
    /\ phase' = "Offline"
    /\ evidence' = NoEvidence
    /\ certificate' = NoCertificate
    /\ corrected' = 0 /\ fatal' = 0

HermesNext ==
    \/ ObserveProbe
    \/ ObserveFirmware
    \/ \E domain \in Domain : ArmQueues(domain)
    \/ \E features \in FeatureSet : Negotiate(features)
    \/ \E wpr, mailbox, ready \in BOOLEAN : Ignite(wpr, mailbox, ready)
    \/ \E isFatal \in BOOLEAN : DetectFault(isFatal)
    \/ Restore
    \/ Contain
    \/ Release

HermesSpec == HermesInit /\ [][HermesNext]_hermesVars

\* is_online
IsOnline == phase = "Online" /\ certificate # NoCertificate

\* snapshot_flags
SnapshotFlags ==
    {f \in {"HERMES_ONLINE", "RECOVERY_PENDING", "QUARANTINE_ACTIVE", "DMA_REVOKED"} :
        CASE f = "HERMES_ONLINE" -> IsOnline
          [] f = "RECOVERY_PENDING" -> phase = "Recovering"
          [] OTHER -> phase = "Quarantined"}

-----------------------------------------------------------------------------
Phases == {"Offline", "Probed", "Firmwared", "Queued", "Negotiated", "Online",
           "Recovering", "Quarantined"}
Certified == {"Online", "Recovering", "Quarantined"}

\* Every variable has its type.
HermesTypeOK ==
    /\ generation \in 0 .. Generations - 1
    /\ phase \in Phases
    /\ evidence \in [pci : BOOLEAN, firmware : BOOLEAN, iommu : BOOLEAN, domain : Domain \cup {0},
                     wpr : BOOLEAN, mailbox : BOOLEAN, ready : BOOLEAN,
                     features : FeatureSet \cup {{}}]
    /\ certificate \in [generation : 0 .. Generations - 1, domain : Domain,
                        features : FeatureSet] \cup {NoCertificate}
    /\ corrected \in 0 .. MaxFaults
    /\ fatal \in 0 .. MaxFaults

\* Evidence is gathered one gate at a time and never ahead of the phase: what
\* a later gate will ask for is still absent, also after a release.
EvidenceLadder ==
    /\ evidence.pci <=> phase # "Offline"
    /\ evidence.firmware <=> phase \notin {"Offline", "Probed"}
    /\ evidence.iommu <=> phase \notin {"Offline", "Probed", "Firmwared"}
    /\ evidence.domain # 0 <=> evidence.iommu
    /\ evidence.features # {} <=> phase \in {"Negotiated"} \cup Certified
    /\ (evidence.wpr \/ evidence.mailbox \/ evidence.ready) =>
            phase \in {"Negotiated"} \cup Certified

\* "Online is never a free jump from Probe" and "no fabricated online state"
\* (lines 3-6): a device that is or has been online in this generation holds
\* every piece of evidence and a certificate sealed over exactly it; before
\* that there is no certificate.
OnlineIsEarned ==
    IF phase \in Certified
    THEN /\ evidence.pci /\ evidence.firmware /\ evidence.iommu /\ evidence.domain # 0
         /\ evidence.wpr /\ evidence.mailbox /\ evidence.ready
         /\ evidence.features # {} /\ WellFormed(evidence.features)
         /\ certificate = Seal(generation, evidence)
    ELSE certificate = NoCertificate

\* The flags published to user space name the phase: at most one of online,
\* recovery and quarantine, and DMA is revoked exactly in quarantine.
FlagsTellPhase ==
    /\ "HERMES_ONLINE" \in SnapshotFlags <=> phase = "Online"
    /\ "RECOVERY_PENDING" \in SnapshotFlags <=> phase = "Recovering"
    /\ "QUARANTINE_ACTIVE" \in SnapshotFlags <=> phase = "Quarantined"
    /\ "DMA_REVOKED" \in SnapshotFlags <=> "QUARANTINE_ACTIVE" \in SnapshotFlags

\* "Sealed online certificate bound to one generation" (line 199): a
\* certificate is never exchanged; it ends with its generation.
CertificateIsFinal ==
    [][(certificate # NoCertificate /\ certificate' # certificate) =>
            (certificate' = NoCertificate /\ generation' = (generation + 1) % Generations
             /\ phase = "Quarantined")]_hermesVars
=============================================================================
