------------------------------- MODULE Process -------------------------------
(***************************************************************************)
(* runtime.rs: a process from its entry stack to the first command.        *)
(* ProcessRuntime::initialize copies the environment, negotiates the ABI   *)
(* and asks for the topology (Kairos.tla); then the program may take the   *)
(* capability of its Resonance right out of the environment and open the   *)
(* plane with it, watch the thermal page, or query the topology from its   *)
(* threads.                                                                *)
(*                                                                         *)
(* These last three share no state, so a process of the model does one of  *)
(* them: what holds of each alone holds of any interleaving.               *)
(***************************************************************************)
EXTENDS Kairos, EntryStack, ResonancePlane, Thermal

CONSTANTS Main,      \* the thread that enters the process
          Stack,     \* the entry stacks a kernel may hand out
          Feature,   \* feature bits
          Required, Optional,  \* what the program asks for
          EnvKey, LegacyKey    \* ResonanceRight::ENV_KEY, LEGACY_ENV_KEY

ASSUME ProcessAssumption ==
    /\ Main \in Thread
    /\ Required \cup Optional \subseteq Feature
    /\ "SYSCALL_BASIC" \in Feature

\* The handle in the first entry of the right's key, or else of its older name.
Granted(stack) ==
    LET own == KernelValue(stack, EnvKey)
        text == IF own.found THEN own ELSE KernelValue(stack, LegacyKey)
    IN  IF text.found THEN Meaning(text.value) ELSE 0

\* No string of an entry stack is the null pointer, and the grant is what the
\* kernel wrote.
ASSUME StackAssumption ==
    \A stack \in Stack :
        /\ {stack.args, stack.env} \subseteq Seq(Strings \ {Null})
        /\ stack.grant = Granted(stack)

VARIABLES task,         \* what the program does once it runs
          entry,        \* the entry stack
          boot,         \* how far initialize has come
          environment,  \* ProcessRuntime::environment
          features      \* NegotiatedFeatures::granted

kairosVars == <<claimed, buffer, storage, pc, keep, answer, snapshot, work>>
processVars == <<task, entry, boot, environment, features>>
allVars == <<processVars, kairosVars, planeVars, thermalVars>>

Bare == [args |-> <<>>, env |-> <<>>, grant |-> 0]

ProcessInit ==
    /\ task \in {"topology", "nexus", "thermal"}
    /\ entry \in IF task = "nexus" THEN Stack ELSE {Bare}
    /\ boot = "entry"
    /\ environment = <<>>
    /\ features = {}
    /\ Init
    /\ PlaneInit
    /\ ThermalInit

-----------------------------------------------------------------------------
(* ProcessRuntime::initialize                                              *)

ReadStack ==
    /\ boot = "entry"
    /\ environment' = Collapse(entry)
    /\ boot' = "abi"
    /\ UNCHANGED <<task, entry, features, kairosVars, planeVars, thermalVars>>

\* AbiNegotiator::native, with what run_with requires and wants
RequiredBits == Required \cup {"SYSCALL_BASIC"}

\* Mutant: a feature that was asked for is taken to be granted.
NegotiateTrusting ==
    /\ boot = "abi"
    /\ \E granted \in SUBSET Feature, ok \in BOOLEAN :
        IF ok /\ granted \subseteq RequiredBits \cup Optional
        THEN boot' = "topology" /\ features' = granted
        ELSE boot' = "failed" /\ UNCHANGED features
    /\ UNCHANGED <<task, entry, environment, kairosVars, planeVars, thermalVars>>

\* negotiate: the kernel may fail, answer with an error status, grant what was
\* not asked for or withhold what is required
NegotiateAbi ==
    /\ boot = "abi"
    /\ \E granted \in SUBSET Feature, ok \in BOOLEAN :
        IF ok /\ granted \subseteq RequiredBits \cup Optional /\ RequiredBits \subseteq granted
        THEN boot' = "topology" /\ features' = granted
        ELSE boot' = "failed" /\ UNCHANGED features
    /\ UNCHANGED <<task, entry, environment, kairosVars, planeVars, thermalVars>>

\* run_with: query_ref, by the only thread there is
BootQuery ==
    /\ boot = "topology"
    /\ \/ /\ snapshot[Main] = Nothing
          /\ buffer = Nothing
          /\ Acquire(Main)
          /\ keep'[Main]
       \/ \E reply \in Reply : Syscall(Main, reply)
       \/ Convert(Main)
       \/ StoreCpus(Main)
       \/ StoreDomains(Main)
       \/ Release(Main)
    /\ UNCHANGED <<processVars, planeVars, thermalVars>>

\* The query has ended; with a snapshot the first partition follows.
BootEnd ==
    /\ boot = "topology"
    /\ pc[Main] = "idle"
    /\ buffer # Nothing
    /\ \/ Partition(Main, MaxTotal) /\ boot' = "running"
       \/ snapshot[Main] = Nothing /\ boot' = "failed" /\ UNCHANGED kairosVars
    /\ UNCHANGED <<task, entry, environment, features, planeVars, thermalVars>>

-----------------------------------------------------------------------------
(* The program                                                             *)

Runs(what) == boot = "running" /\ task = what /\ UNCHANGED processVars

QueryTopology == Runs("topology") /\ Next /\ UNCHANGED <<planeVars, thermalVars>>

\* CapabilityEnvelope::recv and from_addresses with the handle it gave
OpenPlane ==
    /\ Runs("nexus")
    /\ LET handle == Recv(environment, EnvKey, LegacyKey)
       IN  handle.error = "none" /\ Connect(handle.raw)
    /\ UNCHANGED <<kairosVars, thermalVars>>

UsePlane == Runs("nexus") /\ PlaneNext /\ UNCHANGED <<kairosVars, thermalVars>>

WatchThermal == Runs("thermal") /\ ThermalNext /\ UNCHANGED <<kairosVars, planeVars>>

ProcessNext ==
    \/ ReadStack \/ NegotiateAbi \/ BootQuery \/ BootEnd
    \/ QueryTopology \/ OpenPlane \/ UsePlane \/ WatchThermal

ProcessSpec == ProcessInit /\ [][ProcessNext]_allVars /\ PlaneFairness

-----------------------------------------------------------------------------
\* Every variable has its type.
ProcessTypeOK ==
    /\ TypeOK /\ PlaneTypeOK /\ ThermalTypeOK
    /\ boot \in {"entry", "abi", "topology", "running", "failed"}
    /\ features \subseteq RequiredBits \cup Optional

\* The storage behind the references of query_ref holds one validated
\* topology, the CPUs and the domains of the same reply, whenever no thread is
\* in the middle of replacing it: the claim on the reply buffer is held until
\* the copy is done (kairos.rs 284-303), so the copies of two threads do not
\* mix.  During a copy a reader may see a mixture; that the storage is "never
\* concurrently replaced" (297-298) is for the callers to see to.
StorageIsWhole ==
    (boot = "running" /\ Storing = {}) => storage # Nothing /\ ValidReply(storage)

\* The three ways to read a variable agree with the kernel and so with each
\* other, where they can: the snapshot (env.rs 213-242) whatever entries
\* without '=' and empty values there are, QuantumEnv::get (147-162) except
\* for an empty value, which it takes for a missing one, and get_phase
\* (165-181) unless an entry without '=' ends its scan.  None of them can
\* when argc is capped at MAX_ARGV (line 44): the environment is then looked
\* for among the arguments.
LookupsAreFaithful ==
    (boot # "entry" /\ ArgsFit(entry)) =>
        \A key \in {EnvKey, LegacyKey} :
            LET meant == KernelValue(entry, key)
            IN  /\ SnapshotFits(entry) => SnapshotGet(environment, key) = meant
                /\ GetSuits(entry, key) => EnvGet(entry, key) = meant
                /\ GetPhaseSuits(entry) => EnvGetPhase(entry, key) = meant

\* recv finds the handle that the kernel granted, under either name and in
\* either radix, and nothing where nothing was granted: no number comes of a
\* malformed or overflowing text (capability.rs 77-139).  A client of the
\* plane then holds that handle and sends it with each frame, and exists only
\* in a process whose kernel granted every required feature.
GrantIsGenuine ==
    LET handle == Recv(environment, EnvKey, LegacyKey)
        genuine == ArgsFit(entry) /\ SnapshotFits(entry)
    IN  /\ (boot # "entry" /\ genuine) =>
            IF entry.grant = 0 THEN handle.error # "none" ELSE handle = Handle(entry.grant)
        /\ client # 0 =>
            /\ RequiredBits \subseteq features
            /\ \A frame \in {ingress, working} : frame # NoFrame => frame.capability = capability
            /\ genuine => capability = entry.grant
=============================================================================
