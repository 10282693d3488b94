------------------------------ MODULE CrestPage ------------------------------
(***************************************************************************)
(* quantum_crest.rs: the page that the kernel and the desktop share.  It   *)
(* holds three one-place mailboxes (snapshots and replies from the kernel, *)
(* commands from the desktop), each handed back and forth by a state word, *)
(* and the epoch word of each side, stored before the mailbox is tried.    *)
(*                                                                         *)
(* A record is identified by the number of the call that brought it; the   *)
(* epoch it names is any nonzero number its sender likes, not an ascending *)
(* one.  Writing and reading a record takes two steps, one per half, so    *)
(* that a torn one shows.  A call that is refused (Invalid, Busy without   *)
(* an epoch, or nothing to take) changes nothing.                          *)
(***************************************************************************)
EXTENDS Naturals, Sequences, FiniteSets

CONSTANTS Kernel,   \* threads of the kernel
          Desktop,  \* threads of the desktop
          Epoch,    \* the epochs that records name
          MaxPuts   \* bound: values sent through a mailbox

ASSUME CrestAssumption ==
    /\ Kernel \cap Desktop = {}
    /\ IsFiniteSet(Kernel) /\ IsFiniteSet(Desktop)
    /\ Epoch \subseteq Nat \ {0}
    /\ MaxPuts \in Nat

Thread == Kernel \cup Desktop
Box == {"snapshot", "command", "reply"}
WithEpoch == {"snapshot", "command"}  \* mailboxes whose sender stores an epoch
Producer(b) == IF b = "command" THEN Desktop ELSE Kernel
Consumer(b) == IF b = "command" THEN Kernel ELSE Desktop

VARIABLES state,      \* the state word of each mailbox
          lo, hi,     \* the two halves of its value
          epoch,      \* kernel_epoch ("snapshot") and user_epoch ("command")
          pc,         \* where each thread stands
          box,        \* the mailbox its call is about
          arg,        \* the value its call sends, 0 outside one
          gotLo, gotHi,  \* the halves its call has read
          serial,     \* calls that send a record so far, by mailbox
          named,      \* the epoch that each record names, 0 before its call
          published,  \* values made READY, in order
          taken       \* what the callers of take were handed, in order

page == <<state, lo, hi, epoch>>
ledger == <<serial, named, published, taken>>
vars == <<page, pc, box, arg, gotLo, gotHi, ledger>>

\* QuantumCrestPage::new
Init ==
    /\ state = [b \in Box |-> "FREE"]
    /\ lo = [b \in Box |-> 0]
    /\ hi = [b \in Box |-> 0]
    /\ epoch = [b \in WithEpoch |-> 0]
    /\ pc = [t \in Thread |-> "idle"]
    /\ box = [t \in Thread |-> "snapshot"]
    /\ arg = [t \in Thread |-> 0]
    /\ gotLo = [t \in Thread |-> 0]
    /\ gotHi = [t \in Thread |-> 0]
    /\ serial = [b \in Box |-> 0]
    /\ named = [b \in WithEpoch |-> [n \in 1 .. MaxPuts |-> 0]]
    /\ published = [b \in Box |-> <<>>]
    /\ taken = [b \in Box |-> <<>>]

Goto(t, label) == pc' = [pc EXCEPT ![t] = label]

\* A call that returns leaves nothing of its argument behind.
Return(t) ==
    /\ Goto(t, "idle")
    /\ box' = [box EXCEPT ![t] = "snapshot"]
    /\ arg' = [arg EXCEPT ![t] = 0]

-----------------------------------------------------------------------------
(* kernel_publish_snapshot, user_submit_command, kernel_publish_reply      *)

\* A record whose sequence or epoch is zero is Invalid and goes no further; a
\* reply names no epoch.
PutCall(t, b, e) ==
    /\ pc[t] = "idle"
    /\ t \in Producer(b)
    /\ serial[b] < MaxPuts
    /\ serial' = [serial EXCEPT ![b] = @ + 1]
    /\ arg' = [arg EXCEPT ![t] = serial[b] + 1]
    /\ named' = IF b \in WithEpoch THEN [named EXCEPT ![b][serial[b] + 1] = e] ELSE named
    /\ box' = [box EXCEPT ![t] = b]
    /\ Goto(t, IF b \in WithEpoch THEN "epoch" ELSE "claim")
    /\ UNCHANGED <<page, gotLo, gotHi, published, taken>>

\* Mutant: the epoch word never goes back (fetch_max).
StoreEpochMax(t) ==
    /\ pc[t] = "epoch"
    /\ epoch' = [epoch EXCEPT ![box[t]] =
                    IF @ > named[box[t]][arg[t]] THEN @ ELSE named[box[t]][arg[t]]]
    /\ Goto(t, "claim")
    /\ UNCHANGED <<state, lo, hi, box, arg, gotLo, gotHi, ledger>>

StoreEpoch(t) ==
    /\ pc[t] = "epoch"
    /\ epoch' = [epoch EXCEPT ![box[t]] = named[box[t]][arg[t]]]
    /\ Goto(t, "claim")
    /\ UNCHANGED <<state, lo, hi, box, arg, gotLo, gotHi, ledger>>

\* Mutant: a mailbox that still holds a value is written over.
ClaimAnyIdle(t) ==
    /\ pc[t] = "claim"
    /\ state[box[t]] \in {"FREE", "READY"}
    /\ state' = [state EXCEPT ![box[t]] = "WRITING"]
    /\ Goto(t, "write1")
    /\ UNCHANGED <<lo, hi, epoch, box, arg, gotLo, gotHi, ledger>>

\* publish, submit: compare_exchange(FREE, WRITING) succeeds
Claim(t) ==
    /\ pc[t] = "claim"
    /\ state[box[t]] = "FREE"
    /\ state' = [state EXCEPT ![box[t]] = "WRITING"]
    /\ Goto(t, "write1")
    /\ UNCHANGED <<lo, hi, epoch, box, arg, gotLo, gotHi, ledger>>

\* Mutant: the call spins until the mailbox is free.
BusySpins(t) ==
    /\ pc[t] = "claim"
    /\ state[box[t]] # "FREE"
    /\ UNCHANGED vars

\* ... or fails, and the call answers Busy; the epoch stays stored
Busy(t) ==
    /\ pc[t] = "claim"
    /\ state[box[t]] # "FREE"
    /\ Return(t)
    /\ UNCHANGED <<page, gotLo, gotHi, ledger>>

Write1(t) ==
    /\ pc[t] = "write1"
    /\ lo' = [lo EXCEPT ![box[t]] = arg[t]]
    /\ Goto(t, "write2")
    /\ UNCHANGED <<state, hi, epoch, box, arg, gotLo, gotHi, ledger>>

Write2(t) ==
    /\ pc[t] = "write2"
    /\ hi' = [hi EXCEPT ![box[t]] = arg[t]]
    /\ Goto(t, "publish")
    /\ UNCHANGED <<state, lo, epoch, box, arg, gotLo, gotHi, ledger>>

Publish(t) ==
    /\ pc[t] = "publish"
    /\ state' = [state EXCEPT ![box[t]] = "READY"]
    /\ published' = [published EXCEPT ![box[t]] = Append(@, arg[t])]
    /\ Return(t)
    /\ UNCHANGED <<lo, hi, epoch, gotLo, gotHi, serial, named, taken>>

-----------------------------------------------------------------------------
(* user_read_snapshot, kernel_take_command, user_take_reply                *)

\* Mutant: READY is tested but not replaced by READING.
TakeUnclaimed(t, b) ==
    /\ pc[t] = "idle"
    /\ t \in Consumer(b)
    /\ state[b] = "READY"
    /\ box' = [box EXCEPT ![t] = b]
    /\ Goto(t, "read1")
    /\ UNCHANGED <<page, arg, gotLo, gotHi, ledger>>

\* take: compare_exchange(READY, READING) succeeds
Take(t, b) ==
    /\ pc[t] = "idle"
    /\ t \in Consumer(b)
    /\ state[b] = "READY"
    /\ state' = [state EXCEPT ![b] = "READING"]
    /\ box' = [box EXCEPT ![t] = b]
    /\ Goto(t, "read1")
    /\ UNCHANGED <<lo, hi, epoch, arg, gotLo, gotHi, ledger>>

Read1(t) ==
    /\ pc[t] = "read1"
    /\ gotLo' = [gotLo EXCEPT ![t] = lo[box[t]]]
    /\ Goto(t, "read2")
    /\ UNCHANGED <<page, box, arg, gotHi, ledger>>

Read2(t) ==
    /\ pc[t] = "read2"
    /\ gotHi' = [gotHi EXCEPT ![t] = hi[box[t]]]
    /\ Goto(t, "release")
    /\ UNCHANGED <<page, box, arg, gotLo, ledger>>

\* What the caller is handed; Torn is no value that was sent.
Torn == 0
Joined(first, second) == IF first = second THEN first ELSE Torn

Release(t) ==
    /\ pc[t] = "release"
    /\ state' = [state EXCEPT ![box[t]] = "FREE"]
    /\ taken' = [taken EXCEPT ![box[t]] = Append(@, Joined(gotLo[t], gotHi[t]))]
    /\ gotLo' = [gotLo EXCEPT ![t] = 0]
    /\ gotHi' = [gotHi EXCEPT ![t] = 0]
    /\ Return(t)
    /\ UNCHANGED <<lo, hi, epoch, serial, named, published>>

Step(t) ==
    \/ StoreEpoch(t) \/ Claim(t) \/ Busy(t) \/ Write1(t) \/ Write2(t) \/ Publish(t)
    \/ Read1(t) \/ Read2(t) \/ Release(t)

Next ==
    \E t \in Thread :
        \/ \E b \in Box, e \in Epoch : PutCall(t, b, e)
        \/ \E b \in Box : Take(t, b)
        \/ Step(t)

Spec == Init /\ [][Next]_vars

\* The kernel runs its calls to the end; a desktop thread may stop anywhere.
FairSpec == Spec /\ \A t \in Kernel : WF_vars(Step(t))

-----------------------------------------------------------------------------
Writing(t, b) == pc[t] \in {"write1", "write2", "publish"} /\ box[t] = b
Reading(t, b) == pc[t] \in {"read1", "read2", "release"} /\ box[t] = b
Half == 0 .. MaxPuts

\* Every variable has its type; no value of sequence zero is ever published
\* (lines 557, 572, 587).
TypeOK ==
    /\ state \in [Box -> {"FREE", "WRITING", "READY", "READING"}]
    /\ lo \in [Box -> Half]
    /\ hi \in [Box -> Half]
    /\ epoch \in [WithEpoch -> Epoch \cup {0}]
    /\ pc \in [Thread -> {"idle", "epoch", "claim", "write1", "write2", "publish",
                          "read1", "read2", "release"}]
    /\ box \in [Thread -> Box]
    /\ arg \in [Thread -> Half]
    /\ gotLo \in [Thread -> Half]
    /\ gotHi \in [Thread -> Half]
    /\ serial \in [Box -> Half]
    /\ named \in [WithEpoch -> [1 .. MaxPuts -> Epoch \cup {0}]]
    /\ published \in [Box -> Seq(Half \ {0})]
    /\ taken \in [Box -> Seq(Half)]

\* "the mailbox state machine transfers exclusive access between the kernel
\* publisher and user consumer" (lines 416-417): at most one thread is
\* inside a mailbox, and the state word says who it is.
ExclusiveAccess ==
    \A b \in Box :
        /\ \A t, u \in Thread :
            (Writing(t, b) \/ Reading(t, b)) /\ (Writing(u, b) \/ Reading(u, b)) => t = u
        /\ state[b] = "WRITING" <=> \E t \in Thread : Writing(t, b)
        /\ state[b] = "READING" <=> \E t \in Thread : Reading(t, b)

\* Each mailbox delivers what was published, whole, once and in order: only
\* the last value may still be on its way.
DeliveredInOrder ==
    \A b \in Box :
        /\ Len(published[b]) = Len(taken[b]) + (IF state[b] \in {"READY", "READING"} THEN 1 ELSE 0)
        /\ \A i \in 1 .. Len(taken[b]) : taken[b][i] = published[b][i]

\* epochs() tells a reader the epoch of the record it finds: with one sending
\* thread the word is what the record in the mailbox names, ascending or not,
\* from before the record can be taken until its slot is free again (stored
\* at 560 and 575, before the mailbox is tried), unless the sender has been
\* called again since: that call stores its epoch also when it is refused.
EpochIsAnnounced ==
    \A b \in WithEpoch :
        (/\ Cardinality(Producer(b)) = 1
         /\ state[b] \in {"READY", "READING"}
         /\ lo[b] = serial[b]) => epoch[b] = named[b][lo[b]]

\* No desktop thread can hold the kernel up, wherever it stops: publishing
\* answers Busy and taking answers None instead of waiting.
KernelIsNotHeld == \A t \in Kernel : pc[t] # "idle" ~> pc[t] = "idle"
=============================================================================
