------------------------------- MODULE Bifrost -------------------------------
(***************************************************************************)
(* bridge.rs and net.rs: the DMA ring between a device and the threads of  *)
(* a process.  A descriptor changes hands through its state word; the      *)
(* threads find it through an index that they load before they try to      *)
(* claim it and store after they have handed it back.  The type allows     *)
(* several readers and writers, so the index may be stale when it is used. *)
(*                                                                         *)
(* A frame is its serial number; the device may announce a length that     *)
(* does not fit.  The device (external) works through its descriptors in   *)
(* order.  A call that is refused (nothing ready, queue full, an invalid   *)
(* payload length) changes nothing but the caller's place.                 *)
(***************************************************************************)
EXTENDS Naturals, Sequences, FiniteSets

CONSTANTS Entries,     \* RING_ENTRIES
          Reader,      \* threads that receive
          Writer,      \* threads that transmit
          MaxArrivals, \* bound: frames the device receives
          MaxSends     \* bound: frames the writers send

ASSUME BifrostAssumption ==
    /\ Entries \in Nat \ {0} /\ MaxArrivals \in Nat /\ MaxSends \in Nat
    /\ Reader \cap Writer = {}
    /\ IsFiniteSet(Reader) /\ IsFiniteSet(Writer)

VARIABLES rxState, rxBuffer, rxFits,  \* receive descriptors; length <= maximum
          consumer,                   \* receive_consumer
          txState, txBuffer,          \* transmit descriptors
          producer,                   \* transmit_producer
          pc, index,                  \* a thread's place and its copy of the index
          frame,                      \* the frame a thread has got, or sends
          devRx, devTx, devFilling,   \* the device's next descriptors
          arrived, sends,             \* serial numbers given out
          refused, handed, sent       \* frames dropped, received and put on the wire

rx == <<rxState, rxBuffer, rxFits, consumer>>
tx == <<txState, txBuffer, producer>>
device == <<devRx, devTx, devFilling>>
ledger == <<arrived, sends, refused, handed, sent>>
vars == <<rx, tx, pc, index, frame, device, ledger>>

Slots == 0 .. Entries - 1
Thread == Reader \cup Writer

NextIndex(i) == (i + 1) % Entries

Init ==
    /\ rxState = [i \in Slots |-> "DEVICE_OWNED"]
    /\ rxBuffer = [i \in Slots |-> 0]
    /\ rxFits = [i \in Slots |-> TRUE]
    /\ consumer = 0
    /\ txState = [i \in Slots |-> "FREE"]
    /\ txBuffer = [i \in Slots |-> 0]
    /\ producer = 0
    /\ pc = [t \in Thread |-> "idle"]
    /\ index = [t \in Thread |-> 0]
    /\ frame = [t \in Thread |-> 0]
    /\ devRx = 0 /\ devTx = 0 /\ devFilling = FALSE
    /\ arrived = 0 /\ sends = 0
    /\ refused = {} /\ handed = <<>> /\ sent = <<>>

Goto(t, label) == pc' = [pc EXCEPT ![t] = label]

-----------------------------------------------------------------------------
(* The device: the DMA engine and the driver behind it.                    *)

\* It fills the buffer of a descriptor it owns ...
DeviceFill ==
    /\ ~devFilling
    /\ rxState[devRx] = "DEVICE_OWNED"
    /\ arrived < MaxArrivals
    /\ rxBuffer' = [rxBuffer EXCEPT ![devRx] = arrived + 1]
    /\ \E fits \in BOOLEAN : rxFits' = [rxFits EXCEPT ![devRx] = fits]
    /\ arrived' = arrived + 1
    /\ devFilling' = TRUE
    /\ UNCHANGED <<rxState, consumer, tx, pc, index, frame, devRx, devTx,
                   sends, refused, handed, sent>>

\* ... and then publishes it.
DeviceReady ==
    /\ devFilling
    /\ rxState' = [rxState EXCEPT ![devRx] = "READY"]
    /\ devRx' = NextIndex(devRx)
    /\ devFilling' = FALSE
    /\ UNCHANGED <<rxBuffer, rxFits, consumer, tx, pc, index, frame, devTx, ledger>>

DeviceSend ==
    /\ txState[devTx] = "DEVICE_OWNED"
    /\ sent' = Append(sent, txBuffer[devTx])
    /\ txState' = [txState EXCEPT ![devTx] = "FREE"]
    /\ devTx' = NextIndex(devTx)
    /\ UNCHANGED <<rx, txBuffer, producer, pc, index, frame, devRx, devFilling,
                   arrived, sends, refused, handed>>

-----------------------------------------------------------------------------
(* try_receive and the drop of ReceivedPacket                              *)

RxLoad(t) ==
    /\ pc[t] = "idle"
    /\ t \in Reader
    /\ index' = [index EXCEPT ![t] = consumer]
    /\ Goto(t, "rxTry")
    /\ UNCHANGED <<rx, tx, frame, device, ledger>>

\* Nothing ready: TesseractReceiver::poll wakes itself and is polled again.
RxNone(t) ==
    /\ pc[t] = "rxTry"
    /\ rxState[index[t]] # "READY"
    /\ Goto(t, "idle")
    /\ UNCHANGED <<rx, tx, index, frame, device, ledger>>

\* Mutant: READY is tested but the descriptor is not claimed.
RxClaimUnmarked(t) ==
    /\ pc[t] = "rxTry"
    /\ rxState[index[t]] = "READY"
    /\ frame' = [frame EXCEPT ![t] = rxBuffer[index[t]]]
    /\ Goto(t, "rxClaimed")
    /\ UNCHANGED <<rx, tx, index, device, ledger>>

RxClaim(t) ==
    /\ pc[t] = "rxTry"
    /\ rxState[index[t]] = "READY"
    /\ rxState' = [rxState EXCEPT ![index[t]] = "USER_HELD"]
    /\ frame' = [frame EXCEPT ![t] = rxBuffer[index[t]]]
    /\ Goto(t, "rxClaimed")
    /\ UNCHANGED <<rxBuffer, rxFits, consumer, tx, index, device, ledger>>

RxAccept(t) ==
    /\ pc[t] = "rxClaimed"
    /\ rxFits[index[t]]
    /\ handed' = Append(handed, frame[t])
    /\ Goto(t, "rxHeld")
    /\ UNCHANGED <<rx, tx, index, frame, device, arrived, sends, refused, sent>>

\* Mutant: the descriptor is handed back as READY.
GiveBackReady(t) ==
    /\ rxState' = [rxState EXCEPT ![index[t]] = "READY"]
    /\ Goto(t, "rxAdvance")
    /\ UNCHANGED <<rxBuffer, rxFits, consumer, tx, index, frame, device>>

GiveBack(t) ==
    /\ rxState' = [rxState EXCEPT ![index[t]] = "DEVICE_OWNED"]
    /\ rxFits' = [rxFits EXCEPT ![index[t]] = TRUE]  \* length.store(0)
    /\ Goto(t, "rxAdvance")
    /\ UNCHANGED <<rxBuffer, consumer, tx, index, frame, device>>

\* Mutant: the error return does not give the descriptor back.
RxRejectLeaks(t) ==
    /\ pc[t] = "rxClaimed"
    /\ ~rxFits[index[t]]
    /\ refused' = refused \cup {frame[t]}
    /\ Goto(t, "idle")
    /\ UNCHANGED <<rx, tx, index, frame, device, arrived, sends, handed, sent>>

\* InvalidHardwareLength
RxReject(t) ==
    /\ pc[t] = "rxClaimed"
    /\ ~rxFits[index[t]]
    /\ refused' = refused \cup {frame[t]}
    /\ GiveBack(t)
    /\ UNCHANGED <<arrived, sends, handed, sent>>

RxDrop(t) ==
    /\ pc[t] = "rxHeld"
    /\ GiveBack(t)
    /\ UNCHANGED ledger

\* Mutant: the index stays where it is.
RxAdvanceForgotten(t) ==
    /\ pc[t] = "rxAdvance"
    /\ Goto(t, "idle")
    /\ UNCHANGED <<rx, tx, index, frame, device, ledger>>

RxAdvance(t) ==
    /\ pc[t] = "rxAdvance"
    /\ consumer' = NextIndex(index[t])
    /\ Goto(t, "idle")
    /\ UNCHANGED <<rxState, rxBuffer, rxFits, tx, index, frame, device, ledger>>

-----------------------------------------------------------------------------
(* transmit                                                                *)

TxLoad(t) ==
    /\ pc[t] = "idle"
    /\ t \in Writer
    /\ sends < MaxSends
    /\ sends' = sends + 1
    /\ frame' = [frame EXCEPT ![t] = sends + 1]
    /\ index' = [index EXCEPT ![t] = producer]
    /\ Goto(t, "txTry")
    /\ UNCHANGED <<rx, tx, device, arrived, refused, handed, sent>>

\* TransmitQueueFull
TxFull(t) ==
    /\ pc[t] = "txTry"
    /\ txState[index[t]] # "FREE"
    /\ Goto(t, "idle")
    /\ UNCHANGED <<rx, tx, index, frame, device, ledger>>

TxClaim(t) ==
    /\ pc[t] = "txTry"
    /\ txState[index[t]] = "FREE"
    /\ txState' = [txState EXCEPT ![index[t]] = "BUILDING"]
    /\ Goto(t, "txCopy")
    /\ UNCHANGED <<rx, txBuffer, producer, index, frame, device, ledger>>

TxCopy(t) ==
    /\ pc[t] = "txCopy"
    /\ txBuffer' = [txBuffer EXCEPT ![index[t]] = frame[t]]
    /\ Goto(t, "txPublish")
    /\ UNCHANGED <<rx, txState, producer, index, frame, device, ledger>>

TxPublish(t) ==
    /\ pc[t] = "txPublish"
    /\ txState' = [txState EXCEPT ![index[t]] = "DEVICE_OWNED"]
    /\ Goto(t, "txAdvance")
    /\ UNCHANGED <<rx, txBuffer, producer, index, frame, device, ledger>>

TxAdvance(t) ==
    /\ pc[t] = "txAdvance"
    /\ producer' = NextIndex(index[t])
    /\ Goto(t, "idle")
    /\ UNCHANGED <<rx, txState, txBuffer, index, frame, device, ledger>>

RxStep(t) ==
    \/ RxLoad(t) \/ RxNone(t) \/ RxClaim(t) \/ RxAccept(t)
    \/ RxReject(t) \/ RxDrop(t) \/ RxAdvance(t)
TxStep(t) == TxFull(t) \/ TxClaim(t) \/ TxCopy(t) \/ TxPublish(t) \/ TxAdvance(t)

Next ==
    \/ DeviceFill \/ DeviceReady \/ DeviceSend
    \/ \E t \in Reader : RxStep(t)
    \/ \E t \in Writer : TxLoad(t) \/ TxStep(t)

Spec == Init /\ [][Next]_vars

\* Readers poll (net.rs 91-93), drop the packets they hold, finish the sends
\* they began, and the device serves its queues.
FairSpec ==
    /\ Spec
    /\ \A t \in Reader : WF_vars(RxStep(t))
    /\ \A t \in Writer : WF_vars(TxStep(t))
    /\ WF_vars(DeviceReady) /\ WF_vars(DeviceSend)

-----------------------------------------------------------------------------
\* Every variable has its type; the indices stay inside the ring.
TypeOK ==
    /\ rxState \in [Slots -> {"DEVICE_OWNED", "READY", "USER_HELD"}]
    /\ rxBuffer \in [Slots -> 0 .. MaxArrivals]
    /\ rxFits \in [Slots -> BOOLEAN]
    /\ txState \in [Slots -> {"FREE", "BUILDING", "DEVICE_OWNED"}]
    /\ txBuffer \in [Slots -> 0 .. MaxSends]
    /\ consumer \in Slots /\ producer \in Slots /\ devRx \in Slots /\ devTx \in Slots
    /\ pc \in [Thread -> {"idle", "rxTry", "rxClaimed", "rxHeld", "rxAdvance",
                          "txTry", "txCopy", "txPublish", "txAdvance"}]
    /\ index \in [Thread -> Slots]
    /\ frame \in [Thread -> Nat]
    /\ devFilling \in BOOLEAN
    /\ arrived \in 0 .. MaxArrivals /\ sends \in 0 .. MaxSends
    /\ refused \subseteq 1 .. MaxArrivals
    /\ handed \in Seq(1 .. MaxArrivals)
    /\ sent \in Seq(0 .. MaxSends)

Holds(t) == pc[t] \in {"rxClaimed", "rxHeld"}
Builds(t) == pc[t] \in {"txCopy", "txPublish"}

\* "Buffer access is exclusively transferred through `state`" (lines 21-22),
\* also when the index was stale: two threads are never in one descriptor,
\* and the device never writes into a packet that somebody holds.
Ownership ==
    /\ \A t, u \in Thread :
        \/ t = u
        \/ index[t] # index[u]
        \/ ~(Holds(t) /\ Holds(u)) /\ ~(Builds(t) /\ Builds(u))
    /\ \A t \in Thread :
        /\ Holds(t) => /\ rxState[index[t]] = "USER_HELD"
                       /\ rxBuffer[index[t]] = frame[t]
                       /\ ~(devFilling /\ devRx = index[t])
        /\ Builds(t) => txState[index[t]] = "BUILDING"

NoDuplicates(s) == \A i, j \in DOMAIN s : s[i] = s[j] => i = j
Ascending(s) == \A i, j \in DOMAIN s : i < j => s[i] < s[j]

\* No frame is received twice and none is sent twice, by any number of
\* threads; what reaches the wire is a frame that was given to transmit.
NoFrameTwice == NoDuplicates(handed) /\ NoDuplicates(sent) /\ \A i \in DOMAIN sent : sent[i] # 0

\* With one reader and one writer frames keep their order, and a received
\* frame never overtakes one that was neither refused nor received.
SoleUserKeepsOrder ==
    /\ Cardinality(Reader) = 1 =>
        /\ Ascending(handed)
        /\ \A i \in DOMAIN handed : \A n \in 1 .. handed[i] :
            n \in refused \/ \E j \in 1 .. i : handed[j] = n
    /\ Cardinality(Writer) = 1 => Ascending(sent)

\* A polling reader receives or refuses every frame that is ready, also when
\* frames before it had a length that does not fit.  (Only with one reader:
\* a second one that stores a stale index can leave a ready frame behind it
\* until the device has gone round the ring.)
ReadyIsReceived ==
    \A n \in 1 .. MaxArrivals :
        (\E i \in Slots : rxState[i] = "READY" /\ rxBuffer[i] = n)
            ~> (n \in refused \/ \E i \in DOMAIN handed : handed[i] = n)
=============================================================================
