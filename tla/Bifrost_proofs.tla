--------------------------- MODULE Bifrost_proofs ---------------------------
(***************************************************************************)
(* Ownership of the descriptors and at-most-once delivery in both          *)
(* directions, for rings of any size and any number of threads, however    *)
(* stale the index is that a thread uses; and, for a direction with one    *)
(* thread, the order of the frames around the ring.                        *)
(***************************************************************************)
EXTENDS Bifrost, FiniteSetTheorems, TLAPS

-----------------------------------------------------------------------------
(* Receiving                                                               *)

\* A descriptor whose buffer holds a frame that has not been given back.
Full(i) == rxState[i] # "DEVICE_OWNED" \/ (devFilling /\ devRx = i)

\* The frame in it has not been looked at by anybody.
Unclaimed(i) == rxState[i] = "READY" \/ (devFilling /\ devRx = i)

Occurs(n, s) == \E i \in DOMAIN s : s[i] = n
Received(n) == Occurs(n, handed)

RxShape ==
    /\ rxState \in [Slots -> {"DEVICE_OWNED", "READY", "USER_HELD"}]
    /\ rxBuffer \in [Slots -> Nat]
    /\ rxFits \in [Slots -> BOOLEAN]
    /\ consumer \in Slots /\ devRx \in Slots
    /\ devFilling \in BOOLEAN
    /\ arrived \in Nat
    /\ handed \in Seq(Nat)

\* What the threads' places have to be for the rest to make sense.
ThreadShape ==
    /\ pc \in [Thread -> {"idle", "rxTry", "rxClaimed", "rxHeld", "rxAdvance",
                          "txTry", "txCopy", "txPublish", "txAdvance"}]
    /\ index \in [Thread -> Slots]
    /\ frame \in [Thread -> Nat]

\* A claimed descriptor has one holder, and the device is not in it.
RxOwned ==
    /\ devFilling => rxState[devRx] = "DEVICE_OWNED"
    /\ \A t \in Thread : Holds(t) => rxState[index[t]] = "USER_HELD"
                                     /\ rxBuffer[index[t]] = frame[t]
    /\ \A t, u \in Thread : Holds(t) /\ Holds(u) /\ index[t] = index[u] => t = u

\* No frame is in two descriptors, and none that can still be accepted has
\* been accepted before.
RxOnce ==
    /\ \A i \in Slots : Full(i) => rxBuffer[i] \in 1 .. arrived
    /\ \A i, j \in Slots : Full(i) /\ Full(j) /\ rxBuffer[i] = rxBuffer[j] => i = j
    /\ \A n \in Nat : Received(n) => n \in 1 .. arrived
    /\ \A i \in Slots : Unclaimed(i) => ~Received(rxBuffer[i])
    /\ \A t \in Thread : pc[t] = "rxClaimed" => ~Received(frame[t])
    /\ NoDuplicates(handed)

-----------------------------------------------------------------------------
(* Sending                                                                 *)

TxShape ==
    /\ txState \in [Slots -> {"FREE", "BUILDING", "DEVICE_OWNED"}]
    /\ txBuffer \in [Slots -> Nat]
    /\ producer \in Slots /\ devTx \in Slots
    /\ sends \in Nat
    /\ sent \in Seq(Nat)

\* The thread has a frame that it has not published.
Carries(t) == pc[t] \in {"txTry", "txCopy", "txPublish"}

OnWire(n) == Occurs(n, sent)

TxOwned ==
    /\ \A t \in Thread : Builds(t) => txState[index[t]] = "BUILDING"
    /\ \A t, u \in Thread : Builds(t) /\ Builds(u) /\ index[t] = index[u] => t = u
    /\ \A t \in Thread : pc[t] = "txPublish" => txBuffer[index[t]] = frame[t]

\* A frame is with one thread, in one descriptor of the device, or on the
\* wire, and in one of these places only.
TxOnce ==
    /\ \A t \in Thread : Carries(t) => frame[t] \in 1 .. sends /\ ~OnWire(frame[t])
    /\ \A t, u \in Thread : Carries(t) /\ Carries(u) /\ frame[t] = frame[u] => t = u
    /\ \A i \in Slots : txState[i] = "DEVICE_OWNED" =>
        /\ txBuffer[i] \in 1 .. sends
        /\ ~OnWire(txBuffer[i])
        /\ \A t \in Thread : Carries(t) => frame[t] # txBuffer[i]
        /\ \A j \in Slots : txState[j] = "DEVICE_OWNED" /\ txBuffer[i] = txBuffer[j] => i = j
    /\ \A n \in Nat : OnWire(n) => n \in 1 .. sends
    /\ NoDuplicates(sent)

RxInv == RxShape /\ RxOwned /\ RxOnce
TxInv == TxShape /\ TxOwned /\ TxOnce

RingInv == ThreadShape /\ RxInv /\ TxInv

-----------------------------------------------------------------------------
(* Steps that do not concern a direction                                   *)

\* Thread u is where it was, with the index and the frame it had.
Stays(u) == pc'[u] = pc[u] /\ index'[u] = index[u] /\ frame'[u] = frame[u]

\* A step of the sending side, or one that only moves threads that hold no
\* packet, leaves the receiving side as it is.
LEMMA RxKept ==
  ASSUME RxInv, UNCHANGED <<rxState, rxBuffer, rxFits, consumer, devRx, devFilling, arrived, handed>>,
         \A u \in Thread : Stays(u) \/ (~Holds(u) /\ ~Holds(u)')
  PROVE  RxInv'
<1>1. RxShape'
  BY DEF RxInv, RxShape
<1>2. \A i \in Slots : (Full(i)' <=> Full(i)) /\ (Unclaimed(i)' <=> Unclaimed(i))
  BY DEF Full, Unclaimed
<1>3. \A n : Received(n)' <=> Received(n)
  BY DEF Received
<1>4. \A u \in Thread : Holds(u)' => Holds(u) /\ Stays(u)
  BY DEF Holds, Stays
<1>5. RxOwned'
  BY <1>4 DEF RxInv, RxOwned, Stays
<1>6. \A u \in Thread : pc'[u] = "rxClaimed" => pc[u] = "rxClaimed" /\ frame'[u] = frame[u]
  BY <1>4 DEF Holds, Stays
<1>7. RxOnce'
  BY <1>2, <1>3, <1>6 DEF RxInv, RxOnce, NoDuplicates
<1>8. QED
  BY <1>1, <1>5, <1>7 DEF RxInv

\* And the other way round.
LEMMA TxKept ==
  ASSUME TxInv, UNCHANGED <<txState, txBuffer, producer, devTx, sends, sent>>,
         \A u \in Thread : Stays(u) \/ (~Carries(u) /\ ~Carries(u)')
  PROVE  TxInv'
<1>1. TxShape'
  BY DEF TxInv, TxShape
<1>2. \A n : OnWire(n)' <=> OnWire(n)
  BY DEF OnWire
<1>3. \A u \in Thread : Carries(u)' => Carries(u) /\ Stays(u)
  BY DEF Carries, Stays
<1>4. \A u \in Thread : (Builds(u)' => Carries(u)' /\ Builds(u))
                        /\ (pc'[u] = "txPublish" => Carries(u)' /\ pc[u] = "txPublish")
  BY <1>3 DEF Builds, Carries, Stays
<1>5. TxOwned'
  BY <1>3, <1>4 DEF TxInv, TxOwned, Stays
<1>6. TxOnce'
  BY <1>2, <1>3 DEF TxInv, TxOnce, NoDuplicates, Stays
<1>7. QED
  BY <1>1, <1>5, <1>6 DEF TxInv

\* One more frame at the end of a list.
LEMMA Appended ==
  ASSUME NEW s \in Seq(Nat), NEW x \in Nat
  PROVE  /\ Append(s, x) \in Seq(Nat)
         /\ \A n : Occurs(n, Append(s, x)) <=> n = x \/ Occurs(n, s)
         /\ NoDuplicates(s) /\ ~Occurs(x, s) => NoDuplicates(Append(s, x))
<1> DEFINE r == Append(s, x)
<1>1. /\ r \in Seq(Nat) /\ Len(r) = Len(s) + 1 /\ Len(s) \in Nat
      /\ DOMAIN r = 1 .. Len(s) + 1 /\ DOMAIN s = 1 .. Len(s)
      /\ \A i \in 1 .. Len(s) : r[i] = s[i]
      /\ r[Len(s) + 1] = x
  OBVIOUS
<1>2. DOMAIN r = DOMAIN s \cup {Len(s) + 1} /\ Len(s) + 1 \notin DOMAIN s
  BY <1>1
<1> HIDE DEF r
<1>3. \A n : Occurs(n, r) <=> n = x \/ Occurs(n, s)
  BY <1>1, <1>2 DEF Occurs
<1>4. NoDuplicates(s) /\ ~Occurs(x, s) => NoDuplicates(r)
  BY <1>1, <1>2 DEF Occurs, NoDuplicates
<1>5. QED
  BY <1>1, <1>3, <1>4 DEF r

-----------------------------------------------------------------------------
(* The receiving side                                                      *)

\* The device fills a descriptor with a frame nobody has seen.
LEMMA FillKeeps == ASSUME RxInv, ThreadShape, DeviceFill PROVE RxInv'
<1> USE DEF RxInv
<1>1. /\ rxState[devRx] = "DEVICE_OWNED" /\ devRx \in Slots /\ arrived \in Nat
      /\ arrived' = arrived + 1 /\ devFilling' = TRUE /\ ~devFilling
      /\ rxBuffer' = [rxBuffer EXCEPT ![devRx] = arrived + 1]
      /\ UNCHANGED <<rxState, consumer, devRx, handed, pc, index, frame>>
  BY DEF DeviceFill, RxShape
<1>2. RxShape'
  BY <1>1 DEF RxShape, DeviceFill
<1>3. \A i \in Slots : /\ Full(i)' <=> (Full(i) \/ i = devRx)
                       /\ Unclaimed(i)' <=> (Unclaimed(i) \/ i = devRx)
                       /\ rxBuffer'[i] = IF i = devRx THEN arrived + 1 ELSE rxBuffer[i]
  BY <1>1 DEF Full, Unclaimed, RxShape
<1>4. \A n : Received(n)' <=> Received(n)
  BY <1>1 DEF Received
<1>5. RxOwned'
  <2>1. \A t \in Thread : Holds(t)' <=> Holds(t)
    BY <1>1 DEF Holds
  <2>2. \A t \in Thread : Holds(t) => index[t] # devRx /\ index[t] \in Slots
    BY <1>1 DEF RxOwned, ThreadShape
  <2>3. QED
    BY <1>1, <1>3, <2>1, <2>2 DEF RxOwned
<1>6. RxOnce'
  <2>1. ~Full(devRx)
    BY <1>1 DEF Full
  <2>2. \A i \in Slots : Full(i) => rxBuffer[i] \in 1 .. arrived /\ rxBuffer[i] # arrived + 1
    BY <1>1 DEF RxOnce
  <2>3. \A n \in Nat : Received(n) => n \in 1 .. arrived + 1 /\ n # arrived + 1
    BY <1>1 DEF RxOnce
  <2>4. /\ \A i \in Slots : Full(i)' => rxBuffer'[i] \in 1 .. arrived'
        /\ \A i, j \in Slots : Full(i)' /\ Full(j)' /\ rxBuffer'[i] = rxBuffer'[j] => i = j
    BY <1>1, <1>3, <2>1, <2>2 DEF RxOnce
  <2>5. \A i \in Slots : Unclaimed(i)' => ~Received(rxBuffer[i])'
    BY <1>1, <1>3, <1>4, <2>3 DEF RxOnce
  <2>6. QED
    BY <1>1, <1>4, <2>3, <2>4, <2>5 DEF RxOnce
<1>7. QED
  BY <1>2, <1>5, <1>6

\* It publishes the descriptor it has filled.
LEMMA ReadyKeeps == ASSUME RxInv, ThreadShape, DeviceReady PROVE RxInv'
<1> USE DEF RxInv
<1>1. /\ devFilling /\ devFilling' = FALSE /\ devRx \in Slots
      /\ rxState[devRx] = "DEVICE_OWNED"
      /\ rxState' = [rxState EXCEPT ![devRx] = "READY"]
      /\ UNCHANGED <<rxBuffer, rxFits, consumer, handed, arrived, pc, index, frame>>
  BY DEF DeviceReady, RxShape, RxOwned, ledger
<1>2. devRx' \in Slots
  BY <1>1, BifrostAssumption DEF DeviceReady, NextIndex, Slots
<1>3. RxShape'
  BY <1>1, <1>2 DEF RxShape
<1>4. \A i \in Slots : /\ Full(i)' <=> Full(i)
                       /\ Unclaimed(i)' <=> Unclaimed(i)
                       /\ rxState'[i] = IF i = devRx THEN "READY" ELSE rxState[i]
  BY <1>1 DEF Full, Unclaimed, RxShape
<1>5. \A n : Received(n)' <=> Received(n)
  BY <1>1 DEF Received
<1>6. RxOwned'
  <2>1. \A t \in Thread : Holds(t)' <=> Holds(t)
    BY <1>1 DEF Holds
  <2>2. \A t \in Thread : Holds(t) => index[t] # devRx /\ index[t] \in Slots
    BY <1>1 DEF RxOwned, ThreadShape
  <2>3. QED
    BY <1>1, <1>4, <2>1, <2>2 DEF RxOwned
<1>7. RxOnce'
  BY <1>1, <1>4, <1>5 DEF RxOnce
<1>8. QED
  BY <1>3, <1>6, <1>7

\* A thread claims a descriptor that is ready, wherever its index points.
LEMMA ClaimKeeps ==
  ASSUME RxInv, ThreadShape, NEW t \in Thread, RxClaim(t)
  PROVE  RxInv'
<1> USE DEF RxInv
<1> DEFINE k == index[t]
<1>1. /\ k \in Slots /\ rxState[k] = "READY" /\ ~Holds(t)
      /\ rxState' = [rxState EXCEPT ![k] = "USER_HELD"]
      /\ pc' = [pc EXCEPT ![t] = "rxClaimed"]
      /\ frame' = [frame EXCEPT ![t] = rxBuffer[k]]
      /\ UNCHANGED <<rxBuffer, rxFits, consumer, handed, arrived, index, devRx, devFilling>>
  BY DEF RxClaim, Goto, Holds, ThreadShape, device, ledger
<1>2. RxShape'
  BY <1>1 DEF RxShape
<1>3. /\ \A i \in Slots : rxState'[i] = IF i = k THEN "USER_HELD" ELSE rxState[i]
      /\ \A u \in Thread : /\ pc'[u] = IF u = t THEN "rxClaimed" ELSE pc[u]
                           /\ frame'[u] = IF u = t THEN rxBuffer[k] ELSE frame[u]
  BY <1>1 DEF RxShape, ThreadShape
<1>f. ~(devFilling /\ devRx = k)
  BY <1>1 DEF RxOwned
<1>4. \A i \in Slots : (Full(i)' <=> Full(i)) /\ (Unclaimed(i)' <=> Unclaimed(i) /\ i # k)
  BY <1>1, <1>3, <1>f DEF Full, Unclaimed
<1>5. \A n : Received(n)' <=> Received(n)
  BY <1>1 DEF Received
<1>6. \A u \in Thread : /\ Holds(u)' <=> Holds(u) \/ u = t
                        /\ Holds(u) => index[u] # k /\ index[u] \in Slots
  <2>1. \A u \in Thread : Holds(u)' <=> Holds(u) \/ u = t
    BY <1>3 DEF Holds
  <2>2. \A u \in Thread : Holds(u) => index[u] # k /\ index[u] \in Slots
    BY <1>1 DEF RxOwned, ThreadShape
  <2>3. QED
    BY <2>1, <2>2
<1>7. RxOwned'
  BY <1>1, <1>3, <1>6 DEF RxOwned
<1>8. RxOnce'
  <2>1. Unclaimed(k) /\ Full(k)
    BY <1>1 DEF Unclaimed, Full
  <2>2. \A u \in Thread : pc'[u] = "rxClaimed" => ~Received(frame[u])'
    BY <1>1, <1>3, <1>5, <2>1 DEF RxOnce
  <2>3. QED
    BY <1>1, <1>4, <1>5, <2>2 DEF RxOnce
<1>9. QED
  BY <1>2, <1>7, <1>8

\* A frame is accepted: it is none of those that can still be accepted.
LEMMA AcceptKeeps ==
  ASSUME RxInv, ThreadShape, NEW t \in Thread, RxAccept(t)
  PROVE  RxInv'
<1> USE DEF RxInv
<1> DEFINE k == index[t]
<1>1. /\ k \in Slots /\ pc[t] = "rxClaimed" /\ Holds(t) /\ frame[t] \in Nat
      /\ handed' = Append(handed, frame[t])
      /\ pc' = [pc EXCEPT ![t] = "rxHeld"]
      /\ UNCHANGED <<rxState, rxBuffer, rxFits, consumer, arrived, index, frame, devRx, devFilling>>
  BY DEF RxAccept, Goto, Holds, ThreadShape, rx, device
<1>2. rxState[k] = "USER_HELD" /\ rxBuffer[k] = frame[t] /\ Full(k) /\ ~Unclaimed(k)
  BY <1>1 DEF RxOwned, Full, Unclaimed
<1>3. /\ handed' \in Seq(Nat)
      /\ \A n : Received(n)' <=> (n = frame[t] \/ Received(n))
      /\ NoDuplicates(handed')
  <2>1. handed \in Seq(Nat) /\ NoDuplicates(handed) /\ ~Received(frame[t])
    BY <1>1 DEF RxShape, RxOnce
  <2>2. QED
    BY <1>1, <2>1, Appended DEF Received
<1>4. RxShape'
  BY <1>1, <1>3 DEF RxShape
<1>5. \A i \in Slots : (Full(i)' <=> Full(i)) /\ (Unclaimed(i)' <=> Unclaimed(i))
                       /\ (Unclaimed(i) => Full(i) /\ i # k)
  BY <1>1, <1>2 DEF Full, Unclaimed
<1>6. \A u \in Thread : /\ pc'[u] = IF u = t THEN "rxHeld" ELSE pc[u]
                        /\ Holds(u)' <=> Holds(u)
  BY <1>1 DEF Holds, ThreadShape
<1>7. RxOwned'
  BY <1>1, <1>6 DEF RxOwned
<1>8. ASSUME NEW u \in Thread, pc'[u] = "rxClaimed" PROVE ~Received(frame[u])'
  <2>1. u # t /\ pc[u] = "rxClaimed" /\ Holds(u) /\ index[u] \in Slots
    BY <1>6, <1>8 DEF Holds, ThreadShape
  <2>2. index[u] # k /\ Full(index[u]) /\ rxBuffer[index[u]] = frame[u]
    BY <1>1, <2>1 DEF RxOwned, Full
  <2>3. frame[u] # frame[t]
    BY <1>1, <1>2, <2>1, <2>2 DEF RxOnce
  <2>4. QED
    BY <1>1, <1>3, <2>1, <2>3 DEF RxOnce
<1>9. \A i \in Slots : Unclaimed(i)' => ~Received(rxBuffer[i])'
  BY <1>1, <1>2, <1>3, <1>5 DEF RxOnce
<1>10. RxOnce'
  BY <1>1, <1>2, <1>3, <1>5, <1>8, <1>9 DEF RxOnce
<1>11. QED
  BY <1>4, <1>7, <1>10

\* The descriptor goes back to the device; nobody else was in it.
LEMMA GiveBackKeeps ==
  ASSUME RxInv, ThreadShape, NEW t \in Thread, Holds(t), GiveBack(t), UNCHANGED <<arrived, handed>>
  PROVE  RxInv'
<1> USE DEF RxInv
<1> DEFINE k == index[t]
<1>1. /\ k \in Slots
      /\ rxState' = [rxState EXCEPT ![k] = "DEVICE_OWNED"]
      /\ rxFits' = [rxFits EXCEPT ![k] = TRUE]
      /\ pc' = [pc EXCEPT ![t] = "rxAdvance"]
      /\ UNCHANGED <<rxBuffer, consumer, arrived, handed, index, frame, devRx, devFilling>>
  BY DEF GiveBack, Goto, ThreadShape, device
<1>2. rxState[k] = "USER_HELD" /\ ~(devFilling /\ devRx = k)
  BY <1>1 DEF RxOwned
<1>3. RxShape'
  BY <1>1 DEF RxShape
<1>4. /\ \A i \in Slots : rxState'[i] = IF i = k THEN "DEVICE_OWNED" ELSE rxState[i]
      /\ \A u \in Thread : pc'[u] = IF u = t THEN "rxAdvance" ELSE pc[u]
  BY <1>1 DEF RxShape, ThreadShape
<1>5. \A i \in Slots : (Full(i)' => Full(i)) /\ (Unclaimed(i)' => Unclaimed(i))
  BY <1>1, <1>4 DEF Full, Unclaimed
<1>6. \A n : Received(n)' <=> Received(n)
  BY <1>1 DEF Received
<1>7. \A u \in Thread : /\ Holds(u)' => Holds(u) /\ u # t
                        /\ Holds(u)' => index[u] # k /\ index[u] \in Slots
                        /\ pc'[u] = "rxClaimed" => pc[u] = "rxClaimed"
  BY <1>4 DEF Holds, RxOwned, ThreadShape
<1>8. RxOwned'
  BY <1>1, <1>2, <1>4, <1>7 DEF RxOwned
<1>9. RxOnce'
  BY <1>1, <1>5, <1>6, <1>7 DEF RxOnce
<1>10. QED
  BY <1>3, <1>8, <1>9

-----------------------------------------------------------------------------
(* The sending side                                                        *)

\* The device puts a frame on the wire that no thread and no other
\* descriptor holds.
LEMMA SendKeeps == ASSUME TxInv, ThreadShape, DeviceSend PROVE TxInv'
<1> USE DEF TxInv
<1> DEFINE x == txBuffer[devTx]
<1>1. /\ devTx \in Slots /\ txState[devTx] = "DEVICE_OWNED" /\ x \in Nat
      /\ sent' = Append(sent, x)
      /\ txState' = [txState EXCEPT ![devTx] = "FREE"]
      /\ UNCHANGED <<txBuffer, producer, sends, pc, index, frame>>
  BY DEF DeviceSend, TxShape
<1>2. x \in 1 .. sends /\ ~OnWire(x) /\ \A t \in Thread : Carries(t) => frame[t] # x
  BY <1>1 DEF TxOnce
<1>3. /\ sent' \in Seq(Nat)
      /\ \A n : OnWire(n)' <=> (n = x \/ OnWire(n))
      /\ NoDuplicates(sent')
  <2>1. sent \in Seq(Nat) /\ NoDuplicates(sent)
    BY DEF TxShape, TxOnce
  <2>2. QED
    BY <1>1, <1>2, <2>1, Appended DEF OnWire
<1>4. TxShape'
  <2>1. devTx' \in Slots
    BY <1>1, BifrostAssumption DEF DeviceSend, NextIndex, Slots
  <2>2. QED
    BY <1>1, <1>3, <2>1 DEF TxShape
<1>5. /\ \A i \in Slots : txState'[i] = IF i = devTx THEN "FREE" ELSE txState[i]
      /\ \A t \in Thread : (Carries(t)' <=> Carries(t)) /\ (Builds(t)' <=> Builds(t))
  BY <1>1 DEF TxShape, Carries, Builds
<1>6. TxOwned'
  <2>1. \A t \in Thread : Builds(t) => index[t] # devTx /\ index[t] \in Slots
    BY <1>1 DEF TxOwned, ThreadShape
  <2>2. QED
    BY <1>1, <1>5, <2>1 DEF TxOwned
<1>7. TxOnce'
  <2>1. \A t \in Thread : Carries(t)' => frame'[t] \in 1 .. sends' /\ ~OnWire(frame[t])'
    BY <1>1, <1>2, <1>3, <1>5 DEF TxOnce
  <2>2. ASSUME NEW i \in Slots, txState'[i] = "DEVICE_OWNED"
        PROVE  /\ txBuffer'[i] \in 1 .. sends'
               /\ ~OnWire(txBuffer[i])'
               /\ \A t \in Thread : Carries(t)' => frame'[t] # txBuffer'[i]
               /\ \A j \in Slots : txState'[j] = "DEVICE_OWNED" /\ txBuffer'[i] = txBuffer'[j] => i = j
    <3>1. i # devTx /\ txState[i] = "DEVICE_OWNED"
      BY <1>5, <2>2
    <3>2. txBuffer[i] # x
      BY <1>1, <3>1 DEF TxOnce
    <3>3. QED
      BY <1>1, <1>3, <1>5, <3>1, <3>2 DEF TxOnce
  <2>3. \A n \in Nat : OnWire(n)' => n \in 1 .. sends'
    BY <1>1, <1>2, <1>3 DEF TxOnce
  <2>4. QED
    BY <1>1, <1>3, <1>5, <2>1, <2>2, <2>3 DEF TxOnce
<1>8. QED
  BY <1>4, <1>6, <1>7

\* A thread is given a frame to send, with a number of its own.
LEMMA TxLoadKeeps ==
  ASSUME TxInv, ThreadShape, NEW t \in Thread, TxLoad(t)
  PROVE  TxInv'
<1> USE DEF TxInv
<1>1. /\ sends \in Nat /\ sends' = sends + 1 /\ pc[t] = "idle"
      /\ frame' = [frame EXCEPT ![t] = sends + 1]
      /\ pc' = [pc EXCEPT ![t] = "txTry"]
      /\ index' = [index EXCEPT ![t] = producer]
      /\ UNCHANGED <<txState, txBuffer, producer, devTx, sent>>
  BY DEF TxLoad, Goto, TxShape, tx, device
<1>2. \A u \in Thread : /\ frame'[u] = IF u = t THEN sends + 1 ELSE frame[u]
                        /\ pc'[u] = IF u = t THEN "txTry" ELSE pc[u]
                        /\ u # t => index'[u] = index[u]
  BY <1>1 DEF ThreadShape
<1>3. \A u \in Thread : /\ Carries(u)' <=> Carries(u) \/ u = t
                        /\ Builds(u)' <=> Builds(u)
                        /\ Builds(u) => u # t
  BY <1>1, <1>2 DEF Carries, Builds
<1>4. \A n : OnWire(n)' <=> OnWire(n)
  BY <1>1 DEF OnWire
<1>5. TxShape'
  BY <1>1 DEF TxShape
<1>6. TxOwned'
  BY <1>1, <1>2, <1>3 DEF TxOwned
<1>7. \A n \in 1 .. sends : n \in 1 .. sends' /\ n # sends + 1
  BY <1>1
<1>8. ~OnWire(sends + 1) /\ sends + 1 \in 1 .. sends' /\ ~Carries(t)
  <2>1. sends + 1 \in Nat /\ sends + 1 \notin 1 .. sends
    BY <1>1
  <2>2. QED
    BY <1>1, <2>1 DEF TxOnce, Carries
<1>9. TxOnce'
  <2>1. \A u \in Thread : Carries(u)' => frame'[u] \in 1 .. sends' /\ ~OnWire(frame[u])'
    BY <1>2, <1>3, <1>4, <1>7, <1>8 DEF TxOnce
  <2>2. \A u, v \in Thread : Carries(u)' /\ Carries(v)' /\ frame'[u] = frame'[v] => u = v
    BY <1>2, <1>3, <1>7, <1>8 DEF TxOnce
  <2>3. ASSUME NEW i \in Slots, txState'[i] = "DEVICE_OWNED"
        PROVE  /\ txBuffer'[i] \in 1 .. sends'
               /\ ~OnWire(txBuffer[i])'
               /\ \A u \in Thread : Carries(u)' => frame'[u] # txBuffer'[i]
               /\ \A j \in Slots : txState'[j] = "DEVICE_OWNED" /\ txBuffer'[i] = txBuffer'[j] => i = j
    BY <1>1, <1>2, <1>3, <1>4, <1>7, <2>3 DEF TxOnce
  <2>4. QED
    BY <1>1, <1>4, <1>7, <2>1, <2>2, <2>3 DEF TxOnce
<1>10. QED
  BY <1>5, <1>6, <1>9

\* A thread that is sending claims a free descriptor or copies its frame.
LEMMA TxClaimKeeps ==
  ASSUME TxInv, ThreadShape, NEW t \in Thread, TxClaim(t) \/ TxCopy(t)
  PROVE  TxInv'
<1> USE DEF TxInv
<1> DEFINE k == index[t]
           label == IF pc[t] = "txTry" THEN "txCopy" ELSE "txPublish"
<1>1. /\ k \in Slots /\ pc[t] \in {"txTry", "txCopy"}
      /\ pc' = [pc EXCEPT ![t] = label]
      /\ UNCHANGED <<producer, devTx, sends, sent, index, frame>>
  BY DEF TxClaim, TxCopy, Goto, ThreadShape, device, ledger
<1>2. /\ \A u \in Thread : pc'[u] = IF u = t THEN label ELSE pc[u]
      /\ \A u \in Thread : (Carries(u)' <=> Carries(u)) /\ (Builds(u)' <=> Builds(u) \/ u = t)
  BY <1>1 DEF ThreadShape, Carries, Builds
<1>3. txState[k] # "DEVICE_OWNED"
  BY DEF TxClaim, TxCopy, TxOwned, Builds
<1>4. /\ txState' \in [Slots -> {"FREE", "BUILDING", "DEVICE_OWNED"}] /\ txBuffer' \in [Slots -> Nat]
      /\ \A i \in Slots : i # k => txState'[i] = txState[i] /\ txBuffer'[i] = txBuffer[i]
      /\ txState'[k] = "BUILDING"
  <2>1. CASE TxClaim(t)
    BY <1>1, <2>1 DEF TxClaim, TxShape
  <2>2. CASE TxCopy(t)
    <3>1. txState[k] = "BUILDING" /\ txState' = txState /\ txBuffer' = [txBuffer EXCEPT ![k] = frame[t]]
      BY <2>2 DEF TxCopy, TxOwned, Builds
    <3>2. QED
      BY <1>1, <3>1 DEF TxShape, ThreadShape
  <2>3. QED
    BY <2>1, <2>2
<1>5. TxShape'
  BY <1>1, <1>4 DEF TxShape
<1>6. \A u \in Thread : Builds(u) /\ u # t => index[u] # k /\ index[u] \in Slots
  <2>1. CASE TxClaim(t)
    BY <2>1 DEF TxClaim, TxOwned, ThreadShape
  <2>2. CASE TxCopy(t)
    BY <2>2 DEF TxCopy, TxOwned, Builds, ThreadShape
  <2>3. QED
    BY <2>1, <2>2
<1>7. TxOwned'
  <2>1. \A u \in Thread : Builds(u)' => txState'[index'[u]] = "BUILDING"
    BY <1>1, <1>2, <1>4, <1>6 DEF TxOwned
  <2>2. \A u, v \in Thread : Builds(u)' /\ Builds(v)' /\ index'[u] = index'[v] => u = v
    BY <1>1, <1>2, <1>6 DEF TxOwned
  <2>3. pc'[t] = "txPublish" => txBuffer'[k] = frame[t]
    BY <1>1, <1>2 DEF TxClaim, TxCopy, TxShape
  <2>4. \A u \in Thread : u # t /\ pc'[u] = "txPublish" => txBuffer'[index'[u]] = frame'[u]
    BY <1>1, <1>2, <1>4, <1>6 DEF TxOwned, Builds
  <2>5. QED
    BY <1>1, <2>1, <2>2, <2>3, <2>4 DEF TxOwned
<1>8. \A n : OnWire(n)' <=> OnWire(n)
  BY <1>1 DEF OnWire
<1>9. \A i \in Slots : txState'[i] = "DEVICE_OWNED" =>
          i # k /\ txState[i] = "DEVICE_OWNED" /\ txBuffer'[i] = txBuffer[i]
  BY <1>3, <1>4
<1>10. TxOnce'
  BY <1>1, <1>2, <1>8, <1>9 DEF TxOnce
<1>11. QED
  BY <1>5, <1>7, <1>10

\* A thread publishes its frame and no longer carries it.
LEMMA TxPublishKeeps ==
  ASSUME TxInv, ThreadShape, NEW t \in Thread, TxPublish(t)
  PROVE  TxInv'
<1> USE DEF TxInv
<1> DEFINE k == index[t]
<1>1. /\ k \in Slots /\ pc[t] = "txPublish" /\ frame[t] = txBuffer[k] /\ Carries(t) /\ Builds(t)
      /\ txState' = [txState EXCEPT ![k] = "DEVICE_OWNED"]
      /\ pc' = [pc EXCEPT ![t] = "txAdvance"]
      /\ UNCHANGED <<txBuffer, producer, devTx, sends, sent, index, frame>>
  BY DEF TxPublish, Goto, ThreadShape, TxOwned, Carries, Builds, device, ledger
<1>2. /\ \A i \in Slots : txState'[i] = IF i = k THEN "DEVICE_OWNED" ELSE txState[i]
      /\ \A u \in Thread : pc'[u] = IF u = t THEN "txAdvance" ELSE pc[u]
  BY <1>1 DEF TxShape, ThreadShape
<1>3. \A u \in Thread : /\ Carries(u)' <=> Carries(u) /\ u # t
                        /\ Builds(u)' <=> Builds(u) /\ u # t
                        /\ pc'[u] = "txPublish" => pc[u] = "txPublish"
  BY <1>1, <1>2 DEF Carries, Builds
<1>4. \A n : OnWire(n)' <=> OnWire(n)
  BY <1>1 DEF OnWire
<1>5. TxShape'
  BY <1>1 DEF TxShape
<1>6. TxOwned'
  <2>1. \A u \in Thread : Builds(u)' => index[u] # k /\ index[u] \in Slots
    BY <1>1, <1>3 DEF TxOwned, ThreadShape
  <2>2. QED
    BY <1>1, <1>2, <1>3, <2>1 DEF TxOwned
<1>7. TxOnce'
  <2>1. /\ frame[t] \in 1 .. sends /\ ~OnWire(frame[t])
        /\ \A i \in Slots : txState[i] = "DEVICE_OWNED" => frame[t] # txBuffer[i]
        /\ \A u \in Thread : Carries(u) /\ u # t => frame[u] # frame[t]
    BY <1>1 DEF TxOnce
  <2>2. ASSUME NEW i \in Slots, txState'[i] = "DEVICE_OWNED"
        PROVE  /\ txBuffer'[i] \in 1 .. sends'
               /\ ~OnWire(txBuffer[i])'
               /\ \A u \in Thread : Carries(u)' => frame'[u] # txBuffer'[i]
               /\ \A j \in Slots : txState'[j] = "DEVICE_OWNED" /\ txBuffer'[i] = txBuffer'[j] => i = j
    BY <1>1, <1>2, <1>3, <1>4, <2>1, <2>2 DEF TxOnce
  <2>3. QED
    BY <1>1, <1>3, <1>4, <2>2 DEF TxOnce
<1>8. QED
  BY <1>5, <1>6, <1>7

-----------------------------------------------------------------------------
(* The ring                                                                *)

\* A step of one thread leaves the others where they are.
LEMMA OthersStay ==
  ASSUME ThreadShape, NEW t \in Thread, RxStep(t) \/ TxLoad(t) \/ TxStep(t)
  PROVE  \A u \in Thread : u # t => Stays(u)
BY DEF ThreadShape, RxStep, TxLoad, TxStep, RxLoad, RxNone, RxClaim, RxAccept, RxReject, RxDrop,
       RxAdvance, TxFull, TxClaim, TxCopy, TxPublish, TxAdvance, GiveBack, Goto, Stays

\* Every thread has a place, an index in the ring and a frame.
LEMMA ThreadShapeKept == ASSUME RingInv, [Next]_vars PROVE ThreadShape'
<1> USE DEF RingInv, ThreadShape
<1>1. CASE DeviceFill \/ DeviceReady \/ DeviceSend \/ UNCHANGED vars
  BY <1>1 DEF DeviceFill, DeviceReady, DeviceSend, vars
<1>2. ASSUME NEW t \in Reader, RxStep(t) PROVE ThreadShape'
  <2>1. t \in Thread
    BY DEF Thread
  <2>2. rxBuffer[index[t]] \in Nat /\ consumer \in Slots
    BY <2>1 DEF RxInv, RxShape
  <2>3. QED
    BY <1>2, <2>1, <2>2
       DEF RxStep, RxLoad, RxNone, RxClaim, RxAccept, RxReject, RxDrop, RxAdvance, GiveBack, Goto
<1>3. ASSUME NEW t \in Writer, TxLoad(t) \/ TxStep(t) PROVE ThreadShape'
  <2>1. t \in Thread
    BY DEF Thread
  <2>2. sends + 1 \in Nat /\ producer \in Slots
    BY DEF TxInv, TxShape
  <2>3. QED
    BY <1>3, <2>1, <2>2
       DEF TxStep, TxLoad, TxFull, TxClaim, TxCopy, TxPublish, TxAdvance, Goto
<1>4. QED
  BY <1>1, <1>2, <1>3 DEF Next

\* The invariant of the ring is inductive.
LEMMA RingInductive == Spec => []RingInv
<1>1. Init => RingInv
  <2> SUFFICES ASSUME Init PROVE RingInv
    OBVIOUS
  <2>1. 0 \in Slots
    BY BifrostAssumption DEF Slots
  <2>2. ThreadShape
    BY <2>1 DEF Init, ThreadShape
  <2>3. RxInv
    BY <2>1 DEF Init, RxInv, RxShape, RxOwned, RxOnce, Holds, Full, Unclaimed, Received, Occurs,
                NoDuplicates
  <2>4. TxInv
    BY <2>1 DEF Init, TxInv, TxShape, TxOwned, TxOnce, Builds, Carries, OnWire, Occurs,
                NoDuplicates
  <2>5. QED
    BY <2>2, <2>3, <2>4 DEF RingInv
<1>2. RingInv /\ [Next]_vars => RingInv'
  <2> SUFFICES ASSUME RingInv, [Next]_vars PROVE RingInv'
    OBVIOUS
  <2>0. ThreadShape /\ RxInv /\ TxInv /\ ThreadShape'
    BY ThreadShapeKept DEF RingInv
  <2> DEFINE rxSide == <<rxState, rxBuffer, rxFits, consumer, devRx, devFilling, arrived, handed>>
             txSide == <<txState, txBuffer, producer, devTx, sends, sent>>
  <2>1. CASE DeviceFill \/ DeviceReady
    <3>1. RxInv'
      BY <2>0, <2>1, FillKeeps, ReadyKeeps
    <3>2. UNCHANGED txSide /\ \A u \in Thread : Stays(u)
      BY <2>1 DEF DeviceFill, DeviceReady, tx, ledger, Stays
    <3>3. TxInv'
      BY <2>0, <3>2, TxKept
    <3>4. QED
      BY <2>0, <3>1, <3>3 DEF RingInv
  <2>2. CASE DeviceSend
    <3>1. TxInv'
      BY <2>0, <2>2, SendKeeps
    <3>2. UNCHANGED rxSide /\ \A u \in Thread : Stays(u)
      BY <2>2 DEF DeviceSend, rx, Stays
    <3>3. RxInv'
      BY <2>0, <3>2, RxKept
    <3>4. QED
      BY <2>0, <3>1, <3>3 DEF RingInv
  <2>3. ASSUME NEW t \in Reader, RxStep(t) PROVE RingInv'
    <3>0. t \in Thread /\ \A u \in Thread : u # t => Stays(u)
      <4>1. t \in Thread
        BY DEF Thread
      <4>2. QED
        BY <2>0, <2>3, <4>1, OthersStay
    <3>1. UNCHANGED txSide
      BY <2>3 DEF RxStep, RxLoad, RxNone, RxClaim, RxAccept, RxReject, RxDrop, RxAdvance,
                  GiveBack, tx, device, ledger
    <3>2. ~Carries(t) /\ ~Carries(t)'
      BY <2>0, <2>3, <3>0
         DEF RxStep, RxLoad, RxNone, RxClaim, RxAccept, RxReject, RxDrop, RxAdvance, GiveBack, Goto,
             Carries, ThreadShape
    <3>3. TxInv'
      BY <2>0, <3>0, <3>1, <3>2, TxKept
    <3>4. RxInv'
      <4>1. CASE RxLoad(t) \/ RxNone(t)
        <5>1. UNCHANGED rxSide
          BY <4>1 DEF RxLoad, RxNone, rx, device, ledger
        <5>2. ~Holds(t) /\ ~Holds(t)'
          BY <2>0, <3>0, <4>1 DEF RxLoad, RxNone, Goto, Holds, ThreadShape
        <5>3. QED
          BY <2>0, <3>0, <5>1, <5>2, RxKept
      <4>2. CASE RxClaim(t)
        BY <2>0, <3>0, <4>2, ClaimKeeps
      <4>3. CASE RxAccept(t)
        BY <2>0, <3>0, <4>3, AcceptKeeps
      <4>4. CASE RxReject(t) \/ RxDrop(t)
        <5>1. Holds(t) /\ GiveBack(t) /\ UNCHANGED <<arrived, handed>>
          BY <4>4 DEF RxReject, RxDrop, Holds, ledger
        <5>2. QED
          BY <2>0, <3>0, <5>1, GiveBackKeeps
      <4>5. CASE RxAdvance(t)
        <5>1. ~Holds(t) /\ ~Holds(t)'
          BY <2>0, <3>0, <4>5 DEF RxAdvance, Goto, Holds, ThreadShape
        <5>2. consumer' \in Slots
          BY <2>0, <3>0, <4>5, BifrostAssumption DEF RxAdvance, NextIndex, Slots, ThreadShape
        <5>3. UNCHANGED <<rxState, rxBuffer, rxFits, devRx, devFilling, arrived, handed>>
          BY <4>5 DEF RxAdvance, device, ledger
        <5>4. RxShape'
          BY <2>0, <5>2, <5>3 DEF RxInv, RxShape
        <5>5. \A u \in Thread : Holds(u)' => Holds(u) /\ Stays(u)
          BY <3>0, <5>1 DEF Holds, Stays
        <5>6. RxOwned'
          BY <2>0, <5>3, <5>5 DEF RxInv, RxOwned, Stays
        <5>7. \A u \in Thread : pc'[u] = "rxClaimed" => pc[u] = "rxClaimed" /\ frame'[u] = frame[u]
          BY <5>5 DEF Holds, Stays
        <5>8. RxOnce'
          BY <2>0, <5>3, <5>7 DEF RxInv, RxOnce, Full, Unclaimed, Received
        <5>9. QED
          BY <5>4, <5>6, <5>8 DEF RxInv
      <4>6. QED
        BY <2>3, <4>1, <4>2, <4>3, <4>4, <4>5 DEF RxStep
    <3>5. QED
      BY <2>0, <3>3, <3>4 DEF RingInv
  <2>4. ASSUME NEW t \in Writer, TxLoad(t) \/ TxStep(t) PROVE RingInv'
    <3>0. t \in Thread /\ \A u \in Thread : u # t => Stays(u)
      <4>1. t \in Thread
        BY DEF Thread
      <4>2. QED
        BY <2>0, <2>4, <4>1, OthersStay
    <3>1. UNCHANGED rxSide
      BY <2>4 DEF TxLoad, TxStep, TxFull, TxClaim, TxCopy, TxPublish, TxAdvance, rx, device, ledger
    <3>2. ~Holds(t) /\ ~Holds(t)'
      BY <2>0, <2>4, <3>0
         DEF TxLoad, TxStep, TxFull, TxClaim, TxCopy, TxPublish, TxAdvance, Goto, Holds, ThreadShape
    <3>3. RxInv'
      BY <2>0, <3>0, <3>1, <3>2, RxKept
    <3>4. TxInv'
      <4>1. CASE TxLoad(t)
        BY <2>0, <3>0, <4>1, TxLoadKeeps
      <4>2. CASE TxClaim(t) \/ TxCopy(t)
        BY <2>0, <3>0, <4>2, TxClaimKeeps
      <4>3. CASE TxPublish(t)
        BY <2>0, <3>0, <4>3, TxPublishKeeps
      <4>4. CASE TxFull(t) \/ TxAdvance(t)
        <5>1. ~Builds(t)' /\ ~Carries(t)' /\ pc'[t] = "idle"
          BY <2>0, <3>0, <4>4 DEF TxFull, TxAdvance, Goto, ThreadShape, Builds, Carries
        <5>2. producer' \in Slots
          BY <2>0, <3>0, <4>4, BifrostAssumption
             DEF TxFull, TxAdvance, NextIndex, Slots, ThreadShape, tx, TxInv, TxShape
        <5>3. UNCHANGED <<txState, txBuffer, devTx, sends, sent>>
          BY <4>4 DEF TxFull, TxAdvance, tx, device, ledger
        <5>4. TxShape'
          BY <2>0, <5>2, <5>3 DEF TxInv, TxShape
        <5>5. \A u \in Thread : /\ Carries(u)' => Carries(u) /\ Stays(u)
                                /\ Builds(u)' => Builds(u) /\ Stays(u)
                                /\ pc'[u] = "txPublish" => pc[u] = "txPublish" /\ Stays(u)
          BY <3>0, <5>1 DEF Builds, Carries, Stays
        <5>6. TxOwned'
          BY <2>0, <5>3, <5>5 DEF TxInv, TxOwned, Stays
        <5>7. TxOnce'
          BY <2>0, <5>3, <5>5 DEF TxInv, TxOnce, OnWire, Stays
        <5>8. QED
          BY <5>4, <5>6, <5>7 DEF TxInv
      <4>5. QED
        BY <2>4, <4>1, <4>2, <4>3, <4>4 DEF TxStep
    <3>5. QED
      BY <2>0, <3>3, <3>4 DEF RingInv
  <2>5. CASE UNCHANGED vars
    <3>1. UNCHANGED rxSide /\ UNCHANGED txSide /\ \A u \in Thread : Stays(u)
      BY <2>5 DEF vars, rx, tx, device, ledger, Stays
    <3>2. QED
      BY <2>0, <3>1, RxKept, TxKept DEF RingInv
  <2>6. QED
    BY <2>1, <2>2, <2>3, <2>4, <2>5 DEF Next
<1>3. QED
  BY <1>1, <1>2, PTL DEF Spec

\* "Buffer access is exclusively transferred through `state`" (bridge.rs
\* 21-22): for any number of readers and writers and any size of the ring.
THEOREM BuffersAreOwned == Spec => []Ownership
<1>1. RingInv => Ownership
  <2> SUFFICES ASSUME RingInv PROVE Ownership
    OBVIOUS
  <2>1. RxOwned /\ TxOwned
    BY DEF RingInv, RxInv, TxInv
  <2>2. ASSUME NEW t \in Thread, Holds(t) PROVE ~(devFilling /\ devRx = index[t])
    BY <2>1, <2>2 DEF RxOwned
  <2>3. QED
    BY <2>1, <2>2 DEF RxOwned, TxOwned, Ownership
<1>2. QED
  BY <1>1, RingInductive, PTL

\* try_receive and transmit deliver no frame twice, and nothing reaches the
\* wire that was not given to transmit.
THEOREM FramesAreUnique == Spec => []NoFrameTwice
<1>1. RingInv => NoFrameTwice
  <2> SUFFICES ASSUME RingInv PROVE NoFrameTwice
    OBVIOUS
  <2>1. NoDuplicates(handed) /\ NoDuplicates(sent)
    BY DEF RingInv, RxInv, TxInv, RxOnce, TxOnce
  <2>2. ASSUME NEW i \in DOMAIN sent PROVE sent[i] # 0
    <3>1. sent[i] \in Nat /\ OnWire(sent[i])
      BY DEF RingInv, TxInv, TxShape, OnWire, Occurs
    <3>2. sent[i] \in 1 .. sends
      BY <3>1 DEF RingInv, TxInv, TxOnce
    <3>3. QED
      BY <3>2
  <2>3. QED
    BY <2>1, <2>2 DEF NoFrameTwice
<1>2. QED
  BY <1>1, RingInductive, PTL

-----------------------------------------------------------------------------
(* Order: one reader, one writer                                           *)

\* The descriptor d places after descriptor i.
Ahead(i, d) == IF i + d < Entries THEN i + d ELSE i + d - Entries

\* With the sole reader r: the frames not given back are those after `done`,
\* in len descriptors from c on; c is where the reader is or goes next, and
\* the device is at the other end.
RxQueue(r, done, len, c) ==
    /\ arrived = done + len /\ len \in 0 .. Entries
    /\ devFilling => len > 0
    /\ devRx = Ahead(c, IF devFilling THEN len - 1 ELSE len)
    /\ \A k \in 0 .. len - 1 : Full(Ahead(c, k)) /\ rxBuffer[Ahead(c, k)] = done + 1 + k
    /\ \A i \in Slots : Full(i) => \E k \in 0 .. len - 1 : i = Ahead(c, k)
    /\ IF pc[r] = "rxAdvance" THEN NextIndex(index[r]) = c ELSE consumer = c
    /\ pc[r] \in {"rxTry", "rxClaimed", "rxHeld"} => index[r] = c
    /\ Holds(r) => frame[r] = done + 1

\* Every frame up to `seen` has been refused or received, in order, and no
\* other has been received.
Account(seen) ==
    /\ \A n \in 1 .. seen : n \in refused \/ Received(n)
    /\ \A i \in DOMAIN handed : handed[i] <= seen
    /\ Ascending(handed)

Seen(r, done) == IF pc[r] = "rxHeld" THEN done + 1 ELSE done

RxOrder ==
    \A r \in Reader : Reader = {r} =>
        \E done \in 0 .. arrived, len \in 0 .. Entries, c \in Slots :
            RxQueue(r, done, len, c) /\ Account(Seen(r, done))

\* With the sole writer w: the len descriptors from the device's place on
\* wait to be sent, oldest first, and the writer is at the other end with
\* the newest frame of all.
TxQueue(w, len) ==
    /\ \A k \in 0 .. len - 1 :
        /\ txState[Ahead(devTx, k)] = "DEVICE_OWNED"
        /\ \A i \in DOMAIN sent : sent[i] < txBuffer[Ahead(devTx, k)]
        /\ \A l \in 0 .. len - 1 : k < l => txBuffer[Ahead(devTx, k)] < txBuffer[Ahead(devTx, l)]
    /\ \A i \in Slots : txState[i] = "DEVICE_OWNED" => \E k \in 0 .. len - 1 : i = Ahead(devTx, k)
    /\ IF pc[w] = "txAdvance" THEN NextIndex(index[w]) = Ahead(devTx, len)
                              ELSE producer = Ahead(devTx, len)
    /\ Carries(w) => index[w] = Ahead(devTx, len) /\ frame[w] = sends
    /\ Ascending(sent)

TxOrder == \A w \in Writer : Writer = {w} => \E len \in 0 .. Entries : TxQueue(w, len)

\* NextIndex is one place ahead.
LEMMA AheadNext == ASSUME NEW i \in Slots PROVE NextIndex(i) = Ahead(i, 1)
<1>1. CASE i + 1 < Entries
  BY <1>1, BifrostAssumption DEF Slots, NextIndex, Ahead
<1>2. CASE i + 1 = Entries
  <2>1. Entries % Entries = 0
    BY BifrostAssumption
  <2>2. QED
    BY <1>2, <2>1, BifrostAssumption DEF Slots, NextIndex, Ahead
<1>3. QED
  BY <1>1, <1>2, BifrostAssumption DEF Slots

\* Going round the ring: the places ahead of a descriptor are distinct, and
\* after all of them comes the descriptor itself.
LEMMA AheadFacts ==
  ASSUME NEW c \in Slots
  PROVE  /\ \A d \in 0 .. Entries : Ahead(c, d) \in Slots
         /\ \A d, e \in 0 .. Entries - 1 : Ahead(c, d) = Ahead(c, e) => d = e
         /\ \A d \in 0 .. Entries - 1 : /\ Ahead(Ahead(c, 1), d) = Ahead(c, d + 1)
                                        /\ NextIndex(Ahead(c, d)) = Ahead(c, d + 1)
         /\ Ahead(c, 0) = c /\ Ahead(c, Entries) = c
<1>1. \A d \in 0 .. Entries : Ahead(c, d) \in Slots
  BY BifrostAssumption DEF Ahead, Slots
<1>2. \A d, e \in 0 .. Entries - 1 : Ahead(c, d) = Ahead(c, e) => d = e
  BY BifrostAssumption DEF Ahead, Slots
<1>3. ASSUME NEW d \in 0 .. Entries - 1
      PROVE  Ahead(Ahead(c, 1), d) = Ahead(c, d + 1) /\ NextIndex(Ahead(c, d)) = Ahead(c, d + 1)
  <2>1. Ahead(Ahead(c, 1), d) = Ahead(c, d + 1) /\ Ahead(Ahead(c, d), 1) = Ahead(c, d + 1)
    BY BifrostAssumption DEF Ahead, Slots
  <2>2. Ahead(c, d) \in Slots
    BY <1>1, BifrostAssumption
  <2>3. QED
    BY <2>1, <2>2, AheadNext
<1>4. Ahead(c, 0) = c /\ Ahead(c, Entries) = c
  BY BifrostAssumption DEF Ahead, Slots
<1>5. QED
  BY <1>1, <1>2, <1>3, <1>4

\* The device fills the descriptor at its end of the queue.
LEMMA FillOrder ==
  ASSUME RxInv, ThreadShape, DeviceFill, NEW r \in Thread, NEW done \in Nat, NEW len \in Nat,
         NEW c \in Slots, RxQueue(r, done, len, c)
  PROVE  RxQueue(r, done, len + 1, c)'
<1>1. /\ rxState[devRx] = "DEVICE_OWNED" /\ devRx \in Slots /\ ~devFilling /\ devFilling' = TRUE
      /\ arrived' = arrived + 1 /\ rxBuffer' = [rxBuffer EXCEPT ![devRx] = arrived + 1]
      /\ UNCHANGED <<rxState, consumer, devRx, pc, index, frame>>
  BY DEF DeviceFill, RxInv, RxShape
<1>2. /\ arrived = done + len /\ len \in 0 .. Entries /\ devRx = Ahead(c, len)
      /\ \A k \in 0 .. len - 1 : Full(Ahead(c, k)) /\ rxBuffer[Ahead(c, k)] = done + 1 + k
      /\ \A i \in Slots : Full(i) => \E k \in 0 .. len - 1 : i = Ahead(c, k)
  BY <1>1 DEF RxQueue
<1>3. ~Full(devRx)
  BY <1>1 DEF Full
<1>4. len < Entries
  <2>1. CASE len = Entries
    <3>1. devRx = Ahead(c, 0) /\ 0 \in 0 .. len - 1
      BY <1>2, <2>1, AheadFacts, BifrostAssumption
    <3>2. QED
      BY <1>2, <1>3, <3>1
  <2>2. QED
    BY <1>2, <2>1, BifrostAssumption
<1>5. \A i \in Slots : /\ Full(i)' <=> (Full(i) \/ i = devRx)
                       /\ rxBuffer'[i] = IF i = devRx THEN arrived + 1 ELSE rxBuffer[i]
  BY <1>1 DEF Full, RxInv, RxShape
<1>6. \A k \in 0 .. len : Ahead(c, k) \in Slots
  BY <1>4, AheadFacts, BifrostAssumption
<1>7. \A k \in 0 .. len : Full(Ahead(c, k))' /\ rxBuffer'[Ahead(c, k)] = done + 1 + k
  <2> TAKE k \in 0 .. len
  <2>1. CASE k = len
    BY <1>2, <1>5, <1>6, <2>1
  <2>2. CASE k # len
    <3>1. k \in 0 .. len - 1
      BY <2>2
    <3>2. Ahead(c, k) # devRx
      BY <1>2, <1>3, <3>1
    <3>3. QED
      BY <1>2, <1>5, <1>6, <3>1, <3>2
  <2>3. QED
    BY <2>1, <2>2
<1>8. \A i \in Slots : Full(i)' => \E k \in 0 .. len : i = Ahead(c, k)
  BY <1>2, <1>5
<1>9. (Holds(r)' <=> Holds(r)) /\ len + 1 \in 0 .. Entries /\ (len + 1) - 1 = len
  BY <1>1, <1>4, BifrostAssumption DEF Holds
<1>10. devRx' = Ahead(c, IF devFilling' THEN len + 1 - 1 ELSE len + 1)
  BY <1>1, <1>2
<1>11. QED
  BY <1>1, <1>2, <1>7, <1>8, <1>9, <1>10 DEF RxQueue

\* It publishes that descriptor and moves on.
LEMMA ReadyOrder ==
  ASSUME RxInv, ThreadShape, DeviceReady, NEW r \in Thread, NEW done \in Nat, NEW len \in Nat,
         NEW c \in Slots, RxQueue(r, done, len, c)
  PROVE  RxQueue(r, done, len, c)'
<1>1. /\ devFilling /\ devFilling' = FALSE /\ devRx \in Slots
      /\ rxState' = [rxState EXCEPT ![devRx] = "READY"] /\ devRx' = NextIndex(devRx)
      /\ UNCHANGED <<rxBuffer, consumer, arrived, pc, index, frame>>
  BY DEF DeviceReady, RxInv, RxShape, ledger
<1>2. len > 0 /\ len \in 0 .. Entries /\ devRx = Ahead(c, len - 1)
  BY <1>1 DEF RxQueue
<1>3. devRx' = Ahead(c, len)
  <2>1. len - 1 \in 0 .. Entries - 1 /\ (len - 1) + 1 = len
    BY <1>2, BifrostAssumption
  <2>2. QED
    BY <1>1, <1>2, <2>1, AheadFacts
<1>4. \A i \in Slots : Full(i)' <=> Full(i)
  BY <1>1 DEF Full, RxInv, RxShape
<1>5. \A k \in 0 .. len - 1 : Ahead(c, k) \in Slots
  BY <1>2, AheadFacts, BifrostAssumption
<1>6. Holds(r)' <=> Holds(r)
  BY <1>1 DEF Holds
<1>7. QED
  BY <1>1, <1>3, <1>4, <1>5, <1>6 DEF RxQueue

\* The reader claims the oldest frame.
LEMMA ClaimOrder ==
  ASSUME RxInv, ThreadShape, NEW r \in Thread, RxClaim(r), NEW done \in Nat, NEW len \in Nat,
         NEW c \in Slots, RxQueue(r, done, len, c)
  PROVE  RxQueue(r, done, len, c)'
<1>1. /\ pc[r] = "rxTry" /\ index[r] = c /\ rxState[c] = "READY"
      /\ rxState' = [rxState EXCEPT ![c] = "USER_HELD"]
      /\ pc'[r] = "rxClaimed" /\ frame'[r] = rxBuffer[c]
      /\ UNCHANGED <<rxBuffer, consumer, arrived, index, devRx, devFilling>>
  BY DEF RxClaim, RxQueue, Goto, ThreadShape, device, ledger
<1>2. Full(c) /\ len \in 0 .. Entries
  BY <1>1 DEF Full, RxQueue
<1>3. rxBuffer[c] = done + 1
  <2>1. PICK k \in 0 .. len - 1 : c = Ahead(c, k)
    BY <1>2 DEF RxQueue
  <2>2. k \in 0 .. Entries - 1 /\ 0 \in 0 .. Entries - 1
    BY <1>2, BifrostAssumption
  <2>3. k = 0
    BY <2>1, <2>2, AheadFacts
  <2>4. QED
    BY <2>1, <2>3 DEF RxQueue
<1>4. \A i \in Slots : Full(i)' <=> Full(i)
  BY <1>1 DEF Full, RxInv, RxShape
<1>5. \A k \in 0 .. len - 1 : Ahead(c, k) \in Slots
  BY <1>2, AheadFacts, BifrostAssumption
<1>6. QED
  BY <1>1, <1>3, <1>4, <1>5 DEF RxQueue

\* The reader gives the oldest descriptor back.
LEMMA GiveBackOrder ==
  ASSUME RxInv, ThreadShape, NEW r \in Thread, Holds(r), GiveBack(r), arrived' = arrived,
         NEW done \in Nat, NEW len \in Nat, NEW c \in Slots, RxQueue(r, done, len, c)
  PROVE  len > 0 /\ RxQueue(r, done + 1, len - 1, Ahead(c, 1))'
<1>1. /\ index[r] = c /\ frame[r] = done + 1 /\ rxState[c] = "USER_HELD"
      /\ rxState' = [rxState EXCEPT ![c] = "DEVICE_OWNED"]
      /\ pc'[r] = "rxAdvance"
      /\ UNCHANGED <<rxBuffer, consumer, arrived, index, frame, devRx, devFilling>>
  BY DEF GiveBack, RxQueue, Holds, RxInv, RxOwned, Goto, ThreadShape, device
<1>2. Full(c) /\ ~(devFilling /\ devRx = c)
  BY <1>1 DEF Full, RxInv, RxOwned
<1>3. len \in 0 .. Entries /\ len > 0
  BY <1>2 DEF RxQueue
<1>4. /\ NextIndex(c) = Ahead(c, 1) /\ Ahead(c, 0) = c /\ Ahead(c, 1) \in Slots
      /\ \A k \in 0 .. Entries - 1 : Ahead(c, k) \in Slots /\ Ahead(Ahead(c, 1), k) = Ahead(c, k + 1)
      /\ \A k \in 0 .. Entries - 1 : k # 0 => Ahead(c, k) # c
  <2>1. 0 \in 0 .. Entries - 1 /\ 0 + 1 = 1 /\ 1 \in 0 .. Entries
    BY BifrostAssumption
  <2>2. \A k \in 0 .. Entries - 1 : k \in 0 .. Entries
    BY BifrostAssumption
  <2>3. QED
    BY <2>1, <2>2, AheadFacts, AheadNext
<1>5. \A i \in Slots : Full(i)' <=> (Full(i) /\ i # c)
  BY <1>1, <1>2 DEF Full, RxInv, RxShape
<1>6. \A k \in 0 .. (len - 1) - 1 :
        /\ Full(Ahead(Ahead(c, 1), k))'
        /\ rxBuffer'[Ahead(Ahead(c, 1), k)] = (done + 1) + 1 + k
  <2> TAKE k \in 0 .. (len - 1) - 1
  <2>1. k + 1 \in 0 .. len - 1 /\ k + 1 \in 0 .. Entries - 1 /\ k \in 0 .. Entries - 1 /\ k + 1 # 0
    BY <1>3, BifrostAssumption
  <2>2. Full(Ahead(c, k + 1)) /\ rxBuffer[Ahead(c, k + 1)] = done + 1 + (k + 1)
    BY <2>1 DEF RxQueue
  <2>3. QED
    BY <1>1, <1>4, <1>5, <2>1, <2>2
<1>7. ASSUME NEW i \in Slots, Full(i)'
      PROVE  \E k \in 0 .. (len - 1) - 1 : i = Ahead(Ahead(c, 1), k)
  <2>1. PICK k \in 0 .. len - 1 : i = Ahead(c, k)
    BY <1>5, <1>7 DEF RxQueue
  <2>2. k # 0
    BY <1>4, <1>5, <1>7, <2>1
  <2>3. k - 1 \in 0 .. (len - 1) - 1 /\ k - 1 \in 0 .. Entries - 1 /\ (k - 1) + 1 = k
    BY <1>3, <2>2, BifrostAssumption
  <2>4. QED
    BY <1>4, <2>1, <2>3
<1>8. /\ devFilling => len - 1 > 0
      /\ devRx = Ahead(Ahead(c, 1), IF devFilling THEN (len - 1) - 1 ELSE len - 1)
  <2>1. CASE devFilling
    <3>1. devRx = Ahead(c, len - 1)
      BY <2>1 DEF RxQueue
    <3>2. len # 1
      BY <1>2, <1>4, <2>1, <3>1
    <3>3. len - 1 > 0 /\ (len - 1) - 1 \in 0 .. Entries - 1 /\ ((len - 1) - 1) + 1 = len - 1
      BY <1>3, <3>2, BifrostAssumption
    <3>4. QED
      BY <1>4, <2>1, <3>1, <3>3
  <2>2. CASE ~devFilling
    <3>1. devRx = Ahead(c, len)
      BY <2>2 DEF RxQueue
    <3>2. len - 1 \in 0 .. Entries - 1 /\ (len - 1) + 1 = len
      BY <1>3, BifrostAssumption
    <3>3. QED
      BY <1>4, <2>2, <3>1, <3>2
  <2>3. QED
    BY <2>1, <2>2
<1>9. arrived = (done + 1) + (len - 1) /\ len - 1 \in 0 .. Entries
  BY <1>3, BifrostAssumption DEF RxQueue
<1>10. ~Holds(r)'
  BY <1>1 DEF Holds
<1>11. QED
  BY <1>1, <1>3, <1>4, <1>6, <1>7, <1>8, <1>9, <1>10 DEF RxQueue

\* One more frame, newer than all, keeps a list ascending.
LEMMA AppendedLast ==
  ASSUME NEW s \in Seq(Nat), NEW x \in Nat, Ascending(s), \A i \in DOMAIN s : s[i] < x
  PROVE  Ascending(Append(s, x)) /\ \A i \in DOMAIN Append(s, x) : Append(s, x)[i] <= x
<1> DEFINE r == Append(s, x)
<1>1. /\ Len(s) \in Nat /\ DOMAIN r = 1 .. Len(s) + 1 /\ DOMAIN s = 1 .. Len(s)
      /\ \A i \in 1 .. Len(s) : r[i] = s[i] /\ s[i] \in Nat
      /\ r[Len(s) + 1] = x
  OBVIOUS
<1> HIDE DEF r
<1>2. \A i \in DOMAIN r : i = Len(s) + 1 \/ (i \in DOMAIN s /\ r[i] = s[i] /\ r[i] < x)
  BY <1>1
<1>3. ASSUME NEW i \in DOMAIN r, NEW j \in DOMAIN r, i < j PROVE r[i] < r[j]
  <2>1. i \in DOMAIN s
    BY <1>1, <1>3
  <2>2. QED
    BY <1>1, <1>2, <1>3, <2>1 DEF Ascending
<1>4. \A i \in DOMAIN r : r[i] <= x
  BY <1>1, <1>2
<1>5. QED
  BY <1>3, <1>4 DEF Ascending, r

\* The reader moves without touching a descriptor.
LEMMA QueueKept ==
  ASSUME NEW r \in Thread, NEW done \in Nat, NEW len \in Nat, NEW c \in Slots,
         RxQueue(r, done, len, c),
         UNCHANGED <<rxState, rxBuffer, devRx, devFilling, arrived>>,
         IF pc'[r] = "rxAdvance" THEN NextIndex(index'[r]) = c ELSE consumer' = c,
         pc'[r] \in {"rxTry", "rxClaimed", "rxHeld"} => index'[r] = c,
         Holds(r)' => frame'[r] = done + 1
  PROVE  RxQueue(r, done, len, c)'
<1>1. \A i : Full(i)' <=> Full(i)
  BY DEF Full
<1>2. QED
  BY <1>1 DEF RxQueue

\* With one reader every step keeps the queue of unread frames and the account
\* of the frames refused and received.
LEMMA RxOrderKept == ASSUME RingInv, RxOrder, [Next]_vars PROVE RxOrder'
<1> SUFFICES ASSUME NEW r \in Reader, Reader = {r}
             PROVE  \E done \in 0 .. arrived', len \in 0 .. Entries, c \in Slots :
                       RxQueue(r, done, len, c)' /\ Account(Seen(r, done))'
  BY DEF RxOrder
<1>0. ThreadShape /\ RxInv /\ r \in Thread
  BY DEF RingInv, Thread
<1>1. PICK done \in 0 .. arrived, len \in 0 .. Entries, c \in Slots :
             RxQueue(r, done, len, c) /\ Account(Seen(r, done))
  BY DEF RxOrder
<1>2. done \in Nat /\ len \in Nat /\ arrived \in Nat /\ handed \in Seq(Nat)
  BY <1>0, <1>1, BifrostAssumption DEF RxInv, RxShape
<1>3. ASSUME NEW d \in Nat, NEW l \in Nat, NEW e \in Slots,
             RxQueue(r, d, l, e)', Account(Seen(r, d))'
      PROVE  \E x \in 0 .. arrived', y \in 0 .. Entries, z \in Slots :
                RxQueue(r, x, y, z)' /\ Account(Seen(r, x))'
  <2>1. d \in 0 .. arrived' /\ l \in 0 .. Entries
    BY <1>3, BifrostAssumption DEF RxQueue
  <2>2. QED
    BY <1>3, <2>1
<1>4. ASSUME UNCHANGED <<refused, handed>>, NEW d \in Nat, Seen(r, d)' = Seen(r, done)
      PROVE  Account(Seen(r, d))'
  BY <1>1, <1>4 DEF Account, Received
<1>5. CASE DeviceFill \/ DeviceReady
  <2>1. UNCHANGED <<pc, refused, handed>>
    BY <1>5 DEF DeviceFill, DeviceReady, ledger
  <2>2. Account(Seen(r, done))'
    BY <1>2, <1>4, <2>1 DEF Seen
  <2>3. RxQueue(r, done, len + 1, c)' \/ RxQueue(r, done, len, c)'
    BY <1>0, <1>1, <1>2, <1>5, FillOrder, ReadyOrder
  <2>4. len + 1 \in Nat
    BY <1>2
  <2>5. QED
    BY <1>2, <1>3, <2>2, <2>3, <2>4
<1>6. CASE RxLoad(r) \/ RxNone(r) \/ RxClaim(r) \/ RxAdvance(r)
  <2>1. UNCHANGED <<refused, handed>> /\ pc[r] # "rxHeld" /\ pc'[r] # "rxHeld"
    BY <1>0, <1>6 DEF RxLoad, RxNone, RxClaim, RxAdvance, Goto, ThreadShape, ledger
  <2>2. Account(Seen(r, done))'
    BY <1>2, <1>4, <2>1 DEF Seen
  <2>3. RxQueue(r, done, len, c)'
    <3>1. CASE RxClaim(r)
      BY <1>0, <1>1, <1>2, <3>1, ClaimOrder
    <3>2. CASE RxLoad(r) \/ RxNone(r) \/ RxAdvance(r)
      <4>1. UNCHANGED <<rxState, rxBuffer, devRx, devFilling, arrived>>
        BY <3>2 DEF RxLoad, RxNone, RxAdvance, rx, device, ledger
      <4>2. /\ pc'[r] # "rxAdvance" /\ consumer' = c
            /\ pc'[r] \in {"rxTry", "rxClaimed", "rxHeld"} => index'[r] = c
            /\ ~Holds(r)'
        BY <1>0, <1>1, <3>2 DEF RxLoad, RxNone, RxAdvance, Goto, rx, ThreadShape, RxQueue, Holds
      <4>3. QED
        BY <1>0, <1>1, <1>2, <4>1, <4>2, QueueKept
    <3>3. QED
      BY <1>6, <3>1, <3>2
  <2>4. QED
    BY <1>2, <1>3, <2>2, <2>3
<1>7. CASE RxAccept(r)
  <2>1. /\ pc[r] = "rxClaimed" /\ pc'[r] = "rxHeld" /\ handed' = Append(handed, frame[r])
        /\ UNCHANGED <<rxState, rxBuffer, rxFits, consumer, devRx, devFilling, arrived, index, frame, refused>>
    BY <1>0, <1>7 DEF RxAccept, Goto, ThreadShape, rx, device
  <2>2. frame[r] = done + 1 /\ index[r] = c /\ consumer = c
    BY <1>1, <2>1 DEF RxQueue, Holds
  <2>3. RxQueue(r, done, len, c)'
    BY <1>0, <1>1, <1>2, <2>1, <2>2, QueueKept
  <2>4. /\ \A n \in 1 .. done : n \in refused \/ Received(n)
        /\ \A i \in DOMAIN handed : handed[i] <= done
        /\ Ascending(handed)
    BY <1>1, <2>1 DEF Account, Seen
  <2>5. /\ Ascending(handed') /\ \A i \in DOMAIN handed' : handed'[i] <= done + 1
        /\ \A n : Received(n)' <=> n = done + 1 \/ Received(n)
    <3>1. handed' = Append(handed, done + 1) /\ done + 1 \in Nat
      BY <1>2, <2>1, <2>2
    <3>2. \A i \in DOMAIN handed : handed[i] < done + 1
      BY <1>2, <2>4
    <3>3. QED
      BY <1>2, <2>4, <3>1, <3>2, Appended, AppendedLast DEF Received
  <2>6. \A n \in 1 .. done + 1 : n \in refused' \/ Received(n)'
    BY <1>2, <2>1, <2>4, <2>5
  <2>7. Account(Seen(r, done))'
    BY <2>1, <2>5, <2>6 DEF Account, Seen
  <2>8. QED
    BY <1>2, <1>3, <2>3, <2>7
<1>8. CASE RxReject(r) \/ RxDrop(r)
  <2>1. Holds(r) /\ GiveBack(r) /\ UNCHANGED <<arrived, handed>> /\ pc'[r] = "rxAdvance"
    BY <1>0, <1>8 DEF RxReject, RxDrop, GiveBack, Goto, Holds, ThreadShape, ledger
  <2>2. len > 0 /\ RxQueue(r, done + 1, len - 1, Ahead(c, 1))'
    BY <1>0, <1>1, <1>2, <2>1, GiveBackOrder
  <2>3. done + 1 \in Nat /\ len - 1 \in Nat /\ Ahead(c, 1) \in Slots
    <3>1. 1 \in 0 .. Entries
      BY BifrostAssumption
    <3>2. QED
      BY <1>2, <2>2, <3>1, AheadFacts
  <2>4. Account(Seen(r, done + 1))'
    <3>1. CASE RxDrop(r)
      <4>1. pc[r] = "rxHeld" /\ UNCHANGED <<refused, handed>>
        BY <3>1 DEF RxDrop, ledger
      <4>2. QED
        BY <1>4, <2>1, <2>3, <4>1 DEF Seen
    <3>2. CASE RxReject(r)
      <4>1. pc[r] = "rxClaimed" /\ refused' = refused \cup {done + 1}
        BY <1>1, <2>1, <3>2 DEF RxReject, RxQueue
      <4>2. /\ \A n \in 1 .. done : n \in refused \/ Received(n)
            /\ \A i \in DOMAIN handed : handed[i] <= done
            /\ Ascending(handed)
        BY <1>1, <4>1 DEF Account, Seen
      <4>3. \A n \in 1 .. done + 1 : n \in refused' \/ Received(n)
        BY <1>2, <4>1, <4>2
      <4>4. \A i \in DOMAIN handed : handed[i] <= done + 1
        BY <1>2, <4>2
      <4>5. QED
        BY <2>1, <4>2, <4>3, <4>4 DEF Account, Seen, Received
    <3>3. QED
      BY <1>8, <3>1, <3>2
  <2>5. QED
    BY <1>3, <2>2, <2>3, <2>4
<1>9. CASE DeviceSend \/ (\E t \in Writer : TxLoad(t) \/ TxStep(t)) \/ UNCHANGED vars
  <2>1. UNCHANGED <<rxState, rxBuffer, consumer, devRx, devFilling, arrived, refused, handed>>
    BY <1>9 DEF DeviceSend, TxLoad, TxStep, TxFull, TxClaim, TxCopy, TxPublish, TxAdvance,
                vars, rx, device, ledger
  <2>2. Stays(r)
    <3>1. ASSUME NEW t \in Writer, TxLoad(t) \/ TxStep(t) PROVE Stays(r)
      <4>1. t # r /\ t \in Thread
        BY BifrostAssumption DEF Thread
      <4>2. QED
        BY <1>0, <3>1, <4>1, OthersStay
    <3>2. CASE DeviceSend \/ UNCHANGED vars
      BY <3>2 DEF DeviceSend, vars, Stays
    <3>3. QED
      BY <1>9, <3>1, <3>2
  <2>3. RxQueue(r, done, len, c)'
    <3>1. /\ IF pc'[r] = "rxAdvance" THEN NextIndex(index'[r]) = c ELSE consumer' = c
          /\ pc'[r] \in {"rxTry", "rxClaimed", "rxHeld"} => index'[r] = c
          /\ Holds(r)' => frame'[r] = done + 1
      BY <1>1, <2>1, <2>2 DEF Stays, RxQueue, Holds
    <3>2. QED
      BY <1>0, <1>1, <1>2, <2>1, <3>1, QueueKept
  <2>4. Account(Seen(r, done))'
    BY <1>2, <1>4, <2>1, <2>2 DEF Seen, Stays
  <2>5. QED
    BY <1>2, <1>3, <2>3, <2>4
<1>10. QED
  BY <1>5, <1>6, <1>7, <1>8, <1>9 DEF Next, RxStep

\* The places of the sending queue, seen from the device.
LEMMA TxPlaces ==
  ASSUME TxInv
  PROVE  /\ devTx \in Slots /\ Ahead(devTx, 0) = devTx /\ Ahead(devTx, Entries) = devTx
         /\ NextIndex(devTx) = Ahead(devTx, 1)
         /\ \A k \in 0 .. Entries : Ahead(devTx, k) \in Slots
         /\ \A k \in 0 .. Entries - 1 : /\ NextIndex(Ahead(devTx, k)) = Ahead(devTx, k + 1)
                                        /\ Ahead(Ahead(devTx, 1), k) = Ahead(devTx, k + 1)
         /\ \A k, l \in 0 .. Entries - 1 : Ahead(devTx, k) = Ahead(devTx, l) => k = l
<1>1. PICK d \in Slots : d = devTx
  BY DEF TxInv, TxShape
<1>2. QED
  BY <1>1, AheadFacts, AheadNext

\* The device sends the oldest frame.
LEMMA SendOrder ==
  ASSUME TxInv, ThreadShape, DeviceSend, NEW w \in Thread, NEW len \in 0 .. Entries, TxQueue(w, len)
  PROVE  len > 0 /\ TxQueue(w, len - 1)'
<1>1. /\ devTx \in Slots /\ txState[devTx] = "DEVICE_OWNED" /\ txBuffer[devTx] \in Nat
      /\ sent \in Seq(Nat) /\ sent' = Append(sent, txBuffer[devTx])
      /\ \A i \in Slots : txState'[i] = IF i = devTx THEN "FREE" ELSE txState[i]
      /\ devTx' = NextIndex(devTx)
      /\ UNCHANGED <<txBuffer, producer, sends, pc, index, frame>>
  BY DEF DeviceSend, TxInv, TxShape
<1>2. len > 0 /\ len \in Nat /\ len - 1 \in Nat
  BY <1>1, BifrostAssumption DEF TxQueue
<1>3. devTx' = Ahead(devTx, 1) /\ \A k \in 0 .. Entries - 1 : Ahead(devTx', k) = Ahead(devTx, k + 1)
  BY <1>1, TxPlaces
<1>4. /\ \A k \in 0 .. (len - 1) - 1 : k + 1 \in 0 .. len - 1 /\ k \in 0 .. Entries - 1
                                       /\ k + 1 \in 0 .. Entries - 1 /\ k + 1 # 0
      /\ len - 1 \in 0 .. Entries - 1 /\ (len - 1) + 1 = len /\ 0 \in 0 .. len - 1
      /\ 0 \in 0 .. Entries - 1
  BY <1>2, BifrostAssumption
<1>5. \A k \in 0 .. Entries - 1 : /\ Ahead(devTx, k) \in Slots
                                  /\ Ahead(devTx, k) = devTx => k = 0
  <2>1. \A k \in 0 .. Entries - 1 : k \in 0 .. Entries
    BY BifrostAssumption
  <2>2. QED
    BY <1>4, <2>1, TxPlaces
<1>6. Ahead(devTx, 0) = devTx
  BY TxPlaces
<1>7. Ascending(sent') /\ \A i \in DOMAIN sent' : sent'[i] <= txBuffer[devTx]
  <2>1. Ascending(sent) /\ \A i \in DOMAIN sent : sent[i] < txBuffer[devTx]
    BY <1>4, <1>6 DEF TxQueue
  <2>2. QED
    BY <1>1, <2>1, AppendedLast
<1>8. ASSUME NEW k \in 0 .. (len - 1) - 1
      PROVE  /\ txState'[Ahead(devTx', k)] = "DEVICE_OWNED"
             /\ \A i \in DOMAIN sent' : sent'[i] < txBuffer'[Ahead(devTx', k)]
             /\ \A l \in 0 .. (len - 1) - 1 :
                    k < l => txBuffer'[Ahead(devTx', k)] < txBuffer'[Ahead(devTx', l)]
  <2>1. /\ Ahead(devTx', k) = Ahead(devTx, k + 1) /\ k + 1 \in 0 .. len - 1
        /\ Ahead(devTx, k + 1) \in Slots /\ Ahead(devTx, k + 1) # devTx
    BY <1>3, <1>4, <1>5
  <2>2. txState'[Ahead(devTx', k)] = "DEVICE_OWNED"
    BY <1>1, <2>1 DEF TxQueue
  <2>3. txBuffer[devTx] < txBuffer[Ahead(devTx, k + 1)]
    <3>1. 0 < k + 1
      OBVIOUS
    <3>2. QED
      BY <1>4, <1>6, <2>1, <3>1 DEF TxQueue
  <2>4. ASSUME NEW i \in DOMAIN sent' PROVE sent'[i] < txBuffer'[Ahead(devTx', k)]
    <3>1. sent'[i] \in Nat /\ sent'[i] <= txBuffer[devTx] /\ txBuffer[Ahead(devTx, k + 1)] \in Nat
      BY <1>1, <1>7, <2>1 DEF TxInv, TxShape
    <3>2. QED
      BY <1>1, <2>1, <2>3, <3>1
  <2>5. ASSUME NEW l \in 0 .. (len - 1) - 1, k < l
        PROVE  txBuffer'[Ahead(devTx', k)] < txBuffer'[Ahead(devTx', l)]
    <3>1. Ahead(devTx', l) = Ahead(devTx, l + 1) /\ l + 1 \in 0 .. len - 1 /\ k + 1 < l + 1
      BY <1>3, <1>4, <2>5
    <3>2. QED
      BY <1>1, <2>1, <3>1 DEF TxQueue
  <2>6. QED
    BY <2>2, <2>4, <2>5
<1>9. ASSUME NEW i \in Slots, txState'[i] = "DEVICE_OWNED"
      PROVE  \E k \in 0 .. (len - 1) - 1 : i = Ahead(devTx', k)
  <2>1. i # devTx /\ txState[i] = "DEVICE_OWNED"
    BY <1>1, <1>9
  <2>2. PICK k \in 0 .. len - 1 : i = Ahead(devTx, k)
    BY <2>1 DEF TxQueue
  <2>3. k # 0
    BY <1>6, <2>1, <2>2
  <2>4. k - 1 \in 0 .. (len - 1) - 1 /\ k - 1 \in 0 .. Entries - 1 /\ (k - 1) + 1 = k
    BY <1>2, <2>3, BifrostAssumption
  <2>5. QED
    BY <1>3, <2>2, <2>4
<1>10. Ahead(devTx', len - 1) = Ahead(devTx, len)
  BY <1>3, <1>4
<1>11. Carries(w)' <=> Carries(w)
  BY <1>1 DEF Carries
<1>12. QED
  BY <1>1, <1>2, <1>7, <1>8, <1>9, <1>10, <1>11 DEF TxQueue

\* The writer publishes the newest frame behind the others.
LEMMA PublishOrder ==
  ASSUME TxInv, ThreadShape, NEW w \in Thread, TxPublish(w), NEW len \in 0 .. Entries, TxQueue(w, len)
  PROVE  len + 1 \in 0 .. Entries /\ TxQueue(w, len + 1)'
<1>1. PICK p : p = index[w] /\ p = Ahead(devTx, len) /\ p \in Slots
  BY DEF TxPublish, TxQueue, Carries, ThreadShape
<1>2. /\ txState[p] = "BUILDING" /\ txBuffer[p] = frame[w] /\ frame[w] = sends /\ Carries(w)
      /\ \A i \in Slots : txState'[i] = IF i = p THEN "DEVICE_OWNED" ELSE txState[i]
      /\ pc'[w] = "txAdvance" /\ devTx \in Slots /\ sends \in Nat
      /\ UNCHANGED <<txBuffer, producer, devTx, sends, sent, index, frame>>
  BY <1>1 DEF TxPublish, Goto, TxInv, TxShape, TxOwned, Builds, TxQueue, Carries, ThreadShape,
              device, ledger
<1>3. len < Entries /\ len \in Nat
  <2>1. CASE len = Entries
    <3>1. p = Ahead(devTx, 0) /\ 0 \in 0 .. len - 1
      BY <1>1, <2>1, TxPlaces, BifrostAssumption
    <3>2. QED
      BY <1>2, <3>1 DEF TxQueue
  <2>2. QED
    BY <2>1, BifrostAssumption
<1>4. /\ len \in 0 .. Entries - 1 /\ len + 1 \in 0 .. Entries /\ (len + 1) - 1 = len
      /\ \A k \in 0 .. len : k \in 0 .. Entries /\ (k = len \/ k \in 0 .. len - 1)
  BY <1>3, BifrostAssumption
<1>5. /\ \A i \in DOMAIN sent : sent[i] < sends
      /\ \A i \in Slots : txState[i] = "DEVICE_OWNED" => txBuffer[i] < sends
  <2>1. ASSUME NEW i \in DOMAIN sent PROVE sent[i] < sends
    <3>1. sent[i] \in Nat /\ OnWire(sent[i])
      BY DEF TxInv, TxShape, OnWire, Occurs
    <3>2. sent[i] \in 1 .. sends /\ sent[i] # sends
      BY <1>2, <3>1 DEF TxInv, TxOnce
    <3>3. QED
      BY <1>2, <3>2
  <2>2. ASSUME NEW i \in Slots, txState[i] = "DEVICE_OWNED" PROVE txBuffer[i] < sends
    <3>1. txBuffer[i] \in 1 .. sends /\ txBuffer[i] # sends
      BY <1>2, <2>2 DEF TxInv, TxOnce
    <3>2. QED
      BY <1>2, <3>1
  <2>3. QED
    BY <2>1, <2>2
<1>6. ASSUME NEW k \in 0 .. len - 1
      PROVE  /\ Ahead(devTx, k) \in Slots /\ Ahead(devTx, k) # p
             /\ txState'[Ahead(devTx, k)] = "DEVICE_OWNED"
             /\ txBuffer[Ahead(devTx, k)] < txBuffer[p]
  <2>1. k \in 0 .. Entries /\ txState[Ahead(devTx, k)] = "DEVICE_OWNED"
    BY <1>3, BifrostAssumption DEF TxQueue
  <2>2. Ahead(devTx, k) \in Slots
    BY <2>1, TxPlaces
  <2>3. QED
    BY <1>2, <1>5, <2>1, <2>2
<1>7. ASSUME NEW k \in 0 .. (len + 1) - 1
      PROVE  /\ txState'[Ahead(devTx', k)] = "DEVICE_OWNED"
             /\ \A i \in DOMAIN sent' : sent'[i] < txBuffer'[Ahead(devTx', k)]
             /\ \A l \in 0 .. (len + 1) - 1 :
                    k < l => txBuffer'[Ahead(devTx', k)] < txBuffer'[Ahead(devTx', l)]
  <2>1. CASE k = len
    <3>1. \A l \in 0 .. (len + 1) - 1 : ~(k < l)
      BY <1>3, <2>1
    <3>2. QED
      BY <1>1, <1>2, <1>5, <2>1, <3>1
  <2>2. CASE k # len
    <3>1. k \in 0 .. len - 1
      BY <1>3, <2>2
    <3>2. ASSUME NEW l \in 0 .. (len + 1) - 1, k < l
          PROVE  txBuffer[Ahead(devTx, k)] < txBuffer[Ahead(devTx, l)]
      <4>1. CASE l = len
        BY <1>1, <1>6, <3>1, <4>1
      <4>2. CASE l # len
        <5>1. l \in 0 .. len - 1
          BY <1>3, <4>2
        <5>2. QED
          BY <3>1, <3>2, <5>1 DEF TxQueue
      <4>3. QED
        BY <4>1, <4>2
    <3>3. QED
      BY <1>2, <1>6, <3>1, <3>2 DEF TxQueue
  <2>3. QED
    BY <2>1, <2>2
<1>8. ASSUME NEW i \in Slots, txState'[i] = "DEVICE_OWNED"
      PROVE  \E k \in 0 .. (len + 1) - 1 : i = Ahead(devTx', k)
  <2>1. CASE i = p
    <3>1. len \in 0 .. (len + 1) - 1
      BY <1>3
    <3>2. QED
      BY <1>1, <1>2, <2>1, <3>1
  <2>2. CASE i # p
    <3>1. PICK k \in 0 .. len - 1 : i = Ahead(devTx, k)
      BY <1>2, <1>8, <2>2 DEF TxQueue
    <3>2. k \in 0 .. (len + 1) - 1
      BY <1>3
    <3>3. QED
      BY <1>2, <3>1, <3>2
  <2>3. QED
    BY <2>1, <2>2
<1>9. NextIndex(index'[w]) = Ahead(devTx', len + 1)
  BY <1>1, <1>2, <1>4, TxPlaces
<1>10. ~Carries(w)' /\ Ascending(sent)
  BY <1>2 DEF Carries, TxQueue
<1>11. QED
  BY <1>2, <1>4, <1>7, <1>8, <1>9, <1>10 DEF TxQueue

\* A step that leaves the waiting frames alone.
LEMMA WaitingKept ==
  ASSUME TxInv, NEW w \in Thread, NEW len \in 0 .. Entries, TxQueue(w, len),
         UNCHANGED <<devTx, sent>>,
         \A i \in Slots : /\ txState'[i] = "DEVICE_OWNED" <=> txState[i] = "DEVICE_OWNED"
                          /\ txState[i] = "DEVICE_OWNED" => txBuffer'[i] = txBuffer[i],
         IF pc'[w] = "txAdvance" THEN NextIndex(index'[w]) = Ahead(devTx, len)
                                 ELSE producer' = Ahead(devTx, len),
         Carries(w)' => index'[w] = Ahead(devTx, len) /\ frame'[w] = sends'
  PROVE  TxQueue(w, len)'
<1>1. ASSUME NEW k \in 0 .. len - 1
      PROVE  /\ txState'[Ahead(devTx, k)] = "DEVICE_OWNED"
             /\ txBuffer'[Ahead(devTx, k)] = txBuffer[Ahead(devTx, k)]
  <2>1. k \in 0 .. Entries
    BY BifrostAssumption
  <2>2. QED
    BY <2>1, TxPlaces DEF TxQueue
<1>2. QED
  BY <1>1 DEF TxQueue

\* With one writer every step keeps the queue of frames to be sent.
LEMMA TxOrderKept == ASSUME RingInv, TxOrder, [Next]_vars PROVE TxOrder'
<1> SUFFICES ASSUME NEW w \in Writer, Writer = {w}
             PROVE  \E len \in 0 .. Entries : TxQueue(w, len)'
  BY DEF TxOrder
<1>0. ThreadShape /\ TxInv /\ w \in Thread
  BY DEF RingInv, Thread
<1>1. PICK len \in 0 .. Entries : TxQueue(w, len)
  BY DEF TxOrder
<1>2. CASE DeviceSend
  <2>1. len > 0 /\ TxQueue(w, len - 1)'
    BY <1>0, <1>1, <1>2, SendOrder
  <2>2. len - 1 \in 0 .. Entries
    BY <2>1, BifrostAssumption
  <2>3. QED
    BY <2>1, <2>2
<1>3. CASE TxPublish(w)
  <2>1. len + 1 \in 0 .. Entries /\ TxQueue(w, len + 1)'
    BY <1>0, <1>1, <1>3, PublishOrder
  <2>2. QED
    BY <2>1
<1>4. CASE TxLoad(w) \/ TxFull(w) \/ TxClaim(w) \/ TxCopy(w) \/ TxAdvance(w)
  <2>1. UNCHANGED <<devTx, sent>>
    BY <1>4 DEF TxLoad, TxFull, TxClaim, TxCopy, TxAdvance, device, ledger
  <2>2. \A i \in Slots : /\ txState'[i] = "DEVICE_OWNED" <=> txState[i] = "DEVICE_OWNED"
                         /\ txState[i] = "DEVICE_OWNED" => txBuffer'[i] = txBuffer[i]
    <3>1. CASE TxLoad(w) \/ TxFull(w) \/ TxAdvance(w)
      BY <3>1 DEF TxLoad, TxFull, TxAdvance, tx
    <3>2. CASE TxClaim(w)
      BY <1>0, <3>2 DEF TxClaim, TxInv, TxShape
    <3>3. CASE TxCopy(w)
      <4>1. txState[index[w]] = "BUILDING"
        BY <1>0, <3>3 DEF TxCopy, TxInv, TxOwned, Builds
      <4>2. QED
        BY <1>0, <3>3, <4>1 DEF TxCopy, TxInv, TxShape
    <3>4. QED
      BY <1>4, <3>1, <3>2, <3>3
  <2>3. /\ pc'[w] # "txAdvance" /\ producer' = Ahead(devTx, len)
        /\ Carries(w)' => index'[w] = Ahead(devTx, len) /\ frame'[w] = sends'
    BY <1>0, <1>1, <1>4 DEF TxLoad, TxFull, TxClaim, TxCopy, TxAdvance, Goto, ThreadShape, tx, ledger,
                            TxQueue, Carries
  <2>4. QED
    BY <1>0, <1>1, <2>1, <2>2, <2>3, WaitingKept
<1>5. CASE DeviceFill \/ DeviceReady \/ (\E t \in Reader : RxStep(t)) \/ UNCHANGED vars
  <2>1. UNCHANGED <<txState, txBuffer, producer, devTx, sends, sent>>
    BY <1>5 DEF DeviceFill, DeviceReady, RxStep, RxLoad, RxNone, RxClaim, RxAccept, RxReject, RxDrop,
                RxAdvance, GiveBack, vars, tx, device, ledger
  <2>2. Stays(w)
    <3>1. ASSUME NEW t \in Reader, RxStep(t) PROVE Stays(w)
      <4>1. t # w /\ t \in Thread
        BY BifrostAssumption DEF Thread
      <4>2. QED
        BY <1>0, <3>1, <4>1, OthersStay
    <3>2. CASE DeviceFill \/ DeviceReady \/ UNCHANGED vars
      BY <3>2 DEF DeviceFill, DeviceReady, vars, Stays
    <3>3. QED
      BY <1>5, <3>1, <3>2
  <2>3. /\ IF pc'[w] = "txAdvance" THEN NextIndex(index'[w]) = Ahead(devTx, len)
                                   ELSE producer' = Ahead(devTx, len)
        /\ Carries(w)' => index'[w] = Ahead(devTx, len) /\ frame'[w] = sends'
    BY <1>1, <2>1, <2>2 DEF TxQueue, Carries, Stays
  <2>4. QED
    BY <1>0, <1>1, <2>1, <2>3, WaitingKept
<1>6. QED
  BY <1>2, <1>3, <1>4, <1>5 DEF Next, TxStep

\* A frame overtakes no other: with one reader frames are handed over in the
\* order of their arrival and none is passed over, with one writer they are
\* sent in the order of the calls.
THEOREM OrderIsKept == Spec => []SoleUserKeepsOrder
<1>1. Init => RxOrder /\ TxOrder
  <2> SUFFICES ASSUME Init PROVE RxOrder /\ TxOrder
    OBVIOUS
  <2>1. 0 \in Slots /\ Ahead(0, 0) = 0 /\ 0 \in 0 .. Entries /\ \A k \in 0 .. 0 - 1 : FALSE
    BY BifrostAssumption DEF Slots, Ahead
  <2>2. ASSUME NEW r \in Reader PROVE RxQueue(r, 0, 0, 0) /\ Account(Seen(r, 0))
    <3>1. r \in Thread
      BY DEF Thread
    <3>2. \A i \in Slots : ~Full(i)
      BY DEF Init, Full
    <3>3. RxQueue(r, 0, 0, 0)
      BY <2>1, <3>1, <3>2 DEF Init, RxQueue, Holds
    <3>4. Account(Seen(r, 0))
      BY <3>1 DEF Init, Account, Seen, Ascending
    <3>5. QED
      BY <3>3, <3>4
  <2>3. RxOrder
    <3>1. 0 \in 0 .. arrived
      BY DEF Init
    <3>2. QED
      BY <2>1, <2>2, <3>1 DEF RxOrder
  <2>4. ASSUME NEW w \in Writer PROVE TxQueue(w, 0)
    <3>1. w \in Thread
      BY DEF Thread
    <3>2. QED
      BY <2>1, <3>1 DEF Init, TxQueue, Carries, Ascending
  <2>5. QED
    BY <2>1, <2>3, <2>4 DEF TxOrder
<1>2. RingInv /\ RxOrder /\ TxOrder /\ [Next]_vars => (RxOrder /\ TxOrder)'
  BY RxOrderKept, TxOrderKept
<1>3. RingInv /\ RxOrder /\ TxOrder => SoleUserKeepsOrder
  <2> SUFFICES ASSUME RingInv, RxOrder, TxOrder PROVE SoleUserKeepsOrder
    OBVIOUS
  <2>1. ASSUME Cardinality(Reader) = 1
        PROVE  /\ Ascending(handed)
               /\ \A i \in DOMAIN handed : \A n \in 1 .. handed[i] :
                    n \in refused \/ \E j \in 1 .. i : handed[j] = n
    <3>1. PICK r \in Reader : Reader = {r}
      BY <2>1, BifrostAssumption, FS_Singleton
    <3>2. PICK done \in 0 .. arrived, len \in 0 .. Entries, c \in Slots :
                 RxQueue(r, done, len, c) /\ Account(Seen(r, done))
      BY <3>1 DEF RxOrder
    <3>3. PICK seen \in Nat : seen = Seen(r, done)
      BY <3>2 DEF Seen, RingInv, RxInv, RxShape
    <3>4. handed \in Seq(Nat)
      BY DEF RingInv, RxInv, RxShape
    <3>5. ASSUME NEW i \in DOMAIN handed, NEW n \in 1 .. handed[i], n \notin refused
          PROVE  \E j \in 1 .. i : handed[j] = n
      <4>1. handed[i] \in Nat /\ handed[i] <= seen
        BY <3>2, <3>3, <3>4 DEF Account
      <4>2. n \in 1 .. seen
        BY <4>1
      <4>3. PICK j \in DOMAIN handed : handed[j] = n
        BY <3>2, <3>3, <3>5, <4>2 DEF Account, Received, Occurs
      <4>4. i \in Nat \ {0} /\ j \in Nat \ {0}
        BY <3>4
      <4>5. ~(i < j)
        BY <3>2, <4>1, <4>3 DEF Account, Ascending
      <4>6. QED
        BY <4>3, <4>4, <4>5
    <3>6. QED
      BY <3>2, <3>5 DEF Account
  <2>2. ASSUME Cardinality(Writer) = 1 PROVE Ascending(sent)
    <3>1. PICK w \in Writer : Writer = {w}
      BY <2>2, BifrostAssumption, FS_Singleton
    <3>2. QED
      BY <3>1 DEF TxOrder, TxQueue
  <2>3. QED
    BY <2>1, <2>2 DEF SoleUserKeepsOrder
<1>4. QED
  BY <1>1, <1>2, <1>3, RingInductive, PTL DEF Spec
=============================================================================
