--------------------------- MODULE SpscRing_proofs ---------------------------
(***************************************************************************)
(* Safety of the ring for every depth and every set of messages.           *)
(***************************************************************************)
EXTENDS SpscRing, FiniteSetTheorems, SequenceTheorems, TLAPS

\* The index arithmetic of send and recv (ipc.rs lines 108-109 and 127-128)
\* stays inside the slot array.
LEMMA NextSlotInRange == \A i \in Slots : NextSlot(i) \in Slots
  BY DepthAssumption DEF Slots, NextSlot

\* The facts about the slots hold together: none is inductive alone, because
\* who owns a slot decides what its message cell may hold.
IInv == TypeOK /\ SlotOwnership /\ WholeMessages /\ PeekIsReliable
             /\ (sendPc \in {"claimed", "copying", "copied"} => outgoing \in Message)
             /\ (sendPc = "copied" => message[producer] = outgoing)

\* IInv is an inductive invariant of send, recv and is_empty (ipc.rs 94-138).
LEMMA Inductive == Spec => []IInv
<1>1. Init => IInv
  <2> SUFFICES ASSUME Init
               PROVE  IInv
    OBVIOUS
  <2>1. 0 \in Slots
    BY DepthAssumption DEF Slots
  <2>2. peeked \in BOOLEAN /\ PeekIsReliable
    BY Zenon DEF Init, PeekIsReliable
  <2>3. TypeOK
    BY <2>1, <2>2 DEF Init, TypeOK, SlotStates
  <2>4. SlotOwnership /\ WholeMessages
    BY <2>1 DEF Init, SlotOwnership, WholeMessages, SendOwns, RecvOwns
  <2>5. QED
    BY <2>2, <2>3, <2>4 DEF IInv, Init
<1>2. IInv /\ [Next]_vars => IInv'
  <2> SUFFICES ASSUME IInv, [Next]_vars
               PROVE  IInv'
    OBVIOUS
  <2> USE MessageAssumption
      DEF IInv, TypeOK, SlotOwnership, WholeMessages, PeekIsReliable,
          SlotStates, SendOwns, RecvOwns
  <2>1. ASSUME NEW m \in Message, SendClaim(m) PROVE IInv'
    BY <2>1 DEF SendClaim, consumerVars
  <2>2. CASE SendFull
    BY <2>2 DEF SendFull, consumerVars
  <2>3. CASE SendCopyStart
    BY <2>3 DEF SendCopyStart, consumerVars
  <2>4. CASE SendCopyEnd
    BY <2>4 DEF SendCopyEnd, consumerVars
  <2>5. CASE SendPublish
    BY <2>5 DEF SendPublish, consumerVars
  <2>6. CASE SendReturn
    BY <2>6, NextSlotInRange DEF SendReturn, consumerVars
  <2>7. CASE RecvClaim
    BY <2>7 DEF RecvClaim, producerVars
  <2>8. CASE RecvEmpty
    BY <2>8 DEF RecvEmpty, producerVars
  <2>9. CASE RecvCopy
    BY <2>9 DEF RecvCopy, producerVars
  <2>10. CASE RecvRelease
    BY <2>10 DEF RecvRelease, producerVars
  <2>11. CASE RecvReturn
    BY <2>11, NextSlotInRange DEF RecvReturn, producerVars
  <2>12. CASE IsEmpty
    BY <2>12 DEF IsEmpty, producerVars
  <2>13. CASE UNCHANGED vars
    BY <2>13 DEF vars, producerVars, consumerVars
  <2>14. QED
    BY <2>1, <2>2, <2>3, <2>4, <2>5, <2>6, <2>7, <2>8, <2>9, <2>10, <2>11,
       <2>12, <2>13 DEF Next, SendStep, RecvStep
<1>3. QED
  BY <1>1, <1>2, PTL DEF Spec

\* Type correctness of the ring: in particular `producer` and `consumer`
\* always index a slot.
THEOREM TypeCorrect == Spec => []TypeOK
<1>1. IInv => TypeOK
  BY DEF IInv
<1>2. QED
  BY <1>1, Inductive, PTL

\* The SAFETY comments of ipc.rs hold: WRITING and READING give one side
\* exclusive access to the message cell, for every depth.
THEOREM OwnershipIsExclusive == Spec => []SlotOwnership
<1>1. IInv => SlotOwnership
  BY DEF IInv
<1>2. QED
  BY <1>1, Inductive, PTL

\* recv never returns a torn or an unwritten message.
THEOREM OnlyWholeMessages == Spec => []WholeMessages
<1>1. IInv => WholeMessages
  BY DEF IInv
<1>2. QED
  BY <1>1, Inductive, PTL

\* A consumer that saw is_empty = FALSE is not disappointed by its next recv.
THEOREM PeekReliable == Spec => []PeekIsReliable
<1>1. IInv => PeekIsReliable
  BY DEF IInv
<1>2. QED
  BY <1>1, Inductive, PTL

-----------------------------------------------------------------------------
(* The ring implements a bounded FIFO.                                     *)

\* The slot d places after slot i, for d up to a full turn.
Ahead(i, d) == IF i + d < Depth THEN i + d ELSE i + d - Depth

\* Where the next message goes: the producer's index lags behind a slot that
\* it has just published, as the consumer's does behind one it has claimed.
Last == IF sendPc = "published" THEN NextSlot(producer) ELSE producer

\* The published messages are in the n slots from First on, and in no other.
Queued(n) ==
    /\ Last = Ahead(First, n)
    /\ \A k \in 0 .. Depth - 1 : state[Ahead(First, k)] = "READY" <=> k < n

\* recv has copied the message that it then releases.
QueueInv ==
    /\ \E n \in 0 .. Depth : Queued(n)
    /\ recvPc = "copied" => incoming = message[consumer]

\* One more full turn does not change the place.
LEMMA TurnOver == ASSUME NEW i \in Slots PROVE (i + Depth) % Depth = i /\ i % Depth = i
<1>1. i \in Nat /\ Depth \in Nat \ {0} /\ i < Depth
  BY DepthAssumption DEF Slots
<1> DEFINE q == (i + Depth) \div Depth
           r == (i + Depth) % Depth
<1>2. q \in Nat /\ r \in 0 .. Depth - 1 /\ i + Depth = Depth * q + r
  BY <1>1
<1>3. i % Depth = i
  BY <1>1
<1> HIDE DEF q, r
<1>4. q = 1
  <2>1. CASE q = 0
    BY <1>1, <1>2, <2>1
  <2>2. CASE q >= 2
    <3>1. PICK p \in Nat : q = p + 2
      <4>1. q - 2 \in Nat /\ q = (q - 2) + 2
        BY <1>2, <2>2
      <4>2. QED
        BY <4>1
    <3>2. Depth * q = Depth * p + Depth + Depth /\ Depth * p \in Nat
      BY <1>1, <3>1
    <3>3. QED
      BY <1>1, <1>2, <3>2
  <2>3. QED
    BY <1>2, <2>1, <2>2
<1>5. r = i
  BY <1>1, <1>2, <1>4
<1>6. QED
  BY <1>3, <1>5 DEF r

\* The indices of the code, which are taken modulo Depth, are places ahead.
LEMMA AheadIsModulo ==
  ASSUME NEW i \in Slots, NEW d \in 0 .. Depth PROVE (i + d) % Depth = Ahead(i, d)
<1>1. i \in Nat /\ d \in Nat /\ Depth \in Nat \ {0} /\ i < Depth /\ d <= Depth
  BY DepthAssumption DEF Slots
<1>2. CASE i + d < Depth
  <2>1. i + d \in Slots
    BY <1>1, <1>2 DEF Slots
  <2>2. QED
    BY <1>1, <1>2, <2>1, TurnOver DEF Ahead
<1>3. CASE ~(i + d < Depth)
  <2>1. i + d - Depth \in Slots /\ (i + d - Depth) + Depth = i + d
    BY <1>1, <1>3 DEF Slots
  <2>2. ((i + d - Depth) + Depth) % Depth = i + d - Depth
    BY <2>1, TurnOver
  <2>3. QED
    BY <1>3, <2>1, <2>2 DEF Ahead
<1>4. QED
  BY <1>2, <1>3

\* Places around the ring.
LEMMA AheadFacts ==
  ASSUME NEW c \in Slots
  PROVE  /\ \A d \in 0 .. Depth : Ahead(c, d) \in Slots
         /\ \A d, e \in 0 .. Depth - 1 : Ahead(c, d) = Ahead(c, e) => d = e
         /\ \A i \in Slots : \E d \in 0 .. Depth - 1 : Ahead(c, d) = i
         /\ NextSlot(c) = Ahead(c, 1)
         /\ \A d \in 0 .. Depth - 1 : /\ Ahead(Ahead(c, 1), d) = Ahead(c, d + 1)
                                      /\ Ahead(Ahead(c, d), 1) = Ahead(c, d + 1)
         /\ Ahead(c, 0) = c /\ Ahead(c, Depth) = c
         /\ Ahead(Ahead(c, 1), Depth - 1) = c
<1> USE DepthAssumption
<1>1. \A d \in 0 .. Depth : Ahead(c, d) \in Slots
  BY DEF Ahead, Slots
<1>2. \A d, e \in 0 .. Depth - 1 : Ahead(c, d) = Ahead(c, e) => d = e
  BY DEF Ahead, Slots
<1>3. ASSUME NEW i \in Slots PROVE \E d \in 0 .. Depth - 1 : Ahead(c, d) = i
  <2>1. CASE c <= i
    <3>1. i - c \in 0 .. Depth - 1 /\ Ahead(c, i - c) = i
      BY <2>1 DEF Ahead, Slots
    <3>2. QED
      BY <3>1
  <2>2. CASE i < c
    <3>1. i + Depth - c \in 0 .. Depth - 1 /\ Ahead(c, i + Depth - c) = i
      BY <2>2 DEF Ahead, Slots
    <3>2. QED
      BY <3>1
  <2>3. QED
    BY <2>1, <2>2 DEF Slots
<1>4. \A d \in 0 .. Depth - 1 : /\ Ahead(Ahead(c, 1), d) = Ahead(c, d + 1)
                                /\ Ahead(Ahead(c, d), 1) = Ahead(c, d + 1)
  BY DEF Ahead, Slots
<1>5. Ahead(c, 0) = c /\ Ahead(c, Depth) = c
  BY DEF Ahead, Slots
<1>6. NextSlot(c) = Ahead(c, 1)
  <2>1. 1 \in 0 .. Depth
    OBVIOUS
  <2>2. QED
    BY <2>1, AheadIsModulo DEF NextSlot
<1>7. Ahead(Ahead(c, 1), Depth - 1) = c
  BY DEF Ahead, Slots
<1>8. QED
  BY <1>1, <1>2, <1>3, <1>4, <1>5, <1>6, <1>7

\* If n slots from a place on are ready and no other is, then n are ready.
LEMMA ReadyAreCounted ==
  ASSUME NEW first \in Slots, NEW st, NEW n \in 0 .. Depth,
         \A k \in 0 .. Depth - 1 : st[Ahead(first, k)] = "READY" <=> k < n
  PROVE  Cardinality({i \in Slots : st[i] = "READY"}) = n
<1> DEFINE ready == {i \in Slots : st[i] = "READY"}
           place == [k \in 1 .. n |-> Ahead(first, k - 1)]
<1>0. n \in Nat /\ \A k \in 1 .. n : k - 1 \in 0 .. Depth - 1 /\ k - 1 \in 0 .. Depth /\ k - 1 < n
  BY DepthAssumption
<1>1. place \in [1 .. n -> ready]
  BY <1>0, AheadFacts
<1>2. ASSUME NEW j \in 1 .. n, NEW k \in 1 .. n, place[j] = place[k] PROVE j = k
  <2>1. j - 1 = k - 1
    BY <1>0, <1>2, AheadFacts
  <2>2. QED
    BY <2>1
<1>3. ASSUME NEW i \in ready PROVE \E k \in 1 .. n : place[k] = i
  <2>1. PICK d \in 0 .. Depth - 1 : Ahead(first, d) = i
    BY AheadFacts
  <2>2. d < n
    BY <2>1
  <2>3. d + 1 \in 1 .. n /\ (d + 1) - 1 = d
    BY <1>0, <2>2
  <2>4. place[d + 1] = i
    BY <2>1, <2>3
  <2>5. QED
    BY <2>3, <2>4
<1>4. place \in Bijection(1 .. n, ready)
  BY <1>1, <1>2, <1>3 DEF Bijection, Injection, Surjection, IsInjective
<1>5. ExistsBijection(1 .. n, ready)
  BY <1>4 DEF ExistsBijection
<1>6. QED
  BY <1>0, <1>5, FS_CountingElements

\* The places that the mapping reads.
LEMMA PlacesRead ==
  ASSUME NEW first \in Slots, NEW n \in 0 .. Depth, NEW k \in 1 .. n
  PROVE  (first + k - 1) % Depth = Ahead(first, k - 1)
<1>1. k - 1 \in 0 .. Depth /\ first + (k - 1) = first + k - 1
  BY DepthAssumption DEF Slots
<1>2. QED
  BY <1>1, AheadIsModulo

\* The queue that the mapping reads off the ring.
LEMMA QueueIs ==
  ASSUME First \in Slots, NEW n \in 0 .. Depth, Queued(n)
  PROVE  Queue = [k \in 1 .. n |-> message[Ahead(First, k - 1)]]
<1>1. ReadyCount = n
  BY ReadyAreCounted DEF Queued, ReadyCount
<1>2. QED
  BY <1>1, PlacesRead DEF Queue

\* The same of the state after a step.
LEMMA QueueBecomes ==
  ASSUME First' \in Slots, NEW n \in 0 .. Depth, Queued(n)'
  PROVE  Queue' = [k \in 1 .. n |-> message'[Ahead(First', k - 1)]]
<1>1. ReadyCount' = n
  BY ReadyAreCounted DEF Queued, ReadyCount
<1>2. QED
  BY <1>1, PlacesRead DEF Queue

\* Both ends of the queue are slots.
LEMMA EndsAreSlots == ASSUME TypeOK PROVE First \in Slots /\ Last \in Slots
  BY NextSlotInRange DEF TypeOK, First, Last

\* A step that neither publishes nor claims leaves the queue alone.
LEMMA QueueKept ==
  ASSUME TypeOK, NEW n \in 0 .. Depth, Queued(n), First' = First, Last' = Last,
         \A i \in Slots : state'[i] = "READY" <=> state[i] = "READY",
         \A i \in Slots : state[i] = "READY" => message'[i] = message[i]
  PROVE  Queued(n)' /\ Queue' = Queue
<1>1. First \in Slots /\ \A k \in 0 .. Depth - 1 : Ahead(First, k) \in Slots /\ k \in 0 .. Depth
  BY EndsAreSlots, AheadFacts, DepthAssumption
<1>2. Queued(n)'
  BY <1>1, AheadFacts DEF Queued
<1>3. ASSUME NEW k \in 1 .. n PROVE message'[Ahead(First, k - 1)] = message[Ahead(First, k - 1)]
  <2>1. k - 1 \in 0 .. Depth - 1 /\ k - 1 < n
    BY DepthAssumption
  <2>2. state[Ahead(First, k - 1)] = "READY"
    BY <2>1 DEF Queued
  <2>3. QED
    BY <1>1, <2>1, <2>2
<1>4. Queue = [k \in 1 .. n |-> message[Ahead(First, k - 1)]]
  BY <1>1, QueueIs
<1>5. Queue' = [k \in 1 .. n |-> message'[Ahead(First, k - 1)]]
  BY <1>1, <1>2, QueueBecomes
<1>6. QED
  BY <1>2, <1>3, <1>4, <1>5

\* The last part of the queue's end: a slot that is not ready is not in it.
LEMMA Room ==
  ASSUME TypeOK, NEW n \in 0 .. Depth, Queued(n)
  PROVE  /\ state[First] = "READY" <=> n # 0
         /\ Last = producer /\ state[producer] # "READY" => n < Depth
         /\ Last = producer /\ state[producer] = "READY" => n = Depth
<1>1. First \in Slots /\ Ahead(First, 0) = First /\ Ahead(First, Depth) = First
  BY EndsAreSlots, AheadFacts
<1>2. 0 \in 0 .. Depth - 1
  BY DepthAssumption
<1>3. state[First] = "READY" <=> n # 0
  BY <1>1, <1>2 DEF Queued
<1>4. n < Depth => (state[Last] = "READY" <=> n < n)
  BY DepthAssumption DEF Queued
<1>5. n = Depth => Last = First /\ n # 0
  BY <1>1, DepthAssumption DEF Queued
<1>6. QED
  BY <1>3, <1>4, <1>5, DepthAssumption

\* send's hand-over (ipc.rs 106-107): the message joins the queue.
LEMMA PublishPuts ==
  ASSUME IInv, NEW n \in 0 .. Depth, Queued(n), SendPublish
  PROVE  /\ n + 1 \in 0 .. Depth /\ Queued(n + 1)'
         /\ n < Depth /\ Len(Queue) = n
         /\ Queue' = Append(Queue, outgoing)
<1>0. /\ TypeOK /\ First \in Slots /\ producer \in Slots /\ state[producer] = "WRITING"
      /\ message[producer] = outgoing
  BY EndsAreSlots DEF IInv, SendPublish, SlotOwnership, SendOwns, TypeOK
<1>1. First' = First /\ message' = message /\ Last = producer
  BY <1>0 DEF SendPublish, First, Last, consumerVars
<1>2. n < Depth
  BY <1>0, <1>1, Room
<1>3. n + 1 \in 0 .. Depth /\ n \in 0 .. Depth - 1
  BY <1>2, DepthAssumption
<1>4. producer = Ahead(First, n) /\ Last' = Ahead(First, n + 1)
  <2>1. producer = Ahead(First, n)
    BY <1>1 DEF Queued
  <2>2. Last' = NextSlot(producer)
    BY DEF Last, SendPublish
  <2>3. QED
    BY <1>0, <1>3, <2>1, <2>2, AheadFacts
<1>5. ASSUME NEW k \in 0 .. Depth - 1 PROVE state'[Ahead(First, k)] = "READY" <=> k < n + 1
  <2>1. Ahead(First, k) \in Slots
    BY <1>0, AheadFacts, DepthAssumption
  <2>2. state' = [state EXCEPT ![producer] = "READY"] /\ state \in [Slots -> SlotStates]
    BY <1>0 DEF SendPublish, TypeOK
  <2>3. CASE k = n
    BY <1>0, <1>4, <2>1, <2>2, <2>3
  <2>4. CASE k # n
    <3>1. Ahead(First, k) # producer
      BY <1>0, <1>3, <1>4, <2>4, AheadFacts
    <3>2. state'[Ahead(First, k)] = state[Ahead(First, k)]
      BY <2>1, <2>2, <3>1
    <3>3. QED
      BY <2>4, <3>2 DEF Queued
  <2>5. QED
    BY <2>3, <2>4
<1>6. Queued(n + 1)'
  BY <1>1, <1>4, <1>5 DEF Queued
<1>7. Queue = [k \in 1 .. n |-> message[Ahead(First, k - 1)]]
  BY <1>0, QueueIs
<1>8. Queue' = [k \in 1 .. n + 1 |-> message[Ahead(First, k - 1)]]
  BY <1>0, <1>1, <1>3, <1>6, QueueBecomes
<1>9. message[Ahead(First, (n + 1) - 1)] = outgoing
  BY <1>0, <1>3, <1>4
<1> DEFINE T == Message \cup {None, Torn}
<1>10. \A k \in 1 .. n + 1 : message[Ahead(First, k - 1)] \in T
  <2>1. message \in [Slots -> T]
    BY <1>0 DEF TypeOK
  <2>2. \A k \in 1 .. n + 1 : k - 1 \in 0 .. Depth
    BY <1>3, DepthAssumption
  <2>3. QED
    BY <1>0, <2>1, <2>2, AheadFacts
<1>11. Queue \in Seq(T) /\ Len(Queue) = n
  BY <1>3, <1>7, <1>10
<1>12. Queue' = Append(Queue, outgoing)
  BY <1>3, <1>7, <1>8, <1>9, <1>10, <1>11
<1>13. QED
  BY <1>2, <1>3, <1>6, <1>11, <1>12

\* recv's claim (ipc.rs 119-121): the oldest message leaves the queue.
LEMMA ClaimTakes ==
  ASSUME IInv, NEW n \in 0 .. Depth, Queued(n), RecvClaim
  PROVE  /\ n # 0 /\ n - 1 \in 0 .. Depth /\ Queued(n - 1)'
         /\ Queue # <<>> /\ message[consumer] = Head(Queue) /\ Queue' = Tail(Queue)
<1>0. /\ TypeOK /\ consumer \in Slots /\ First = consumer /\ state[consumer] = "READY"
      /\ First' = NextSlot(consumer) /\ message' = message /\ Last' = Last
  BY DEF IInv, RecvClaim, TypeOK, First, Last, producerVars
<1>1. n # 0
  BY <1>0, Room
<1>2. n - 1 \in 0 .. Depth - 1 /\ n - 1 \in 0 .. Depth /\ n \in Nat
  BY <1>1, DepthAssumption
<1>3. First' = Ahead(consumer, 1) /\ First' \in Slots
  BY <1>0, AheadFacts, NextSlotInRange
<1>4. Last' = Ahead(First', n - 1)
  <2>1. Last = Ahead(consumer, n)
    BY <1>0 DEF Queued
  <2>2. Ahead(Ahead(consumer, 1), n - 1) = Ahead(consumer, (n - 1) + 1) /\ (n - 1) + 1 = n
    BY <1>0, <1>2, AheadFacts
  <2>3. QED
    BY <1>0, <1>3, <2>1, <2>2
<1>5. ASSUME NEW k \in 0 .. Depth - 1 PROVE state'[Ahead(First', k)] = "READY" <=> k < n - 1
  <2>0. state' = [state EXCEPT ![consumer] = "READING"] /\ state \in [Slots -> SlotStates]
    BY <1>0 DEF RecvClaim, TypeOK
  <2>1. CASE k = Depth - 1
    <3>1. Ahead(First', k) = consumer
      BY <1>0, <1>3, <2>1, AheadFacts
    <3>2. QED
      BY <1>0, <1>2, <2>0, <2>1, <3>1
  <2>2. CASE k # Depth - 1
    <3>1. k + 1 \in 0 .. Depth - 1 /\ 0 \in 0 .. Depth - 1 /\ k + 1 \in 0 .. Depth /\ k + 1 # 0
      BY <2>2, DepthAssumption
    <3>2. Ahead(First', k) = Ahead(consumer, k + 1) /\ consumer = Ahead(consumer, 0)
      BY <1>0, <1>3, AheadFacts
    <3>3. Ahead(consumer, k + 1) # consumer /\ Ahead(consumer, k + 1) \in Slots
      BY <1>0, <3>1, <3>2, AheadFacts
    <3>4. state'[Ahead(First', k)] = state[Ahead(consumer, k + 1)]
      BY <2>0, <3>2, <3>3
    <3>5. state[Ahead(consumer, k + 1)] = "READY" <=> k + 1 < n
      BY <1>0, <3>1 DEF Queued
    <3>6. k + 1 < n <=> k < n - 1
      BY <1>2
    <3>7. QED
      BY <3>4, <3>5, <3>6
  <2>3. QED
    BY <2>1, <2>2
<1>6. Queued(n - 1)'
  BY <1>4, <1>5 DEF Queued
<1>7. Queue = [k \in 1 .. n |-> message[Ahead(consumer, k - 1)]]
  BY <1>0, QueueIs
<1>8. Queue' = [k \in 1 .. n - 1 |-> message[Ahead(consumer, k)]]
  <2>1. Queue' = [k \in 1 .. n - 1 |-> message'[Ahead(First', k - 1)]]
    BY <1>2, <1>3, <1>6, QueueBecomes
  <2>2. ASSUME NEW k \in 1 .. n - 1 PROVE Ahead(First', k - 1) = Ahead(consumer, k)
    <3>1. k - 1 \in 0 .. Depth - 1 /\ (k - 1) + 1 = k
      BY <1>2, DepthAssumption
    <3>2. QED
      BY <1>0, <1>3, <3>1, AheadFacts
  <2>3. QED
    BY <1>0, <2>1, <2>2
<1> DEFINE T == Message \cup {None, Torn}
<1>9. \A k \in 1 .. n : message[Ahead(consumer, k - 1)] \in T
  <2>1. message \in [Slots -> T]
    BY <1>0 DEF TypeOK
  <2>2. \A k \in 1 .. n : k - 1 \in 0 .. Depth
    BY <1>2, DepthAssumption
  <2>3. QED
    BY <1>0, <2>1, <2>2, AheadFacts
<1>10. Queue \in Seq(T) /\ Len(Queue) = n /\ Queue # <<>>
  BY <1>1, <1>2, <1>7, <1>9
<1>11. Head(Queue) = message[consumer]
  <2>1. Head(Queue) = Queue[1] /\ 1 \in 1 .. n
    BY <1>1, <1>2, <1>10
  <2>2. Queue[1] = message[Ahead(consumer, 1 - 1)]
    BY <1>7, <2>1
  <2>3. QED
    BY <1>0, <2>1, <2>2, AheadFacts
<1>12. Queue' = Tail(Queue)
  <2>1. Tail(Queue) \in Seq(T) /\ Len(Tail(Queue)) = n - 1 /\ \A k \in 1 .. n - 1 : Tail(Queue)[k] = Queue[k + 1]
    BY <1>2, <1>10, HeadTailProperties
  <2>2. ASSUME NEW k \in 1 .. n - 1 PROVE Queue[k + 1] = message[Ahead(consumer, k)]
    <3>1. k + 1 \in 1 .. n /\ (k + 1) - 1 = k
      BY <1>2
    <3>2. QED
      BY <1>7, <3>1
  <2>3. Queue' \in Seq(T) /\ Len(Queue') = n - 1
    <3>1. ASSUME NEW k \in 1 .. n - 1 PROVE message[Ahead(consumer, k)] \in T
      <4>1. k + 1 \in 1 .. n /\ (k + 1) - 1 = k
        BY <1>2
      <4>2. QED
        BY <1>9, <4>1
    <3>2. QED
      BY <1>2, <1>8, <3>1
  <2>4. QED
    BY <1>8, <2>1, <2>2, <2>3, SeqEqual
<1>13. QED
  BY <1>1, <1>2, <1>6, <1>10, <1>11, <1>12

\* A send that finds its slot taken finds every place taken: by a message in
\* the queue, or by the one that recv has not handed back yet.
LEMMA FullIsFull ==
  ASSUME IInv, NEW n \in 0 .. Depth, Queued(n), SendFull
  PROVE  Len(Queue) + (IF Hand = None THEN 0 ELSE 1) >= Depth
<1>0. /\ TypeOK /\ First \in Slots /\ producer \in Slots /\ consumer \in Slots /\ Last = producer
      /\ state[producer] \in {"READY", "READING"}
  BY EndsAreSlots DEF IInv, SendFull, SlotOwnership, SendOwns, TypeOK, SlotStates, Last
<1>1. Len(Queue) = n
  <2>1. Queue = [k \in 1 .. n |-> message[Ahead(First, k - 1)]] /\ n \in Nat
    BY <1>0, QueueIs, DepthAssumption
  <2>2. QED
    BY <2>1
<1>2. CASE state[producer] = "READY"
  <2>1. n = Depth
    BY <1>0, <1>2, Room
  <2>2. QED
    BY <1>1, <2>1, DepthAssumption
<1>3. CASE state[producer] = "READING"
  <2>1. recvPc \in {"claimed", "copied"} /\ consumer = producer /\ message[consumer] \in Message
    BY <1>0, <1>3 DEF IInv, SlotOwnership, RecvOwns, WholeMessages
  <2>2. Hand # None
    BY <2>1, MessageAssumption DEF Hand
  <2>3. First = Ahead(consumer, 1)
    BY <1>0, <2>1, AheadFacts DEF First
  <2>4. Ahead(First, Depth - 1) = producer /\ Depth - 1 \in 0 .. Depth - 1
    BY <1>0, <2>1, <2>3, AheadFacts, DepthAssumption
  <2>5. n < Depth
    BY <1>0, <1>3, Room
  <2>6. n \in 0 .. Depth - 1 /\ producer = Ahead(First, n)
    BY <1>0, <2>5, DepthAssumption DEF Queued
  <2>7. n = Depth - 1
    BY <1>0, <2>4, <2>6, AheadFacts
  <2>8. QED
    BY <1>1, <2>2, <2>7, DepthAssumption
<1>4. QED
  BY <1>0, <1>2, <1>3

\* Every step keeps the queue in its place, and is a step of the channel.
LEMMA StepsRefine ==
  ASSUME IInv, QueueInv, [Next]_vars
  PROVE  QueueInv' /\ [Fifo!Next]_(Fifo!vars)
<1>0. PICK n \in 0 .. Depth : Queued(n)
  BY DEF QueueInv
<1>t. /\ TypeOK /\ producer \in Slots /\ consumer \in Slots /\ state \in [Slots -> SlotStates]
      /\ message \in [Slots -> Message \cup {None, Torn}]
  BY DEF IInv, TypeOK
<1> DEFINE Quiet ==
        /\ First' = First /\ Last' = Last
        /\ \A i \in Slots : state'[i] = "READY" <=> state[i] = "READY"
        /\ \A i \in Slots : state[i] = "READY" => message'[i] = message[i]
        /\ recvPc' = "copied" => incoming' = message'[consumer']
<1>q. ASSUME Quiet PROVE QueueInv' /\ Queue' = Queue
  BY <1>0, <1>t, <1>q, QueueKept DEF QueueInv
<1> HIDE DEF Quiet
<1>1. ASSUME NEW m \in Message, SendClaim(m) PROVE QueueInv' /\ UNCHANGED Fifo!vars
  <2>1. Quiet /\ Hand' = Hand
    BY <1>t, <1>1 DEF SendClaim, consumerVars, First, Last, Hand, Quiet, QueueInv
  <2>2. QED
    BY <1>1, <1>q, <2>1 DEF SendClaim, consumerVars, Fifo!vars
<1>2. ASSUME SendFull PROVE QueueInv' /\ Fifo!Refuse
  <2>1. Quiet /\ Hand' = Hand
    BY <1>t, <1>2 DEF SendFull, consumerVars, First, Last, Hand, Quiet, QueueInv
  <2>2. QED
    BY <1>0, <1>2, <1>q, <2>1, FullIsFull DEF SendFull, consumerVars, Fifo!Refuse, Fifo!Occupied
<1>3. ASSUME SendCopyStart \/ SendCopyEnd PROVE QueueInv' /\ UNCHANGED Fifo!vars
  <2>0. state[producer] = "WRITING" /\ (recvPc \in {"claimed", "copied"} => consumer # producer)
    BY <1>t, <1>3 DEF IInv, SlotOwnership, SendOwns, RecvOwns, SendCopyStart, SendCopyEnd
  <2>1. Quiet
    BY <1>t, <1>3, <2>0 DEF SendCopyStart, SendCopyEnd, consumerVars, First, Last, Quiet, QueueInv
  <2>2. Hand' = Hand
    BY <1>t, <1>3, <2>0 DEF SendCopyStart, SendCopyEnd, consumerVars, Hand, IInv, TypeOK
  <2>3. QED
    BY <1>3, <1>q, <2>1, <2>2 DEF SendCopyStart, SendCopyEnd, consumerVars, Fifo!vars
<1>4. ASSUME SendPublish PROVE QueueInv' /\ Fifo!Put(outgoing) /\ outgoing \in Message
  <2>1. Hand' = Hand /\ outgoing \in Message
    BY <1>t, <1>4 DEF SendPublish, consumerVars, Hand, IInv
  <2>2. QueueInv'
    BY <1>0, <1>4, PublishPuts DEF QueueInv, SendPublish, consumerVars
  <2>3. QED
    BY <1>0, <1>4, <2>1, <2>2, PublishPuts DEF Fifo!Put, SendPublish, consumerVars
<1>5. ASSUME SendReturn PROVE QueueInv' /\ Fifo!Accept
  <2>1. Quiet /\ Hand' = Hand
    BY <1>t, <1>5 DEF SendReturn, consumerVars, First, Last, Hand, Quiet, QueueInv
  <2>2. QED
    BY <1>5, <1>q, <2>1 DEF SendReturn, consumerVars, Fifo!Accept
<1>6. ASSUME RecvClaim PROVE QueueInv' /\ Fifo!Take
  <2>1. Hand = None /\ Hand' = message[consumer]
    BY <1>t, <1>6 DEF RecvClaim, Hand
  <2>2. QueueInv'
    BY <1>0, <1>6, ClaimTakes DEF QueueInv, RecvClaim
  <2>3. QED
    BY <1>0, <1>6, <2>1, <2>2, ClaimTakes DEF Fifo!Take, RecvClaim, producerVars
<1>7. ASSUME RecvEmpty PROVE QueueInv' /\ Fifo!NothingThere
  <2>1. Quiet /\ Hand' = Hand /\ Hand = None
    BY <1>t, <1>7 DEF RecvEmpty, producerVars, First, Last, Hand, Quiet, QueueInv
  <2>2. First = consumer /\ n = 0
    BY <1>0, <1>t, <1>7, Room DEF RecvEmpty, First
  <2>3. Queue = <<>>
    <3>1. Queue = [k \in 1 .. 0 |-> message[Ahead(First, k - 1)]]
      BY <1>0, <1>t, <2>2, QueueIs
    <3>2. QED
      BY <3>1
  <2>4. QED
    BY <1>7, <1>q, <2>1, <2>3 DEF RecvEmpty, producerVars, Fifo!NothingThere
<1>8. ASSUME RecvCopy PROVE QueueInv' /\ UNCHANGED Fifo!vars
  <2>1. Quiet /\ Hand' = Hand
    BY <1>t, <1>8 DEF RecvCopy, producerVars, First, Last, Hand, Quiet
  <2>2. QED
    BY <1>8, <1>q, <2>1 DEF RecvCopy, producerVars, Fifo!vars
<1>9. ASSUME RecvRelease PROVE QueueInv' /\ UNCHANGED Fifo!vars
  <2>0. state[consumer] = "READING" /\ incoming = message[consumer]
    BY <1>t, <1>9 DEF IInv, SlotOwnership, RecvOwns, RecvRelease, QueueInv
  <2>1. Quiet /\ Hand' = Hand
    BY <1>t, <1>9, <2>0 DEF RecvRelease, producerVars, First, Last, Hand, Quiet
  <2>2. QED
    BY <1>9, <1>q, <2>1 DEF RecvRelease, producerVars, Fifo!vars
<1>10. ASSUME RecvReturn PROVE QueueInv' /\ Fifo!Deliver
  <2>1. Quiet /\ Hand = incoming /\ Hand' = None /\ incoming \in Message
    BY <1>t, <1>10 DEF RecvReturn, producerVars, First, Last, Hand, Quiet, IInv, WholeMessages
  <2>2. QED
    BY <1>10, <1>q, <2>1, MessageAssumption DEF RecvReturn, producerVars, Fifo!Deliver
<1>11. ASSUME IsEmpty \/ UNCHANGED vars PROVE QueueInv' /\ UNCHANGED Fifo!vars
  <2>1. Quiet /\ Hand' = Hand
    BY <1>t, <1>11 DEF IsEmpty, vars, producerVars, consumerVars, First, Last, Hand, Quiet, QueueInv
  <2>2. QED
    BY <1>11, <1>q, <2>1 DEF IsEmpty, vars, producerVars, consumerVars, Fifo!vars
<1>12. QED
  BY <1>1, <1>2, <1>3, <1>4, <1>5, <1>6, <1>7, <1>8, <1>9, <1>10, <1>11
     DEF Next, SendStep, RecvStep, Fifo!Next

\* send and recv (ipc.rs 94-138) implement the bounded channel, for every
\* depth and every set of messages: order, no loss, no duplication, Full only
\* when every place is taken and None only when nothing is queued.
THEOREM RingIsFifo == Spec => RefinesFifo
<1>1. Init => QueueInv /\ Fifo!Init
  <2> SUFFICES ASSUME Init PROVE QueueInv /\ Fifo!Init
    OBVIOUS
  <2>1. First = 0 /\ Last = 0 /\ 0 \in Slots /\ 0 \in 0 .. Depth
    BY DepthAssumption DEF Init, First, Last, Slots
  <2>2. Queued(0)
    BY <2>1, AheadFacts, DepthAssumption DEF Init, Queued
  <2>3. Queue = [k \in 1 .. 0 |-> message[Ahead(First, k - 1)]]
    BY <2>1, <2>2, QueueIs
  <2>4. Queue = <<>>
    BY <2>3
  <2>5. QueueInv
    BY <2>1, <2>2 DEF QueueInv, Init
  <2>6. QED
    BY <2>4, <2>5 DEF Fifo!Init, Hand, Init
<1>2. IInv /\ QueueInv /\ [Next]_vars => QueueInv' /\ [Fifo!Next]_(Fifo!vars)
  BY StepsRefine
<1>3. QED
  BY <1>1, <1>2, Inductive, PTL DEF Spec, RefinesFifo, Fifo!Spec
=============================================================================
