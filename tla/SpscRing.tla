------------------------------ MODULE SpscRing ------------------------------
(***************************************************************************)
(* ipc.rs, SpscRing: a ring of slots shared by one sending and one         *)
(* receiving thread.  Every slot carries its own state word; the indices   *)
(* are private to their side and are stored only after the slot has been   *)
(* handed over, so between the two stores the other side already sees the  *)
(* slot.  Every atomic access is a step of its own, and the copy of the    *)
(* 64-byte message, which is not atomic, is two steps: between them the    *)
(* cell is torn.                                                           *)
(***************************************************************************)
EXTENDS Naturals, Sequences, FiniteSets

CONSTANTS Depth,    \* CHANNEL_DEPTH
          Message,  \* the messages the producer may send
          None,     \* no message
          Torn      \* a cell that is being overwritten

ASSUME DepthAssumption == Depth \in Nat \ {0}
ASSUME MessageAssumption == None \notin Message /\ Torn \notin Message /\ None # Torn

VARIABLES producer,  \* SpscRing::producer
          consumer,  \* SpscRing::consumer
          state,     \* RingSlot::state, by slot
          message,   \* RingSlot::message, by slot
          sendPc,    \* where the producer stands in send
          outgoing,  \* send's argument
          recvPc,    \* where the consumer stands in recv
          incoming,  \* recv's local copy of the message
          sendResult,\* what the last send returned
          recvResult,\* what the last recv returned
          peeked     \* the consumer's last is_empty said that a message waits

producerVars == <<producer, sendPc, outgoing, sendResult>>
consumerVars == <<consumer, recvPc, incoming, recvResult, peeked>>
vars == <<producerVars, consumerVars, state, message>>

Slots == 0 .. Depth - 1

NextSlot(i) == (i + 1) % Depth

\* SpscRing::new
Init ==
    /\ producer = 0
    /\ consumer = 0
    /\ state = [i \in Slots |-> "EMPTY"]
    /\ message = [i \in Slots |-> None]
    /\ sendPc = "idle"
    /\ outgoing = None
    /\ recvPc = "idle"
    /\ incoming = None
    /\ sendResult = None
    /\ recvResult = None
    /\ peeked = FALSE

-----------------------------------------------------------------------------
(* send: only the producer stores `producer`, so its load of the index     *)
(* needs no step of its own.                                               *)

\* Mutant: a store instead of the compare-and-exchange.
SendClaimBlind(m) ==
    /\ sendPc = "idle"
    /\ state' = [state EXCEPT ![producer] = "WRITING"]
    /\ outgoing' = m
    /\ sendPc' = "claimed"
    /\ UNCHANGED <<producer, sendResult, message, consumerVars>>

SendClaim(m) ==
    /\ sendPc = "idle"
    /\ state[producer] = "EMPTY"
    /\ state' = [state EXCEPT ![producer] = "WRITING"]
    /\ outgoing' = m
    /\ sendPc' = "claimed"
    /\ UNCHANGED <<producer, sendResult, message, consumerVars>>

SendFull ==
    /\ sendPc = "idle"
    /\ state[producer] # "EMPTY"
    /\ sendResult' = "Full"
    /\ UNCHANGED <<producer, sendPc, outgoing, state, message, consumerVars>>

SendCopyStart ==
    /\ sendPc = "claimed"
    /\ message' = [message EXCEPT ![producer] = Torn]
    /\ sendPc' = "copying"
    /\ UNCHANGED <<producer, outgoing, sendResult, state, consumerVars>>

SendCopyEnd ==
    /\ sendPc = "copying"
    /\ message' = [message EXCEPT ![producer] = outgoing]
    /\ sendPc' = "copied"
    /\ UNCHANGED <<producer, outgoing, sendResult, state, consumerVars>>

SendPublish ==
    /\ sendPc = "copied"
    /\ state' = [state EXCEPT ![producer] = "READY"]
    /\ sendPc' = "published"
    /\ UNCHANGED <<producer, outgoing, sendResult, message, consumerVars>>

SendReturn ==
    /\ sendPc = "published"
    /\ producer' = NextSlot(producer)
    /\ outgoing' = None
    /\ sendResult' = "Ok"
    /\ sendPc' = "idle"
    /\ UNCHANGED <<state, message, consumerVars>>

-----------------------------------------------------------------------------
(* recv                                                                    *)

\* Mutant: emptiness judged by the indices, so a full ring looks empty.
RecvClaimByIndex ==
    /\ recvPc = "idle"
    /\ state[consumer] = "READY"
    /\ consumer # producer
    /\ state' = [state EXCEPT ![consumer] = "READING"]
    /\ recvPc' = "claimed"
    /\ peeked' = FALSE
    /\ UNCHANGED <<consumer, incoming, recvResult, message, producerVars>>

RecvClaim ==
    /\ recvPc = "idle"
    /\ state[consumer] = "READY"
    /\ state' = [state EXCEPT ![consumer] = "READING"]
    /\ recvPc' = "claimed"
    /\ peeked' = FALSE
    /\ UNCHANGED <<consumer, incoming, recvResult, message, producerVars>>

\* Mutant: a weak compare-and-exchange, which may fail although it matches.
RecvEmptyWeak ==
    /\ recvPc = "idle"
    /\ recvResult' = None
    /\ peeked' = FALSE
    /\ UNCHANGED <<consumer, recvPc, incoming, state, message, producerVars>>

RecvEmpty ==
    /\ recvPc = "idle"
    /\ state[consumer] # "READY"
    /\ recvResult' = None
    /\ peeked' = FALSE
    /\ UNCHANGED <<consumer, recvPc, incoming, state, message, producerVars>>

RecvCopy ==
    /\ recvPc = "claimed"
    /\ incoming' = message[consumer]
    /\ recvPc' = "copied"
    /\ UNCHANGED <<consumer, recvResult, peeked, state, message, producerVars>>

RecvRelease ==
    /\ recvPc = "copied"
    /\ state' = [state EXCEPT ![consumer] = "EMPTY"]
    /\ recvPc' = "released"
    /\ UNCHANGED <<consumer, incoming, recvResult, peeked, message, producerVars>>

RecvReturn ==
    /\ recvPc = "released"
    /\ consumer' = NextSlot(consumer)
    /\ recvResult' = incoming
    /\ incoming' = None
    /\ recvPc' = "idle"
    /\ UNCHANGED <<peeked, state, message, producerVars>>

\* Mutant: is_empty compares with EMPTY, so a slot in WRITING counts as ready.
IsEmptyByEmpty ==
    /\ recvPc = "idle"
    /\ peeked' = (state[consumer] # "EMPTY")
    /\ UNCHANGED <<consumer, recvPc, incoming, recvResult, state, message, producerVars>>

\* is_empty, called by the consumer between two receives.
IsEmpty ==
    /\ recvPc = "idle"
    /\ peeked' = (state[consumer] = "READY")
    /\ UNCHANGED <<consumer, recvPc, incoming, recvResult, state, message, producerVars>>

-----------------------------------------------------------------------------
SendStep == SendCopyStart \/ SendCopyEnd \/ SendPublish \/ SendReturn
RecvStep == RecvClaim \/ RecvCopy \/ RecvRelease \/ RecvReturn

Next ==
    \/ \E m \in Message : SendClaim(m)
    \/ SendFull
    \/ SendStep
    \/ RecvStep
    \/ RecvEmpty
    \/ IsEmpty

Spec == Init /\ [][Next]_vars

\* A send that has started runs to its end (it has no loop and no wait); the
\* consumer keeps calling recv.  Nothing obliges the producer to send.
FairSpec == Spec /\ WF_vars(SendStep) /\ WF_vars(RecvStep)

-----------------------------------------------------------------------------
SlotStates == {"EMPTY", "WRITING", "READY", "READING"}

\* Every variable has its type; the indices stay inside the slot array.
TypeOK ==
    /\ producer \in Slots
    /\ consumer \in Slots
    /\ state \in [Slots -> SlotStates]
    /\ message \in [Slots -> Message \cup {None, Torn}]
    /\ sendPc \in {"idle", "claimed", "copying", "copied", "published"}
    /\ outgoing \in Message \cup {None}
    /\ recvPc \in {"idle", "claimed", "copied", "released"}
    /\ incoming \in Message \cup {None, Torn}
    /\ sendResult \in {None, "Ok", "Full"}
    /\ recvResult \in Message \cup {None, Torn}
    /\ peeked \in BOOLEAN

SendOwns(i) == sendPc \in {"claimed", "copying", "copied"} /\ producer = i
RecvOwns(i) == recvPc \in {"claimed", "copied"} /\ consumer = i

\* The SAFETY comments of ipc.rs (lines 73-74, 105, 124): a slot in WRITING
\* belongs to the producer inside send, a slot in READING to the consumer
\* inside recv, and a side that touches the message cell owns its slot, also
\* while the index stores lag behind the slot states.
SlotOwnership ==
    \A i \in Slots :
        /\ state[i] = "WRITING" <=> SendOwns(i)
        /\ state[i] = "READING" <=> RecvOwns(i)

\* A slot that is published or being read holds a whole message, never a torn
\* cell or the initial contents of the slot, so recv returns only whole ones.
WholeMessages ==
    /\ \A i \in Slots : state[i] \in {"READY", "READING"} => message[i] \in Message
    /\ recvPc \in {"copied", "released"} => incoming \in Message
    /\ recvResult \in Message \cup {None}

\* An is_empty that answered FALSE to the consumer is still right when the
\* consumer comes back for the message: nothing the producer does in between
\* can make the following recv return None.
PeekIsReliable == peeked => recvPc = "idle" /\ state[consumer] = "READY"

-----------------------------------------------------------------------------
(* The channel the ring implements.  A message enters the queue when its   *)
(* slot becomes READY and leaves it when the consumer claims the slot.     *)

First == IF recvPc = "idle" THEN consumer ELSE NextSlot(consumer)
ReadyCount == Cardinality({i \in Slots : state[i] = "READY"})

Queue == [k \in 1 .. ReadyCount |-> message[(First + k - 1) % Depth]]
Hand ==
    CASE recvPc = "idle" -> None
      [] recvPc = "released" -> incoming
      [] OTHER -> message[consumer]

Fifo == INSTANCE BoundedFifo WITH Capacity <- Depth, queue <- Queue, hand <- Hand

\* send and recv implement a bounded FIFO: order, no loss, no duplication,
\* Full only when every place is taken, None only when nothing is queued.
RefinesFifo == Fifo!Spec

\* With a consumer that keeps receiving, every published message is taken.
EveryMessageIsTaken == \A i \in Slots : state[i] = "READY" ~> state[i] # "READY"
=============================================================================
