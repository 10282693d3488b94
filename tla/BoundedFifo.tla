---------------------------- MODULE BoundedFifo ----------------------------
(***************************************************************************)
(* What a bounded single-producer/single-consumer channel promises to its  *)
(* two users: messages are taken in the order they were put, none is lost, *)
(* duplicated or altered, a refusal ("Full") means that no place was free  *)
(* and an empty answer means that nothing was queued.                      *)
(***************************************************************************)
EXTENDS Naturals, Sequences

CONSTANTS Capacity,  \* number of places
          Message,   \* the messages
          None       \* the absence of a message

VARIABLES queue,     \* messages put and not yet taken
          hand,      \* the message taken by a receive that has not returned
          sendResult,\* answer of the last send call
          recvResult \* answer of the last receive call

vars == <<queue, hand, sendResult, recvResult>>

Init ==
    /\ queue = <<>>
    /\ hand = None
    /\ sendResult = None
    /\ recvResult = None

\* A place that a receive has not handed back yet is still occupied.
Occupied == Len(queue) + (IF hand = None THEN 0 ELSE 1)

Put(m) ==
    /\ Len(queue) < Capacity
    /\ queue' = Append(queue, m)
    /\ UNCHANGED <<hand, sendResult, recvResult>>

Accept ==
    /\ sendResult' = "Ok"
    /\ UNCHANGED <<queue, hand, recvResult>>

Refuse ==
    /\ Occupied >= Capacity
    /\ sendResult' = "Full"
    /\ UNCHANGED <<queue, hand, recvResult>>

Take ==
    /\ hand = None
    /\ queue # <<>>
    /\ hand' = Head(queue)
    /\ queue' = Tail(queue)
    /\ UNCHANGED <<sendResult, recvResult>>

Deliver ==
    /\ hand # None
    /\ recvResult' = hand
    /\ hand' = None
    /\ UNCHANGED <<queue, sendResult>>

NothingThere ==
    /\ hand = None
    /\ queue = <<>>
    /\ recvResult' = None
    /\ UNCHANGED <<queue, hand, sendResult>>

Next ==
    \/ \E m \in Message : Put(m)
    \/ Accept
    \/ Refuse
    \/ Take
    \/ Deliver
    \/ NothingThere

Spec == Init /\ [][Next]_vars
=============================================================================
