--------------------------- MODULE ResonancePlane ---------------------------
(***************************************************************************)
(* resonance_plane.rs: a client that sends one command at a time through   *)
(* an ingress page and polls an observation page for its reply.  Both      *)
(* pages are of the aether crate and the kernel is at their other end:     *)
(* they are external, and modelled from what the client does with them.    *)
(* The ingress holds one frame, which a submit overwrites; the observation *)
(* page announces the sequence of the last reply before the reply can be   *)
(* read, as poll_reply allows for.                                         *)
(*                                                                         *)
(* The kernel may be slow, lose a frame as malformed, garble a reply or    *)
(* deny a command.  A client may be made again over the same pages.  Each  *)
(* command has an identity of its own, which the program cannot see, to    *)
(* tell two commands of the same sequence apart.                           *)
(***************************************************************************)
EXTENDS Naturals

CONSTANTS MaxSeq,      \* u64::MAX, the last sequence number before the wrap
          MaxCommands, \* bound: commands submitted
          MaxClients   \* bound: clients made over the pages

ASSUME PlaneAssumption == {MaxSeq, MaxCommands, MaxClients} \subseteq Nat \ {0}

VARIABLES client,       \* number of clients made so far; the last one is in use
          capability, nextSequence,
          pending,      \* sequence of the pending command, or 0
          dropped,      \* dropped_replies
          polling,      \* poll_reply has found its sequence announced
          result,       \* what poll_reply has returned for the last command
          ingress,      \* the frame in the ingress page, or NoFrame
          working,      \* the frame the kernel is working on, or NoFrame
          published,    \* last_reply_sequence
          slot,         \* the reply that can be read, or NoReply
          commands,     \* commands submitted; the identity of the last one
          clean,        \* its numbering began with nothing published or in flight
          faulted       \* its frame was lost, or its reply garbled

clientVars == <<client, capability, nextSequence, pending, dropped, polling, result>>
pageVars == <<ingress, working, published, slot>>
planeVars == <<clientVars, pageVars, commands, clean, faulted>>

NoFrame == [sequence |-> 0, id |-> 0, capability |-> 0]
NoReply == [sequence |-> 0, id |-> 0, status |-> "Ok"]
NoResult == [kind |-> "None", id |-> 0]

PlaneInit ==
    /\ client = 0 /\ capability = 0 /\ nextSequence = 1
    /\ pending = 0 /\ dropped = 0
    /\ polling = FALSE
    /\ result = NoResult
    /\ ingress = NoFrame /\ working = NoFrame
    /\ published = 0
    /\ slot = NoReply
    /\ commands = 0
    /\ clean = FALSE
    /\ faulted = FALSE

-----------------------------------------------------------------------------
(* The client                                                              *)

\* from_addresses; a null, misaligned or incompatible page makes no client
Connect(raw) ==
    /\ client < MaxClients
    /\ ~polling
    /\ client' = client + 1
    /\ capability' = raw
    /\ nextSequence' = 1
    /\ pending' = 0
    /\ dropped' = 0
    /\ result' = NoResult
    /\ UNCHANGED <<polling, pageVars, commands, clean, faulted>>

\* wrapping_add(1).max(1)
Successor(sequence) == IF sequence = MaxSeq THEN 1 ELSE sequence + 1

Unused == ingress = NoFrame /\ working = NoFrame /\ published = 0

\* submit; with a command pending it is refused
Submit ==
    /\ client # 0
    /\ pending = 0
    /\ commands < MaxCommands
    /\ nextSequence' = Successor(nextSequence)
    /\ ingress' = [sequence |-> nextSequence, id |-> commands + 1, capability |-> capability]
    /\ pending' = nextSequence
    /\ commands' = commands + 1
    /\ clean' = IF nextSequence = 1 THEN Unused ELSE clean
    /\ faulted' = FALSE
    /\ result' = NoResult
    /\ UNCHANGED <<client, capability, dropped, polling, working, published, slot>>

\* poll_reply, up to the sequence; it returns at once while nothing is pending
\* or the sequence is behind
PollSequence ==
    /\ pending # 0
    /\ ~polling
    /\ published >= pending
    /\ \/ /\ published = pending
          /\ polling' = TRUE
          /\ UNCHANGED <<pending, dropped, result>>
       \/ /\ published > pending
          /\ pending' = 0
          /\ dropped' = dropped + 1
          /\ result' = [kind |-> "UnexpectedReply", id |-> 0]
          /\ UNCHANGED polling
    /\ UNCHANGED <<client, capability, nextSequence, pageVars, commands, clean, faulted>>

\* The reply is there, and what it says.
Answered(reply) ==
    /\ result' = [kind |-> reply.status, id |-> reply.id]
    /\ pending' = 0

\* Mutant: the reply is read without asking for its sequence.
PollReplyAny ==
    /\ polling
    /\ polling' = FALSE
    /\ IF slot.status = "Garbled" THEN UNCHANGED <<pending, result>> ELSE Answered(slot)
    /\ UNCHANGED <<client, capability, nextSequence, dropped, pageVars, commands, clean, faulted>>

\* Mutant: the command is let go of only after the status has been tested.
PollReplyKeeps ==
    /\ polling
    /\ polling' = FALSE
    /\ IF slot.sequence = pending /\ slot.status = "Ok"
       THEN Answered(slot)
       ELSE UNCHANGED <<pending, result>>
    /\ UNCHANGED <<client, capability, nextSequence, dropped, pageVars, commands, clean, faulted>>

\* poll_reply, from the reply on: one that is not there yet, or that does not
\* validate, leaves the command pending
PollReply ==
    /\ polling
    /\ polling' = FALSE
    /\ IF slot.sequence = pending /\ slot.status # "Garbled"
       THEN Answered(slot)
       ELSE UNCHANGED <<pending, result>>
    /\ UNCHANGED <<client, capability, nextSequence, dropped, pageVars, commands, clean, faulted>>

-----------------------------------------------------------------------------
(* The kernel's side                                                       *)

Fetch ==
    /\ working = NoFrame
    /\ ingress # NoFrame
    /\ working' = ingress
    /\ ingress' = NoFrame
    /\ UNCHANGED <<clientVars, published, slot, commands, clean, faulted>>

\* malformed_frames
Lose ==
    /\ ingress # NoFrame
    /\ ingress' = NoFrame
    /\ faulted' = (faulted \/ ingress.id = commands)
    /\ UNCHANGED <<clientVars, working, published, slot, commands, clean>>

Announce ==
    /\ working # NoFrame
    /\ published' = working.sequence
    /\ UNCHANGED <<clientVars, ingress, working, slot, commands, clean, faulted>>

Answer ==
    /\ working # NoFrame
    /\ published = working.sequence
    /\ \E status \in {"Ok", "Denied", "Garbled"} :
        /\ slot' = [sequence |-> working.sequence, id |-> working.id, status |-> status]
        /\ faulted' = (faulted \/ (status = "Garbled" /\ working.id = commands))
    /\ working' = NoFrame
    /\ UNCHANGED <<clientVars, ingress, published, commands, clean>>

PlaneNext ==
    \/ Submit \/ PollSequence \/ PollReply
    \/ Fetch \/ Lose \/ Announce \/ Answer

\* The kernel serves its pages, and a process with a pending command polls.
PlaneFairness ==
    /\ WF_planeVars(Fetch) /\ WF_planeVars(Announce) /\ WF_planeVars(Answer)
    /\ WF_planeVars(PollSequence) /\ WF_planeVars(PollReply)

-----------------------------------------------------------------------------
\* Every variable has its type.
PlaneTypeOK ==
    /\ client \in 0 .. MaxClients
    /\ capability \in Nat
    /\ nextSequence \in 1 .. MaxSeq
    /\ {pending, published} \subseteq 0 .. MaxSeq
    /\ dropped \in 0 .. MaxCommands
    /\ {polling, clean, faulted} \subseteq BOOLEAN
    /\ result \in [kind : {"None", "Ok", "Denied", "UnexpectedReply"}, id : 0 .. MaxCommands]
    /\ {ingress, working} \subseteq
            [sequence : 0 .. MaxSeq, id : 0 .. MaxCommands, capability : Nat]
    /\ slot \in [sequence : 0 .. MaxSeq, id : 0 .. MaxCommands,
                  status : {"Ok", "Denied", "Garbled"}]
    /\ commands \in 0 .. MaxCommands

\* What poll_reply returns is about the command that was submitted last: its
\* status and its reply, never those of another one, and never an
\* UnexpectedReply (lines 104-113), which would say that the kernel answered
\* a command that this client has not sent yet.  The client tells commands
\* apart by their sequence alone, so this holds for numberings that begin
\* over unused pages: a second client over the same pages, or one that has
\* used up the sequence numbers, meets replies of earlier commands.
ReplyIsForCommand ==
    (clean /\ result # NoResult) =>
        (result.kind \in {"Ok", "Denied"} /\ result.id = commands)

\* A pending command does not block the client for ever, whoever used the
\* pages before: unless its own frame is lost or its own reply garbled (which
\* leaves it pending, line 120), the client is rid of it.
CommandEnds == pending # 0 ~> (pending = 0 \/ faulted)
=============================================================================
