---------------------------- MODULE ArgusEndpoint ----------------------------
(***************************************************************************)
(* hypermedia.rs: the Argus endpoint.  A client writes request records     *)
(* into a shared mapping; the broker prepares an envelope for one, commits *)
(* it through the session of an endpoint lease, has the transport check    *)
(* the nested request against the HTTPS lease, and completes it.  Sessions *)
(* of several leases coexist: a new mapping generation starts a new one.   *)
(* Envelopes are plain copies: one may be committed late, twice, or at     *)
(* another session than the one that prepared it.                          *)
(*                                                                         *)
(* A record is abstracted to its sequence number, the HTTPS lease it names,*)
(* its origin, and one number for the four dimensions of its budget.  A    *)
(* call that is refused changes nothing and has no action.                 *)
(***************************************************************************)
EXTENDS Naturals, FiniteSets

CONSTANTS Session,      \* the sessions, one per endpoint lease
          Lease,        \* the lease of each: endpoint, mapping, generation,
                        \* mappingGeneration, expiry
          HttpLease,    \* the HTTPS lease: id, origin, budget, expiry
          Wire,         \* request records a client may write: seq, lease, origin, budget
          MaxSequence,  \* u32::MAX for the sequence
          MaxEpoch,     \* bound on the broker's clock
          MaxHeld,      \* bound on the envelopes in existence
          None

\* Two leases no field that validate_envelope compares tells apart (654-674).
SameLease(l, m) ==
    /\ l.endpoint = m.endpoint
    /\ l.mapping = m.mapping
    /\ l.generation = m.generation
    /\ l.mappingGeneration = m.mappingGeneration

\* The broker opens one session per endpoint, mapping and generation of it.
ASSUME EndpointAssumption ==
    /\ MaxSequence \in Nat \ {0} /\ MaxEpoch \in Nat /\ MaxHeld \in Nat
    /\ Lease \in [Session -> [endpoint : Nat, mapping : Nat, generation : Nat,
                              mappingGeneration : Nat, expiry : Nat]]
    /\ \A s, t \in Session : SameLease(Lease[s], Lease[t]) => s = t
    /\ \A w \in Wire : w.seq \in 0 .. MaxSequence
    /\ None \notin [by : Session, lease : {Lease[s] : s \in Session}, wire : Wire]

VARIABLES epoch,      \* current_epoch, the broker's clock
          nextSeq,    \* ArgusEndpointSession::next_sequence
          inFlight,   \* ArgusEndpointSession::in_flight
          revoked,    \* ArgusEndpointSession::revoked
          envelopes,  \* envelopes in existence, tagged with the preparing session
          flying,     \* the envelope whose commit set in_flight, by session
          committed,  \* sequences committed at each session
          wrapped,    \* the session's sequence counter has wrapped
          executed    \* what the transport has acted on: the session, the record,
                      \* and whether the endpoint lease had expired by then

sessionVars == <<nextSeq, inFlight, revoked>>
ghostVars == <<flying, committed, wrapped>>
vars == <<epoch, sessionVars, envelopes, ghostVars, executed>>

\* ArgusEndpointSession::new
Init ==
    /\ epoch = 0
    /\ nextSeq = [s \in Session |-> 1]
    /\ inFlight = [s \in Session |-> FALSE]
    /\ revoked = [s \in Session |-> FALSE]
    /\ envelopes = {}
    /\ flying = [s \in Session |-> None]
    /\ committed = [s \in Session |-> {}]
    /\ wrapped = [s \in Session |-> FALSE]
    /\ executed = {}

-----------------------------------------------------------------------------
(* HttpLease                                                               *)

\* HttpLease::permits
Permits(w) ==
    /\ epoch < HttpLease.expiry
    /\ w.origin = HttpLease.origin
    /\ w.budget <= HttpLease.budget

\* HttpLease::authorize_ipc
AuthorizeIpc(w) == w.lease = HttpLease.id /\ Permits(w)

-----------------------------------------------------------------------------
(* ArgusEndpointSession                                                    *)

\* ArgusEndpointLease::authorize_request
AuthorizeRequest(s, w) == epoch < Lease[s].expiry /\ w.seq # 0

Prepare(s, w) ==
    /\ ~revoked[s]
    /\ ~inFlight[s]
    /\ w.seq = nextSeq[s]
    /\ AuthorizeRequest(s, w)
    /\ Cardinality(envelopes) < MaxHeld
    /\ envelopes' = envelopes \cup {[by |-> s, lease |-> Lease[s], wire |-> w]}
    /\ UNCHANGED <<epoch, sessionVars, ghostVars, executed>>

\* The holder of an envelope forgets it.
Discard(e) ==
    /\ envelopes' = envelopes \ {e}
    /\ UNCHANGED <<epoch, sessionVars, ghostVars, executed>>

\* Mutant: the mapping generation is not compared.
ValidateAnyMapping(s, e) ==
    /\ e.lease.endpoint = Lease[s].endpoint
    /\ e.lease.mapping = Lease[s].mapping
    /\ e.lease.generation = Lease[s].generation
    /\ e.wire.seq = nextSeq[s]

\* validate_envelope
ValidateEnvelope(s, e) == SameLease(e.lease, Lease[s]) /\ e.wire.seq = nextSeq[s]

\* Mutant: a request may be committed while another is in flight.
CommitOverBusy(s, e) ==
    /\ ~revoked[s]
    /\ ValidateEnvelope(s, e)
    /\ inFlight' = [inFlight EXCEPT ![s] = TRUE]
    /\ flying' = [flying EXCEPT ![s] = e]
    /\ committed' = [committed EXCEPT ![s] = @ \cup {e.wire.seq}]
    /\ UNCHANGED <<epoch, nextSeq, revoked, envelopes, wrapped, executed>>

Commit(s, e) ==
    /\ ~revoked[s]
    /\ ValidateEnvelope(s, e)
    /\ ~inFlight[s]
    /\ inFlight' = [inFlight EXCEPT ![s] = TRUE]
    /\ flying' = [flying EXCEPT ![s] = e]
    /\ committed' = [committed EXCEPT ![s] = @ \cup {e.wire.seq}]
    /\ UNCHANGED <<epoch, nextSeq, revoked, envelopes, wrapped, executed>>

\* The transport acts on the request in flight (the broker's side of
\* HttpLease::authorize_ipc).
Execute(s) ==
    /\ inFlight[s]
    /\ AuthorizeIpc(flying[s].wire)
    /\ executed' = executed \cup
         {[by |-> s, wire |-> flying[s].wire, late |-> epoch >= Lease[s].expiry]}
    /\ UNCHANGED <<epoch, sessionVars, envelopes, ghostVars>>

\* next_sequence.wrapping_add(1).max(1)
Successor(n) == IF n = MaxSequence THEN 1 ELSE n + 1

\* Mutant: the session does not move on to the next sequence.
CompleteSameSequence(s) ==
    /\ inFlight[s]
    /\ inFlight' = [inFlight EXCEPT ![s] = FALSE]
    /\ flying' = [flying EXCEPT ![s] = None]
    /\ UNCHANGED <<epoch, nextSeq, revoked, envelopes, committed, wrapped, executed>>

\* complete, with the sequence of the request in flight
Complete(s) ==
    /\ inFlight[s]
    /\ inFlight' = [inFlight EXCEPT ![s] = FALSE]
    /\ nextSeq' = [nextSeq EXCEPT ![s] = Successor(@)]
    /\ flying' = [flying EXCEPT ![s] = None]
    /\ wrapped' = [wrapped EXCEPT ![s] = @ \/ nextSeq[s] = MaxSequence]
    /\ UNCHANGED <<epoch, revoked, envelopes, committed, executed>>

Revoke(s) ==
    /\ revoked' = [revoked EXCEPT ![s] = TRUE]
    /\ inFlight' = [inFlight EXCEPT ![s] = FALSE]
    /\ flying' = [flying EXCEPT ![s] = None]
    /\ UNCHANGED <<epoch, nextSeq, envelopes, committed, wrapped, executed>>

Tick ==
    /\ epoch < MaxEpoch
    /\ epoch' = epoch + 1
    /\ UNCHANGED <<sessionVars, envelopes, ghostVars, executed>>

Next ==
    \/ Tick
    \/ \E e \in envelopes : Discard(e)
    \/ \E s \in Session :
        \/ \E w \in Wire : Prepare(s, w)
        \/ \E e \in envelopes : Commit(s, e)
        \/ Execute(s)
        \/ Complete(s)
        \/ Revoke(s)

Spec == Init /\ [][Next]_vars

-----------------------------------------------------------------------------
Envelope == [by : Session, lease : {Lease[s] : s \in Session}, wire : Wire]

\* Every variable has its type; a session's sequence is never zero.
TypeOK ==
    /\ epoch \in 0 .. MaxEpoch
    /\ nextSeq \in [Session -> 1 .. MaxSequence]
    /\ inFlight \in [Session -> BOOLEAN]
    /\ revoked \in [Session -> BOOLEAN]
    /\ envelopes \subseteq Envelope
    /\ flying \in [Session -> Envelope \cup {None}]
    /\ committed \in [Session -> SUBSET (0 .. MaxSequence)]
    /\ wrapped \in [Session -> BOOLEAN]
    /\ executed \subseteq [by : Session, wire : Wire, late : BOOLEAN]

\* The broker tags every envelope with the lease of the session it serves.
TaggedByLease == \A e \in envelopes : e.lease = Lease[e.by]

\* "the outer fields prevent a request from being replayed through another
\* endpoint or mapping generation" (lines 519-521): what is in flight at a
\* session was prepared by that session, for the sequence it waits for.
BoundToSession ==
    \A s \in Session :
        inFlight[s] => /\ flying[s] # None
                       /\ flying[s].by = s
                       /\ flying[s].wire.seq = nextSeq[s]

\* "makes revocation terminal" (lines 580-581): a revoked session has nothing
\* in flight and no envelope prepared before gets it going again.
RevocationIsTerminal ==
    /\ \A s \in Session : revoked[s] => ~inFlight[s]
    /\ \A s \in Session : revoked[s] => flying[s] = None

\* Until the counter wraps, a session commits each sequence at most once, in
\* order: what it has committed is below the sequence it waits for, which is
\* committed only while it is in flight or when the session was revoked.
NoReplayBeforeWrap ==
    \A s \in Session : ~wrapped[s] =>
        /\ \A n \in committed[s] : n <= nextSeq[s]
        /\ nextSeq[s] \in committed[s] => inFlight[s] \/ revoked[s]

\* "one request at a time, exact monotonically increasing sequence" (578-580):
\* until the counter wraps the transport acts on one record per sequence,
\* whatever envelopes are prepared side by side, kept, repeated or discarded;
\* and after the endpoint lease has expired, which only prepare looks at,
\* it acts on at most one record, whose envelope was prepared in time.
OneRequestPerTurn ==
    \A x, y \in executed : x.by = y.by /\ ~wrapped[x.by] =>
        /\ x.wire.seq = y.wire.seq => x.wire = y.wire
        /\ x.late /\ y.late => x.wire = y.wire
=============================================================================
