SPECIFICATION Spec
CONSTANTS
    Session = {"s1", "s2"}
    Lease <- MCLease
    HttpLease <- MCHttpLease
    Wire <- MCWire
    MaxSequence = 2
    MaxEpoch = 2
    MaxHeld = 2
    None = None
INVARIANTS
    BoundToSession
    NoReplayBeforeWrap
    OneRequestPerTurn
