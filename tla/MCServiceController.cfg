SPECIFICATION Spec
CONSTANTS
    MinCompletions = 1
    MaxAdmissions = 2
    WindowTicks = 2
    LatencyTicks = 1
    MaxBacklog = 2
    Retained = 2
    CoverNum = 15
    CoverDen = 16
    Slack = 1
    One = 5
    MaxWord = 12
    MaxCount = 1
    MaxSequence = 3
    Tick = {0, 2, 3, 6}
    Deadline = {11}
INVARIANTS
    EnvelopeHolds
    SequenceIsIdentity
    BacklogIsOutstanding
    GuardCovers
    ArrivalsFit
