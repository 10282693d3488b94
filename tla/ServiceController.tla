------------------------- MODULE ServiceController -------------------------
(***************************************************************************)
(* service_calculus.rs: deadline-aware admission.  A job is admitted when  *)
(* the window still has room and when now + delay bound fits its deadline; *)
(* the bound adds the service curve, a guard learned from the residuals of *)
(* completed jobs, and a penalty for the virtual backlog.  An admission is *)
(* a certificate the caller brings back to undo it or to report its        *)
(* completion, in any order and as often as it likes: it is a plain copy.  *)
(*                                                                         *)
(* The keyed roots only make certificates unforgeable, so the certificates *)
(* that verify are those that were issued.  A call that is refused without *)
(* any change of state is a stuttering step and has no action.             *)
(***************************************************************************)
EXTENDS Naturals, FiniteSets, Functions

CONSTANTS MinCompletions,  \* minimum_completions_per_window
          MaxAdmissions,   \* maximum_admissions_per_window
          WindowTicks, LatencyTicks, MaxBacklog,  \* the rest of ServiceCurve
          Retained,        \* N, the residuals kept by the calibrator
          CoverNum, CoverDen,  \* DEFAULT_CONFORMAL_NUMERATOR, _DENOMINATOR
          Slack,           \* additive_slack
          One,             \* Q16_ONE, one job of virtual backlog
          MaxWord,         \* u64::MAX for ticks and virtual backlog
          MaxCount,        \* u64::MAX for the statistics rejected and observed
          MaxSequence,     \* u64::MAX for reservation_sequence
          Tick, Deadline   \* bound: the ticks and deadlines callers pass

MaxGuard == WindowTicks * MaxBacklog

ASSUME CurveAssumption ==   \* ServiceCurve::valid and ServiceController::new
    /\ {MinCompletions, MaxAdmissions, WindowTicks, MaxBacklog, Retained, One} \subseteq Nat \ {0}
    /\ {LatencyTicks, Slack, MaxWord, MaxCount, MaxSequence} \subseteq Nat
    /\ MinCompletions <= MaxBacklog /\ MaxAdmissions <= MaxBacklog
    /\ CoverNum \in Nat \ {0} /\ CoverDen \in Nat /\ CoverNum < CoverDen
    /\ MaxGuard + Slack <= MaxWord
    /\ Tick \subseteq 0 .. MaxWord /\ Deadline \subseteq 0 .. MaxWord /\ 0 \in Tick

VARIABLES windowStart, lastTick, admitted, sequence, accepted, rejected, observed,
          virtualBacklog,                \* the ServiceController
          residuals, length, cursor,     \* its ResidualCalibrator
          issued,                        \* every certificate handed out
          rolledBack,                    \* sequences undone by rollback
          completed,                     \* sequences whose completion was recorded
          late                           \* some completion exceeded its bound

clockVars == <<windowStart, lastTick>>
calibratorVars == <<residuals, length, cursor>>
ledgerVars == <<issued, rolledBack, completed, late>>
vars == <<clockVars, admitted, sequence, accepted, rejected, observed, virtualBacklog,
          calibratorVars, ledgerVars>>

AtMost(n, cap) == IF n > cap THEN cap ELSE n
Monus(a, b) == IF a > b THEN a - b ELSE 0
CeilDiv(a, b) == (a + b - 1) \div b
Increment(n) == AtMost(n + 1, MaxCount)

Init ==
    /\ windowStart = 0 /\ lastTick = 0
    /\ admitted = 0 /\ sequence = 0
    /\ accepted = 0 /\ rejected = 0 /\ observed = 0
    /\ virtualBacklog = 0
    /\ residuals = [i \in 0 .. Retained - 1 |-> 0] /\ length = 0 /\ cursor = 0
    /\ issued = {} /\ rolledBack = {} /\ completed = {} /\ late = FALSE

-----------------------------------------------------------------------------
(* The bound.                                                              *)

\* ServiceCurve::deterministic_delay
DeterministicDelay(backlog) ==
    LatencyTicks + CeilDiv(backlog + 1, MinCompletions) * WindowTicks

Rank == CeilDiv((length + 1) * CoverNum, CoverDen)

\* Mutant: the residuals are ranked in the order they arrived.
GuardUnsorted ==
    IF length = 0 THEN AtMost(Slack, MaxGuard)
    ELSE AtMost(residuals[AtMost(Monus(Rank, 1), length - 1)] + Slack, MaxGuard)

\* The permutation sort_unstable applies to the retained residuals.
SortOrder ==
    CHOOSE order \in Bijection(1 .. length, 0 .. length - 1) :
        \A i, j \in 1 .. length : i < j => residuals[order[i]] <= residuals[order[j]]

\* ResidualCalibrator::guard
Guard ==
    IF length = 0 THEN AtMost(Slack, MaxGuard)
    ELSE LET index == AtMost(Monus(Rank, 1), length - 1)
         IN  AtMost(residuals[SortOrder[index + 1]] + Slack, MaxGuard)

\* drift_penalty_ticks
DriftPenalty(backlog) ==
    AtMost(CeilDiv(backlog \div One, MinCompletions) * WindowTicks, MaxWord)

-----------------------------------------------------------------------------
(* advance, the first thing admit and observe_completion do                *)

Regression(now) == now < lastTick \/ now < windowStart

\* Mutant: a window is over one tick late.
WindowsLate(now) ==
    IF now - windowStart > WindowTicks THEN (now - windowStart) \div WindowTicks ELSE 0

Windows(now) == (now - windowStart) \div WindowTicks
Service(now) == Windows(now) * MinCompletions * One

\* Mutant: the admissions of the window are kept when it rolls.
KeptAdmitted(now) == admitted

WindowAt(now) == windowStart + Windows(now) * WindowTicks
AdmittedAt(now) == IF Windows(now) > 0 THEN 0 ELSE admitted
BacklogAt(now) == Monus(virtualBacklog, Service(now))

Advances(now) == ~Regression(now) /\ Service(now) <= MaxWord

\* What advance leaves when it succeeds, apart from admitted and the backlog.
Advance(now) ==
    /\ windowStart' = WindowAt(now)
    /\ lastTick' = now

\* admit or observe_completion with a tick from the past
TimeRegression(now) ==
    /\ Regression(now)
    /\ rejected' = Increment(rejected)
    /\ UNCHANGED <<clockVars, admitted, sequence, accepted, observed, virtualBacklog,
                   calibratorVars, ledgerVars>>

\* The drain of the skipped windows overflows: the window has already been
\* rolled, the last tick and the backlog have not been touched.
AdvanceOverflow(now) ==
    /\ ~Regression(now)
    /\ Service(now) > MaxWord
    /\ windowStart' = WindowAt(now)
    /\ admitted' = 0
    /\ UNCHANGED <<lastTick, sequence, accepted, rejected, observed, virtualBacklog,
                   calibratorVars, ledgerVars>>

-----------------------------------------------------------------------------
(* admit                                                                   *)

Delay(now, backlog) == DeterministicDelay(backlog) + Guard + DriftPenalty(BacklogAt(now))

Fits(now, deadline, backlog) == now + Delay(now, backlog) <= deadline

\* Refused and counted: saturated backlog, full window, or unsafe deadline.
AdmitRejected(now, deadline, backlog) ==
    /\ Advances(now)
    /\ \/ backlog >= MaxBacklog
       \/ AdmittedAt(now) >= MaxAdmissions
       \/ now + Delay(now, backlog) <= MaxWord /\ ~Fits(now, deadline, backlog)
    /\ Advance(now)
    /\ admitted' = AdmittedAt(now)
    /\ virtualBacklog' = BacklogAt(now)
    /\ rejected' = Increment(rejected)
    /\ UNCHANGED <<sequence, accepted, observed, calibratorVars, ledgerVars>>

HasRoom(now, backlog) == backlog < MaxBacklog /\ AdmittedAt(now) < MaxAdmissions

\* Given up on an overflow of the bound or on an exhausted sequence.
AdmitAborted(now, deadline, backlog) ==
    /\ Advances(now)
    /\ HasRoom(now, backlog)
    /\ \/ now + Delay(now, backlog) > MaxWord
       \/ Fits(now, deadline, backlog) /\ sequence = MaxSequence
    /\ Advance(now)
    /\ admitted' = AdmittedAt(now)
    /\ virtualBacklog' = BacklogAt(now)
    /\ UNCHANGED <<sequence, accepted, rejected, observed, calibratorVars, ledgerVars>>

Certificate(now, deadline, backlog) ==
    [seq |-> sequence + 1, tick |-> now, window |-> WindowAt(now), before |-> AdmittedAt(now),
     predicted |-> DeterministicDelay(backlog) + DriftPenalty(BacklogAt(now)),
     bound |-> Delay(now, backlog), deadline |-> deadline]

AdmitOk(now, deadline, backlog) ==
    /\ Advances(now)
    /\ HasRoom(now, backlog)
    /\ Fits(now, deadline, backlog)
    /\ sequence < MaxSequence
    /\ Advance(now)
    /\ admitted' = AdmittedAt(now) + 1
    /\ sequence' = sequence + 1
    /\ accepted' = AtMost(accepted + 1, MaxSequence)
    /\ virtualBacklog' = AtMost(BacklogAt(now) + One, MaxWord)
    /\ issued' = issued \cup {Certificate(now, deadline, backlog)}
    /\ UNCHANGED <<rejected, observed, calibratorVars, rolledBack, completed, late>>

-----------------------------------------------------------------------------
(* rollback: only the latest reservation, in its own window, while no      *)
(* later admission or rollback has touched the window.                     *)

\* Mutant: the sequence number is given back as well.
RollbackReuses(c) ==
    /\ c.window = windowStart
    /\ c.seq = sequence
    /\ admitted = c.before + 1
    /\ admitted' = c.before
    /\ sequence' = sequence - 1
    /\ accepted' = Monus(accepted, 1)
    /\ virtualBacklog' = Monus(virtualBacklog, One)
    /\ rolledBack' = rolledBack \cup {c.seq}
    /\ UNCHANGED <<clockVars, rejected, observed, calibratorVars, issued, completed, late>>

\* Mutant: the virtual backlog keeps the job.
RollbackKeepsBacklog(c) ==
    /\ c.window = windowStart
    /\ c.seq = sequence
    /\ admitted = c.before + 1
    /\ admitted' = c.before
    /\ accepted' = Monus(accepted, 1)
    /\ rolledBack' = rolledBack \cup {c.seq}
    /\ UNCHANGED <<clockVars, sequence, rejected, observed, virtualBacklog, calibratorVars,
                   issued, completed, late>>

Rollback(c) ==
    /\ c.window = windowStart
    /\ c.seq = sequence
    /\ admitted = c.before + 1
    /\ admitted' = c.before
    /\ accepted' = Monus(accepted, 1)
    /\ virtualBacklog' = Monus(virtualBacklog, One)
    /\ rolledBack' = rolledBack \cup {c.seq}
    /\ UNCHANGED <<clockVars, sequence, rejected, observed, calibratorVars, issued,
                   completed, late>>

\* ResidualCalibrator::push
Push(residual) ==
    /\ residuals' = [residuals EXCEPT ![cursor] = AtMost(residual, MaxGuard)]
    /\ cursor' = (cursor + 1) % Retained
    /\ length' = AtMost(length + 1, Retained)

\* The backlog that a completion so many ticks after its bound adds; a product
\* that does not fit the word counts as the largest one.
Pressure(excess) ==
    IF excess * One > MaxWord THEN MaxWord ELSE (excess * One) \div WindowTicks

\* observe_completion
ObserveCompletion(c, now) ==
    LET delay == now - c.tick
        pressure == Pressure(Monus(delay, c.bound))
    IN  /\ now >= c.tick
        /\ Advances(now)
        /\ Advance(now)
        /\ admitted' = AdmittedAt(now)
        /\ Push(Monus(delay, c.predicted))
        /\ virtualBacklog' = AtMost(Monus(BacklogAt(now), One) + pressure, MaxWord)
        /\ observed' = Increment(observed)
        /\ completed' = completed \cup {c.seq}
        /\ late' = (late \/ delay > c.bound)
        /\ UNCHANGED <<sequence, accepted, rejected, issued, rolledBack>>

Next ==
    \/ \E now \in Tick :
        \/ TimeRegression(now)
        \/ AdvanceOverflow(now)
        \/ \E deadline \in Deadline, backlog \in 0 .. MaxBacklog :
            \/ AdmitRejected(now, deadline, backlog)
            \/ AdmitAborted(now, deadline, backlog)
            \/ AdmitOk(now, deadline, backlog)
        \/ \E c \in issued : ObserveCompletion(c, now)
    \/ \E c \in issued : Rollback(c)

Spec == Init /\ [][Next]_vars

-----------------------------------------------------------------------------
\* Every variable has its type.
TypeOK ==
    /\ windowStart \in Nat /\ lastTick \in Tick
    /\ admitted \in 0 .. MaxAdmissions
    /\ sequence \in 0 .. MaxSequence
    /\ accepted \in 0 .. MaxSequence
    /\ {rejected, observed} \subseteq 0 .. MaxCount
    /\ virtualBacklog \in 0 .. MaxWord
    /\ residuals \in [0 .. Retained - 1 -> 0 .. MaxGuard]
    /\ length \in 0 .. Retained /\ cursor \in 0 .. Retained - 1
    /\ rolledBack \subseteq 1 .. MaxSequence /\ completed \subseteq 1 .. MaxSequence
    /\ late \in BOOLEAN

Standing(w) == {c \in issued : c.window = w /\ c.seq \notin rolledBack}

\* The arrival envelope (header line 6): no window, present or past, has more
\* standing admissions than the curve allows, and admitted_in_window counts
\* those of the present one across rollbacks and failed calls.
EnvelopeHolds ==
    /\ \A c \in issued : Cardinality(Standing(c.window)) <= MaxAdmissions
    /\ admitted = Cardinality(Standing(windowStart))

Arrived(t) ==
    {d \in issued : d.seq \notin rolledBack /\ d.tick \in t .. t + WindowTicks - 1}

\* The same envelope on the clock instead of in the controller's own account:
\* by the ticks at which standing reservations were admitted, no window holds
\* more than the curve allows and no span of a window's length that begins at
\* an admission holds more than twice as much, although windows are skipped,
\* a call ends on a window's boundary, and a failed advance rolls the window
\* without moving the last tick.
ArrivalsFit ==
    \A c \in issued : /\ Cardinality(Arrived(c.window)) <= MaxAdmissions
                      /\ Cardinality(Arrived(c.tick)) <= 2 * MaxAdmissions

\* "Reservation identity is authority" (line 371): two certificates never
\* carry the same sequence number, also when the counter is exhausted.
SequenceIsIdentity == \A c, d \in issued : c.seq = d.seq => c = d

\* As long as no job was later than its bound, the virtual backlog is at most
\* one unit for each standing job that has not been reported complete.
BacklogIsOutstanding ==
    ~late => virtualBacklog <=
        One * Cardinality({c \in issued : c.seq \notin rolledBack \cup completed})

\* The guard covers the residuals it was learned from: at least the fraction
\* CoverNum/CoverDen of the retained residuals is no larger than the guard.
GuardCovers ==
    CoverDen * Cardinality({i \in 0 .. length - 1 : residuals[i] <= Guard}) >= CoverNum * length
=============================================================================
