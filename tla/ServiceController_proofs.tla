---------------------- MODULE ServiceController_proofs ----------------------
(***************************************************************************)
(* The promises of service_calculus.rs for any service curve, any number   *)
(* of retained residuals and any clock: the arrival envelope, the identity *)
(* of reservations, the account of the virtual backlog, and the coverage   *)
(* of the learned guard.                                                   *)
(***************************************************************************)
EXTENDS ServiceController, FiniteSetTheorems, WellFoundedInduction, TLAPS

-----------------------------------------------------------------------------
(* Arithmetic.                                                             *)

\* Division rounded up is a natural number, covers its dividend, and is
\* positive on a positive dividend.
LEMMA CeilDivCovers ==
  ASSUME NEW a \in Nat, NEW b \in Nat \ {0}
  PROVE  /\ CeilDiv(a, b) \in Nat
         /\ b * CeilDiv(a, b) >= a
         /\ a > 0 => CeilDiv(a, b) > 0
<1>1. (a + b - 1) \in Nat /\ b * ((a + b - 1) \div b) >= a
  OBVIOUS
<1>2. (a + b - 1) \div b \in Nat
  BY <1>1
<1>3. ASSUME a > 0, (a + b - 1) \div b = 0 PROVE FALSE
  <2>1. b * 0 >= a
    BY <1>1, <1>3
  <2>2. QED
    BY <2>1, <1>3
<1>4. QED
  BY <1>1, <1>2, <1>3 DEF CeilDiv

\* A nonempty set of natural numbers has a least element.
LEMMA LeastNatural ==
  ASSUME NEW S \in SUBSET Nat, S # {}
  PROVE  \E x \in S : \A y \in S : x <= y
<1>1. PICK x \in S : \A y \in S : ~(<<y, x>> \in OpToRel(<, Nat))
  BY NatLessThanWellFounded, WFMin, Zenon
<1>2. ASSUME NEW y \in S, y < x PROVE FALSE
  <2>1. <<y, x>> \in {p \in Nat \X Nat : p[1] < p[2]}
    BY <1>2
  <2>2. QED
    BY <1>1, <2>1 DEF OpToRel
<1>3. QED
  BY <1>2

-----------------------------------------------------------------------------
(* Sorting.                                                                *)

SortsBy(order, n, f) ==
    /\ order \in Bijection(1 .. n, 0 .. n - 1)
    /\ \A i, j \in 1 .. n : i < j => f[order[i]] <= f[order[j]]

Sortable(n) == \A f \in [0 .. n - 1 -> Nat] : \E order : SortsBy(order, n, f)

\* One more value: the least one goes first, the last one takes its place
\* among the rest.
LEMMA SortOneMore ==
  ASSUME NEW n \in Nat, Sortable(n)
  PROVE  Sortable(n + 1)
<1> SUFFICES ASSUME NEW f \in [0 .. n -> Nat]
             PROVE  \E order : SortsBy(order, n + 1, f)
  BY DEF Sortable
<1>1. PICK m \in 0 .. n : \A k \in 0 .. n : f[m] <= f[k]
  <2> DEFINE S == {f[k] : k \in 0 .. n}
  <2>1. S \in SUBSET Nat /\ f[0] \in S
    OBVIOUS
  <2>2. PICK x \in S : \A y \in S : x <= y
    BY <2>1, LeastNatural
  <2>3. QED
    BY <2>2
<1> DEFINE sw(i) == IF i = m THEN n ELSE i
           g == [i \in 0 .. n - 1 |-> f[sw(i)]]
<1>2. /\ \A i \in 0 .. n - 1 : sw(i) \in 0 .. n /\ sw(i) # m
      /\ \A i, j \in 0 .. n - 1 : sw(i) = sw(j) => i = j
      /\ \A k \in 0 .. n : k = m \/ \E i \in 0 .. n - 1 : sw(i) = k
  <2>1. ASSUME NEW k \in 0 .. n, k # m PROVE \E i \in 0 .. n - 1 : sw(i) = k
    <3>1. CASE k = n
      <4>1. m \in 0 .. n - 1 /\ sw(m) = k
        BY <2>1, <3>1
      <4>2. QED
        BY <4>1
    <3>2. CASE k # n
      <4>1. k \in 0 .. n - 1 /\ sw(k) = k
        BY <2>1, <3>2
      <4>2. QED
        BY <4>1
    <3>3. QED
      BY <3>1, <3>2
  <2>2. QED
    BY <2>1
<1> HIDE DEF sw
<1>3. g \in [0 .. n - 1 -> Nat]
  BY <1>2
<1>4. PICK p : SortsBy(p, n, g)
  BY <1>3 DEF Sortable
<1>5. /\ p \in [1 .. n -> 0 .. n - 1]
      /\ \A i, j \in 1 .. n : p[i] = p[j] => i = j
      /\ \A k \in 0 .. n - 1 : \E i \in 1 .. n : p[i] = k
      /\ \A i, j \in 1 .. n : i < j => f[sw(p[i])] <= f[sw(p[j])]
  <2>1. p \in Bijection(1 .. n, 0 .. n - 1)
    BY <1>4 DEF SortsBy
  <2>2. p \in [1 .. n -> 0 .. n - 1]
    BY <2>1 DEF Bijection, Injection
  <2>3. \A i, j \in 1 .. n : i < j => g[p[i]] <= g[p[j]]
    BY <1>4 DEF SortsBy
  <2>4. QED
    BY <2>1, <2>2, <2>3 DEF Bijection, Injection, Surjection, IsInjective
<1> DEFINE q == [i \in 1 .. n + 1 |-> IF i = 1 THEN m ELSE sw(p[i - 1])]
<1>6. \A i \in 1 .. n + 1 : i = 1 \/ i - 1 \in 1 .. n
  OBVIOUS
<1>7. q[1] = m /\ \A i \in 1 .. n : q[i + 1] = sw(p[i])
  <2>1. \A i \in 1 .. n : i + 1 \in 1 .. n + 1 /\ i + 1 # 1 /\ (i + 1) - 1 = i
    OBVIOUS
  <2>2. QED
    BY <2>1
<1>8. q \in [1 .. n + 1 -> 0 .. n]
  BY <1>2, <1>5, <1>6
<1> HIDE DEF q
<1>9. ASSUME NEW i \in 1 .. n + 1, NEW j \in 1 .. n + 1, q[i] = q[j] PROVE i = j
  <2>1. PICK a \in 0 .. n : i = a + 1
    BY <1>6
  <2>2. PICK b \in 0 .. n : j = b + 1
    BY <1>6
  <2>3. (a = 0 \/ a \in 1 .. n) /\ (b = 0 \/ b \in 1 .. n)
    OBVIOUS
  <2>4. ASSUME NEW c \in 1 .. n
        PROVE  p[c] \in 0 .. n - 1 /\ q[c + 1] = sw(p[c]) /\ q[c + 1] # m
    <3>1. p[c] \in 0 .. n - 1
      BY <1>5
    <3>2. sw(p[c]) # m
      BY <1>2, <3>1
    <3>3. QED
      BY <1>7, <3>1, <3>2
  <2>5. q[0 + 1] = m
    BY <1>7
  <2>6. (a = 0) <=> (b = 0)
    BY <2>1, <2>2, <2>3, <2>4, <2>5, <1>9
  <2>7. ASSUME a \in 1 .. n, b \in 1 .. n PROVE a = b
    <3>1. sw(p[a]) = sw(p[b])
      BY <2>1, <2>2, <2>4, <2>7, <1>9
    <3>2. p[a] = p[b]
      BY <1>2, <2>4, <2>7, <3>1
    <3>3. QED
      BY <1>5, <2>7, <3>2
  <2>8. QED
    BY <2>1, <2>2, <2>3, <2>6, <2>7
<1>10. ASSUME NEW k \in 0 .. n PROVE \E i \in 1 .. n + 1 : q[i] = k
  <2>1. CASE k = m
    BY <2>1, <1>7
  <2>2. CASE k # m
    <3>1. PICK h \in 0 .. n - 1 : sw(h) = k
      BY <2>2, <1>2
    <3>2. PICK i \in 1 .. n : p[i] = h
      BY <1>5
    <3>3. i + 1 \in 1 .. n + 1 /\ q[i + 1] = k
      BY <1>7, <3>1, <3>2
    <3>4. QED
      BY <3>3
  <2>3. QED
    BY <2>1, <2>2
<1>11. ASSUME NEW i \in 1 .. n + 1, NEW j \in 1 .. n + 1, i < j
       PROVE  f[q[i]] <= f[q[j]]
  <2>1. PICK b \in 1 .. n : j = b + 1
    BY <1>6, <1>11
  <2>2. CASE i = 1
    BY <2>2, <1>1, <1>7, <1>8
  <2>3. CASE i # 1
    <3>1. PICK a \in 1 .. n : i = a + 1
      BY <1>6, <2>3
    <3>2. a < b
      BY <1>11, <2>1, <3>1
    <3>3. f[sw(p[a])] <= f[sw(p[b])]
      BY <1>5, <3>2
    <3>4. q[i] = sw(p[a]) /\ q[j] = sw(p[b])
      BY <1>7, <2>1, <3>1
    <3>5. QED
      BY <3>3, <3>4
  <2>4. QED
    BY <2>2, <2>3
<1>12. q \in Bijection(1 .. n + 1, 0 .. (n + 1) - 1)
  <2>1. (n + 1) - 1 = n
    OBVIOUS
  <2>2. QED
    BY <2>1, <1>8, <1>9, <1>10 DEF Bijection, Injection, Surjection, IsInjective
<1>13. QED
  BY <1>11, <1>12 DEF SortsBy

\* Every finite list of natural numbers can be sorted: a shortest one that
\* cannot would be one longer than one that can.
LEMMA AllSortable == \A n \in Nat : Sortable(n)
<1> DEFINE Bad == {n \in Nat : ~Sortable(n)}
<1> SUFFICES ASSUME Bad # {} PROVE FALSE
  OBVIOUS
<1>1. PICK n \in Bad : \A k \in Bad : n <= k
  BY LeastNatural
<1>2. Sortable(0)
  <2> SUFFICES ASSUME NEW f PROVE \E order : SortsBy(order, 0, f)
    BY DEF Sortable
  <2> DEFINE empty == [i \in 1 .. 0 |-> 0]
  <2>1. 1 .. 0 = {} /\ 0 .. 0 - 1 = {}
    OBVIOUS
  <2>2. empty \in Bijection(1 .. 0, 0 .. 0 - 1)
    BY <2>1 DEF Bijection, Injection, Surjection, IsInjective
  <2>3. QED
    BY <2>1, <2>2 DEF SortsBy
<1>3. n # 0 /\ n - 1 \in Nat /\ (n - 1) + 1 = n
  BY <1>2
<1>4. Sortable(n - 1)
  BY <1>1, <1>3
<1>5. QED
  BY <1>3, <1>4, SortOneMore

-----------------------------------------------------------------------------
(* The guard.                                                              *)

\* What the guard needs of the calibrator's state.
CalibratorOK ==
    /\ residuals \in [0 .. Retained - 1 -> 0 .. MaxGuard]
    /\ length \in 0 .. Retained

\* The guard never exceeds a saturated duration, and that is a number.
LEMMA MaxGuardIsNatural == MaxGuard \in Nat
  BY CurveAssumption DEF MaxGuard

\* SortOrder sorts the retained residuals.
LEMMA OrderSorts ==
  ASSUME CalibratorOK
  PROVE  SortsBy(SortOrder, length, residuals)
<1> DEFINE f == [i \in 0 .. length - 1 |-> residuals[i]]
<1>1. length \in Nat /\ f \in [0 .. length - 1 -> Nat]
  BY CurveAssumption, MaxGuardIsNatural DEF CalibratorOK
<1>2. PICK order : SortsBy(order, length, f)
  BY <1>1, AllSortable DEF Sortable
<1>3. order \in [1 .. length -> 0 .. length - 1]
  BY <1>2 DEF SortsBy, Bijection, Injection
<1>4. \A i, j \in 1 .. length : i < j => residuals[order[i]] <= residuals[order[j]]
  BY <1>2, <1>3 DEF SortsBy
<1>5. order \in Bijection(1 .. length, 0 .. length - 1)
  BY <1>2 DEF SortsBy
<1>6. QED
  BY <1>4, <1>5 DEF SortOrder, SortsBy

\* Where guard looks in the sorted residuals.
Index == AtMost(Monus(Rank, 1), length - 1)

\* The index is within the sorted residuals, and the residuals up to it are
\* at least the fraction CoverNum/CoverDen of all.
LEMMA IndexCovers ==
  ASSUME CalibratorOK, length # 0
  PROVE  Index \in 0 .. length - 1 /\ CoverDen * (Index + 1) >= CoverNum * length
<1>1. /\ length \in Nat \ {0}
      /\ CoverNum \in Nat \ {0} /\ CoverDen \in Nat \ {0} /\ CoverNum <= CoverDen
  BY CurveAssumption DEF CalibratorOK
<1>2. (length + 1) * CoverNum \in Nat \ {0} /\ (length + 1) * CoverNum >= CoverNum * length
  BY <1>1
<1>3. Rank \in Nat \ {0} /\ CoverDen * Rank >= (length + 1) * CoverNum
  BY <1>1, <1>2, CeilDivCovers DEF Rank
<1>4. Index = IF Rank > length THEN length - 1 ELSE Rank - 1
  BY <1>1, <1>3 DEF Index, AtMost, Monus
<1>5. CASE Rank > length
  <2>1. Index + 1 = length
    BY <1>1, <1>4, <1>5
  <2>2. CoverDen * length >= CoverNum * length
    BY <1>1
  <2>3. QED
    BY <1>1, <1>4, <1>5, <2>1, <2>2
<1>6. CASE ~(Rank > length)
  <2>1. Index + 1 = Rank
    BY <1>3, <1>4, <1>6
  <2>2. CoverDen * Rank >= CoverNum * length
    BY <1>1, <1>2, <1>3
  <2>3. QED
    BY <1>1, <1>3, <1>4, <1>6, <2>1, <2>2
<1>7. QED
  BY <1>5, <1>6

\* The guard is at most the window's worth of backlog, and where residuals
\* are retained it is at least the one it was read from.
LEMMA GuardBounds ==
  ASSUME CalibratorOK
  PROVE  /\ Guard \in 0 .. MaxGuard
         /\ length # 0 => residuals[SortOrder[Index + 1]] <= Guard
<1>1. Slack \in Nat /\ MaxGuard \in Nat
  BY CurveAssumption, MaxGuardIsNatural
<1>2. CASE length = 0
  BY <1>1, <1>2 DEF Guard, AtMost
<1>3. CASE length # 0
  <2>1. Index + 1 \in 1 .. length
    <3>1. length \in Nat
      BY CurveAssumption DEF CalibratorOK
    <3>2. Index \in 0 .. length - 1
      BY <1>3, IndexCovers
    <3>3. QED
      BY <3>1, <3>2
  <2>2. SortOrder \in [1 .. length -> 0 .. length - 1]
    BY OrderSorts DEF SortsBy, Bijection, Injection
  <2>3. residuals[SortOrder[Index + 1]] \in 0 .. MaxGuard
    BY <2>1, <2>2, CurveAssumption DEF CalibratorOK
  <2>4. Guard = AtMost(residuals[SortOrder[Index + 1]] + Slack, MaxGuard)
    BY <1>3 DEF Guard, Index
  <2>5. QED
    BY <1>1, <2>3, <2>4 DEF AtMost
<1>4. QED
  BY <1>2, <1>3

\* The sorted residuals up to the index are all covered by the guard, and
\* the sort maps them to as many residuals.
LEMMA Coverage ==
  ASSUME CalibratorOK
  PROVE  GuardCovers
<1> DEFINE Covered == {i \in 0 .. length - 1 : residuals[i] <= Guard}
<1>0. length \in Nat /\ CoverNum \in Nat /\ CoverDen \in Nat
  BY CurveAssumption DEF CalibratorOK
<1>1. IsFiniteSet(0 .. length - 1) /\ Covered \in SUBSET (0 .. length - 1)
  BY <1>0, FS_Interval
<1>2. IsFiniteSet(Covered) /\ Cardinality(Covered) \in Nat
  BY <1>1, FS_Subset, FS_CardinalityType
<1>3. CASE length = 0
  BY <1>0, <1>2, <1>3 DEF GuardCovers
<1>4. CASE length # 0
  <2>1. Index \in 0 .. length - 1 /\ CoverDen * (Index + 1) >= CoverNum * length
    BY <1>4, IndexCovers
  <2> DEFINE Prefix == 1 .. Index + 1
             h == [i \in Prefix |-> SortOrder[i]]
  <2>2. /\ SortOrder \in [1 .. length -> 0 .. length - 1]
        /\ \A i, j \in 1 .. length : SortOrder[i] = SortOrder[j] => i = j
        /\ \A i, j \in 1 .. length :
              i < j => residuals[SortOrder[i]] <= residuals[SortOrder[j]]
    BY OrderSorts DEF SortsBy, Bijection, Injection, IsInjective
  <2>3. Prefix \subseteq 1 .. length /\ Index + 1 \in 1 .. length
    BY <1>0, <2>1
  <2>4. ASSUME NEW i \in Prefix PROVE SortOrder[i] \in Covered
    <3>0. \A k \in 0 .. length - 1 : residuals[k] \in Nat
      BY CurveAssumption, MaxGuardIsNatural, SMTT(30) DEF CalibratorOK
    <3>1. SortOrder[i] \in 0 .. length - 1 /\ SortOrder[Index + 1] \in 0 .. length - 1
      BY <2>2, <2>3
    <3>2. residuals[SortOrder[i]] <= residuals[SortOrder[Index + 1]]
      <4>1. residuals[SortOrder[i]] \in Nat
        BY <3>0, <3>1
      <4>2. i = Index + 1 \/ i < Index + 1
        BY <2>1
      <4>3. QED
        BY <4>1, <4>2, <2>2, <2>3
    <3>3. residuals[SortOrder[Index + 1]] <= Guard /\ Guard \in Nat
      BY <1>4, GuardBounds, MaxGuardIsNatural
    <3>4. residuals[SortOrder[i]] \in Nat /\ residuals[SortOrder[Index + 1]] \in Nat
      BY <3>0, <3>1
    <3>5. residuals[SortOrder[i]] <= Guard
      BY <3>2, <3>3, <3>4
    <3>6. QED
      BY <3>1, <3>5
  <2>5. h \in Injection(Prefix, Covered)
    <3>1. h \in [Prefix -> Covered]
      BY <2>4
    <3>2. \A i, j \in Prefix : h[i] = h[j] => i = j
      BY <2>2, <2>3
    <3>3. QED
      BY <3>1, <3>2 DEF Injection, IsInjective
  <2>6. Cardinality(Prefix) <= Cardinality(Covered)
    BY <1>2, <2>5, FS_Injection
  <2>7. Cardinality(Prefix) = Index + 1
    BY <2>1, FS_Interval
  <2>8. CoverDen * Cardinality(Covered) >= CoverDen * (Index + 1)
    BY <1>0, <1>2, <2>1, <2>6, <2>7
  <2>9. QED
    BY <1>0, <1>2, <2>1, <2>8 DEF GuardCovers
<1>5. QED
  BY <1>3, <1>4

-----------------------------------------------------------------------------
(* The inductive invariant.                                                *)

Certificates ==
    [seq : Nat \ {0}, tick : Nat, window : Nat, before : Nat, predicted : Nat,
     bound : Nat, deadline : Nat]

\* The reservations handed out, undone and completed are among the first
\* reservation_sequence ones.
LedgerInv ==
    /\ IsFiniteSet(issued) /\ issued \subseteq Certificates
    /\ \A c \in issued : c.seq <= sequence
    /\ rolledBack \subseteq 1 .. sequence /\ completed \subseteq 1 .. sequence

\* No reservation is ahead of the window, and the latest one can be undone
\* exactly when it has not been: after its rollback admitted_in_window is
\* what it was before, and not one more.
WindowInv ==
    /\ \A c \in issued : c.window <= windowStart
    /\ \A c \in issued : c.seq = sequence /\ c.window = windowStart =>
          admitted = IF c.seq \in rolledBack THEN c.before ELSE c.before + 1

\* Every reservation was admitted during its window, and the windows, those of
\* reservations and the present one, are the same or do not overlap.
GridInv ==
    /\ \A c \in issued : c.window <= c.tick /\ c.tick < c.window + WindowTicks
    /\ \A c \in issued : c.window = windowStart \/ c.window + WindowTicks <= windowStart
    /\ \A c, d \in issued : \/ c.window = d.window
                            \/ c.window + WindowTicks <= d.window
                            \/ d.window + WindowTicks <= c.window

ControllerInv ==
    /\ TypeOK
    /\ LedgerInv
    /\ SequenceIsIdentity
    /\ WindowInv
    /\ EnvelopeHolds
    /\ BacklogIsOutstanding
    /\ GridInv

\* The part of TypeOK that is about numbers.
Numbers ==
    /\ windowStart \in Nat /\ lastTick \in Tick
    /\ admitted \in 0 .. MaxAdmissions
    /\ sequence \in 0 .. MaxSequence
    /\ accepted \in 0 .. MaxSequence
    /\ rejected \in 0 .. MaxCount /\ observed \in 0 .. MaxCount
    /\ virtualBacklog \in 0 .. MaxWord
    /\ CalibratorOK /\ cursor \in 0 .. Retained - 1
    /\ rolledBack \subseteq 1 .. MaxSequence /\ completed \subseteq 1 .. MaxSequence

\* The type invariant, with its one Boolean apart from its numbers.
LEMMA TypeIsNumbers == TypeOK <=> Numbers /\ late \in BOOLEAN
  BY Zenon DEF TypeOK, Numbers, CalibratorOK

\* The service curve yields natural numbers, and at least one unit per tick.
LEMMA CurveNumbers ==
  /\ MinCompletions \in Nat \ {0} /\ MaxAdmissions \in Nat \ {0} /\ WindowTicks \in Nat \ {0}
  /\ MaxBacklog \in Nat \ {0} /\ Retained \in Nat \ {0} /\ One \in Nat \ {0}
  /\ LatencyTicks \in Nat /\ Slack \in Nat /\ MaxWord \in Nat /\ MaxCount \in Nat
  /\ MaxSequence \in Nat
  /\ \A t \in Tick : t \in 0 .. MaxWord
  /\ \A d \in Deadline : d \in 0 .. MaxWord
  BY CurveAssumption

\* What advance computes for a tick that is not from the past.
LEMMA Clock ==
  ASSUME Numbers, NEW now \in Tick, ~Regression(now)
  PROVE  /\ now \in Nat
         /\ Windows(now) \in Nat /\ Service(now) \in Nat
         /\ Service(now) > 0 => Windows(now) > 0
         /\ WindowAt(now) \in Nat
         /\ WindowAt(now) = windowStart \/ (Windows(now) > 0 /\ WindowAt(now) > windowStart)
         /\ Windows(now) > 0 => WindowAt(now) > windowStart
         /\ AdmittedAt(now) \in 0 .. MaxAdmissions
         /\ BacklogAt(now) \in 0 .. MaxWord /\ BacklogAt(now) <= virtualBacklog
         /\ WindowAt(now) <= now /\ now < WindowAt(now) + WindowTicks
         /\ WindowAt(now) = windowStart \/ windowStart + WindowTicks <= WindowAt(now)
<1>1. now \in Nat /\ windowStart \in Nat /\ now - windowStart \in Nat
  BY CurveNumbers DEF Numbers, Regression
<1>2. WindowTicks \in Nat \ {0} /\ MinCompletions \in Nat \ {0} /\ One \in Nat \ {0}
  BY CurveNumbers
<1>3. Windows(now) \in Nat
  BY <1>1, <1>2 DEF Windows
<1>4. Service(now) \in Nat
  BY <1>2, <1>3 DEF Service
<1>5. Windows(now) = 0 => Service(now) = 0 /\ WindowAt(now) = windowStart
  BY <1>1, <1>2 DEF Service, WindowAt
<1>6. Windows(now) > 0 => WindowAt(now) > windowStart
  <2>1. Windows(now) > 0 => Windows(now) * WindowTicks > 0
    BY <1>2, <1>3
  <2>2. Windows(now) * WindowTicks \in Nat
    BY <1>2, <1>3
  <2>3. QED
    BY <1>1, <2>1, <2>2 DEF WindowAt
<1>7. WindowAt(now) \in Nat
  BY <1>1, <1>2, <1>3 DEF WindowAt
<1>8. AdmittedAt(now) \in 0 .. MaxAdmissions
  BY CurveNumbers DEF AdmittedAt, Numbers
<1>9. BacklogAt(now) \in 0 .. MaxWord /\ BacklogAt(now) <= virtualBacklog
  BY <1>4, CurveNumbers DEF BacklogAt, Monus, Numbers
<1>10. Windows(now) = 0 \/ Windows(now) > 0
  BY <1>3
<1>11. Service(now) > 0 => Windows(now) > 0
  BY <1>5, <1>10
<1>12. WindowAt(now) = windowStart \/ (Windows(now) > 0 /\ WindowAt(now) > windowStart)
  <2>1. CASE Windows(now) = 0
    BY <1>5, <2>1
  <2>2. CASE Windows(now) > 0
    BY <1>6, <2>2
  <2>3. QED
    BY <1>10, <2>1, <2>2
<1>13. WindowAt(now) <= now /\ now < WindowAt(now) + WindowTicks
  <2> DEFINE e == now - windowStart
             q == e \div WindowTicks
  <2>1. q * WindowTicks <= e /\ e < q * WindowTicks + WindowTicks
    BY <1>1, <1>2
  <2>2. q * WindowTicks \in Nat /\ Windows(now) = q
    BY <1>2, <1>3 DEF Windows
  <2>3. WindowAt(now) = windowStart + q * WindowTicks
    BY <2>2 DEF WindowAt
  <2> HIDE DEF q
  <2>4. QED
    BY <1>1, <1>2, <2>1, <2>2, <2>3
<1>14. Windows(now) > 0 => windowStart + WindowTicks <= WindowAt(now)
  <2>1. Windows(now) > 0 => Windows(now) * WindowTicks >= WindowTicks
    BY <1>2, <1>3
  <2>2. Windows(now) * WindowTicks \in Nat
    BY <1>2, <1>3
  <2>3. QED
    BY <1>1, <1>2, <2>1, <2>2 DEF WindowAt
<1>15. WindowAt(now) = windowStart \/ windowStart + WindowTicks <= WindowAt(now)
  BY <1>12, <1>14
<1>16. QED
  BY <1>1, <1>3, <1>4, <1>6, <1>7, <1>8, <1>9, <1>11, <1>12, <1>13, <1>15

\* After the window rolled, as many reservations stand in it as
\* admitted_in_window says: none in a new one.
LEMMA AdvancedCount ==
  ASSUME ControllerInv, NEW now \in Tick, ~Regression(now)
  PROVE  /\ Cardinality(Standing(WindowAt(now))) = AdmittedAt(now)
         /\ Windows(now) > 0 => \A c \in issued : c.window # WindowAt(now)
<1>0. Numbers /\ LedgerInv /\ WindowInv /\ EnvelopeHolds
  BY TypeIsNumbers DEF ControllerInv
<1>1. CASE Windows(now) > 0
  <2>1. \A c \in issued : c.window \in Nat /\ c.window <= windowStart
    BY <1>0 DEF LedgerInv, WindowInv, Certificates
  <2>2. WindowAt(now) > windowStart /\ WindowAt(now) \in Nat /\ windowStart \in Nat
    BY <1>0, <1>1, Clock DEF Numbers
  <2>3. \A c \in issued : c.window # WindowAt(now)
    BY <2>1, <2>2
  <2>4. Standing(WindowAt(now)) = {}
    BY <2>3 DEF Standing
  <2>5. QED
    BY <1>1, <2>3, <2>4, FS_EmptySet DEF AdmittedAt
<1>2. CASE ~(Windows(now) > 0)
  <2>1. WindowAt(now) = windowStart
    BY <1>0, <1>2, Clock
  <2>2. QED
    BY <1>0, <1>2, <2>1 DEF AdmittedAt, EnvelopeHolds
<1>3. QED
  BY <1>1, <1>2

\* A window that rolls is past the windows of all reservations or still the
\* present one.
LEMMA GridAdvances ==
  ASSUME Numbers, LedgerInv, GridInv, NEW now \in Tick, ~Regression(now)
  PROVE  \A c \in issued : \/ c.window = WindowAt(now)
                           \/ c.window + WindowTicks <= WindowAt(now)
<1>1. /\ WindowAt(now) \in Nat /\ windowStart \in Nat
      /\ WindowAt(now) = windowStart \/ windowStart + WindowTicks <= WindowAt(now)
  BY Clock DEF Numbers
<1>2. \A c \in issued : c.window \in Nat
  BY DEF LedgerInv, Certificates
<1>3. QED
  BY <1>1, <1>2, CurveNumbers DEF GridInv

\* A step that only rolls the window keeps what is said of reservations.
LEMMA AdvanceKeeps ==
  ASSUME ControllerInv, NEW now \in Tick, ~Regression(now),
         windowStart' = WindowAt(now), admitted' = AdmittedAt(now),
         UNCHANGED <<sequence, issued, rolledBack>>
  PROVE  WindowInv' /\ EnvelopeHolds' /\ SequenceIsIdentity' /\ GridInv'
<1>0. Numbers /\ LedgerInv /\ WindowInv /\ EnvelopeHolds /\ SequenceIsIdentity /\ GridInv
  BY TypeIsNumbers DEF ControllerInv
<1>1. WindowInv'
  <2>1. \A c \in issued : c.window \in Nat /\ c.window <= windowStart
    BY <1>0 DEF LedgerInv, WindowInv, Certificates
  <2>2. WindowAt(now) >= windowStart /\ WindowAt(now) \in Nat /\ windowStart \in Nat
    BY <1>0, Clock DEF Numbers
  <2>3. \A c \in issued : c.window <= WindowAt(now)
    BY <2>1, <2>2
  <2>4. \A c \in issued : c.window = WindowAt(now) =>
            WindowAt(now) = windowStart /\ AdmittedAt(now) = admitted
    BY <1>0, AdvancedCount, Clock DEF AdmittedAt
  <2>5. QED
    BY <1>0, <2>3, <2>4 DEF WindowInv
<1>2. EnvelopeHolds'
  <2>1. \A w : Standing(w)' = Standing(w)
    BY DEF Standing
  <2>2. QED
    BY <1>0, <2>1, AdvancedCount DEF EnvelopeHolds
<1>3. GridInv'
  BY <1>0, GridAdvances DEF GridInv
<1>4. QED
  BY <1>0, <1>1, <1>2, <1>3 DEF SequenceIsIdentity

\* The reservations that are neither undone nor reported complete.
Open == {c \in issued : c.seq \notin rolledBack \cup completed}

\* The open reservations are finitely many, as the numbers given out are.
LEMMA OpenIsFinite ==
  ASSUME LedgerInv
  PROVE  IsFiniteSet(Open) /\ Cardinality(Open) \in Nat
<1>1. Open \in SUBSET issued
  BY DEF Open
<1>2. QED
  BY <1>1, FS_Subset, FS_CardinalityType DEF LedgerInv

\* A step that drains the backlog and opens or closes no reservation keeps
\* the account.
LEMMA DrainKeeps ==
  ASSUME Numbers, LedgerInv, BacklogIsOutstanding,
         virtualBacklog' \in Nat, virtualBacklog' <= virtualBacklog,
         UNCHANGED <<issued, rolledBack, completed, late>>
  PROVE  BacklogIsOutstanding'
<1>1. ~late => virtualBacklog <= One * Cardinality(Open)
  BY DEF BacklogIsOutstanding, Open
<1>2. Open' = Open
  BY DEF Open
<1>3. One * Cardinality(Open) \in Nat
  BY OpenIsFinite, CurveNumbers
<1>4. ~late => virtualBacklog' <= One * Cardinality(Open)
  BY <1>1, <1>3, CurveNumbers DEF Numbers
<1>5. QED
  BY <1>2, <1>4 DEF BacklogIsOutstanding, Open

-----------------------------------------------------------------------------
(* The steps.                                                              *)

\* An admission from the past is refused and changes nothing of the account.
LEMMA TimeRegressionKeeps ==
  ASSUME ControllerInv, NEW now \in Tick, TimeRegression(now)
  PROVE  ControllerInv'
<1>1. /\ UNCHANGED <<windowStart, lastTick, admitted, sequence, accepted, observed,
                     virtualBacklog, residuals, length, cursor, issued, rolledBack,
                     completed, late>>
      /\ rejected' = Increment(rejected)
  BY DEF TimeRegression, clockVars, calibratorVars, ledgerVars
<1>2. TypeOK'
  <2>1. Numbers /\ late \in BOOLEAN
    BY TypeIsNumbers DEF ControllerInv
  <2>2. Numbers'
    BY <1>1, <2>1, CurveNumbers DEF Numbers, CalibratorOK, Increment, AtMost
  <2>3. late' \in BOOLEAN
    BY <1>1, <2>1
  <2>4. QED
    BY <2>2, <2>3, Zenon DEF TypeOK, Numbers, CalibratorOK
<1>3. \A w : Standing(w)' = Standing(w)
  BY <1>1 DEF Standing
<1>4. EnvelopeHolds'
  BY <1>1, <1>3 DEF ControllerInv, EnvelopeHolds
<1>5. QED
  BY <1>1, <1>2, <1>4 DEF ControllerInv, LedgerInv, SequenceIsIdentity, WindowInv,
       BacklogIsOutstanding, GridInv

\* An admission whose clock arithmetic overflows is refused.
LEMMA AdvanceOverflowKeeps ==
  ASSUME ControllerInv, NEW now \in Tick, AdvanceOverflow(now)
  PROVE  ControllerInv'
<1>0. Numbers /\ LedgerInv /\ BacklogIsOutstanding
  BY TypeIsNumbers DEF ControllerInv
<1>1. /\ UNCHANGED <<lastTick, sequence, accepted, rejected, observed, virtualBacklog,
                     residuals, length, cursor, issued, rolledBack, completed, late>>
      /\ windowStart' = WindowAt(now) /\ admitted' = 0
      /\ ~Regression(now) /\ Service(now) > MaxWord
  BY DEF AdvanceOverflow, calibratorVars, ledgerVars
<1>2. AdmittedAt(now) = 0 /\ WindowAt(now) \in Nat
  BY <1>0, <1>1, Clock, CurveNumbers DEF AdmittedAt
<1>3. TypeOK'
  <2>1. Numbers'
    BY <1>0, <1>1, <1>2, CurveNumbers DEF Numbers, CalibratorOK
  <2>2. late' \in BOOLEAN
    BY <1>1, TypeIsNumbers DEF ControllerInv
  <2>3. QED
    BY <2>1, <2>2, Zenon DEF TypeOK, Numbers, CalibratorOK
<1>4. WindowInv' /\ EnvelopeHolds' /\ SequenceIsIdentity' /\ GridInv'
  BY <1>1, <1>2, AdvanceKeeps
<1>5. BacklogIsOutstanding'
  BY <1>0, <1>1, DrainKeeps, CurveNumbers DEF Numbers
<1>6. LedgerInv'
  BY <1>0, <1>1 DEF LedgerInv
<1>7. QED
  BY <1>3, <1>4, <1>5, <1>6 DEF ControllerInv

\* An admission that is refused or given up after advance.
LEMMA RefusalKeeps ==
  ASSUME ControllerInv, NEW now \in Tick, ~Regression(now), Advance(now),
         admitted' = AdmittedAt(now), virtualBacklog' = BacklogAt(now),
         rejected' \in {rejected, Increment(rejected)},
         UNCHANGED <<sequence, accepted, observed, calibratorVars, ledgerVars>>
  PROVE  ControllerInv'
<1>0. Numbers /\ LedgerInv /\ BacklogIsOutstanding
  BY TypeIsNumbers DEF ControllerInv
<1>1. /\ UNCHANGED <<residuals, length, cursor, issued, rolledBack, completed, late>>
      /\ windowStart' = WindowAt(now) /\ lastTick' = now
  BY DEF Advance, calibratorVars, ledgerVars
<1>2. /\ WindowAt(now) \in Nat /\ AdmittedAt(now) \in 0 .. MaxAdmissions
      /\ BacklogAt(now) \in 0 .. MaxWord /\ BacklogAt(now) <= virtualBacklog
  BY <1>0, Clock
<1>3. TypeOK'
  <2>1. Numbers'
    BY <1>0, <1>1, <1>2, CurveNumbers DEF Numbers, CalibratorOK, Increment, AtMost
  <2>2. late' \in BOOLEAN
    BY <1>1, TypeIsNumbers DEF ControllerInv
  <2>3. QED
    BY <2>1, <2>2, Zenon DEF TypeOK, Numbers, CalibratorOK
<1>4. WindowInv' /\ EnvelopeHolds' /\ SequenceIsIdentity' /\ GridInv'
  BY <1>1, AdvanceKeeps
<1>5. BacklogIsOutstanding'
  BY <1>0, <1>1, <1>2, DrainKeeps, CurveNumbers DEF Numbers
<1>6. LedgerInv'
  BY <1>0, <1>1 DEF LedgerInv
<1>7. QED
  BY <1>3, <1>4, <1>5, <1>6 DEF ControllerInv

\* The delay bound of an admission is a natural number.
LEMMA BoundHolds ==
  ASSUME Numbers, NEW now \in Tick, ~Regression(now), NEW backlog \in 0 .. MaxBacklog
  PROVE  LET predicted == DeterministicDelay(backlog) + DriftPenalty(BacklogAt(now))
         IN  predicted \in Nat /\ Delay(now, backlog) \in Nat
<1> DEFINE windows == CeilDiv(backlog + 1, MinCompletions)
           drift == CeilDiv(BacklogAt(now) \div One, MinCompletions)
<1>1. windows \in Nat /\ windows > 0
  BY CurveNumbers, CeilDivCovers
<1>2. windows * WindowTicks \in Nat
  <2> HIDE DEF windows
  <2>1. QED
    BY <1>1, CurveNumbers
<1>3. DeterministicDelay(backlog) \in Nat
  <2>1. DeterministicDelay(backlog) = LatencyTicks + windows * WindowTicks
    BY DEF DeterministicDelay
  <2> HIDE DEF windows
  <2>2. QED
    BY <1>2, <2>1, CurveNumbers
<1>4. drift \in Nat
  <2>1. BacklogAt(now) \in Nat
    BY Clock, CurveNumbers
  <2>2. BacklogAt(now) \div One \in Nat
    BY <2>1, CurveNumbers
  <2>3. QED
    BY <2>2, CeilDivCovers, CurveNumbers
<1>5. DriftPenalty(BacklogAt(now)) \in Nat
  <2>1. DriftPenalty(BacklogAt(now)) = AtMost(drift * WindowTicks, MaxWord)
    BY DEF DriftPenalty
  <2> HIDE DEF drift
  <2>2. drift * WindowTicks \in Nat
    BY <1>4, CurveNumbers
  <2>3. QED
    BY <2>1, <2>2, CurveNumbers DEF AtMost
<1>6. Guard \in Nat
  BY GuardBounds, MaxGuardIsNatural DEF Numbers
<1> HIDE DEF windows, drift
<1>7. QED
  BY <1>3, <1>5, <1>6, CurveNumbers DEF Delay

\* A new reservation has a number of its own, counts in its window and in
\* the backlog, and was admitted during its window.
LEMMA AdmitOkKeeps ==
  ASSUME ControllerInv, NEW now \in Tick, NEW deadline \in Deadline,
         NEW backlog \in 0 .. MaxBacklog, AdmitOk(now, deadline, backlog)
  PROVE  ControllerInv'
<1> DEFINE new == Certificate(now, deadline, backlog)
<1>0. /\ Numbers /\ LedgerInv /\ WindowInv /\ EnvelopeHolds /\ SequenceIsIdentity
      /\ BacklogIsOutstanding /\ GridInv
  BY TypeIsNumbers DEF ControllerInv
<1>1. /\ ~Regression(now) /\ AdmittedAt(now) < MaxAdmissions /\ sequence < MaxSequence
      /\ windowStart' = WindowAt(now) /\ lastTick' = now
      /\ admitted' = AdmittedAt(now) + 1
      /\ sequence' = sequence + 1
      /\ accepted' = AtMost(accepted + 1, MaxSequence)
      /\ virtualBacklog' = AtMost(BacklogAt(now) + One, MaxWord)
      /\ issued' = issued \cup {new}
      /\ UNCHANGED <<rejected, observed, residuals, length, cursor, rolledBack, completed, late>>
  BY DEF AdmitOk, Advances, HasRoom, Advance, calibratorVars
<1>2. /\ now \in Nat /\ WindowAt(now) \in Nat /\ AdmittedAt(now) \in 0 .. MaxAdmissions
      /\ BacklogAt(now) \in 0 .. MaxWord /\ BacklogAt(now) <= virtualBacklog
      /\ WindowAt(now) >= windowStart /\ windowStart \in Nat
  BY <1>0, <1>1, Clock DEF Numbers
<1>3. /\ new \in Certificates
      /\ new.seq = sequence + 1 /\ new.window = WindowAt(now) /\ new.before = AdmittedAt(now)
      /\ new.tick = now
  <2>1. /\ new.predicted = DeterministicDelay(backlog) + DriftPenalty(BacklogAt(now))
        /\ new.bound = Delay(now, backlog)
    BY DEF Certificate
  <2>2. new.predicted \in Nat /\ new.bound \in Nat
    BY <1>0, <1>1, <2>1, BoundHolds
  <2>3. deadline \in Nat /\ sequence + 1 \in Nat \ {0}
    BY <1>0, CurveNumbers DEF Numbers
  <2>4. new \in Certificates
    BY <1>2, <2>1, <2>2, <2>3 DEF Certificate, Certificates
  <2>5. QED
    BY <1>1, <2>1, <2>2, <2>4 DEF Certificate
<1> HIDE DEF new
<1>4. \A c \in issued : c \in Certificates /\ c.seq \in Nat /\ c.seq <= sequence /\ c.seq # new.seq
  <2>1. \A c \in issued : c.seq \in Nat /\ c.seq <= sequence
    BY <1>0 DEF LedgerInv, Certificates
  <2>2. sequence \in Nat
    BY <1>0, CurveNumbers DEF Numbers
  <2>3. QED
    BY <1>0, <1>3, <2>1, <2>2 DEF LedgerInv
<1>5. new \notin issued /\ new.seq \notin rolledBack /\ new.seq \notin completed
  BY <1>0, <1>3, <1>4, CurveNumbers DEF LedgerInv, Numbers
<1>6. TypeOK'
  <2>0. /\ admitted' \in 0 .. MaxAdmissions /\ sequence' \in 0 .. MaxSequence
        /\ accepted' \in 0 .. MaxSequence /\ virtualBacklog' \in 0 .. MaxWord
    BY <1>0, <1>1, <1>2, CurveNumbers DEF Numbers, AtMost
  <2>1. Numbers'
    BY <1>0, <1>1, <1>2, <2>0 DEF Numbers, CalibratorOK
  <2>2. late' \in BOOLEAN
    BY <1>1, TypeIsNumbers DEF ControllerInv
  <2>3. QED
    BY <2>1, <2>2, Zenon DEF TypeOK, Numbers, CalibratorOK
<1>7. LedgerInv'
  <2>1. IsFiniteSet(issued')
    BY <1>0, <1>1, FS_AddElement DEF LedgerInv
  <2>2. \A c \in issued' : c \in Certificates /\ c.seq <= sequence'
    BY <1>0, <1>1, <1>3, <1>4, CurveNumbers DEF Numbers
  <2>3. rolledBack' \subseteq 1 .. sequence' /\ completed' \subseteq 1 .. sequence'
    BY <1>0, <1>1, CurveNumbers DEF LedgerInv, Numbers
  <2>4. QED
    BY <2>1, <2>2, <2>3 DEF LedgerInv
<1>8. SequenceIsIdentity'
  BY <1>0, <1>1, <1>4 DEF SequenceIsIdentity
<1>9. WindowInv'
  <2>1. \A c \in issued : c.window \in Nat /\ c.window <= windowStart
    BY <1>0 DEF LedgerInv, WindowInv, Certificates
  <2>2. \A c \in issued' : c.window <= windowStart'
    BY <1>1, <1>2, <1>3, <2>1
  <2>3. \A c \in issued' : c.seq = sequence' => c = new
    BY <1>1, <1>3, <1>4
  <2>4. QED
    BY <1>1, <1>3, <1>5, <2>2, <2>3 DEF WindowInv
<1>10. EnvelopeHolds'
  <2>0. PICK W : W = WindowAt(now)
    OBVIOUS
  <2>1. ASSUME NEW w, w # W PROVE Standing(w)' = Standing(w)
    BY <1>1, <1>3, <2>0, <2>1 DEF Standing
  <2>2. Standing(W)' = Standing(W) \cup {new}
    BY <1>1, <1>3, <1>5, <2>0 DEF Standing
  <2>3. IsFiniteSet(Standing(W)) /\ new \notin Standing(W)
    <3>1. Standing(W) \in SUBSET issued
      BY DEF Standing
    <3>2. QED
      BY <1>0, <1>5, <3>1, FS_Subset DEF LedgerInv
  <2>4. Cardinality(Standing(W)) = AdmittedAt(now)
    BY <1>1, <2>0, AdvancedCount
  <2>5. Cardinality(Standing(W)') = AdmittedAt(now) + 1
    BY <2>2, <2>3, <2>4, FS_AddElement
  <2>6. AdmittedAt(now) + 1 <= MaxAdmissions
    BY <1>1, <1>2, CurveNumbers
  <2>7. ASSUME NEW c \in issued' PROVE Cardinality(Standing(c.window)') <= MaxAdmissions
    <3>1. CASE c.window = W
      BY <2>5, <2>6, <3>1
    <3>2. CASE c.window # W
      <4>1. c \in issued
        BY <1>1, <1>3, <2>0, <3>2
      <4>2. Standing(c.window)' = Standing(c.window)
        BY <2>1, <3>2
      <4>3. QED
        BY <1>0, <4>1, <4>2 DEF EnvelopeHolds
    <3>3. QED
      BY <3>1, <3>2
  <2>8. admitted' = Cardinality(Standing(windowStart)')
    BY <1>1, <2>0, <2>5 DEF Standing
  <2>9. QED
    BY <2>7, <2>8 DEF EnvelopeHolds, Standing
<1>11. BacklogIsOutstanding'
  <2>1. Open' = Open \cup {new} /\ new \notin Open
    BY <1>1, <1>5 DEF Open
  <2>2. IsFiniteSet(Open) /\ Cardinality(Open) \in Nat
    BY <1>0, OpenIsFinite
  <2>3. Cardinality(Open') = Cardinality(Open) + 1
    BY <2>1, <2>2, FS_AddElement
  <2>4. One * (Cardinality(Open) + 1) = One * Cardinality(Open) + One
    BY <2>2, CurveNumbers
  <2>5. One * Cardinality(Open) \in Nat
    BY <2>2, CurveNumbers
  <2>6. ~late => virtualBacklog <= One * Cardinality(Open)
    BY <1>0 DEF BacklogIsOutstanding, Open
  <2>7. virtualBacklog <= One * Cardinality(Open) => virtualBacklog' <= One * Cardinality(Open')
    BY <1>0, <1>1, <1>2, <2>3, <2>4, <2>5, CurveNumbers DEF Numbers, AtMost
  <2>8. ~late' => virtualBacklog' <= One * Cardinality(Open')
    BY <1>1, <2>6, <2>7
  <2>9. QED
    BY <2>8 DEF BacklogIsOutstanding, Open
<1>12. GridInv'
  <2>1. \A c \in issued : c.window = WindowAt(now) \/ c.window + WindowTicks <= WindowAt(now)
    BY <1>0, <1>1, GridAdvances
  <2>2. new.window <= new.tick /\ new.tick < new.window + WindowTicks
    BY <1>0, <1>1, <1>3, Clock
  <2>3. QED
    BY <1>0, <1>1, <1>3, <2>1, <2>2 DEF GridInv
<1>13. QED
  BY <1>6, <1>7, <1>8, <1>9, <1>10, <1>11, <1>12 DEF ControllerInv

\* A rollback undoes the latest reservation once: the window, the backlog and
\* the account of standing reservations lose exactly that one.
LEMMA RollbackKeeps ==
  ASSUME ControllerInv, NEW c \in issued, Rollback(c)
  PROVE  ControllerInv'
<1>0. /\ Numbers /\ LedgerInv /\ WindowInv /\ EnvelopeHolds /\ SequenceIsIdentity
      /\ BacklogIsOutstanding /\ GridInv
  BY TypeIsNumbers DEF ControllerInv
<1>1. /\ c.window = windowStart /\ c.seq = sequence
      /\ admitted = c.before + 1 /\ admitted' = c.before
      /\ accepted' = Monus(accepted, 1)
      /\ virtualBacklog' = Monus(virtualBacklog, One)
      /\ rolledBack' = rolledBack \cup {c.seq}
      /\ UNCHANGED <<windowStart, lastTick, sequence, rejected, observed, residuals, length,
                     cursor, issued, completed, late>>
  BY DEF Rollback, clockVars, calibratorVars
<1>2. c.seq \in Nat \ {0} /\ c.before \in Nat /\ c.seq \in 1 .. sequence
  BY <1>0, CurveNumbers DEF LedgerInv, Certificates, Numbers
<1>3. c.seq \notin rolledBack
  BY <1>0, <1>1, <1>2 DEF WindowInv
<1>4. \A d \in issued : d.seq = c.seq <=> d = c
  BY <1>0 DEF SequenceIsIdentity
<1>5. TypeOK'
  <2>0. /\ admitted' \in 0 .. MaxAdmissions
        /\ accepted' \in 0 .. MaxSequence /\ virtualBacklog' \in 0 .. MaxWord
        /\ rolledBack' \subseteq 1 .. MaxSequence
    BY <1>0, <1>1, <1>2, CurveNumbers DEF Numbers, Monus
  <2>1. Numbers'
    BY <1>0, <1>1, <2>0 DEF Numbers, CalibratorOK
  <2>2. late' \in BOOLEAN
    BY <1>1, TypeIsNumbers DEF ControllerInv
  <2>3. QED
    BY <2>1, <2>2, Zenon DEF TypeOK, Numbers, CalibratorOK
<1>6. LedgerInv'
  BY <1>0, <1>1, <1>2 DEF LedgerInv
<1>7. WindowInv'
  BY <1>0, <1>1, <1>4 DEF WindowInv
<1>8. EnvelopeHolds'
  <2>1. ASSUME NEW w
        PROVE  /\ Standing(w)' = Standing(w) \ {c}
               /\ IsFiniteSet(Standing(w)) /\ Cardinality(Standing(w)) \in Nat
    <3>1. Standing(w) \in SUBSET issued
      BY DEF Standing
    <3>2. Standing(w)' = Standing(w) \ {c}
      BY <1>1, <1>4 DEF Standing
    <3>3. QED
      BY <1>0, <3>1, <3>2, FS_Subset, FS_CardinalityType DEF LedgerInv
  <2>2. ASSUME NEW w PROVE Cardinality(Standing(w)') <= Cardinality(Standing(w))
    <3>1. Standing(w)' \in SUBSET Standing(w)
      BY <2>1
    <3>2. QED
      BY <2>1, <3>1, FS_Subset
  <2>3. ASSUME NEW d \in issued PROVE Cardinality(Standing(d.window)') <= MaxAdmissions
    <3>1. Cardinality(Standing(d.window)) <= MaxAdmissions
      BY <1>0 DEF EnvelopeHolds
    <3>2. Cardinality(Standing(d.window)') \in Nat
      BY <2>1, FS_RemoveElement, FS_CardinalityType
    <3>3. QED
      BY <2>1, <2>2, <3>1, <3>2, CurveNumbers
  <2>4. PICK W : W = windowStart
    OBVIOUS
  <2>5. c \in Standing(W)
    BY <1>1, <1>3, <2>4 DEF Standing
  <2>6. Cardinality(Standing(W)') = Cardinality(Standing(W)) - 1
    BY <2>1, <2>5, FS_RemoveElement
  <2>7. Cardinality(Standing(W)) = admitted
    BY <1>0, <2>4 DEF EnvelopeHolds
  <2>8. admitted' = Cardinality(Standing(W)')
    BY <1>1, <1>2, <2>6, <2>7
  <2>9. QED
    BY <1>1, <2>3, <2>4, <2>8 DEF EnvelopeHolds, Standing
<1>9. BacklogIsOutstanding'
  <2>1. Open' = Open \ {c}
    BY <1>1, <1>4 DEF Open
  <2>2. IsFiniteSet(Open) /\ Cardinality(Open) \in Nat
    BY <1>0, OpenIsFinite
  <2>3. Cardinality(Open') \in {Cardinality(Open), Cardinality(Open) - 1}
        /\ Cardinality(Open') \in Nat
    BY <2>1, <2>2, FS_RemoveElement, FS_CardinalityType
  <2>4. One * Cardinality(Open) <= One * Cardinality(Open') + One
    BY <2>2, <2>3, CurveNumbers
  <2>5. One * Cardinality(Open) \in Nat /\ One * Cardinality(Open') \in Nat
    BY <2>2, <2>3, CurveNumbers
  <2>6. ~late => virtualBacklog <= One * Cardinality(Open)
    BY <1>0 DEF BacklogIsOutstanding, Open
  <2>7. virtualBacklog <= One * Cardinality(Open) => virtualBacklog' <= One * Cardinality(Open')
    BY <1>0, <1>1, <2>4, <2>5, CurveNumbers DEF Numbers, Monus
  <2>8. ~late' => virtualBacklog' <= One * Cardinality(Open')
    BY <1>1, <2>6, <2>7
  <2>9. QED
    BY <2>8 DEF BacklogIsOutstanding, Open
<1>10. QED
  BY <1>0, <1>1, <1>5, <1>6, <1>7, <1>8, <1>9
     DEF ControllerInv, SequenceIsIdentity, GridInv

\* A completion closes its reservation and takes one unit off the backlog; a
\* job within its bound adds no pressure.
LEMMA ObserveCompletionKeeps ==
  ASSUME ControllerInv, NEW c \in issued, NEW now \in Tick, ObserveCompletion(c, now)
  PROVE  ControllerInv'
<1> DEFINE delay == now - c.tick
           pressure == Pressure(Monus(delay, c.bound))
<1>0. /\ Numbers /\ LedgerInv /\ WindowInv /\ EnvelopeHolds /\ SequenceIsIdentity
      /\ BacklogIsOutstanding /\ GridInv
  BY TypeIsNumbers DEF ControllerInv
<1>1. /\ now >= c.tick /\ ~Regression(now)
      /\ windowStart' = WindowAt(now) /\ lastTick' = now
      /\ admitted' = AdmittedAt(now)
      /\ residuals' = [residuals EXCEPT ![cursor] = AtMost(Monus(delay, c.predicted), MaxGuard)]
      /\ cursor' = (cursor + 1) % Retained
      /\ length' = AtMost(length + 1, Retained)
      /\ virtualBacklog' = AtMost(Monus(BacklogAt(now), One) + pressure, MaxWord)
      /\ observed' = Increment(observed)
      /\ completed' = completed \cup {c.seq}
      /\ UNCHANGED <<sequence, accepted, rejected, issued, rolledBack>>
  BY DEF ObserveCompletion, Advances, Advance, Push
<1>2. late' = (late \/ delay > c.bound)
  BY DEF ObserveCompletion
<1>3. /\ now \in Nat /\ WindowAt(now) \in Nat /\ AdmittedAt(now) \in 0 .. MaxAdmissions
      /\ BacklogAt(now) \in 0 .. MaxWord /\ BacklogAt(now) <= virtualBacklog
  BY <1>0, <1>1, Clock
<1>4. /\ c.seq \in 1 .. sequence
      /\ c.tick \in Nat /\ c.bound \in Nat /\ c.predicted \in Nat /\ delay \in Nat
  BY <1>0, <1>1, <1>3, CurveNumbers DEF LedgerInv, Certificates, Numbers
<1>5. pressure \in Nat /\ (~(delay > c.bound) => pressure = 0)
  <2>1. Monus(delay, c.bound) \in Nat /\ (~(delay > c.bound) => Monus(delay, c.bound) = 0)
    BY <1>4 DEF Monus
  <2>2. Monus(delay, c.bound) * One \in Nat
    BY <2>1, CurveNumbers
  <2>3. 0 \div WindowTicks = 0
    BY CurveNumbers
  <2>4. (Monus(delay, c.bound) * One) \div WindowTicks \in Nat
    BY <2>2, CurveNumbers
  <2>5. QED
    BY <2>1, <2>2, <2>3, <2>4, CurveNumbers DEF Pressure
<1> HIDE DEF delay, pressure
<1>6. TypeOK'
  <2>1. CalibratorOK'
    <3>1. AtMost(Monus(delay, c.predicted), MaxGuard) \in 0 .. MaxGuard
      BY <1>4, MaxGuardIsNatural DEF AtMost, Monus
    <3>2. residuals' \in [0 .. Retained - 1 -> 0 .. MaxGuard]
      BY <1>0, <1>1, <3>1 DEF Numbers, CalibratorOK
    <3>3. length' \in 0 .. Retained
      BY <1>0, <1>1, CurveNumbers DEF Numbers, CalibratorOK, AtMost
    <3>4. QED
      BY <3>2, <3>3 DEF CalibratorOK
  <2>2. cursor' \in 0 .. Retained - 1
    BY <1>0, <1>1, CurveNumbers DEF Numbers
  <2>3. /\ virtualBacklog' \in 0 .. MaxWord /\ observed' \in 0 .. MaxCount
        /\ completed' \subseteq 1 .. MaxSequence
    <3>1. Monus(BacklogAt(now), One) + pressure \in Nat
      BY <1>3, <1>5, CurveNumbers DEF Monus
    <3>2. virtualBacklog' \in 0 .. MaxWord
      BY <1>1, <3>1, CurveNumbers DEF AtMost
    <3>3. observed' \in 0 .. MaxCount
      BY <1>0, <1>1, CurveNumbers DEF Numbers, Increment, AtMost
    <3>4. completed' \subseteq 1 .. MaxSequence
      <4>1. completed \subseteq 1 .. MaxSequence /\ sequence \in 0 .. MaxSequence
        BY <1>0 DEF Numbers
      <4>2. c.seq \in 1 .. MaxSequence
        BY <1>4, <4>1, CurveNumbers
      <4>3. QED
        BY <1>1, <4>1, <4>2
    <3>5. QED
      BY <3>2, <3>3, <3>4
  <2>4. Numbers'
    BY <1>0, <1>1, <1>3, <2>1, <2>2, <2>3 DEF Numbers
  <2>5. late' \in BOOLEAN
    BY <1>2
  <2>6. QED
    BY <2>4, <2>5, Zenon DEF TypeOK, Numbers, CalibratorOK
<1>7. LedgerInv'
  BY <1>0, <1>1, <1>4 DEF LedgerInv
<1>8. WindowInv' /\ EnvelopeHolds' /\ SequenceIsIdentity' /\ GridInv'
  BY <1>1, AdvanceKeeps
<1>9. BacklogIsOutstanding'
  <2>1. Open' = Open \ {c}
    <3>1. \A d \in issued : d.seq = c.seq <=> d = c
      BY <1>0 DEF SequenceIsIdentity
    <3>2. QED
      BY <1>1, <3>1 DEF Open
  <2>2. IsFiniteSet(Open) /\ Cardinality(Open) \in Nat
    BY <1>0, OpenIsFinite
  <2>3. Cardinality(Open') \in {Cardinality(Open), Cardinality(Open) - 1}
        /\ Cardinality(Open') \in Nat
    BY <2>1, <2>2, FS_RemoveElement, FS_CardinalityType
  <2>4. One * Cardinality(Open) <= One * Cardinality(Open') + One
    BY <2>2, <2>3, CurveNumbers
  <2>5. One * Cardinality(Open) \in Nat /\ One * Cardinality(Open') \in Nat
    BY <2>2, <2>3, CurveNumbers
  <2>6. ~late => virtualBacklog <= One * Cardinality(Open)
    BY <1>0 DEF BacklogIsOutstanding, Open
  <2>7. ASSUME pressure = 0, virtualBacklog <= One * Cardinality(Open)
        PROVE  virtualBacklog' <= One * Cardinality(Open')
    BY <1>0, <1>1, <1>3, <2>4, <2>5, <2>7, CurveNumbers DEF Numbers, Monus, AtMost
  <2>8. ~late' => ~late /\ ~(delay > c.bound)
    BY <1>2
  <2>9. ~late' => virtualBacklog' <= One * Cardinality(Open')
    BY <1>5, <2>6, <2>7, <2>8
  <2>10. QED
    BY <2>9 DEF BacklogIsOutstanding, Open
<1>10. QED
  BY <1>6, <1>7, <1>8, <1>9 DEF ControllerInv

\* Every operation of the controller and the calibrator preserves ControllerInv.
LEMMA ControllerInductive == Spec => []ControllerInv
<1>1. Init => ControllerInv
  <2> SUFFICES ASSUME Init PROVE ControllerInv
    OBVIOUS
  <2>1. issued = {} /\ rolledBack = {} /\ completed = {} /\ admitted = 0 /\ virtualBacklog = 0
    BY DEF Init
  <2>2. TypeOK
    <3>1. Numbers
      BY CurveAssumption, CurveNumbers, MaxGuardIsNatural DEF Init, Numbers, CalibratorOK
    <3>2. QED
      BY <3>1, TypeIsNumbers DEF Init
  <2>3. IsFiniteSet({}) /\ Cardinality({}) = 0
    BY FS_EmptySet
  <2>4. EnvelopeHolds
    <3>1. Standing(windowStart) = {}
      BY <2>1 DEF Standing
    <3>2. QED
      BY <2>1, <2>3, <3>1 DEF EnvelopeHolds
  <2>5. BacklogIsOutstanding
    <3>1. Open = {}
      BY <2>1 DEF Open
    <3>2. One * Cardinality(Open) = 0
      BY <2>3, <3>1, CurveNumbers
    <3>3. QED
      BY <2>1, <3>2 DEF BacklogIsOutstanding, Open
  <2>6. QED
    BY <2>1, <2>2, <2>3, <2>4, <2>5
       DEF ControllerInv, LedgerInv, SequenceIsIdentity, WindowInv, GridInv
<1>2. ControllerInv /\ [Next]_vars => ControllerInv'
  <2> SUFFICES ASSUME ControllerInv, [Next]_vars PROVE ControllerInv'
    OBVIOUS
  <2>1. ASSUME NEW now \in Tick, NEW deadline \in Deadline, NEW backlog \in 0 .. MaxBacklog,
               AdmitRejected(now, deadline, backlog)
        PROVE  ControllerInv'
    BY <2>1, RefusalKeeps DEF AdmitRejected, Advances
  <2>2. ASSUME NEW now \in Tick, NEW deadline \in Deadline, NEW backlog \in 0 .. MaxBacklog,
               AdmitAborted(now, deadline, backlog)
        PROVE  ControllerInv'
    BY <2>2, RefusalKeeps DEF AdmitAborted, Advances
  <2>3. CASE UNCHANGED vars
    <3>1. UNCHANGED <<windowStart, lastTick, admitted, sequence, accepted, rejected, observed,
                      virtualBacklog, residuals, length, cursor, issued, rolledBack, completed,
                      late>>
      BY <2>3 DEF vars, clockVars, calibratorVars, ledgerVars
    <3>2. QED
      BY <3>1 DEF ControllerInv, TypeOK, LedgerInv, SequenceIsIdentity, WindowInv,
           EnvelopeHolds, Standing, BacklogIsOutstanding, GridInv
  <2>4. QED
    BY <2>1, <2>2, <2>3, TimeRegressionKeeps, AdvanceOverflowKeeps, AdmitOkKeeps,
       RollbackKeeps, ObserveCompletionKeeps DEF Next
<1>3. QED
  BY <1>1, <1>2, PTL DEF Spec

-----------------------------------------------------------------------------
(* From windows to the clock.                                              *)

\* What arrived in a span stands in the window of one of its reservations.
LEMMA ArrivedStand ==
  ASSUME ControllerInv, NEW t
  PROVE  /\ Arrived(t) \subseteq issued
         /\ \A d \in Arrived(t) : d \in Standing(d.window)
         /\ \A d \in issued : /\ IsFiniteSet(Standing(d.window))
                              /\ Cardinality(Standing(d.window)) \in Nat
                              /\ Cardinality(Standing(d.window)) <= MaxAdmissions
<1>1. Arrived(t) \subseteq issued /\ \A d \in Arrived(t) : d \in Standing(d.window)
  BY DEF Arrived, Standing
<1>2. ASSUME NEW d \in issued
      PROVE  /\ IsFiniteSet(Standing(d.window)) /\ Cardinality(Standing(d.window)) \in Nat
             /\ Cardinality(Standing(d.window)) <= MaxAdmissions
  <2>1. Standing(d.window) \in SUBSET issued
    BY DEF Standing
  <2>2. IsFiniteSet(Standing(d.window))
    BY <2>1, FS_Subset DEF ControllerInv, LedgerInv
  <2>3. QED
    BY <2>2, FS_CardinalityType DEF ControllerInv, EnvelopeHolds
<1>3. QED
  BY <1>1, <1>2

\* The reservations whose ticks lie in the window of another are those of
\* that window.
LEMMA WindowFits ==
  ASSUME ControllerInv, NEW c \in issued
  PROVE  Cardinality(Arrived(c.window)) <= MaxAdmissions
<1>1. c.window \in Nat /\ \A d \in issued : d.window \in Nat /\ d.tick \in Nat
  BY DEF ControllerInv, LedgerInv, Certificates
<1>2. ASSUME NEW d \in Arrived(c.window) PROVE d \in Standing(c.window)
  <2>1. d \in issued /\ c.window <= d.tick /\ d.tick < c.window + WindowTicks
    BY <1>1, CurveNumbers DEF Arrived
  <2>2. d.window <= d.tick /\ d.tick < d.window + WindowTicks
    BY <2>1 DEF ControllerInv, GridInv
  <2>3. d.window = c.window \/ d.window + WindowTicks <= c.window
          \/ c.window + WindowTicks <= d.window
    BY <2>1 DEF ControllerInv, GridInv
  <2>4. d.window = c.window
    BY <1>1, <2>1, <2>2, <2>3, CurveNumbers
  <2>5. QED
    BY <2>4, ArrivedStand
<1>3. Arrived(c.window) \in SUBSET Standing(c.window)
  BY <1>2
<1>4. /\ IsFiniteSet(Standing(c.window)) /\ Cardinality(Standing(c.window)) \in Nat
      /\ Cardinality(Standing(c.window)) <= MaxAdmissions
  BY ArrivedStand
<1>5. /\ IsFiniteSet(Arrived(c.window))
      /\ Cardinality(Arrived(c.window)) <= Cardinality(Standing(c.window))
  BY <1>3, <1>4, FS_Subset
<1>6. Cardinality(Arrived(c.window)) \in Nat
  BY <1>5, FS_CardinalityType
<1>7. QED
  BY <1>4, <1>5, <1>6, CurveNumbers

\* A span of a window's length meets at most two windows.
LEMMA SpanFits ==
  ASSUME ControllerInv, NEW c \in issued
  PROVE  Cardinality(Arrived(c.tick)) <= 2 * MaxAdmissions
<1> DEFINE S == Arrived(c.tick)
<1>1. c.tick \in Nat /\ \A d \in issued : d.window \in Nat /\ d.tick \in Nat
  BY DEF ControllerInv, LedgerInv, Certificates
<1>2. \A d \in S : /\ d \in issued /\ d.window \in Nat
                    /\ c.tick < d.window + WindowTicks /\ d.window < c.tick + WindowTicks
  <2>1. \A d \in S : d \in issued /\ c.tick <= d.tick /\ d.tick < c.tick + WindowTicks
    BY <1>1, CurveNumbers DEF Arrived
  <2>2. \A d \in issued : d.window <= d.tick /\ d.tick < d.window + WindowTicks
    BY DEF ControllerInv, GridInv
  <2>3. QED
    BY <1>1, <2>1, <2>2, CurveNumbers
<1>3. \A d, e \in S : \/ d.window = e.window
                      \/ d.window + WindowTicks <= e.window
                      \/ e.window + WindowTicks <= d.window
  BY <1>2 DEF ControllerInv, GridInv
<1>4. PICK a, b \in issued : S \subseteq Standing(a.window) \cup Standing(b.window)
  <2>1. S \subseteq issued /\ \A d \in S : d \in Standing(d.window)
    BY ArrivedStand
  <2>2. CASE S = {}
    BY <2>2
  <2>3. CASE S # {}
    <3>1. PICK a \in S : TRUE
      BY <2>3
    <3>2. CASE \A d \in S : d.window = a.window
      <4>1. S \subseteq Standing(a.window) \cup Standing(a.window)
        BY <2>1, <3>2
      <4>2. QED
        BY <2>1, <4>1
    <3>3. CASE \E b \in S : b.window # a.window
      <4>1. PICK b \in S : b.window # a.window
        BY <3>3
      <4>2. ASSUME NEW d \in S PROVE d.window = a.window \/ d.window = b.window
        <5>1. /\ a.window \in Nat /\ b.window \in Nat /\ d.window \in Nat
              /\ c.tick < a.window + WindowTicks /\ a.window < c.tick + WindowTicks
              /\ c.tick < b.window + WindowTicks /\ b.window < c.tick + WindowTicks
              /\ c.tick < d.window + WindowTicks /\ d.window < c.tick + WindowTicks
          BY <1>2
        <5>2. /\ a.window + WindowTicks <= b.window \/ b.window + WindowTicks <= a.window
              /\ \/ a.window = d.window \/ a.window + WindowTicks <= d.window
                 \/ d.window + WindowTicks <= a.window
              /\ \/ b.window = d.window \/ b.window + WindowTicks <= d.window
                 \/ d.window + WindowTicks <= b.window
          BY <1>3, <4>1
        <5>3. QED
          BY <1>1, <5>1, <5>2, CurveNumbers
      <4>3. S \subseteq Standing(a.window) \cup Standing(b.window)
        BY <2>1, <4>2
      <4>4. QED
        BY <2>1, <4>3
    <3>4. QED
      BY <3>2, <3>3
  <2>4. QED
    BY <2>2, <2>3
<1> DEFINE A == Standing(a.window)
           B == Standing(b.window)
<1>5. /\ IsFiniteSet(A) /\ Cardinality(A) \in Nat /\ Cardinality(A) <= MaxAdmissions
      /\ IsFiniteSet(B) /\ Cardinality(B) \in Nat /\ Cardinality(B) <= MaxAdmissions
  BY ArrivedStand
<1>6. S \in SUBSET (A \cup B)
  BY <1>4
<1> HIDE DEF A, B, S
<1>7. /\ IsFiniteSet(A \cup B) /\ IsFiniteSet(A \cap B)
      /\ Cardinality(A \cup B) = Cardinality(A) + Cardinality(B) - Cardinality(A \cap B)
  BY <1>5, FS_Union, FS_Intersection
<1>8. Cardinality(A \cap B) \in Nat /\ Cardinality(A \cup B) \in Nat
  BY <1>7, FS_CardinalityType
<1>9. IsFiniteSet(S) /\ Cardinality(S) <= Cardinality(A \cup B)
  BY <1>6, <1>7, FS_Subset
<1>10. Cardinality(S) \in Nat
  BY <1>9, FS_CardinalityType
<1>11. QED
  BY <1>5, <1>7, <1>8, <1>9, <1>10, CurveNumbers DEF S

-----------------------------------------------------------------------------
(* The results.                                                            *)

\* Type correctness of the controller, its calibrator and the ledger.
THEOREM TypeCorrect == Spec => []TypeOK
<1>1. ControllerInv => TypeOK
  BY DEF ControllerInv
<1>2. QED
  BY <1>1, ControllerInductive, PTL

\* The arrival envelope: no window ever has more standing reservations than
\* the curve allows, whatever is undone, refused or fails in between.
THEOREM EnvelopeIsKept == Spec => []EnvelopeHolds
<1>1. ControllerInv => EnvelopeHolds
  BY DEF ControllerInv
<1>2. QED
  BY <1>1, ControllerInductive, PTL

\* A reservation number identifies one reservation, also after rollbacks.
THEOREM ReservationsAreDistinct == Spec => []SequenceIsIdentity
<1>1. ControllerInv => SequenceIsIdentity
  BY DEF ControllerInv
<1>2. QED
  BY <1>1, ControllerInductive, PTL

\* The arrival envelope on the clock: no window holds more admissions than
\* the curve allows, and no span of a window's length twice as many.
THEOREM ArrivalsAreBounded == Spec => []ArrivalsFit
<1>1. ControllerInv => ArrivalsFit
  BY SpanFits, WindowFits, CurveNumbers DEF ArrivalsFit, ControllerInv
<1>2. QED
  BY <1>1, ControllerInductive, PTL

\* While no job is late the virtual backlog is at most the open reservations.
THEOREM BacklogIsAccounted == Spec => []BacklogIsOutstanding
<1>1. ControllerInv => BacklogIsOutstanding
  BY DEF ControllerInv
<1>2. QED
  BY <1>1, ControllerInductive, PTL

\* The guard that ResidualCalibrator::guard reads from the sorted residuals
\* covers the fraction of them that the calibrator promises.
THEOREM GuardIsConformal == Spec => []GuardCovers
<1>1. ControllerInv => GuardCovers
  <2>1. ControllerInv => CalibratorOK
    BY TypeIsNumbers DEF ControllerInv, Numbers
  <2>2. QED
    BY <2>1, Coverage
<1>2. QED
  BY <1>1, ControllerInductive, PTL
=============================================================================
