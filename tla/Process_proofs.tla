--------------------------- MODULE Process_proofs ---------------------------
(***************************************************************************)
(* A process and its three services, for any number of threads, any        *)
(* replies and entry stacks the kernel may come up with, and any bounds:   *)
(* the topology reply buffer, the snapshot that is kept and the work that  *)
(* is dealt out by it; the environment block and the capability texts in   *)
(* it; the thermal policy; and the client of the resonance plane.          *)
(*                                                                         *)
(* What a loop computes is proved by induction over its rounds, with a set *)
(* of round numbers in place of a predicate: UpTo, which rests on the      *)
(* least element of a set of numbers.                                      *)
(***************************************************************************)
EXTENDS Process, SequenceTheorems, FiniteSetTheorems, WellFoundedInduction, TLAPS

-----------------------------------------------------------------------------
(* Loops                                                                   *)

\* The least element of a set of numbers is one of them.
LEMMA MinIsMember ==
  ASSUME NEW S \in SUBSET Nat, S # {}
  PROVE  Min(S) \in S /\ \A y \in S : Min(S) <= y
<1>1. PICK x \in S : \A y \in S : ~(<<y, x>> \in OpToRel(<, Nat))
  BY NatLessThanWellFounded, WFMin, Zenon
<1>2. ASSUME NEW y \in S PROVE x <= y
  <2>1. CASE y < x
    <3>1. <<y, x>> \in Nat \X Nat
      OBVIOUS
    <3>2. <<y, x>> \in {p \in Nat \X Nat : p[1] < p[2]}
      BY <2>1, <3>1
    <3>3. QED
      BY <1>1, <3>2 DEF OpToRel
  <2>2. QED
    BY <2>1
<1>3. QED
  BY <1>2 DEF Min

\* Induction up to a bound, for a set in place of a predicate.
LEMMA UpTo ==
  ASSUME NEW m \in Nat, NEW S, 0 \in S, \A i \in 1 .. m : i - 1 \in S => i \in S
  PROVE  \A i \in 0 .. m : i \in S
<1> DEFINE out == {i \in 0 .. m : i \notin S}
<1>1. ASSUME out # {} PROVE FALSE
  <2>1. PICK b \in out : \A y \in out : b <= y
    <3>1. out \in SUBSET Nat
      OBVIOUS
    <3>2. QED
      BY <1>1, <3>1, MinIsMember
  <2>2. b \in 1 .. m /\ b \notin S
    BY <2>1
  <2>3. b - 1 \in 0 .. m /\ b - 1 < b
    BY <2>2
  <2>4. b - 1 \in S
    BY <2>1, <2>3
  <2>5. QED
    BY <2>2, <2>4
<1>2. QED
  BY <1>1

\* f is what a loop has after each of m rounds, G its body by round.
IsLoop(f, m, first, G) == f[0] = first /\ \A i \in 1 .. m : f[i] = G[i][f[i - 1]]

\* A loop of m rounds has a result after each of them.
LEMMA Rounds ==
  ASSUME NEW m \in Nat, NEW V, NEW first \in V, NEW G \in [1 .. m -> [V -> V]]
  PROVE  \E f \in [0 .. m -> V] : IsLoop(f, m, first, G)
<1> DEFINE Upto(n) == \E f \in [0 .. n -> V] :
                        f[0] = first /\ \A i \in 1 .. n : f[i] = G[i][f[i - 1]]
           S == {n \in 0 .. m : Upto(n)}
<1>1. 0 \in S
  <2> DEFINE f == [i \in 0 .. 0 |-> first]
  <2>1. f \in [0 .. 0 -> V] /\ f[0] = first
    OBVIOUS
  <2>2. \A i \in 1 .. 0 : f[i] = G[i][f[i - 1]]
    OBVIOUS
  <2> HIDE DEF f
  <2>3. Upto(0)
    BY <2>1, <2>2
  <2>4. QED
    BY <2>3
<1>2. ASSUME NEW n \in 1 .. m, n - 1 \in S PROVE n \in S
  <2>1. PICK f \in [0 .. n - 1 -> V] :
            f[0] = first /\ \A i \in 1 .. n - 1 : f[i] = G[i][f[i - 1]]
    BY <1>2
  <2> DEFINE g == [i \in 0 .. n |-> IF i = n THEN G[n][f[n - 1]] ELSE f[i]]
  <2>2. f[n - 1] \in V /\ G[n][f[n - 1]] \in V
    <3>1. n - 1 \in 0 .. n - 1
      OBVIOUS
    <3>2. f[n - 1] \in V
      BY <3>1
    <3>3. QED
      BY <3>2
  <2>3. g \in [0 .. n -> V] /\ g[0] = first
    BY <2>1, <2>2
  <2>4. ASSUME NEW i \in 1 .. n PROVE g[i] = G[i][g[i - 1]]
    <3>1. g[i - 1] = f[i - 1] /\ g[i] = IF i = n THEN G[n][f[n - 1]] ELSE f[i]
      OBVIOUS
    <3> HIDE DEF g
    <3>2. CASE i = n
      BY <3>1, <3>2
    <3>3. CASE i # n
      BY <2>1, <3>1, <3>3
    <3>4. QED
      BY <3>2, <3>3
  <2> HIDE DEF g
  <2>5. Upto(n)
    BY <2>3, <2>4
  <2>6. QED
    BY <2>5
<1> HIDE DEF S
<1>3. m \in S
  <2>1. \A i \in 0 .. m : i \in S
    BY <1>1, <1>2, UpTo
  <2>2. m \in 0 .. m
    OBVIOUS
  <2>3. QED
    BY <2>1, <2>2
<1>4. QED
  BY <1>3 DEF S, IsLoop

\* What Totals counts.
LEMMA TotalsAre ==
  ASSUME NEW f, NEW m \in Nat, f \in [1 .. m -> Nat]
  PROVE  /\ Totals(f) \in [0 .. m -> Nat] /\ Totals(f)[0] = 0
         /\ \A i \in 1 .. m : Totals(f)[i] = Totals(f)[i - 1] + f[i]
         /\ Total(f) = Totals(f)[m]
<1> DEFINE G == [i \in 1 .. m |-> [n \in Nat |-> n + f[i]]]
           Is(g) == g = [i \in 0 .. Len(f) |-> IF i = 0 THEN 0 ELSE g[i - 1] + f[i]]
<1>0. Len(f) = m
  OBVIOUS
<1>1. G \in [1 .. m -> [Nat -> Nat]]
  OBVIOUS
<1>2. \A i \in 1 .. m, n \in Nat : G[i][n] = n + f[i]
  OBVIOUS
<1> HIDE DEF G
<1>3. PICK g \in [0 .. m -> Nat] : g[0] = 0 /\ \A i \in 1 .. m : g[i] = G[i][g[i - 1]]
  <2> DEFINE V == Nat
             zero == 0
  <2>1. zero \in V /\ G \in [1 .. m -> [V -> V]]
    BY <1>1
  <2> HIDE DEF V, zero
  <2>2. \E g \in [0 .. m -> V] : IsLoop(g, m, zero, G)
    BY <2>1, Rounds, Zenon
  <2>3. QED
    BY <2>2 DEF V, zero, IsLoop
<1>4. ASSUME NEW i \in 1 .. m PROVE g[i] = g[i - 1] + f[i]
  <2>1. i - 1 \in 0 .. m
    OBVIOUS
  <2>2. g[i - 1] \in Nat
    BY <2>1
  <2>3. QED
    BY <1>2, <1>3, <2>2
<1>5. Is(g)
  BY <1>0, <1>3, <1>4
<1>6. Totals(f) = CHOOSE h : Is(h)
  BY DEF Totals
<1> HIDE DEF Is
<1>7. Is(Totals(f))
  BY <1>5, <1>6, Zenon
<1> DEFINE sum == Totals(f)
<1>8. sum = [i \in 0 .. m |-> IF i = 0 THEN 0 ELSE sum[i - 1] + f[i]]
  BY <1>0, <1>7 DEF Is
<1>t. Total(f) = sum[m]
  BY <1>0 DEF Total
<1> HIDE DEF sum
<1>9. sum[0] = 0 /\ \A i \in 1 .. m : sum[i] = sum[i - 1] + f[i]
  BY <1>8
<1>10. \A i \in 0 .. m : sum[i] \in Nat
  <2> DEFINE S == {i \in 0 .. m : sum[i] \in Nat}
  <2>1. 0 \in S
    BY <1>9
  <2>2. ASSUME NEW i \in 1 .. m, i - 1 \in S PROVE i \in S
    BY <1>9, <2>2
  <2> HIDE DEF S
  <2>3. \A i \in 0 .. m : i \in S
    BY <2>1, <2>2, UpTo
  <2>4. QED
    BY <2>3 DEF S
<1>11. sum \in [0 .. m -> Nat]
  BY <1>8, <1>10
<1>12. QED
  BY <1>9, <1>11, <1>t DEF sum

\* The elements of s kept up to position j are those at the positions pos.
Picks(s, I, j, q, c, pos) ==
    /\ Len(q) = c
    /\ \A a \in 1 .. c : pos[a] \in I /\ pos[a] \in 1 .. j /\ q[a] = s[pos[a]]
    /\ \A a, b \in 1 .. c : a < b => pos[a] < pos[b]
    /\ \A i \in I : i \in 1 .. j => \E a \in 1 .. c : pos[a] = i

\* What Selected keeps, round by round.
IsKept(kept, s, I, m) ==
    /\ kept[0] = <<>>
    /\ \A i \in 1 .. m : i \in I => kept[i] = Append(kept[i - 1], s[i])
    /\ \A i \in 1 .. m : i \notin I => kept[i] = kept[i - 1]

\* Selected is what is kept after the last round.
Keeps(T, s, I, m) ==
    \E kept \in [0 .. m -> Seq(T)] : IsKept(kept, s, I, m) /\ Selected(s, I) = kept[m]

\* Selected is a loop over the array: it has a result after each round.
LEMMA SelectedRounds ==
  ASSUME NEW T, NEW m \in Nat, NEW s \in [1 .. m -> T], NEW I, I \subseteq 1 .. m
  PROVE  Keeps(T, s, I, m)
<1> DEFINE V == Seq(T)
           none == <<>>
           G == [i \in 1 .. m |-> [q \in V |-> IF i \in I THEN Append(q, s[i]) ELSE q]]
           Is(g) == g = [i \in 0 .. Len(s) |->
                        CASE i = 0 -> <<>>
                          [] i \in I -> Append(g[i - 1], s[i])
                          [] OTHER -> g[i - 1]]
<1>0. Len(s) = m /\ 0 \notin I
  OBVIOUS
<1>1. none \in V /\ G \in [1 .. m -> [V -> V]]
  OBVIOUS
<1>2. \A i \in 1 .. m, q \in V : G[i][q] = IF i \in I THEN Append(q, s[i]) ELSE q
  OBVIOUS
<1> HIDE DEF G
<1>3. PICK g \in [0 .. m -> V] : IsLoop(g, m, none, G)
  <2> HIDE DEF V, none
  <2>1. QED
    BY <1>1, Rounds, Zenon
<1>4. ASSUME NEW i \in 1 .. m PROVE g[i] = IF i \in I THEN Append(g[i - 1], s[i]) ELSE g[i - 1]
  <2>1. i - 1 \in 0 .. m
    OBVIOUS
  <2>2. g[i - 1] \in V
    BY <2>1
  <2> HIDE DEF V
  <2>3. QED
    BY <1>2, <1>3, <2>2 DEF IsLoop
<1>5. g[0] = <<>>
  BY <1>3 DEF IsLoop
<1>6. Is(g)
  <2> DEFINE h == [i \in 0 .. Len(s) |->
                        CASE i = 0 -> <<>>
                          [] i \in I -> Append(g[i - 1], s[i])
                          [] OTHER -> g[i - 1]]
  <2>1. ASSUME NEW i \in 0 .. m PROVE h[i] = g[i]
    <3>1. CASE i = 0
      BY <1>0, <1>5, <3>1
    <3>2. CASE i \in I
      <4>1. i # 0 /\ i \in 1 .. m
        BY <3>2
      <4>2. h[i] = Append(g[i - 1], s[i])
        BY <1>0, <3>2, <4>1
      <4>3. QED
        BY <1>4, <3>2, <4>1, <4>2
    <3>3. CASE i # 0 /\ i \notin I
      <4>1. h[i] = g[i - 1]
        BY <1>0, <3>3
      <4>2. QED
        BY <1>4, <3>3, <4>1
    <3>4. QED
      BY <3>1, <3>2, <3>3
  <2>2. DOMAIN h = 0 .. m /\ h = [i \in 0 .. m |-> h[i]]
    BY <1>0
  <2>3. g = [i \in 0 .. m |-> g[i]]
    OBVIOUS
  <2> HIDE DEF h
  <2>4. g = h
    BY <2>1, <2>2, <2>3, Zenon
  <2>5. QED
    BY <2>4 DEF h
<1> DEFINE kept == CHOOSE h : Is(h)
<1>7. Selected(s, I) = kept[m]
  BY <1>0 DEF Selected
<1> HIDE DEF Is
<1>8. Is(kept)
  BY <1>6, Zenon
<1> HIDE DEF kept
<1>9. kept = [i \in 0 .. m |-> CASE i = 0 -> <<>>
                                [] i \in I -> Append(kept[i - 1], s[i])
                                [] OTHER -> kept[i - 1]]
  BY <1>0, <1>8, Zenon DEF Is
<1>10. IsKept(kept, s, I, m)
  <2>1. kept[0] = <<>>
    BY <1>0, <1>9
  <2>2. ASSUME NEW i \in 1 .. m, i \in I PROVE kept[i] = Append(kept[i - 1], s[i])
    <3>1. i # 0 /\ i \in 0 .. m
      OBVIOUS
    <3>2. QED
      BY <1>9, <2>2, <3>1
  <2>3. ASSUME NEW i \in 1 .. m, i \notin I PROVE kept[i] = kept[i - 1]
    <3>1. i # 0 /\ i \in 0 .. m
      OBVIOUS
    <3>2. QED
      BY <1>9, <2>3, <3>1
  <2>4. QED
    BY <2>1, <2>2, <2>3, Zenon DEF IsKept
<1>11. \A i \in 0 .. m : kept[i] \in V
  <2> DEFINE S == {i \in 0 .. m : kept[i] \in V}
  <2>1. 0 \in S
    <3>1. kept[0] \in V
      BY <1>1, <1>10, Zenon DEF IsKept
    <3>2. QED
      BY <3>1
  <2>2. ASSUME NEW i \in 1 .. m, i - 1 \in S PROVE i \in S
    <3>1. kept[i - 1] \in V /\ s[i] \in T
      BY <2>2
    <3>2. Append(kept[i - 1], s[i]) \in V
      BY <3>1, AppendProperties
    <3>3. kept[i] \in V
      BY <1>10, <3>1, <3>2, Zenon DEF IsKept
    <3>4. QED
      BY <3>3
  <2> HIDE DEF S
  <2>3. \A i \in 0 .. m : i \in S
    BY <2>1, <2>2, UpTo
  <2>4. QED
    BY <2>3 DEF S
<1>12. kept \in [0 .. m -> V]
  <2> HIDE DEF V
  <2>1. kept = [i \in 0 .. m |-> kept[i]]
    BY <1>9, Zenon
  <2>2. QED
    BY <2>1, <1>11
<1>13. QED
  BY <1>7, <1>10, <1>12, Zenon DEF Keeps

\* The elements that Selected keeps are those at the positions of I, in order.
LEMMA SelectedIs ==
  ASSUME NEW T, NEW m \in Nat, NEW s \in [1 .. m -> T], NEW I, I \subseteq 1 .. m
  PROVE  /\ Selected(s, I) \in Seq(T)
         /\ \E c \in Nat : \E pos \in [1 .. c -> 1 .. m] : Picks(s, I, m, Selected(s, I), c, pos)
<1>1. PICK kept \in [0 .. m -> Seq(T)] : IsKept(kept, s, I, m) /\ Selected(s, I) = kept[m]
  <2>1. Keeps(T, s, I, m)
    BY SelectedRounds
  <2>2. QED
    BY <2>1, Zenon DEF Keeps
<1> DEFINE Holds(j) == \E c \in Nat : \E pos \in [1 .. c -> 1 .. m] : Picks(s, I, j, kept[j], c, pos)
           S == {j \in 0 .. m : Holds(j)}
<1>2. 0 \in S
  <2> DEFINE pos == [a \in 1 .. 0 |-> 1]
  <2>1. pos \in [1 .. 0 -> 1 .. m]
    OBVIOUS
  <2>2. Picks(s, I, 0, kept[0], 0, pos)
    <3>1. Len(kept[0]) = 0
      BY <1>1 DEF IsKept
    <3> HIDE DEF pos
    <3>2. 1 .. 0 = {}
      OBVIOUS
    <3>3. QED
      BY <3>1, <3>2 DEF Picks
  <2> HIDE DEF pos
  <2>3. Holds(0)
    BY <2>1, <2>2
  <2> HIDE DEF Holds
  <2>4. QED
    BY <2>3
<1>3. ASSUME NEW j \in 1 .. m, j - 1 \in S PROVE j \in S
  <2>h. Holds(j - 1)
    <3> HIDE DEF Holds
    <3>1. QED
      BY <1>3
  <2>c. PICK c \in Nat : \E pos \in [1 .. c -> 1 .. m] : Picks(s, I, j - 1, kept[j - 1], c, pos)
    BY <2>h
  <2>1. PICK pos \in [1 .. c -> 1 .. m] : Picks(s, I, j - 1, kept[j - 1], c, pos)
    BY <2>c
  <2>p. /\ Len(kept[j - 1]) = c
        /\ \A a \in 1 .. c : pos[a] \in I /\ pos[a] \in 1 .. j - 1 /\ kept[j - 1][a] = s[pos[a]]
        /\ \A a, b \in 1 .. c : a < b => pos[a] < pos[b]
        /\ \A i \in I : i \in 1 .. j - 1 => \E a \in 1 .. c : pos[a] = i
    BY <2>1, Zenon DEF Picks
  <2>2. CASE j \notin I
    <3>1. kept[j] = kept[j - 1]
      BY <1>1, <2>2 DEF IsKept
    <3>2. \A a \in 1 .. c : pos[a] \in 1 .. j
      BY <2>p
    <3>3. \A i \in I : i \in 1 .. j => i \in 1 .. j - 1
      BY <2>2
    <3>4. Picks(s, I, j, kept[j], c, pos)
      BY <2>p, <3>1, <3>2, <3>3, Zenon DEF Picks
    <3>5. Holds(j)
      BY <3>4
    <3> HIDE DEF Holds
    <3>6. QED
      BY <3>5
  <2>3. CASE j \in I
    <3> DEFINE q == kept[j - 1]
               more == [a \in 1 .. c + 1 |-> IF a = c + 1 THEN j ELSE pos[a]]
    <3>1. q \in Seq(T) /\ s[j] \in T /\ Len(q) = c
      BY <2>p
    <3>2. kept[j] = Append(q, s[j])
      BY <1>1, <2>3 DEF IsKept
    <3>p. \A a \in 1 .. c : pos[a] \in 1 .. j - 1 /\ pos[a] \in I /\ q[a] = s[pos[a]]
      BY <2>p
    <3> HIDE DEF q
    <3>3. /\ Len(kept[j]) = c + 1 /\ kept[j][c + 1] = s[j]
          /\ \A a \in 1 .. c : kept[j][a] = q[a]
      <4>1. Len(Append(q, s[j])) = c + 1 /\ Append(q, s[j])[c + 1] = s[j]
        BY <3>1
      <4>2. \A a \in 1 .. c : Append(q, s[j])[a] = q[a]
        BY <3>1
      <4>3. QED
        BY <3>2, <4>1, <4>2
    <3>4. more \in [1 .. c + 1 -> 1 .. m] /\ more[c + 1] = j /\ \A a \in 1 .. c : more[a] = pos[a]
      OBVIOUS
    <3> HIDE DEF more
    <3>6. ASSUME NEW a \in 1 .. c + 1
          PROVE  more[a] \in I /\ more[a] \in 1 .. j /\ kept[j][a] = s[more[a]]
      <4>1. CASE a = c + 1
        BY <2>3, <3>3, <3>4, <4>1
      <4>2. CASE a \in 1 .. c
        BY <3>3, <3>4, <3>p, <4>2
      <4>3. QED
        BY <4>1, <4>2
    <3>7. ASSUME NEW a \in 1 .. c + 1, NEW b \in 1 .. c + 1, a < b PROVE more[a] < more[b]
      <4>1. a \in 1 .. c /\ more[a] = pos[a] /\ pos[a] \in 1 .. j - 1
        BY <3>4, <3>7, <3>p
      <4>2. CASE b = c + 1
        BY <3>4, <4>1, <4>2
      <4>3. CASE b \in 1 .. c
        BY <2>p, <3>4, <3>7, <4>1, <4>3
      <4>4. QED
        BY <4>2, <4>3
    <3>8. ASSUME NEW i \in I, i \in 1 .. j PROVE \E a \in 1 .. c + 1 : more[a] = i
      <4>1. CASE i = j
        BY <3>4, <4>1
      <4>2. CASE i \in 1 .. j - 1
        <5>1. PICK a \in 1 .. c : pos[a] = i
          BY <2>p, <4>2
        <5>2. QED
          BY <3>4, <5>1
      <4>3. QED
        BY <3>8, <4>1, <4>2
    <3>9. Picks(s, I, j, kept[j], c + 1, more)
      BY <3>3, <3>6, <3>7, <3>8, Zenon DEF Picks
    <3>10. Holds(j)
      <4>1. c + 1 \in Nat
        OBVIOUS
      <4>2. QED
        BY <3>4, <3>9, <4>1
    <3> HIDE DEF Holds
    <3>11. QED
      BY <3>10
  <2>4. QED
    BY <2>2, <2>3
<1> HIDE DEF S
<1>4. m \in S
  <2>1. \A i \in 0 .. m : i \in S
    BY <1>2, <1>3, UpTo
  <2>2. m \in 0 .. m
    OBVIOUS
  <2>3. QED
    BY <2>1, <2>2
<1>5. kept[m] \in Seq(T)
  BY <1>1
<1>6. Holds(m)
  <2> HIDE DEF Holds
  <2>1. QED
    BY <1>4 DEF S
<1>7. QED
  BY <1>1, <1>5, <1>6

-----------------------------------------------------------------------------
(* Partitioning work                                                       *)

\* Division leaves a remainder that is smaller than the divisor.
LEMMA Division ==
  ASSUME NEW n \in Nat, NEW w \in Nat \ {0}
  PROVE  /\ n \div w \in Nat /\ n % w \in Nat
         /\ w * (n \div w) <= n /\ n < w * (n \div w) + w
         /\ n = w * (n \div w) + (n % w)
<1>1. n % w \in 0 .. w - 1
  OBVIOUS
<1>2. n \div w \in Nat
  OBVIOUS
<1>3. n = w * (n \div w) + (n % w)
  OBVIOUS
<1>4. w * (n \div w) \in Nat
  BY <1>2
<1>5. QED
  BY <1>1, <1>2, <1>3, <1>4

\* The product of two numbers is a number.
LEMMA Products == \A a, b \in Nat : a * b \in Nat
OBVIOUS

\* A common factor of two products can be left out.
LEMMA Cancel ==
  ASSUME NEW a \in Nat, NEW b \in Nat, NEW k \in Nat \ {0}, k * a <= k * b
  PROVE  a <= b
<1>1. ASSUME ~(a <= b) PROVE FALSE
  <2>1. PICK d \in Nat : a = b + 1 + d
    <3>1. a - b - 1 \in Nat /\ a = b + 1 + (a - b - 1)
      BY <1>1
    <3>2. QED
      BY <3>1
  <2>2. k * a = k * b + k + k * d
    BY <2>1
  <2>3. k * d \in Nat /\ k * b \in Nat
    OBVIOUS
  <2>4. QED
    BY <2>2, <2>3
<1>2. QED
  BY <1>1

\* The share of a domain with w of all CPUs, rounded down (kairos.rs 486-491).
Share(n, w, all) == (n \div all) * w + ((n % all) * w) \div all

\* A share is the exact proportion n * w / all, rounded down.
LEMMA ShareBounds ==
  ASSUME NEW n \in Nat, NEW w \in Nat, NEW all \in Nat \ {0}
  PROVE  /\ Share(n, w, all) \in Nat
         /\ all * Share(n, w, all) <= n * w
         /\ n * w < all * Share(n, w, all) + all
<1> DEFINE q == n \div all
           r == n % all
           x == r * w
           d == x \div all
<1>1. q \in Nat /\ r \in Nat /\ n = all * q + r
  BY Division
<1> HIDE DEF q, r
<1>2. x \in Nat
  BY <1>1
<1>e. n * w = all * (q * w) + x
  BY <1>1
<1> HIDE DEF x
<1>3. d \in Nat /\ all * d <= x /\ x < all * d + all
  BY <1>2, Division
<1>s. Share(n, w, all) = q * w + d
  BY DEF Share, q, r, x
<1> HIDE DEF d
<1>4. q * w \in Nat
  BY <1>1
<1>5. all * (q * w + d) = all * (q * w) + all * d
  BY <1>3, <1>4
<1> DEFINE y == all * (q * w)
           z == all * d
           v == n * w
<1>6. y \in Nat /\ z \in Nat /\ v \in Nat
  BY <1>3, <1>4
<1> HIDE DEF y, z, v
<1>7. v = y + x /\ z <= x /\ x < z + all
  BY <1>e, <1>3 DEF y, z, v
<1>8. y + z <= v /\ v < y + z + all
  BY <1>2, <1>6, <1>7
<1>9. q * w + d \in Nat
  BY <1>3, <1>4
<1>10. QED
  BY <1>5, <1>8, <1>9, <1>s DEF y, z, v

\* Shares rounded down, added up: short of the whole by at most one unit per
\* share.
LEMMA ShareSums ==
  ASSUME NEW m \in Nat, NEW w \in [1 .. m -> Nat], NEW all \in Nat \ {0}, all = Total(w),
         NEW n \in Nat, NEW base \in [1 .. m -> Nat],
         \A i \in 1 .. m : base[i] = Share(n, w[i], all)
  PROVE  n - Total(base) \in 0 .. m
<1> DEFINE P == Totals(w)
           B == Totals(base)
           S == {i \in 0 .. m : all * B[i] <= n * P[i] /\ n * P[i] <= all * B[i] + all * i}
<1>1. P \in [0 .. m -> Nat] /\ P[0] = 0 /\ P[m] = all /\ \A i \in 1 .. m : P[i] = P[i - 1] + w[i]
  BY TotalsAre
<1>2. B \in [0 .. m -> Nat] /\ B[0] = 0 /\ B[m] = Total(base) /\ \A i \in 1 .. m : B[i] = B[i - 1] + base[i]
  BY TotalsAre
<1> HIDE DEF P, B
<1>3. 0 \in S
  BY <1>1, <1>2
<1>4. ASSUME NEW i \in 1 .. m, i - 1 \in S PROVE i \in S
  <2> DEFINE p == P[i - 1]
             u == w[i]
             b == B[i - 1]
             c == base[i]
  <2>1. p \in Nat /\ u \in Nat /\ b \in Nat /\ c \in Nat
    BY <1>1, <1>2
  <2>2. all * c <= n * u /\ n * u < all * c + all
    BY ShareBounds
  <2>3. all * b <= n * p /\ n * p <= all * b + all * (i - 1)
    BY <1>4
  <2>4. P[i] = p + u /\ B[i] = b + c
    BY <1>1, <1>2
  <2> HIDE DEF p, u, b, c
  <2>5. n * (p + u) = n * p + n * u /\ all * (b + c) = all * b + all * c /\ all * i = all * (i - 1) + all
    BY <2>1
  <2> DEFINE np == n * p
             nu == n * u
             ab == all * b
             ac == all * c
             ai == all * (i - 1)
  <2>6. np \in Nat /\ nu \in Nat /\ ab \in Nat /\ ac \in Nat /\ ai \in Nat
    <3>1. i - 1 \in Nat
      OBVIOUS
    <3>2. QED
      BY <2>1, <3>1, Products
  <2>7. ac <= nu /\ nu < ac + all /\ ab <= np /\ np <= ab + ai
    BY <2>2, <2>3
  <2> HIDE DEF np, nu, ab, ac, ai
  <2>8. ab + ac <= np + nu /\ np + nu <= (ab + ac) + (ai + all)
    BY <2>6, <2>7
  <2>9. all * (b + c) <= n * (p + u) /\ n * (p + u) <= all * (b + c) + all * i
    BY <2>5, <2>8 DEF np, nu, ab, ac, ai
  <2>10. QED
    BY <2>4, <2>9
<1> HIDE DEF S
<1>5. m \in S
  <2>1. \A i \in 0 .. m : i \in S
    BY <1>3, <1>4, UpTo
  <2>2. m \in 0 .. m
    OBVIOUS
  <2>3. QED
    BY <2>1, <2>2
<1>6. B[m] \in Nat /\ all * B[m] <= n * all /\ n * all <= all * B[m] + all * m
  BY <1>1, <1>2, <1>5 DEF S
<1> DEFINE t == B[m]
<1> HIDE DEF t
<1>7. t \in Nat /\ all * t <= all * n /\ all * n <= all * (t + m)
  BY <1>6 DEF t
<1>8. t <= n /\ n <= t + m
  <2>1. t + m \in Nat
    BY <1>7
  <2>2. QED
    BY <1>7, <2>1, Cancel
<1>9. QED
  BY <1>2, <1>7, <1>8 DEF t

\* One more unit to the first left shares.
IsDealt(chunks, base, left, m, n) ==
    /\ left \in 0 .. m /\ n = Total(base) + left
    /\ chunks \in [1 .. m -> Nat]
    /\ \A i \in 1 .. m : chunks[i] = IF i <= left THEN base[i] + 1 ELSE base[i]

\* The whole grows by as many units as were dealt.
LEMMA RestIsDealt ==
  ASSUME NEW m \in Nat, NEW base \in [1 .. m -> Nat], NEW left, NEW chunks, NEW n,
         IsDealt(chunks, base, left, m, n)
  PROVE  Total(chunks) = n
<1>d. /\ left \in 0 .. m /\ n = Total(base) + left /\ chunks \in [1 .. m -> Nat]
      /\ \A i \in 1 .. m : chunks[i] = IF i <= left THEN base[i] + 1 ELSE base[i]
  BY DEF IsDealt
<1> USE <1>d
<1> DEFINE B == Totals(base)
           C == Totals(chunks)
           S == {i \in 0 .. m : C[i] = B[i] + (IF i <= left THEN i ELSE left)}
<1>1. C \in [0 .. m -> Nat] /\ C[0] = 0 /\ C[m] = Total(chunks) /\ \A i \in 1 .. m : C[i] = C[i - 1] + chunks[i]
  BY TotalsAre
<1>2. B \in [0 .. m -> Nat] /\ B[0] = 0 /\ B[m] = Total(base) /\ \A i \in 1 .. m : B[i] = B[i - 1] + base[i]
  BY TotalsAre
<1> HIDE DEF B, C
<1>3. 0 \in S
  BY <1>1, <1>2
<1>4. ASSUME NEW i \in 1 .. m, i - 1 \in S PROVE i \in S
  <2>1. B[i - 1] \in Nat /\ C[i - 1] \in Nat /\ base[i] \in Nat
    BY <1>1, <1>2, SMTT(30)
  <2>2. C[i] = C[i - 1] + chunks[i] /\ B[i] = B[i - 1] + base[i]
    BY <1>1, <1>2
  <2>3. C[i - 1] = B[i - 1] + (IF i - 1 <= left THEN i - 1 ELSE left)
    BY <1>4
  <2>4. C[i] = B[i] + (IF i <= left THEN i ELSE left)
    <3> DEFINE y == B[i - 1]
               z == base[i]
    <3>1. CASE i <= left
      <4>1. C[i - 1] = y + (i - 1) /\ chunks[i] = z + 1
        BY <2>3, <3>1
      <4>2. C[i] = (y + (i - 1)) + (z + 1) /\ B[i] = y + z
        BY <2>2, <4>1
      <4> HIDE DEF y, z
      <4>3. y \in Nat /\ z \in Nat
        BY <2>1 DEF y, z
      <4>4. (y + (i - 1)) + (z + 1) = (y + z) + i
        BY <4>3
      <4>5. QED
        BY <3>1, <4>2, <4>4
    <3>2. CASE ~(i <= left)
      <4>1. C[i - 1] = y + left /\ chunks[i] = z
        BY <2>3, <3>2
      <4>2. C[i] = (y + left) + z /\ B[i] = y + z
        BY <2>2, <4>1
      <4> HIDE DEF y, z
      <4>3. y \in Nat /\ z \in Nat
        BY <2>1 DEF y, z
      <4>4. (y + left) + z = (y + z) + left
        BY <4>3
      <4>5. QED
        BY <3>2, <4>2, <4>4
    <3>3. QED
      BY <3>1, <3>2
  <2>5. QED
    BY <2>4
<1> HIDE DEF S
<1>5. m \in S
  <2>1. \A i \in 0 .. m : i \in S
    BY <1>3, <1>4, UpTo
  <2>2. m \in 0 .. m
    OBVIOUS
  <2>3. QED
    BY <2>1, <2>2
<1>6. C[m] = B[m] + left
  BY <1>1, <1>2, <1>5 DEF S
<1>7. QED
  BY <1>1, <1>2, <1>6

\* What partition_work gives to each domain: all of the work, and to each its
\* proportion up to one unit.
LEMMA ChunksAre ==
  ASSUME NEW m \in Nat, NEW w \in [1 .. m -> Nat], NEW all \in Nat \ {0}, all = Total(w),
         NEW n \in Nat
  PROVE  /\ Chunks(n, w) \in [1 .. m -> Nat]
         /\ Total(Chunks(n, w)) = n
         /\ \A i \in 1 .. m :
                /\ Chunks(n, w)[i] * all <= n * w[i] + all
                /\ n * w[i] < Chunks(n, w)[i] * all + all
<1> DEFINE base == [i \in 1 .. m |-> Share(n, w[i], all)]
           left == n - Total(base)
           chunks == [i \in 1 .. m |-> IF i <= left THEN base[i] + 1 ELSE base[i]]
<1>1. Chunks(n, w) = chunks
  BY DEF Chunks, Share
<1>2. ASSUME NEW i \in 1 .. m
      PROVE  base[i] \in Nat /\ all * base[i] <= n * w[i] /\ n * w[i] < all * base[i] + all
  BY ShareBounds
<1>3. base \in [1 .. m -> Nat] /\ \A i \in 1 .. m : base[i] = Share(n, w[i], all)
  BY <1>2
<1> HIDE DEF base
<1>4. left \in 0 .. m
  BY <1>3, ShareSums
<1>t. Total(base) \in Nat
  <2>1. Totals(base) \in [0 .. m -> Nat] /\ Total(base) = Totals(base)[m]
    BY <1>3, TotalsAre
  <2>2. QED
    BY <2>1
<1>l. left + Total(base) = n
  BY <1>t
<1> HIDE DEF left
<1>5. chunks \in [1 .. m -> Nat] /\ \A i \in 1 .. m : chunks[i] = IF i <= left THEN base[i] + 1 ELSE base[i]
  BY <1>3
<1> HIDE DEF chunks
<1>6. Total(chunks) = n
  <2>1. n = Total(base) + left
    BY <1>4, <1>t, <1>l
  <2>2. IsDealt(chunks, base, left, m, n)
    BY <1>4, <1>5, <2>1 DEF IsDealt
  <2>3. base \in [1 .. m -> Nat]
    BY <1>3
  <2>4. QED
    BY <2>2, <2>3, RestIsDealt, Zenon
<1>7. ASSUME NEW i \in 1 .. m
      PROVE  chunks[i] * all <= n * w[i] + all /\ n * w[i] < chunks[i] * all + all
  <2> DEFINE b == base[i]
             c == chunks[i]
             v == n * w[i]
  <2>1. b \in Nat /\ c \in {b, b + 1} /\ v \in Nat /\ all * b <= v /\ v < all * b + all
    BY <1>2, <1>3, <1>4, <1>5
  <2> HIDE DEF b, c, v
  <2>2. c * all <= v + all /\ v < c * all + all
    BY <2>1
  <2>3. QED
    BY <2>2 DEF c, v
<1>8. QED
  BY <1>1, <1>5, <1>6, <1>7

\* The lists of a topology have their types.
LEMMA TopologyTypes ==
  ASSUME NEW snap \in Topologies
  PROVE  /\ snap.cpus \in Seq(CpuRecords) /\ DOMAIN snap.cpus = 1 .. Len(snap.cpus)
         /\ Len(snap.domains) \in Nat /\ DOMAIN snap.domains = 1 .. Len(snap.domains)
         /\ snap.domains \in [1 .. Len(snap.domains) -> DomainRecords]
         /\ \A k \in DOMAIN snap.domains :
                /\ Len(snap.domains[k].members) \in Nat
                /\ DOMAIN snap.domains[k].members = 1 .. Len(snap.domains[k].members)
                /\ snap.domains[k].id \in Nat
<1>1. snap.cpus \in Seq(CpuRecords) /\ snap.domains \in Seq(DomainRecords)
  BY DEF Topologies
<1>2. /\ Len(snap.domains) \in Nat /\ DOMAIN snap.domains = 1 .. Len(snap.domains)
      /\ snap.domains \in [1 .. Len(snap.domains) -> DomainRecords]
      /\ DOMAIN snap.cpus = 1 .. Len(snap.cpus)
  BY <1>1
<1>3. ASSUME NEW k \in DOMAIN snap.domains
      PROVE  /\ Len(snap.domains[k].members) \in Nat
             /\ DOMAIN snap.domains[k].members = 1 .. Len(snap.domains[k].members)
             /\ snap.domains[k].id \in Nat
  <2>1. snap.domains[k] \in DomainRecords
    BY <1>2
  <2>2. snap.domains[k].members \in Seq(Nat) /\ snap.domains[k].id \in Nat
    BY <2>1 DEF DomainRecords
  <2>3. QED
    BY <2>2
<1>4. QED
  BY <1>1, <1>2, <1>3

\* The entries of a domain's list that count are finitely many.
LEMMA WeightIsNumber ==
  ASSUME NEW snap \in Topologies, NEW k \in DOMAIN snap.domains
  PROVE  LET d == snap.domains[k]
             list == {m \in DOMAIN d.members : Enabled(snap, d.members[m])}
         IN  IsFiniteSet(list) /\ Weight(snap, d) = Cardinality(list) /\ Weight(snap, d) \in Nat
<1> DEFINE d == snap.domains[k]
           list == {m \in DOMAIN d.members : Enabled(snap, d.members[m])}
<1>1. IsFiniteSet(list)
  <2>1. IsFiniteSet(1 .. Len(d.members))
    <3>1. 1 \in Int /\ Len(d.members) \in Int
      BY TopologyTypes
    <3>2. QED
      BY <3>1, FS_Interval
  <2>2. list \in SUBSET (1 .. Len(d.members))
    BY TopologyTypes
  <2> HIDE DEF list
  <2>3. QED
    BY <2>1, <2>2, FS_Subset
<1>2. Weight(snap, d) = Cardinality(list)
  BY DEF Weight
<1> HIDE DEF list
<1>3. Cardinality(list) \in Nat
  BY <1>1, FS_CardinalityType
<1>4. QED
  BY <1>1, <1>2, <1>3 DEF list

\* In a validated topology the entries of a domain's list count its CPUs.
LEMMA WeightIsCpus ==
  ASSUME NEW snap \in Topologies, ValidReply(snap), NEW k \in DOMAIN snap.domains
  PROVE  /\ Weight(snap, snap.domains[k]) \in Nat
         /\ Cardinality(EnabledCpus(snap, snap.domains[k])) = Weight(snap, snap.domains[k])
<1> DEFINE d == snap.domains[k]
           list == {m \in DOMAIN d.members : Enabled(snap, d.members[m])}
           cpus == EnabledCpus(snap, d)
           member == [m \in list |-> d.members[m]]
<1>1. Distinct(d.members) /\ \A m \in DOMAIN d.members : d.members[m] \in IdSet(snap.cpus)
  BY DEF ValidReply, ValidDomain
<1>2. IsFiniteSet(list) /\ Weight(snap, d) = Cardinality(list) /\ Weight(snap, d) \in Nat
  BY WeightIsNumber
<1> HIDE DEF d
<1>3. member \in [list -> cpus]
  BY <1>1 DEF EnabledCpus
<1>4. \A a, b \in list : member[a] = member[b] => a = b
  BY <1>1 DEF Distinct
<1>5. \A c \in cpus : \E m \in list : member[m] = c
  BY DEF EnabledCpus
<1> HIDE DEF list, cpus, member
<1>6. member \in Bijection(list, cpus)
  BY <1>3, <1>4, <1>5 DEF Bijection, Injection, Surjection, IsInjective
<1>7. ExistsBijection(list, cpus)
  BY <1>6 DEF ExistsBijection
<1>8. Cardinality(cpus) = Cardinality(list)
  BY <1>2, <1>7, FS_Bijection
<1>9. QED
  BY <1>2, <1>8 DEF d, cpus

\* g holds, in order, the elements of f that are not zero.
Gathers(g, f, pos, c) ==
    /\ \A a \in 1 .. c : f[pos[a]] # 0 /\ g[a] = f[pos[a]]
    /\ \A a, b \in 1 .. c : a < b => pos[a] < pos[b]
    /\ \A i \in DOMAIN f : f[i] # 0 => \E a \in 1 .. c : pos[a] = i

\* Adding up the elements that are not zero adds up all of them.
LEMMA PickedSum ==
  ASSUME NEW m \in Nat, NEW f \in [1 .. m -> Nat],
         NEW c \in Nat, NEW g \in [1 .. c -> Nat], NEW pos \in [1 .. c -> 1 .. m],
         Gathers(g, f, pos, c)
  PROVE  Total(f) = Total(g)
<1> DEFINE I == {k \in 1 .. m : f[k] # 0}
<1>i. /\ \A a \in 1 .. c : pos[a] \in I /\ g[a] = f[pos[a]]
      /\ \A a, b \in 1 .. c : a < b => pos[a] < pos[b]
      /\ \A i \in I : \E a \in 1 .. c : pos[a] = i
  BY DEF Gathers
<1>z. \A k \in 1 .. m : k \notin I => f[k] = 0
  OBVIOUS
<1> HIDE DEF I
<1> DEFINE F == Totals(f)
           H == Totals(g)
           Seen(j, a) == /\ \A b \in 1 .. c : b <= a <=> pos[b] <= j
                         /\ F[j] = H[a]
           S == {j \in 0 .. m : \E a \in 0 .. c : Seen(j, a)}
<1>1. F \in [0 .. m -> Nat] /\ F[0] = 0 /\ F[m] = Total(f) /\ \A i \in 1 .. m : F[i] = F[i - 1] + f[i]
  BY TotalsAre
<1>2. H \in [0 .. c -> Nat] /\ H[0] = 0 /\ H[c] = Total(g) /\ \A i \in 1 .. c : H[i] = H[i - 1] + g[i]
  BY TotalsAre
<1> HIDE DEF F, H
<1>3. 0 \in S
  <2>1. Seen(0, 0)
    BY <1>1, <1>2
  <2> HIDE DEF Seen
  <2>2. 0 \in 0 .. c /\ 0 \in 0 .. m
    OBVIOUS
  <2>3. QED
    BY <2>1, <2>2
<1>4. ASSUME NEW j \in 1 .. m, j - 1 \in S PROVE j \in S
  <2>0. PICK a \in 0 .. c : Seen(j - 1, a)
    <3> HIDE DEF Seen
    <3>1. QED
      BY <1>4
  <2>1. (\A b \in 1 .. c : b <= a <=> pos[b] <= j - 1) /\ F[j - 1] = H[a]
    BY <2>0
  <2>2. F[j] = F[j - 1] + f[j] /\ F[j - 1] \in Nat
    BY <1>1
  <2>3. CASE j \notin I
    <3>1. f[j] = 0
      BY <1>z, <2>3
    <3>2. F[j] = H[a]
      BY <2>1, <2>2, <3>1
    <3>3. ASSUME NEW b \in 1 .. c PROVE b <= a <=> pos[b] <= j
      <4>1. pos[b] # j /\ pos[b] \in 1 .. m
        BY <1>i, <2>3
      <4>2. b <= a <=> pos[b] <= j - 1
        BY <2>1
      <4>3. pos[b] <= j - 1 <=> pos[b] <= j
        BY <4>1
      <4>4. QED
        BY <4>2, <4>3
    <3>4. Seen(j, a)
      BY <3>2, <3>3
    <3> HIDE DEF Seen
    <3>5. QED
      BY <3>4
  <2>4. CASE j \in I
    <3>1. PICK b \in 1 .. c : pos[b] = j
      BY <1>i, <2>4
    <3>2. ~(b <= a)
      BY <2>1, <3>1
    <3>3. a + 1 \in 1 .. c /\ a + 1 <= b
      BY <3>2
    <3>4. pos[a + 1] \in 1 .. m /\ ~(pos[a + 1] <= j - 1)
      BY <2>1, <3>3
    <3>5. pos[a + 1] = j
      <4>1. CASE a + 1 = b
        BY <3>1, <4>1
      <4>2. CASE a + 1 < b
        <5>1. pos[a + 1] < pos[b]
          BY <1>i, <3>3, <4>2
        <5>2. QED
          BY <3>1, <3>4, <5>1, SMTT(30)
      <4>3. QED
        BY <3>3, <4>1, <4>2
    <3>6. F[j] = H[a + 1]
      <4>1. H[a + 1] = H[(a + 1) - 1] + g[a + 1] /\ g[a + 1] = f[j]
        BY <1>2, <1>i, <3>3, <3>5
      <4>2. (a + 1) - 1 = a
        OBVIOUS
      <4>3. QED
        BY <2>1, <2>2, <4>1, <4>2
    <3>7. ASSUME NEW e \in 1 .. c PROVE e <= a + 1 <=> pos[e] <= j
      <4>1. pos[e] \in 1 .. m
        OBVIOUS
      <4>2. CASE e <= a
        BY <2>1, <4>1, <4>2
      <4>3. CASE e = a + 1
        BY <3>5, <4>3
      <4>4. CASE e > a + 1
        <5>1. pos[a + 1] < pos[e]
          BY <1>i, <3>3, <4>4
        <5>2. QED
          BY <3>5, <4>1, <4>4, <5>1
      <4>5. QED
        BY <4>2, <4>3, <4>4
    <3>8. Seen(j, a + 1)
      BY <3>6, <3>7
    <3> HIDE DEF Seen
    <3>9. a + 1 \in 0 .. c
      BY <3>3
    <3>10. QED
      BY <3>8, <3>9
  <2>5. QED
    BY <2>3, <2>4
<1> HIDE DEF S
<1>5. m \in S
  <2>1. \A i \in 0 .. m : i \in S
    BY <1>3, <1>4, UpTo
  <2>2. m \in 0 .. m
    OBVIOUS
  <2>3. QED
    BY <2>1, <2>2
<1>6. PICK a \in 0 .. c : Seen(m, a)
  <2> HIDE DEF Seen
  <2>1. QED
    BY <1>5 DEF S
<1>7. a = c
  <2>1. CASE c = 0
    BY <2>1
  <2>2. CASE c # 0
    <3>1. c \in 1 .. c /\ pos[c] <= m
      BY <2>2
    <3>2. c <= a
      BY <1>6, <3>1
    <3>3. QED
      BY <3>2
  <2>3. QED
    BY <2>1, <2>2
<1>8. F[m] = H[c]
  BY <1>6, <1>7
<1>9. QED
  BY <1>1, <1>2, <1>8

\* The domains that partition_work hands work to, with their positions and
\* weights.
LEMMA WorkersAre ==
  ASSUME NEW snap \in Topologies, ValidReply(snap)
  PROVE  \E c \in Nat : \E pos \in [1 .. c -> DOMAIN snap.domains] :
            /\ Workers(snap) \in [1 .. c -> DomainRecords]
            /\ Workers(snap) = <<>> <=> c = 0
            /\ \A a \in 1 .. c :
                /\ Workers(snap)[a] = snap.domains[pos[a]]
                /\ Weight(snap, Workers(snap)[a]) = NumaCpus(snap)[pos[a]]
                /\ Weight(snap, Workers(snap)[a]) \in Nat \ {0}
            /\ Total(NumaCpus(snap)) = Total([a \in 1 .. c |-> Weight(snap, Workers(snap)[a])])
<1> DEFINE s == snap.domains
           m == Len(s)
           IsWorker(d) == d.kind = Numa /\ Weight(snap, d) # 0
           I == {k \in DOMAIN s : IsWorker(s[k])}
           f == NumaCpus(snap)
           q == Workers(snap)
<1>1. m \in Nat /\ DOMAIN s = 1 .. m /\ s \in [1 .. m -> DomainRecords]
  BY TopologyTypes
<1>2. \A k \in 1 .. m : Weight(snap, s[k]) \in Nat /\ Cardinality(EnabledCpus(snap, s[k])) = Weight(snap, s[k])
  BY <1>1, WeightIsCpus
<1>3. f = [k \in 1 .. m |-> IF s[k].kind = Numa THEN Cardinality(EnabledCpus(snap, s[k])) ELSE 0]
  BY <1>1 DEF NumaCpus
<1>4. q = Selected(s, I)
  BY DEF Workers
<1> HIDE DEF f, q, m
<1>5. f \in [1 .. m -> Nat] /\ \A k \in 1 .. m : f[k] = IF s[k].kind = Numa THEN Weight(snap, s[k]) ELSE 0
  BY <1>2, <1>3
<1>6. I \subseteq 1 .. m /\ I = {k \in 1 .. m : f[k] # 0}
  BY <1>1, <1>5
<1> HIDE DEF I, s
<1>7. q \in Seq(DomainRecords) /\ \E c \in Nat : \E pos \in [1 .. c -> 1 .. m] : Picks(s, I, m, q, c, pos)
  BY <1>1, <1>4, <1>6, SelectedIs
<1>8. PICK c \in Nat : \E pos \in [1 .. c -> 1 .. m] : Picks(s, I, m, q, c, pos)
  BY <1>7
<1>9. PICK pos \in [1 .. c -> 1 .. m] : Picks(s, I, m, q, c, pos)
  BY <1>8
<1>10. /\ Len(q) = c
       /\ \A a \in 1 .. c : pos[a] \in I /\ q[a] = s[pos[a]]
       /\ \A a, b \in 1 .. c : a < b => pos[a] < pos[b]
       /\ \A i \in I : \E a \in 1 .. c : pos[a] = i
  BY <1>6, <1>9 DEF Picks
<1>11. q \in [1 .. c -> DomainRecords] /\ (q = <<>> <=> c = 0)
  BY <1>7, <1>10
<1> DEFINE g == [a \in 1 .. c |-> Weight(snap, q[a])]
<1>12. ASSUME NEW a \in 1 .. c
       PROVE  /\ q[a] = s[pos[a]]
              /\ Weight(snap, q[a]) = f[pos[a]]
              /\ Weight(snap, q[a]) \in Nat \ {0}
  <2>1. pos[a] \in 1 .. m /\ pos[a] \in I /\ q[a] = s[pos[a]] /\ f[pos[a]] # 0
    BY <1>6, <1>10
  <2>2. f[pos[a]] = IF s[pos[a]].kind = Numa THEN Weight(snap, s[pos[a]]) ELSE 0
    BY <1>5, <2>1
  <2>3. f[pos[a]] = Weight(snap, s[pos[a]])
    BY <2>1, <2>2
  <2>4. QED
    BY <1>2, <2>1, <2>3
<1>13. g \in [1 .. c -> Nat] /\ \A a \in 1 .. c : pos[a] \in I /\ g[a] = f[pos[a]]
  BY <1>10, <1>12
<1> HIDE DEF g
<1>14. Total(f) = Total(g)
  <2>1. m \in Nat /\ f \in [1 .. m -> Nat]
    BY <1>1, <1>5
  <2>2. Gathers(g, f, pos, c)
    BY <1>5, <1>6, <1>10, <1>13 DEF Gathers
  <2>3. g \in [1 .. c -> Nat]
    BY <1>13
  <2>4. QED
    BY <2>1, <2>2, <2>3, PickedSum, ZenonT(60)
<1>15. QED
  <2>1. pos \in [1 .. c -> DOMAIN snap.domains]
    BY <1>1 DEF s
  <2>2. /\ q \in [1 .. c -> DomainRecords] /\ (q = <<>> <=> c = 0)
        /\ \A a \in 1 .. c :
            /\ q[a] = snap.domains[pos[a]]
            /\ Weight(snap, q[a]) = f[pos[a]]
            /\ Weight(snap, q[a]) \in Nat \ {0}
        /\ Total(f) = Total([a \in 1 .. c |-> Weight(snap, q[a])])
    BY <1>11, <1>12, <1>14 DEF s, g
  <2>3. QED
    BY <2>1, <2>2 DEF f, q

\* Positive numbers add up to a positive number.
LEMMA PositiveTotal ==
  ASSUME NEW c \in Nat \ {0}, NEW g \in [1 .. c -> Nat], g[c] # 0
  PROVE  Total(g) \in Nat \ {0}
<1>1. Totals(g) \in [0 .. c -> Nat] /\ Total(g) = Totals(g)[c] /\ \A i \in 1 .. c : Totals(g)[i] = Totals(g)[i - 1] + g[i]
  BY TotalsAre
<1>2. c \in 1 .. c /\ c - 1 \in 0 .. c
  OBVIOUS
<1>3. Total(g) = Totals(g)[c - 1] + g[c] /\ Totals(g)[c - 1] \in Nat /\ g[c] \in Nat
  BY <1>1, <1>2
<1>4. QED
  BY <1>3

\* Slices follow each other from 0 to n.
Covers(p, n) ==
    /\ p[1].start = 0
    /\ p[Len(p)].end = n
    /\ \A i \in 1 .. Len(p) - 1 : p[i].end = p[i + 1].start
    /\ \A i \in DOMAIN p : p[i].start <= p[i].end

\* A share is the exact proportion up to one unit.
Proportional(p, n, snap) ==
    \A k \in DOMAIN NumaCpus(snap), i \in DOMAIN p :
        (Total(NumaCpus(snap)) # 0 /\ p[i].domain = snap.domains[k].id) =>
            /\ (p[i].end - p[i].start) * Total(NumaCpus(snap))
                    <= n * NumaCpus(snap)[k] + Total(NumaCpus(snap))
            /\ n * NumaCpus(snap)[k]
                    < (p[i].end - p[i].start) * Total(NumaCpus(snap)) + Total(NumaCpus(snap))

\* partition_work keeps the proportion, whatever the domains and the amount of
\* work.
LEMMA PartitionIs ==
  ASSUME NEW snap \in Topologies, ValidReply(snap), NEW n \in Nat
  PROVE  Proportional(PartitionWork(snap, n), n, snap)
<1> DEFINE q == Workers(snap)
           f == NumaCpus(snap)
           all == Total(f)
           p == PartitionWork(snap, n)
<1>1. PICK c \in Nat : \E pos \in [1 .. c -> DOMAIN snap.domains] :
            /\ q \in [1 .. c -> DomainRecords]
            /\ q = <<>> <=> c = 0
            /\ \A a \in 1 .. c :
                /\ q[a] = snap.domains[pos[a]]
                /\ Weight(snap, q[a]) = f[pos[a]]
                /\ Weight(snap, q[a]) \in Nat \ {0}
            /\ all = Total([a \in 1 .. c |-> Weight(snap, q[a])])
  BY WorkersAre
<1>2. PICK pos \in [1 .. c -> DOMAIN snap.domains] :
            /\ q \in [1 .. c -> DomainRecords]
            /\ q = <<>> <=> c = 0
            /\ \A a \in 1 .. c :
                /\ q[a] = snap.domains[pos[a]]
                /\ Weight(snap, q[a]) = f[pos[a]]
                /\ Weight(snap, q[a]) \in Nat \ {0}
            /\ all = Total([a \in 1 .. c |-> Weight(snap, q[a])])
  BY <1>1
<1> DEFINE g == [a \in 1 .. c |-> Weight(snap, q[a])]
<1>3. g \in [1 .. c -> Nat] /\ all = Total(g) /\ \A a \in 1 .. c : g[a] # 0 /\ g[a] = f[pos[a]]
  BY <1>2
<1>4. CASE c = 0
  <2>1. all = 0
    <3> HIDE DEF g
    <3>1. Total(g) = Totals(g)[0] /\ Totals(g)[0] = 0
      BY <1>3, <1>4, TotalsAre
    <3>2. QED
      BY <1>3, <3>1
  <2> HIDE DEF p
  <2>2. Proportional(p, n, snap)
    BY <2>1 DEF Proportional
  <2>3. QED
    BY <2>2 DEF p
<1>5. CASE c # 0
  <2> DEFINE chunks == Chunks(n, g)
             cursor == Totals(chunks)
  <2>1. p = [i \in 1 .. c |-> [domain |-> q[i].id, start |-> cursor[i - 1], end |-> cursor[i]]]
    <3>1. q # <<>> /\ DOMAIN q = 1 .. c
      BY <1>2, <1>5
    <3>2. QED
      BY <3>1 DEF PartitionWork
  <2> HIDE DEF g, p, q, f, all
  <2>2. all \in Nat \ {0}
    <3>1. c \in Nat \ {0} /\ g[c] # 0
      BY <1>3, <1>5
    <3>2. QED
      BY <1>3, <3>1, PositiveTotal
  <2>3. /\ chunks \in [1 .. c -> Nat] /\ Total(chunks) = n
        /\ \A i \in 1 .. c : chunks[i] * all <= n * g[i] + all /\ n * g[i] < chunks[i] * all + all
    BY <1>3, <2>2, ChunksAre
  <2> HIDE DEF chunks
  <2>4. /\ cursor \in [0 .. c -> Nat] /\ cursor[0] = 0 /\ cursor[c] = n
        /\ \A i \in 1 .. c : cursor[i] = cursor[i - 1] + chunks[i]
    BY <2>3, TotalsAre
  <2> HIDE DEF cursor
  <2>5. DOMAIN p = 1 .. c /\ Len(p) = c
    BY <2>1
  <2>6. \A i \in 1 .. c : p[i].domain = q[i].id /\ p[i].start = cursor[i - 1] /\ p[i].end = cursor[i]
    BY <2>1
  <2>7. ASSUME NEW k \in DOMAIN f, NEW i \in DOMAIN p, p[i].domain = snap.domains[k].id
        PROVE  /\ (p[i].end - p[i].start) * all <= n * f[k] + all
               /\ n * f[k] < (p[i].end - p[i].start) * all + all
    <3>1. i \in 1 .. c /\ k \in DOMAIN snap.domains /\ pos[i] \in DOMAIN snap.domains
      BY <2>5 DEF f, NumaCpus
    <3>2. snap.domains[pos[i]].id = snap.domains[k].id
      BY <1>2, <2>6, <2>7, <3>1
    <3>3. pos[i] = k
      <4>1. Distinct(Ids(snap.domains))
        BY DEF ValidReply
      <4>2. QED
        BY <3>1, <3>2, <4>1 DEF Distinct, Ids
    <3>4. g[i] = f[k]
      BY <1>3, <3>1, <3>3
    <3>5. p[i].end - p[i].start = chunks[i]
      <4>1. cursor[i - 1] \in Nat /\ chunks[i] \in Nat /\ cursor[i] = cursor[i - 1] + chunks[i]
        BY <2>3, <2>4, <3>1
      <4>2. QED
        BY <2>6, <3>1, <4>1
    <3>6. QED
      BY <2>3, <3>1, <3>4, <3>5
  <2>8. Proportional(p, n, snap)
    BY <2>7 DEF Proportional, f, all
  <2>9. QED
    BY <2>8 DEF p
<1>6. QED
  BY <1>4, <1>5

\* partition_work hands out all the work, in no more slices than there may be
\* domains.  The topology need not be a validated one.
LEMMA PartitionCovers ==
  ASSUME NEW snap \in Topologies, Len(snap.domains) <= MaxDomains, NEW n \in Nat
  PROVE  Covers(PartitionWork(snap, n), n) /\ Len(PartitionWork(snap, n)) <= MaxDomains
<1> DEFINE s == snap.domains
           q == Workers(snap)
           m == Len(s)
           I == {k \in DOMAIN s : s[k].kind = Numa /\ Weight(snap, s[k]) # 0}
<1>1. m \in Nat /\ DOMAIN s = 1 .. m /\ s \in [1 .. m -> DomainRecords]
  BY TopologyTypes
<1>2. m <= MaxDomains /\ MaxDomains \in Nat \ {0}
  BY KairosAssumption
<1>3. q = Selected(s, I) /\ I \subseteq 1 .. m
  BY <1>1 DEF Workers
<1>w. \A k \in I : Weight(snap, s[k]) \in Nat \ {0}
  BY WeightIsNumber
<1> HIDE DEF s, q, m, I
<1>4. q \in Seq(DomainRecords) /\ \E c \in Nat : \E pos \in [1 .. c -> 1 .. m] : Picks(s, I, m, q, c, pos)
  BY <1>1, <1>3, SelectedIs
<1>5. PICK c \in Nat : \E pos \in [1 .. c -> 1 .. m] : Picks(s, I, m, q, c, pos)
  BY <1>4
<1>6. PICK pos \in [1 .. c -> 1 .. m] : Picks(s, I, m, q, c, pos)
  BY <1>5
<1>7. Len(q) = c /\ DOMAIN q = 1 .. c /\ \A a, b \in 1 .. c : a < b => pos[a] < pos[b]
  BY <1>4, <1>6 DEF Picks
<1>8. c <= m
  <2>1. \A a, b \in 1 .. c : pos[a] = pos[b] => a = b
    <3>1. ASSUME NEW a \in 1 .. c, NEW b \in 1 .. c, pos[a] = pos[b], a # b PROVE FALSE
      <4>1. a < b \/ b < a
        BY <3>1
      <4>2. pos[a] < pos[b] \/ pos[b] < pos[a]
        BY <1>7, <4>1
      <4>3. pos[a] \in Nat /\ pos[b] \in Nat
        BY <1>1
      <4>4. QED
        BY <3>1, <4>2, <4>3
    <3>2. QED
      BY <3>1
  <2>2. pos \in Injection(1 .. c, 1 .. m)
    BY <2>1 DEF Injection, IsInjective
  <2>3. /\ IsFiniteSet(1 .. m)
        /\ Cardinality(1 .. c) = IF 1 > c THEN 0 ELSE c - 1 + 1
        /\ Cardinality(1 .. m) = IF 1 > m THEN 0 ELSE m - 1 + 1
    <3>1. 1 \in Int /\ c \in Int /\ m \in Int
      BY <1>1
    <3>2. QED
      BY <3>1, FS_Interval
  <2>4. Cardinality(1 .. c) <= Cardinality(1 .. m)
    BY <2>2, <2>3, FS_Injection
  <2>5. QED
    BY <1>1, <2>3, <2>4
<1> DEFINE p == PartitionWork(snap, n)
<1>9. CASE q = <<>>
  <2>1. p = <<[domain |-> 0, start |-> 0, end |-> n]>>
    BY <1>9 DEF PartitionWork, q
  <2>2. Len(p) = 1 /\ DOMAIN p = {1} /\ p[1].start = 0 /\ p[1].end = n
    BY <2>1
  <2> HIDE DEF p
  <2>3. Covers(p, n) /\ Len(p) <= MaxDomains
    BY <1>2, <2>2 DEF Covers
  <2>4. QED
    BY <2>3 DEF p
<1>10. CASE q # <<>>
  <2> DEFINE g == [a \in 1 .. c |-> Weight(snap, q[a])]
             chunks == Chunks(n, g)
             cursor == Totals(chunks)
  <2>1. c # 0
    BY <1>4, <1>7, <1>10
  <2>2. p = [i \in 1 .. c |-> [domain |-> q[i].id, start |-> cursor[i - 1], end |-> cursor[i]]]
    BY <1>7, <1>10 DEF PartitionWork, q
  <2>3. g \in [1 .. c -> Nat] /\ \A a \in 1 .. c : g[a] # 0
    <3>1. ASSUME NEW a \in 1 .. c PROVE Weight(snap, q[a]) \in Nat \ {0}
      <4>1. pos[a] \in I /\ q[a] = s[pos[a]]
        BY <1>6 DEF Picks
      <4>2. QED
        BY <1>w, <4>1
    <3>2. QED
      BY <3>1
  <2> HIDE DEF g, p
  <2>4. Total(g) \in Nat \ {0}
    <3>1. c \in Nat \ {0} /\ g[c] # 0
      BY <2>1, <2>3
    <3>2. QED
      BY <2>3, <3>1, PositiveTotal
  <2>5. chunks \in [1 .. c -> Nat] /\ Total(chunks) = n
    BY <2>3, <2>4, ChunksAre
  <2> HIDE DEF chunks
  <2>6. /\ cursor \in [0 .. c -> Nat] /\ cursor[0] = 0 /\ cursor[c] = n
        /\ \A i \in 1 .. c : cursor[i] = cursor[i - 1] + chunks[i]
    BY <2>5, TotalsAre
  <2> HIDE DEF cursor
  <2>7. DOMAIN p = 1 .. c /\ Len(p) = c
    BY <2>2
  <2>8. \A i \in 1 .. c : p[i].start = cursor[i - 1] /\ p[i].end = cursor[i]
    BY <2>2
  <2>9. p[1].start = 0 /\ p[c].end = n
    BY <2>1, <2>6, <2>8
  <2>10. ASSUME NEW i \in 1 .. c - 1 PROVE p[i].end = p[i + 1].start
    <3>1. i \in 1 .. c /\ i + 1 \in 1 .. c /\ (i + 1) - 1 = i
      OBVIOUS
    <3>2. p[i].end = cursor[i] /\ p[i + 1].start = cursor[(i + 1) - 1]
      BY <2>8, <3>1
    <3>3. QED
      BY <3>1, <3>2
  <2>11. ASSUME NEW i \in 1 .. c PROVE p[i].start <= p[i].end
    <3>1. cursor[i - 1] \in Nat /\ chunks[i] \in Nat /\ cursor[i] = cursor[i - 1] + chunks[i]
      BY <2>5, <2>6
    <3>2. QED
      BY <2>8, <3>1
  <2>12. Covers(p, n)
    BY <2>7, <2>9, <2>10, <2>11 DEF Covers
  <2>13. Len(p) <= MaxDomains
    BY <1>1, <1>2, <1>8, <2>7
  <2>14. QED
    BY <2>12, <2>13 DEF p
<1>11. QED
  BY <1>9, <1>10

-----------------------------------------------------------------------------
(* Topology: the reply buffer and the snapshot that is kept                *)

\* The claim flag is set exactly while one thread is inside a query, and
\* from the system call to the conversion the buffer holds its answer.
QueryInv ==
    /\ pc \in [Thread -> {"idle", "claimed", "answered", "store1", "store2", "release"}]
    /\ answer \in [Thread -> Reply \cup {Nothing}]
    /\ claimed \in BOOLEAN
    /\ \A t \in Thread : pc[t] # "idle" => claimed
    /\ \A t, u \in Thread : pc[t] # "idle" /\ pc[u] # "idle" => t = u
    /\ \A t \in Thread : pc[t] = "answered" => buffer = answer[t] /\ buffer \in Reply

\* The counts of a topology are within its arrays; it has been validated.
Fits(x) == x \in Topologies /\ Len(x.cpus) <= MaxCpus /\ Len(x.domains) <= MaxDomains
Sound(x) == x \in Topologies /\ ValidReply(x)

\* A thread that stores has validated what it stores.  The storage holds a
\* validated topology except between the two halves of a copy, when it has the
\* new CPUs; and whoever has the reference finds something there.
StorageInv ==
    /\ keep \in [Thread -> BOOLEAN]
    /\ DOMAIN snapshot = Thread
    /\ \A t \in Thread : snapshot[t] \in {Nothing, InStorage} \/ Sound(snapshot[t])
    /\ storage = Nothing \/ Fits(storage)
    /\ \A t \in Thread : pc[t] \in {"store1", "store2"} => Sound(snapshot[t])
    /\ \A t \in Thread :
        pc[t] = "store2" => storage # Nothing /\ storage.cpus = snapshot[t].cpus
    /\ (\A t \in Thread : pc[t] # "store2") => storage = Nothing \/ Sound(storage)
    /\ \A t \in Thread : snapshot[t] = InStorage => storage # Nothing

KairosInv == QueryInv /\ StorageInv

\* A thread's work is what partition_work makes of what it read, which is a
\* validated topology unless another thread was storing.
WorkInv ==
    /\ buffer \in Reply \cup {Nothing}
    /\ DOMAIN work = Thread
    /\ \A t \in Thread : work[t] # Nothing =>
        /\ Fits(work[t].of)
        /\ ~work[t].torn => Sound(work[t].of)
        /\ work[t].total \in Nat
        /\ work[t].slices = PartitionWork(work[t].of, work[t].total)

\* The query of initialize is a query_ref: where it ends with a result, that
\* is in the storage.
BootInv ==
    /\ boot \in {"entry", "abi", "topology", "running", "failed"}
    /\ boot \in {"entry", "abi"} => \A t \in Thread : pc[t] = "idle" /\ snapshot[t] = Nothing
    /\ boot = "topology" =>
        /\ pc[Main] # "idle" => keep[Main]
        /\ pc[Main] \in {"claimed", "answered"} => snapshot[Main] = Nothing
        /\ (pc[Main] \in {"release", "idle"} /\ snapshot[Main] # Nothing) => storage # Nothing
    /\ boot = "running" => storage # Nothing

-----------------------------------------------------------------------------
(* Thermal policy                                                          *)

\* An epoch that is stored while the policy holds an older one makes the
\* held one stale; the zone of the latest epoch does not change before the
\* kernel starts to write again.
ThermalInv ==
    /\ ThermalTypeOK
    /\ writing => ticks < MaxTicks
    /\ loaded <= ticks
    /\ told = lastZone
    /\ (policy = "idle" /\ loaded = ticks /\ ~writing) => lastZone = FromRaw(rawZone)

-----------------------------------------------------------------------------
(* Resonance plane                                                         *)

\* The sequence of the command submitted last.
LastSequence == IF nextSequence = 1 THEN MaxSeq ELSE nextSequence - 1

\* The client has submitted something.
Active == pending # 0 \/ result # NoResult

\* A frame or reply with this sequence and identity is one of the present
\* numbering: counting back from the last command, both agree.
Numbered(s, id) == s <= LastSequence /\ commands - id = LastSequence - s

PlaneShape ==
    /\ client \in Nat /\ nextSequence \in 1 .. MaxSeq
    /\ commands \in Nat /\ published \in 0 .. MaxSeq /\ pending \in 0 .. MaxSeq
    /\ \A f \in {ingress, working} :
        f # NoFrame => f.sequence \in 1 .. MaxSeq /\ f.id \in Nat
    /\ slot.sequence \in 0 .. MaxSeq /\ slot.id \in Nat
    /\ slot.status \in {"Ok", "Denied", "Garbled"}
    /\ published = 0 => slot.sequence = 0

\* A pending command is the one submitted last; only a client that has just
\* been made, or whose numbers have wrapped, is about to use number one.
PlanePending ==
    /\ polling => pending # 0
    /\ pending # 0 => pending = LastSequence
    /\ nextSequence # 1 => Active

\* In a numbering that began over unused pages, everything on the pages
\* belongs to it, and what was returned is about the last command.
PlaneCurrent ==
    (clean /\ Active) =>
        /\ \A f \in {ingress, working} : f # NoFrame => Numbered(f.sequence, f.id)
        /\ slot.sequence # 0 => Numbered(slot.sequence, slot.id)
        /\ published <= LastSequence
        /\ result # NoResult => result.kind \in {"Ok", "Denied"} /\ result.id = commands

PlaneInv == PlaneShape /\ PlanePending /\ PlaneCurrent

-----------------------------------------------------------------------------
(* The capability                                                          *)

\* The handle recv finds in the environment.
Received == Recv(environment, EnvKey, LegacyKey)

\* The environment is copied once; a client exists only in a process that
\* runs, and it and its frames carry the handle that recv finds.
GrantInv ==
    /\ entry \in Stack \cup {Bare}
    /\ boot # "entry" => environment = Collapse(entry)
    /\ boot \in {"topology", "running"} => RequiredBits \subseteq features
    /\ client # 0 =>
        boot = "running" /\ Received.error = "none" /\ capability = Received.raw
    /\ \A f \in {ingress, working} : f # NoFrame => client # 0 /\ f.capability = capability

-----------------------------------------------------------------------------
(* The steps of the components                                             *)

\* A process moves one service at a time: each of them makes a step of its
\* own or none.
LEMMA ComponentSteps ==
  ASSUME ProcessNext
  PROVE  /\ Next \/ UNCHANGED kairosVars
         /\ ThermalNext \/ UNCHANGED thermalVars
         /\ (\E raw : Connect(raw)) \/ PlaneNext \/ UNCHANGED planeVars
<1>1. CASE ReadStack \/ NegotiateAbi
  BY <1>1 DEF ReadStack, NegotiateAbi
<1>2. CASE BootQuery
  BY <1>2, ProcessAssumption DEF BootQuery, Next
<1>3. CASE BootEnd
  <2>1. MaxTotal \in 0 .. MaxTotal
    BY KairosAssumption
  <2>2. QED
    BY <1>3, <2>1, ProcessAssumption DEF BootEnd, Next
<1>4. CASE QueryTopology
  BY <1>4 DEF QueryTopology
<1>5. CASE OpenPlane
  BY <1>5 DEF OpenPlane
<1>6. CASE UsePlane
  BY <1>6 DEF UsePlane
<1>7. CASE WatchThermal
  BY <1>7 DEF WatchThermal
<1>8. QED
  BY <1>1, <1>2, <1>3, <1>4, <1>5, <1>6, <1>7 DEF ProcessNext

\* The thermal policy's invariant is inductive.
LEMMA ThermalStep ==
  ASSUME ThermalInv, ThermalNext \/ UNCHANGED thermalVars
  PROVE  ThermalInv'
<1> USE ThermalAssumption DEF ThermalInv, ThermalTypeOK
<1>0. ASSUME NEW n PROVE FromRaw(n) \in {"Cold", "Warm", "Hot", "Critical"}
  BY DEF FromRaw
<1>e. PageEpoch \in 0 .. Epochs - 1
  BY DEF PageEpoch
<1>1. ASSUME NEW n \in RawZone, StoreZone(n) PROVE ThermalInv'
  BY <1>1 DEF StoreZone
<1>2. CASE StoreEpoch
  <2>1. ticks < MaxTicks /\ ticks' = ticks + 1 /\ loaded' = loaded
    BY <1>2 DEF StoreEpoch
  <2>2. ticks' \in 0 .. MaxTicks /\ loaded' <= ticks' /\ loaded' # ticks'
    BY <2>1
  <2>3. QED
    BY <1>2, <2>2 DEF StoreEpoch
<1>3. CASE NewLoadZone
  BY <1>3, <1>0 DEF NewLoadZone
<1>4. CASE NewLoadEpoch
  BY <1>4, <1>e DEF NewLoadEpoch
<1>5. CASE CheckEpoch
  BY <1>5, <1>e DEF CheckEpoch
<1>6. CASE CheckZone
  BY <1>6, <1>0 DEF CheckZone
<1>7. CASE UNCHANGED thermalVars
  BY <1>7 DEF thermalVars
<1>8. QED
  BY <1>1, <1>2, <1>3, <1>4, <1>5, <1>6, <1>7 DEF ThermalNext

\* The reply buffer's invariant is inductive: the flag is taken by a thread
\* only when no other one is inside a query.
LEMMA QueryStep ==
  ASSUME QueryInv, Next \/ UNCHANGED kairosVars
  PROVE  QueryInv'
<1> USE DEF QueryInv
<1>1. ASSUME NEW t \in Thread, Acquire(t) PROVE QueryInv'
  BY <1>1 DEF Acquire, TakeSlot
<1>2. ASSUME NEW t \in Thread, NEW reply \in Reply, Syscall(t, reply) PROVE QueryInv'
  <2>1. pc[t] = "claimed" /\ \A u \in Thread \ {t} : pc[u] = "idle"
    BY <1>2 DEF Syscall
  <2>2. /\ pc' \in [Thread -> {"idle", "claimed", "answered", "store1", "store2", "release"}]
        /\ pc'[t] # "idle" /\ \A u \in Thread \ {t} : pc'[u] = "idle"
    BY <1>2, <2>1 DEF Syscall
  <2>3. buffer' = answer'[t] /\ buffer' \in Reply
    BY <1>2 DEF Syscall
  <2>4. QED
    BY <1>2, <2>1, <2>2, <2>3 DEF Syscall
<1>3. ASSUME NEW t \in Thread, Convert(t) PROVE QueryInv'
  BY <1>3 DEF Convert
<1>4. ASSUME NEW t \in Thread, Release(t) PROVE QueryInv'
  BY <1>4 DEF Release
<1>5. ASSUME NEW t \in Thread, NEW n \in 0 .. MaxTotal, Partition(t, n) PROVE QueryInv'
  BY <1>5 DEF Partition
<1>6. CASE UNCHANGED kairosVars
  BY <1>6 DEF kairosVars
<1>7. ASSUME NEW t \in Thread, StoreCpus(t) \/ StoreDomains(t) PROVE QueryInv'
  BY <1>7 DEF StoreCpus, StoreDomains
<1>8. QED
  BY <1>1, <1>2, <1>3, <1>4, <1>5, <1>6, <1>7 DEF Next

\* A topology is a record, so it is not the mark for nothing.
LEMMA TopologiesAreSomething ==
  ASSUME NEW x \in Topologies
  PROVE  x # Nothing
<1>1. "cpus" \in DOMAIN x
  BY DEF Topologies
<1>2. DOMAIN Nothing = {}
  BY DEF Nothing
<1>3. QED
  BY <1>1, <1>2

\* The mark for a reference is not the mark for nothing.
LEMMA MarksDiffer == InStorage # Nothing
<1>1. InStorage \in Topologies
  BY DEF InStorage, Topologies
<1>2. QED
  BY <1>1, TopologiesAreSomething

\* The CPUs of one topology and the domains of another make a topology.
LEMMA Mixture ==
  ASSUME NEW x \in Topologies, NEW y \in Topologies
  PROVE  LET z == [cpus |-> x.cpus, domains |-> y.domains]
         IN  z \in Topologies /\ z.cpus = x.cpus /\ z.domains = y.domains /\ (x = y => z = x)
BY DEF Topologies

\* What has been validated fits, and is neither of the two marks.
LEMMA SoundFits ==
  ASSUME NEW x, Sound(x)
  PROVE  Fits(x) /\ x # Nothing /\ x # InStorage /\ x \in Topologies
<1>1. x \in Topologies /\ Len(x.cpus) \in 1 .. MaxCpus /\ Len(x.domains) \in 1 .. MaxDomains
  BY DEF Sound, ValidReply
<1>2. Fits(x)
  BY <1>1, KairosAssumption DEF Fits
<1>3. Len(InStorage.cpus) = 0
  BY DEF InStorage
<1>4. x # InStorage
  BY <1>1, <1>3
<1>5. QED
  BY <1>1, <1>2, <1>4, TopologiesAreSomething

\* The storage is replaced by one thread at a time, so after both halves of a
\* copy it holds exactly what that thread has validated.
LEMMA StorageStep ==
  ASSUME QueryInv, StorageInv, Next \/ UNCHANGED kairosVars
  PROVE  /\ StorageInv'
         /\ storage # Nothing => storage' # Nothing
<1> USE DEF StorageInv
<1>1. ASSUME NEW t \in Thread, Acquire(t) PROVE StorageInv' /\ storage' = storage
  BY <1>1, MarksDiffer DEF Acquire, TakeSlot, QueryInv
<1>2. ASSUME NEW t \in Thread, NEW reply \in Reply, Syscall(t, reply)
      PROVE  StorageInv' /\ storage' = storage
  BY <1>2 DEF Syscall, QueryInv
<1>3. ASSUME NEW t \in Thread, Convert(t) PROVE StorageInv' /\ storage' = storage
  <2>1. buffer \in Reply /\ buffer \in Topologies
    BY <1>3, ReplyAssumption DEF Convert, QueryInv
  <2>2. CASE ValidReply(buffer)
    <3>1. Sound(buffer)
      BY <2>1, <2>2 DEF Sound
    <3>2. buffer # InStorage
      BY <3>1, SoundFits
    <3>3. snapshot' = [snapshot EXCEPT ![t] = buffer] /\ UNCHANGED <<storage, keep>>
      BY <1>3, <2>2 DEF Convert
    <3>4. pc' = [pc EXCEPT ![t] = IF keep[t] THEN "store1" ELSE "release"] /\ pc[t] = "answered"
      BY <1>3, <2>2 DEF Convert
    <3>5. pc \in [Thread -> {"idle", "claimed", "answered", "store1", "store2", "release"}]
      BY DEF QueryInv
    <3>6. \A u \in Thread : pc'[u] = "store2" <=> pc[u] = "store2"
      BY <3>4, <3>5
    <3>7. \A u \in Thread : u # t => pc'[u] = pc[u] /\ snapshot'[u] = snapshot[u]
      BY <3>3, <3>4, <3>5
    <3>8. snapshot'[t] = buffer /\ pc'[t] # "store2" /\ DOMAIN snapshot' = Thread
      BY <3>3, <3>4, <3>5
    <3>9. QED
      BY <3>1, <3>2, <3>3, <3>6, <3>7, <3>8
  <2>3. CASE ~ValidReply(buffer)
    BY <1>3, <2>3 DEF Convert, QueryInv
  <2>4. QED
    BY <2>2, <2>3
<1>4. ASSUME NEW t \in Thread, Release(t) PROVE StorageInv' /\ storage' = storage
  BY <1>4 DEF Release, QueryInv
<1>5. ASSUME NEW t \in Thread, NEW n \in 0 .. MaxTotal, Partition(t, n)
      PROVE  StorageInv' /\ storage' = storage
  BY <1>5 DEF Partition
<1>6. ASSUME NEW t \in Thread, StoreCpus(t) PROVE StorageInv' /\ storage' # Nothing
  <2> DEFINE rest == IF storage = Nothing THEN <<>> ELSE storage.domains
  <2>1. /\ pc[t] = "store1" /\ pc' = [pc EXCEPT ![t] = "store2"] /\ UNCHANGED <<keep, snapshot>>
        /\ storage' = [cpus |-> snapshot[t].cpus, domains |-> rest]
    BY <1>6 DEF StoreCpus
  <2>2. \A u \in Thread : pc'[u] = (IF u = t THEN "store2" ELSE pc[u]) /\ (u # t => pc[u] = "idle")
    BY <2>1 DEF QueryInv
  <2>3. Sound(snapshot[t]) /\ Fits(snapshot[t]) /\ snapshot[t] \in Topologies
    BY <2>1, SoundFits
  <2>4. rest \in Seq(DomainRecords) /\ Len(rest) <= MaxDomains
    <3>1. CASE storage = Nothing
      BY <3>1, KairosAssumption
    <3>2. CASE storage # Nothing
      BY <3>2 DEF Fits, Topologies
    <3>3. QED
      BY <3>1, <3>2
  <2> HIDE DEF rest
  <2>5. Fits(storage') /\ storage'.cpus = snapshot[t].cpus
    <3>1. storage'.cpus = snapshot[t].cpus /\ storage'.domains = rest
      BY <2>1
    <3>2. storage' \in Topologies
      BY <2>1, <2>3, <2>4 DEF Topologies
    <3>3. QED
      BY <2>3, <2>4, <3>1, <3>2 DEF Fits
  <2>6. storage' # Nothing
    BY <2>5, TopologiesAreSomething DEF Fits
  <2>7. QED
    BY <2>1, <2>2, <2>3, <2>5, <2>6
<1>7. ASSUME NEW t \in Thread, StoreDomains(t) PROVE StorageInv' /\ storage' # Nothing
  <2>1. /\ pc[t] = "store2" /\ pc' = [pc EXCEPT ![t] = "release"] /\ UNCHANGED keep
        /\ snapshot' = [snapshot EXCEPT ![t] = InStorage]
        /\ storage' = [storage EXCEPT !.domains = snapshot[t].domains]
    BY <1>7 DEF StoreDomains
  <2>2. \A u \in Thread : pc'[u] = (IF u = t THEN "release" ELSE pc[u]) /\ (u # t => pc[u] = "idle")
    BY <2>1 DEF QueryInv
  <2>3. Sound(snapshot[t]) /\ snapshot[t] \in Topologies
    BY <2>1, SoundFits
  <2>4. storage \in Topologies /\ storage.cpus = snapshot[t].cpus
    BY <2>1 DEF Fits
  <2>5. storage' = snapshot[t]
    BY <2>1, <2>3, <2>4 DEF Topologies
  <2>6. Sound(storage') /\ Fits(storage') /\ storage' # Nothing
    BY <2>3, <2>5, SoundFits
  <2>7. /\ DOMAIN snapshot' = Thread
        /\ \A u \in Thread : snapshot'[u] = IF u = t THEN InStorage ELSE snapshot[u]
    BY <2>1
  <2>8. QED
    BY <2>1, <2>2, <2>6, <2>7
<1>8. CASE UNCHANGED kairosVars
  BY <1>8 DEF kairosVars
<1>9. QED
  BY <1>1, <1>2, <1>3, <1>4, <1>5, <1>6, <1>7, <1>8 DEF Next

\* A thread reads a validated topology, or a mixture of two while another
\* thread stores.
LEMMA ReadableFits ==
  ASSUME StorageInv, NEW t \in Thread, snapshot[t] # Nothing, NEW seen \in Readable(t)
  PROVE  Fits(seen) /\ (~(snapshot[t] = InStorage /\ Storing # {}) => Sound(seen))
<1>1. CASE snapshot[t] # InStorage
  <2>1. seen = snapshot[t] /\ Sound(snapshot[t])
    BY <1>1 DEF Readable, StorageInv
  <2>2. QED
    BY <1>1, <2>1, SoundFits
<1>2. CASE snapshot[t] = InStorage
  <2> DEFINE sources == {storage} \cup {snapshot[u] : u \in Storing}
  <2>1. Fits(storage)
    BY <1>2 DEF StorageInv
  <2>2. ASSUME NEW x \in sources PROVE Fits(x)
    <3>1. ASSUME NEW u \in Storing PROVE Fits(snapshot[u])
      BY SoundFits DEF StorageInv, Storing
    <3>2. QED
      BY <2>1, <3>1
  <2>3. PICK x \in sources, y \in sources : seen = [cpus |-> x.cpus, domains |-> y.domains]
    BY <1>2 DEF Readable
  <2>4. /\ seen \in Topologies /\ seen.cpus = x.cpus /\ seen.domains = y.domains
        /\ x = y => seen = x
    <3>1. x \in Topologies /\ y \in Topologies
      BY <2>2 DEF Fits
    <3>2. QED
      BY <2>3, <3>1, Mixture
  <2>5. Fits(seen)
    BY <2>2, <2>4 DEF Fits
  <2>6. ASSUME Storing = {} PROVE Sound(seen)
    <3>1. x = storage /\ y = storage
      BY <2>6
    <3>2. \A u \in Thread : pc[u] # "store2"
      BY <2>6 DEF Storing
    <3>3. Sound(storage)
      BY <1>2, <3>2 DEF StorageInv
    <3>4. QED
      BY <2>4, <3>1, <3>3
  <2>7. QED
    BY <1>2, <2>5, <2>6
<1>3. QED
  BY <1>1, <1>2

\* Work is only ever partitioned over what a thread may read.
LEMMA WorkStep ==
  ASSUME KairosInv, WorkInv, Next \/ UNCHANGED kairosVars
  PROVE  WorkInv'
<1> USE DEF WorkInv
<1>1. ASSUME NEW t \in Thread, Acquire(t) PROVE WorkInv'
  BY <1>1 DEF Acquire, TakeSlot
<1>2. ASSUME NEW t \in Thread, NEW reply \in Reply, Syscall(t, reply) PROVE WorkInv'
  BY <1>2 DEF Syscall
<1>3. ASSUME NEW t \in Thread, Convert(t) PROVE WorkInv'
  BY <1>3 DEF Convert
<1>4. ASSUME NEW t \in Thread, StoreCpus(t) \/ StoreDomains(t) \/ Release(t) PROVE WorkInv'
  BY <1>4 DEF StoreCpus, StoreDomains, Release
<1>5. ASSUME NEW t \in Thread, NEW n \in 0 .. MaxTotal, Partition(t, n) PROVE WorkInv'
  <2> DEFINE torn == snapshot[t] = InStorage /\ Storing # {}
  <2>1. PICK seen \in Readable(t) :
            work' = [work EXCEPT ![t] = [of |-> seen, total |-> n,
                                         slices |-> PartitionWork(seen, n), torn |-> torn]]
    BY <1>5 DEF Partition
  <2>2. n \in Nat /\ snapshot[t] # Nothing /\ UNCHANGED buffer
    BY <1>5, KairosAssumption DEF Partition
  <2>3. Fits(seen) /\ (~torn => Sound(seen))
    BY <2>2, ReadableFits DEF KairosInv
  <2> HIDE DEF torn
  <2> DEFINE done == [of |-> seen, total |-> n, slices |-> PartitionWork(seen, n), torn |-> torn]
  <2>4. /\ done.of = seen /\ done.total = n /\ done.slices = PartitionWork(seen, n)
        /\ done.torn = torn
    OBVIOUS
  <2>5. work' = [work EXCEPT ![t] = done]
    BY <2>1
  <2> HIDE DEF done
  <2>6. QED
    BY <2>2, <2>3, <2>4, <2>5
<1>6. CASE UNCHANGED kairosVars
  BY <1>6 DEF kairosVars
<1>7. QED
  BY <1>1, <1>2, <1>3, <1>4, <1>5, <1>6 DEF Next

\* The boot sequence keeps a topology before the program runs, and nothing
\* takes it away.
LEMMA BootStep ==
  ASSUME KairosInv, BootInv, [ProcessNext]_allVars
  PROVE  BootInv'
<1> USE ProcessAssumption DEF BootInv, KairosInv
<1>k. UNCHANGED kairosVars => UNCHANGED <<pc, keep, snapshot, storage>>
  BY DEF kairosVars
<1>1. CASE ReadStack
  BY <1>1, <1>k DEF ReadStack
<1>2. CASE NegotiateAbi
  <2>1. boot = "abi" /\ boot' \in {"topology", "failed"} /\ UNCHANGED <<pc, keep, snapshot, storage>>
    BY <1>2, <1>k DEF NegotiateAbi
  <2>2. QED
    BY <2>1
<1>3. CASE BootQuery
  <2>1. boot = "topology" /\ boot' = "topology"
    BY <1>3 DEF BootQuery, processVars
  <2>2. CASE Acquire(Main) /\ keep'[Main]
    BY <2>1, <2>2 DEF Acquire, TakeSlot, StorageInv
  <2>3. ASSUME NEW reply \in Reply, Syscall(Main, reply) PROVE BootInv'
    BY <2>1, <2>3 DEF Syscall, QueryInv
  <2>4. CASE Convert(Main)
    <3>1. /\ keep[Main] /\ keep' = keep /\ snapshot[Main] = Nothing
          /\ pc \in [Thread -> {"idle", "claimed", "answered", "store1", "store2", "release"}]
      BY <2>1, <2>4 DEF Convert, QueryInv
    <3>2. CASE ValidReply(buffer)
      BY <2>1, <2>4, <3>1, <3>2 DEF Convert
    <3>3. CASE ~ValidReply(buffer)
      BY <2>1, <2>4, <3>1, <3>3 DEF Convert
    <3>4. QED
      BY <3>2, <3>3
  <2>5. CASE StoreCpus(Main)
    BY <2>1, <2>5 DEF StoreCpus, QueryInv
  <2>6. CASE StoreDomains(Main)
    <3>1. /\ storage # Nothing /\ pc[Main] = "store2" /\ keep' = keep
          /\ pc' = [pc EXCEPT ![Main] = "release"]
          /\ pc \in [Thread -> {"idle", "claimed", "answered", "store1", "store2", "release"}]
      BY <2>6 DEF StoreDomains, QueryInv, StorageInv
    <3>2. storage' # Nothing
      BY <2>6, <3>1, StorageStep DEF Next
    <3>3. QED
      BY <2>1, <3>1, <3>2
  <2>7. CASE Release(Main)
    BY <2>1, <2>7 DEF Release, QueryInv
  <2>8. QED
    BY <1>3, <2>2, <2>3, <2>4, <2>5, <2>6, <2>7 DEF BootQuery
<1>4. CASE BootEnd
  <2>1. CASE Partition(Main, MaxTotal) /\ boot' = "running"
    BY <1>4, <2>1 DEF BootEnd, Partition
  <2>2. CASE boot' = "failed"
    BY <2>2
  <2>3. QED
    BY <1>4, <2>1, <2>2 DEF BootEnd
<1>5. CASE QueryTopology
  <2>1. boot = "running" /\ boot' = "running" /\ Next
    BY <1>5 DEF QueryTopology, Runs, processVars
  <2>2. storage' # Nothing
    BY <2>1, StorageStep
  <2>3. QED
    BY <2>1, <2>2
<1>6. CASE OpenPlane \/ UsePlane \/ WatchThermal
  BY <1>6, <1>k DEF OpenPlane, UsePlane, WatchThermal, Runs, processVars
<1>7. CASE UNCHANGED allVars
  BY <1>7, <1>k DEF allVars, processVars
<1>8. QED
  BY <1>1, <1>2, <1>3, <1>4, <1>5, <1>6, <1>7 DEF ProcessNext

-----------------------------------------------------------------------------
(* The plane                                                               *)

\* The sequence after a submission is the one the frame carries.
LEMMA Numbering ==
  ASSUME PlaneInv, Submit
  PROVE  /\ LastSequence' = nextSequence
         /\ nextSequence # 1 => LastSequence' = LastSequence + 1
         /\ nextSequence' \in 1 .. MaxSeq
BY PlaneAssumption DEF PlaneInv, PlaneShape, Submit, Successor, LastSequence

\* The plane's invariant is inductive, also when a client is made again over
\* the same pages and when the numbers wrap.
LEMMA PlaneStep ==
  ASSUME PlaneInv, (\E raw : Connect(raw)) \/ PlaneNext \/ UNCHANGED planeVars
  PROVE  PlaneInv'
<1> USE PlaneAssumption DEF PlaneInv
<1>1. ASSUME NEW raw, Connect(raw) PROVE PlaneInv'
  BY <1>1 DEF Connect, pageVars, PlaneShape, PlanePending, PlaneCurrent, Active, LastSequence, NoResult
<1>2. CASE Submit
  <2>1. LastSequence' = nextSequence /\ nextSequence' \in 1 .. MaxSeq
    BY <1>2, Numbering
  <2>2. PlaneShape'
    BY <1>2, <2>1 DEF Submit, PlaneShape, NoFrame
  <2>3. PlanePending' /\ Active' /\ result' = NoResult
    BY <1>2, <2>1 DEF Submit, PlaneShape, PlanePending, Active
  <2>4. ingress' # NoFrame => Numbered(ingress.sequence, ingress.id)'
    BY <1>2, <2>1 DEF Submit, Numbered, PlaneShape
  <2>5. CASE nextSequence = 1
    <3>1. ASSUME clean'
          PROVE  working' = NoFrame /\ published' = 0 /\ slot'.sequence = 0
      BY <1>2, <2>5, <3>1 DEF Submit, Unused, PlaneShape
    <3>2. QED
      BY <2>1, <2>2, <2>3, <2>4, <2>5, <3>1 DEF PlaneCurrent, PlaneShape
  <2>6. CASE nextSequence # 1
    <3>1. /\ clean' = clean /\ Active /\ LastSequence' = LastSequence + 1
          /\ commands' = commands + 1 /\ UNCHANGED <<working, slot, published>>
      BY <1>2, <2>6, Numbering DEF Submit, PlanePending
    <3>2. LastSequence \in Nat
      BY DEF LastSequence, PlaneShape
    <3>3. ASSUME NEW s \in Nat, NEW i \in Nat, Numbered(s, i) PROVE Numbered(s, i)'
      BY <3>1, <3>2, <3>3 DEF Numbered, PlaneShape
    <3>4. ASSUME clean'
          PROVE  /\ working' # NoFrame => Numbered(working.sequence, working.id)'
                 /\ slot'.sequence # 0 => Numbered(slot.sequence, slot.id)'
                 /\ published' <= LastSequence'
      BY <3>1, <3>2, <3>3, <3>4 DEF PlaneCurrent, PlaneShape
    <3>5. QED
      BY <2>2, <2>3, <2>4, <3>4 DEF PlaneCurrent
  <2>7. QED
    BY <2>5, <2>6
<1>3. CASE PollSequence
  <2>1. UNCHANGED <<client, nextSequence, ingress, working, published, slot, commands, clean>>
    BY <1>3 DEF PollSequence, pageVars
  <2>2. PlaneShape' /\ LastSequence' = LastSequence
    BY <1>3, <2>1 DEF PollSequence, PlaneShape, LastSequence
  <2>3. Active
    BY <1>3 DEF PollSequence, Active
  <2>4. CASE published = pending
    BY <1>3, <2>1, <2>2, <2>4 DEF PollSequence, PlanePending, PlaneCurrent, Active, Numbered, PlaneShape
  <2>5. CASE published > pending
    <3>1. pending' = 0 /\ result'.kind = "UnexpectedReply" /\ UNCHANGED polling
      BY <1>3, <2>5 DEF PollSequence, PlaneShape
    <3>2. ~clean
      BY <1>3, <2>3, <2>5 DEF PollSequence, PlanePending, PlaneCurrent, PlaneShape
    <3>3. Active'
      BY <3>1 DEF Active, NoResult
    <3>4. ~polling'
      BY <1>3, <3>1 DEF PollSequence
    <3>5. QED
      BY <2>1, <2>2, <3>1, <3>2, <3>3, <3>4 DEF PlanePending, PlaneCurrent
  <2>6. QED
    BY <1>3, <2>4, <2>5 DEF PollSequence, PlaneShape
<1>4. CASE PollReply
  <2>1. UNCHANGED <<client, nextSequence, ingress, working, published, slot, commands, clean>>
    BY <1>4 DEF PollReply, pageVars
  <2>2. LastSequence' = LastSequence /\ pending # 0 /\ Active /\ ~polling'
    BY <1>4, <2>1 DEF PollReply, LastSequence, PlanePending, Active
  <2>3. CASE slot.sequence = pending /\ slot.status # "Garbled"
    <3>1. pending' = 0 /\ result' = [kind |-> slot.status, id |-> slot.id]
      BY <1>4, <2>3 DEF PollReply, Answered
    <3>2. PlaneShape'
      BY <2>1, <3>1 DEF PlaneShape
    <3>3. result'.kind \in {"Ok", "Denied"} /\ Active'
      BY <2>3, <3>1 DEF PlaneShape, Active, NoResult
    <3>4. clean => result'.id = commands
      BY <2>2, <2>3, <3>1 DEF PlaneShape, PlaneCurrent, PlanePending, Numbered, LastSequence
    <3>5. QED
      BY <2>1, <2>2, <3>1, <3>2, <3>3, <3>4 DEF PlanePending, PlaneCurrent, Numbered
  <2>4. CASE ~(slot.sequence = pending /\ slot.status # "Garbled")
    <3>1. UNCHANGED <<pending, result>>
      BY <1>4, <2>4 DEF PollReply
    <3>2. QED
      BY <2>1, <2>2, <3>1 DEF PlaneShape, PlanePending, PlaneCurrent, Active, Numbered
  <2>5. QED
    BY <2>3, <2>4
<1>5. CASE Fetch
  BY <1>5 DEF Fetch, clientVars, PlaneShape, PlanePending, PlaneCurrent, Active, LastSequence, Numbered
<1>6. CASE Lose
  BY <1>6 DEF Lose, clientVars, PlaneShape, PlanePending, PlaneCurrent, Active, LastSequence, Numbered
<1>7. CASE Announce
  BY <1>7 DEF Announce, clientVars, PlaneShape, PlanePending, PlaneCurrent, Active, LastSequence, Numbered
<1>8. CASE Answer
  BY <1>8 DEF Answer, clientVars, PlaneShape, PlanePending, PlaneCurrent, Active, LastSequence, Numbered
<1>9. CASE UNCHANGED planeVars
  BY <1>9 DEF planeVars, pageVars, clientVars, PlaneShape, PlanePending, PlaneCurrent, Active, LastSequence, Numbered
<1>10. QED
  BY <1>1, <1>2, <1>3, <1>4, <1>5, <1>6, <1>7, <1>8, <1>9 DEF PlaneNext

\* A new client carries the same handle as the one before it, so the frames
\* of the older one that are still in the pages carry it too.
LEMMA GrantStep ==
  ASSUME GrantInv, PlaneShape, [ProcessNext]_allVars
  PROVE  GrantInv'
<1> USE DEF GrantInv, Received
<1>p. UNCHANGED planeVars => UNCHANGED <<client, capability, ingress, working>>
  BY DEF planeVars, clientVars, pageVars
<1>1. CASE ReadStack
  BY <1>1, <1>p DEF ReadStack
<1>2. CASE NegotiateAbi
  <2>1. UNCHANGED <<entry, environment, client, capability, ingress, working>> /\ boot = "abi"
    BY <1>2, <1>p DEF NegotiateAbi
  <2>2. \/ boot' = "topology" /\ RequiredBits \subseteq features'
        \/ boot' = "failed"
    BY <1>2 DEF NegotiateAbi
  <2>3. QED
    BY <2>1, <2>2 DEF RequiredBits
<1>3. CASE BootQuery \/ QueryTopology \/ WatchThermal
  BY <1>3, <1>p DEF BootQuery, QueryTopology, WatchThermal, Runs, processVars, RequiredBits
<1>4. CASE BootEnd
  <2>1. /\ UNCHANGED <<entry, environment, features, client, capability, ingress, working>>
        /\ boot = "topology" /\ boot' \in {"running", "failed"}
    BY <1>4, <1>p DEF BootEnd
  <2>2. QED
    BY <2>1 DEF RequiredBits
<1>5. CASE OpenPlane
  <2>1. UNCHANGED <<entry, boot, environment, features, ingress, working>> /\ boot = "running"
    BY <1>5 DEF OpenPlane, Runs, processVars, Connect, pageVars
  <2>2. Received.error = "none" /\ capability' = Received.raw
    BY <1>5 DEF OpenPlane, Connect
  <2>3. QED
    <3>1. client' # 0
      BY <1>5, PlaneAssumption DEF OpenPlane, Connect, PlaneShape
    <3>2. QED
      BY <2>1, <2>2, <3>1 DEF RequiredBits
<1>6. CASE UsePlane
  <2>1. UNCHANGED <<entry, boot, environment, features, client, capability>>
    BY <1>6 DEF UsePlane, Runs, processVars, PlaneNext, Submit, PollSequence, PollReply,
                Fetch, Lose, Announce, Answer, clientVars
  <2>2. \A f \in {ingress', working'} : f # NoFrame => client # 0 /\ f.capability = capability
    BY <1>6 DEF UsePlane, PlaneNext, Submit, PollSequence, PollReply,
                Fetch, Lose, Announce, Answer, clientVars, pageVars
  <2>3. QED
    BY <2>1, <2>2 DEF RequiredBits
<1>7. CASE UNCHANGED allVars
  BY <1>7, <1>p DEF allVars, processVars, RequiredBits
<1>8. QED
  BY <1>1, <1>2, <1>3, <1>4, <1>5, <1>6, <1>7 DEF ProcessNext

-----------------------------------------------------------------------------
(* The environment                                                         *)

\* Two sequences, each ended by a null, one behind the other.
LEMMA TwoBlocks ==
  ASSUME NEW T, NEW x \in Seq(T), NEW y \in Seq(T), NEW null \in T,
         NEW w, w = x \o <<null>> \o y \o <<null>>
  PROVE  /\ w \in Seq(T)
         /\ Len(w) = Len(x) + Len(y) + 2
         /\ \A i \in 1 .. Len(y) : w[Len(x) + 1 + i] = y[i]
         /\ w[Len(x) + Len(y) + 2] = null
<1> DEFINE z == <<null>>
           xz == x \o z
           xzy == xz \o y
<1>1. z \in Seq(T) /\ Len(z) = 1 /\ z[1] = null
  OBVIOUS
<1>2. Len(x) \in Nat /\ Len(y) \in Nat
  OBVIOUS
<1>w. w = xzy \o z
  OBVIOUS
<1> HIDE DEF z
<1>3. xz \in Seq(T) /\ Len(xz) = Len(x) + Len(z)
  BY <1>1, ConcatProperties, Zenon
<1> HIDE DEF xz
<1>4. /\ xzy \in Seq(T) /\ Len(xzy) = Len(xz) + Len(y)
      /\ \A i \in 1 .. Len(xz) + Len(y) :
            xzy[i] = IF i <= Len(xz) THEN xz[i] ELSE y[i - Len(xz)]
  <2>1. xz \in Seq(T) /\ y \in Seq(T)
    BY <1>3
  <2>2. QED
    BY <2>1, ConcatProperties, ZenonT(30)
<1> HIDE DEF xzy
<1>5. /\ w \in Seq(T) /\ Len(w) = Len(xzy) + Len(z)
      /\ \A i \in 1 .. Len(xzy) + Len(z) :
            w[i] = IF i <= Len(xzy) THEN xzy[i] ELSE z[i - Len(xzy)]
  <2>1. /\ xzy \o z \in Seq(T) /\ Len(xzy \o z) = Len(xzy) + Len(z)
        /\ \A i \in 1 .. Len(xzy) + Len(z) :
              (xzy \o z)[i] = IF i <= Len(xzy) THEN xzy[i] ELSE z[i - Len(xzy)]
    <3>1. xzy \in Seq(T) /\ z \in Seq(T)
      BY <1>1, <1>4
    <3>2. QED
      BY <3>1, ConcatProperties, Zenon
  <2>2. QED
    BY <1>w, <2>1, Zenon
<1>6. Len(xz) = Len(x) + 1 /\ Len(xzy) = Len(x) + Len(y) + 1 /\ Len(w) = Len(x) + Len(y) + 2
  BY <1>1, <1>2, <1>3, <1>4, <1>5
<1>7. ASSUME NEW i \in 1 .. Len(y) PROVE w[Len(x) + 1 + i] = y[i]
  <2>1. w[Len(x) + 1 + i] = xzy[Len(x) + 1 + i]
    BY <1>1, <1>2, <1>5, <1>6, SMTT(30)
  <2>2. xzy[Len(x) + 1 + i] = y[Len(x) + 1 + i - Len(xz)]
    <3> DEFINE k == Len(x) + 1 + i
    <3>1. k \in 1 .. Len(xz) + Len(y) /\ ~(k <= Len(xz))
      BY <1>2, <1>6
    <3> HIDE DEF k
    <3>2. xzy[k] = y[k - Len(xz)]
      BY <1>4, <3>1, Zenon
    <3>3. QED
      BY <3>2 DEF k
  <2>3. Len(x) + 1 + i - Len(xz) = i
    BY <1>2, <1>6
  <2>4. QED
    BY <2>1, <2>2, <2>3
<1>8. w[Len(x) + Len(y) + 2] = null
  BY <1>1, <1>2, <1>5, <1>6
<1>9. QED
  BY <1>5, <1>6, <1>7, <1>8

\* When argc is not capped, a scan from envp_base visits the environment
\* and nothing else: it starts behind the null that ends the arguments and
\* stops at the null that ends the environment.
LEMMA ScanIsEnvironment ==
  ASSUME NEW S, Null \notin S, NEW stack,
         stack.args \in Seq(S), stack.env \in Seq(S), ArgsFit(stack)
  PROVE  EnvBlock(stack) = stack.env
<1> DEFINE T == S \cup {Null}
           env == stack.env
           a == Len(stack.args)
           n == Len(env)
           words == Words(stack)
           nulls == {i \in a + 2 .. Len(words) : words[i] = Null}
           end == IF nulls # {} THEN Min(nulls) ELSE 0
<1>0. stack.args \in Seq(T) /\ env \in Seq(T) /\ env \in Seq(S)
  BY SeqMonotonic
<1>1. a \in Nat /\ n \in Nat
  BY <1>0, LenProperties
<1>2. EnvpBase(stack) = a + 2
  BY <1>1, EntryAssumption DEF EnvpBase, Argc, AtMost, ArgsFit
<1>3. /\ words \in Seq(T) /\ Len(words) = a + n + 2
      /\ \A i \in 1 .. n : words[a + 1 + i] = env[i]
      /\ words[a + n + 2] = Null
  <2>1. Null \in T
    OBVIOUS
  <2>2. words = stack.args \o <<Null>> \o env \o <<Null>>
    BY DEF Words
  <2> HIDE DEF T, env, words
  <2>3. QED
    BY <1>0, <2>1, <2>2, TwoBlocks, SMTT(30) DEF a, n
<1>4. \A i \in 1 .. n : env[i] \in S /\ env[i] # Null
  BY <1>0, ElementOfSeq
<1>5. EnvBlock(stack) = SubSeq(words, a + 2, end - 1)
  BY <1>2 DEF EnvBlock, SelectInSubSeq
<1> HIDE DEF T, env, a, n, words, nulls, end
<1>6. nulls = {a + n + 2}
  <2>1. ASSUME NEW i \in a + 2 .. a + n + 1 PROVE words[i] # Null
    <3>1. PICK j \in 1 .. n : i = a + 1 + j
      <4>1. i - a - 1 \in 1 .. n /\ i = a + 1 + (i - a - 1)
        BY <1>1
      <4>2. QED
        BY <4>1
    <3>2. QED
      BY <1>3, <1>4, <3>1
  <2>2. QED
    BY <1>1, <1>3, <2>1 DEF nulls
<1>7. \A m \in Nat : Min({m}) = m
  BY DEF Min
<1>8. Min(nulls) = a + n + 2 /\ nulls # {}
  BY <1>1, <1>6, <1>7
<1>9. EnvBlock(stack) = SubSeq(words, a + 2, a + n + 1)
  <2>1. end = a + n + 2
    BY <1>8 DEF end
  <2>2. end - 1 = a + n + 1
    BY <1>1, <2>1
  <2>3. QED
    BY <1>5, <2>2
<1>10. SubSeq(words, a + 2, a + n + 1) = env
  <2>1. \A i \in a + 2 .. a + n + 1 : words[i] \in T
    BY <1>1, <1>3, ElementOfSeq
  <2>2. /\ SubSeq(words, a + 2, a + n + 1) \in Seq(T)
        /\ Len(SubSeq(words, a + 2, a + n + 1)) = n
        /\ \A i \in 1 .. n : SubSeq(words, a + 2, a + n + 1)[i] = words[a + 1 + i]
    BY <1>1, <2>1, SubSeqProperties
  <2>3. QED
    BY <1>0, <1>1, <1>3, <2>2, SeqEqual DEF n
<1>11. QED
  BY <1>9, <1>10 DEF env

\* Over the environment itself, an entry that the kernel did not mean is not
\* found, by get where every value of the key has a character, and by
\* get_phase where every entry has its '='.
LEMMA SameSelection ==
  ASSUME NEW S, NEW stack, stack.env \in Seq(S), EnvBlock(stack) = stack.env, NEW key
  PROVE  /\ GetSuits(stack, key) => EnvGet(stack, key) = KernelValue(stack, key)
         /\ GetPhaseSuits(stack) => EnvGetPhase(stack, key) = KernelValue(stack, key)
<1> DEFINE env == stack.env
           own == {i \in 1 .. Len(env) : env[i].eq /\ env[i].key = key}
           first == IF own # {} THEN Min(own) ELSE 0
           got == {i \in 1 .. Len(env) : env[i].eq /\ env[i].key = key /\ env[i].value # <<>>}
           seen == {i \in 1 .. Len(env) : ~env[i].eq \/ env[i].key = key}
           stop == IF seen # {} THEN Min(seen) ELSE 0
<1>1. KernelValue(stack, key) = ValueAt(env, first)
  BY DEF KernelValue, SelectInSeq
<1>2. EnvGet(stack, key) = ValueAt(env, IF got # {} THEN Min(got) ELSE 0)
  BY DEF EnvGet, SelectInSeq
<1>3. EnvGetPhase(stack, key) =
          IF stop # 0 /\ ~env[stop].eq THEN NotFound ELSE ValueAt(env, stop)
  BY DEF EnvGetPhase, SelectInSeq
<1>4. DOMAIN env = 1 .. Len(env)
  BY LenProperties
<1>5. ASSUME GetSuits(stack, key) PROVE got = own
  BY <1>4, <1>5 DEF GetSuits
<1>6. ASSUME GetPhaseSuits(stack) PROVE seen = own
  BY <1>4, <1>6 DEF GetPhaseSuits
<1> HIDE DEF env, own, got, seen
<1>7. ASSUME GetSuits(stack, key) PROVE EnvGet(stack, key) = KernelValue(stack, key)
  BY <1>1, <1>2, <1>5, <1>7
<1>8. ASSUME GetPhaseSuits(stack) PROVE EnvGetPhase(stack, key) = KernelValue(stack, key)
  <2>1. stop = first
    BY <1>6, <1>8
  <2>2. ASSUME stop # 0 PROVE stop \in DOMAIN env
    <3>1. own # {} /\ stop = Min(own)
      BY <2>1, <2>2
    <3>2. own \subseteq Nat
      BY DEF own
    <3>3. stop \in own
      BY <3>1, <3>2, MinIsMember
    <3>4. QED
      BY <1>4, <3>3 DEF own
  <2>3. stop # 0 => env[stop].eq
    BY <1>8, <2>2 DEF GetPhaseSuits, env
  <2>4. QED
    BY <1>1, <1>3, <2>1, <2>3
<1>9. QED
  BY <1>7, <1>8

\* The entries with a '=', with their positions.
LEMMA PairsAre ==
  ASSUME NEW env \in Seq(Strings)
  PROVE  /\ Pairs(env) \in Seq(Strings)
         /\ \E c \in Nat : \E pos \in [1 .. c -> 1 .. Len(env)] :
                Picks(env, {i \in DOMAIN env : env[i].eq}, Len(env), Pairs(env), c, pos)
<1> DEFINE m == Len(env)
           I == {i \in DOMAIN env : env[i].eq}
<1>1. m \in Nat /\ DOMAIN env = 1 .. m /\ env \in [1 .. m -> Strings]
  OBVIOUS
<1>2. I \subseteq 1 .. m
  BY <1>1
<1>3. Pairs(env) = Selected(env, I)
  BY DEF Pairs
<1> HIDE DEF m, I
<1>4. /\ Selected(env, I) \in Seq(Strings)
      /\ \E c \in Nat : \E pos \in [1 .. c -> 1 .. m] : Picks(env, I, m, Selected(env, I), c, pos)
  BY <1>1, <1>2, SelectedIs
<1>5. QED
  BY <1>3, <1>4 DEF m, I

\* A part of a sequence that is all of it.
LEMMA WholeSubSeq ==
  ASSUME NEW T, NEW s \in Seq(T)
  PROVE  SubSeq(s, 1, Len(s)) = s
<1> DEFINE n == Len(s)
           part == SubSeq(s, 1, n)
<1>1. n \in Nat /\ \A i \in 1 .. n : s[i] \in T
  BY ElementOfSeq, LenProperties
<1>2. part \in Seq(T) /\ Len(part) = n /\ \A i \in 1 .. n : part[i] = s[i]
  BY <1>1
<1> HIDE DEF part
<1>3. part = s
  BY <1>1, <1>2, SeqEqual
<1>4. QED
  BY <1>3 DEF part

\* collapse (env.rs 213-233) drops nothing where everything fits.
LEMMA SnapshotIsPairs ==
  ASSUME NEW stack, stack.env \in Seq(Strings), EnvBlock(stack) = stack.env, SnapshotFits(stack)
  PROVE  Collapse(stack) = Pairs(stack.env)
<1> DEFINE env == stack.env
           pairs == Pairs(env)
           I == {i \in DOMAIN env : env[i].eq}
<1>1. pairs \in Seq(Strings) /\ Len(pairs) \in Nat /\ DOMAIN pairs = 1 .. Len(pairs)
  <2>1. pairs \in Seq(Strings)
    BY PairsAre
  <2> HIDE DEF pairs
  <2>2. QED
    BY <2>1
<1>2. AtMost(Len(pairs), MaxEnvVars) = Len(pairs)
  <2>1. Len(pairs) <= MaxEnvVars
    BY DEF SnapshotFits
  <2> HIDE DEF pairs
  <2>2. QED
    BY <1>1, <2>1, EntryAssumption DEF AtMost
<1>3. SubSeq(pairs, 1, Len(pairs)) = pairs
  BY <1>1, WholeSubSeq
<1>4. Collapse(stack) = [i \in DOMAIN pairs |->
            [pairs[i] EXCEPT !.value = SubSeq(pairs[i].value, 1, AtMost(Len(pairs[i].value), MaxValueLen))]]
  BY <1>2, <1>3 DEF Collapse
<1>5. ASSUME NEW i \in DOMAIN pairs
      PROVE  [pairs[i] EXCEPT !.value = SubSeq(pairs[i].value, 1, AtMost(Len(pairs[i].value), MaxValueLen))] = pairs[i]
  <2> DEFINE e == pairs[i]
             v == e.value
  <2>1. e \in Strings
    <3> HIDE DEF pairs
    <3>1. QED
      BY <1>1
  <2>2. v \in Seq(STRING) /\ Len(v) \in Nat
    BY <2>1 DEF Strings
  <2>3. Len(v) <= MaxValueLen
    <3>1. PICK c \in Nat : \E pos \in [1 .. c -> 1 .. Len(env)] : Picks(env, I, Len(env), pairs, c, pos)
      BY PairsAre
    <3>2. PICK pos \in [1 .. c -> 1 .. Len(env)] : Picks(env, I, Len(env), pairs, c, pos)
      BY <3>1
    <3> HIDE DEF pairs
    <3>3. pairs[i] = env[pos[i]] /\ pos[i] \in DOMAIN env
      BY <1>1, <3>2 DEF Picks
    <3>4. QED
      BY <3>3 DEF SnapshotFits
  <2>4. SubSeq(v, 1, AtMost(Len(v), MaxValueLen)) = v
    <3>1. AtMost(Len(v), MaxValueLen) = Len(v)
      BY <2>2, <2>3, EntryAssumption DEF AtMost
    <3>2. SubSeq(v, 1, Len(v)) = v
      BY <2>2, WholeSubSeq
    <3>3. QED
      BY <3>1, <3>2
  <2>5. [e EXCEPT !.value = e.value] = e
    <3> HIDE DEF e
    <3>1. QED
      BY <2>1 DEF Strings
  <2>6. QED
    BY <2>4, <2>5
<1> HIDE DEF pairs
<1>6. pairs = [i \in DOMAIN pairs |-> pairs[i]]
  BY <1>1
<1>7. Collapse(stack) = pairs
  BY <1>4, <1>5, <1>6
<1>8. QED
  BY <1>7 DEF pairs

\* The first entry of a key among those with a '=' is the first one of the
\* environment.
LEMMA FirstOfPairs ==
  ASSUME NEW stack, stack.env \in Seq(Strings), NEW key
  PROVE  SnapshotGet(Pairs(stack.env), key) = KernelValue(stack, key)
<1> DEFINE env == stack.env
           pairs == Pairs(env)
           I == {i \in DOMAIN env : env[i].eq}
           own == {i \in 1 .. Len(env) : env[i].eq /\ env[i].key = key}
           kept == {a \in 1 .. Len(pairs) : pairs[a].key = key}
<1>1. PICK c \in Nat : \E pos \in [1 .. c -> 1 .. Len(env)] : Picks(env, I, Len(env), pairs, c, pos)
  BY PairsAre
<1>2. PICK pos \in [1 .. c -> 1 .. Len(env)] : Picks(env, I, Len(env), pairs, c, pos)
  BY <1>1
<1>3. KernelValue(stack, key) = ValueAt(env, IF own # {} THEN Min(own) ELSE 0)
  BY DEF KernelValue, SelectInSeq
<1>4. SnapshotGet(pairs, key) = ValueAt(pairs, IF kept # {} THEN Min(kept) ELSE 0)
  BY DEF SnapshotGet, SelectInSeq
<1> HIDE DEF pairs
<1>5. Len(env) \in Nat /\ DOMAIN env = 1 .. Len(env)
  OBVIOUS
<1>6. /\ Len(pairs) = c
      /\ \A a \in 1 .. c : env[pos[a]].eq /\ pos[a] \in 1 .. Len(env) /\ pairs[a] = env[pos[a]]
      /\ \A a, b \in 1 .. c : a < b => pos[a] < pos[b]
      /\ \A i \in 1 .. Len(env) : env[i].eq => \E a \in 1 .. c : pos[a] = i
  BY <1>2, <1>5 DEF Picks
<1>7. \A a \in kept : pos[a] \in own /\ a \in 1 .. c
  BY <1>6
<1>8. ASSUME NEW i \in own PROVE \E a \in kept : pos[a] = i
  <2>1. i \in 1 .. Len(env) /\ env[i].eq /\ env[i].key = key
    OBVIOUS
  <2>2. PICK a \in 1 .. c : pos[a] = i
    BY <1>6, <2>1
  <2>3. a \in kept
    BY <1>6, <2>1, <2>2
  <2>4. QED
    BY <2>2, <2>3
<1>n. own \in SUBSET Nat /\ kept \in SUBSET Nat
  BY <1>5, <1>6
<1> HIDE DEF own, kept
<1>9. CASE own = {}
  <2>1. kept = {}
    BY <1>7, <1>9
  <2>2. QED
    BY <1>3, <1>4, <1>9, <2>1 DEF ValueAt, pairs
<1>10. CASE own # {}
  <2> DEFINE x == Min(own)
             y == Min(kept)
  <2>1. x \in own /\ \A i \in own : x <= i
    BY <1>10, <1>n, MinIsMember
  <2>2. kept # {}
    BY <1>8, <1>10
  <2>3. y \in kept /\ \A a \in kept : y <= a
    BY <1>n, <2>2, MinIsMember
  <2> HIDE DEF x, y
  <2>4. PICK a \in kept : pos[a] = x
    BY <1>8, <2>1
  <2>5. y = a
    <3>1. y <= a /\ y \in 1 .. c /\ a \in 1 .. c
      BY <1>7, <2>3, <2>4
    <3>2. x <= pos[y]
      BY <1>7, <2>1, <2>3
    <3>3. ~(y < a)
      <4>1. ASSUME y < a PROVE FALSE
        <5>1. pos[y] < pos[a]
          BY <1>6, <3>1, <4>1
        <5>2. pos[y] \in Nat /\ pos[a] \in Nat
          BY <3>1
        <5>3. QED
          BY <2>4, <3>2, <5>1, <5>2
      <4>2. QED
        BY <4>1
    <3>4. QED
      BY <3>1, <3>3
  <2>6. pairs[y] = env[x] /\ x # 0 /\ y # 0
    <3>1. y \in 1 .. c /\ pos[y] = x /\ x \in 1 .. Len(env)
      BY <1>6, <1>7, <2>3, <2>4, <2>5
    <3>2. QED
      BY <1>5, <1>6, <3>1
  <2>7. SnapshotGet(pairs, key) = ValueAt(pairs, y) /\ KernelValue(stack, key) = ValueAt(env, x)
    BY <1>3, <1>4, <1>10, <2>2 DEF x, y
  <2>8. QED
    BY <2>6, <2>7 DEF ValueAt, pairs
<1>11. QED
  BY <1>9, <1>10

\* No entry stack holds a null in place of a string.
LEMMA StackTypes ==
  ASSUME NEW stack \in Stack \cup {Bare}
  PROVE  /\ stack.args \in Seq(Strings \ {Null}) /\ stack.env \in Seq(Strings \ {Null})
         /\ stack.env \in Seq(Strings)
<1>1. stack.args \in Seq(Strings \ {Null}) /\ stack.env \in Seq(Strings \ {Null})
  <2>1. CASE stack \in Stack
    BY <2>1, StackAssumption
  <2>2. CASE stack = Bare
    BY <2>2 DEF Bare
  <2>3. QED
    BY <2>1, <2>2
<1>2. QED
  BY <1>1, SeqMonotonic

\* collapse (env.rs 213-233), QuantumEnv::get (147-162) and get_phase (165-181)
\* read from every entry stack, for any key, what the kernel put there for it,
\* each under its condition of LookupsAreFaithful.
THEOREM GetsAreFaithful ==
  ASSUME NEW stack \in Stack \cup {Bare}, ArgsFit(stack), NEW key
  PROVE  /\ SnapshotFits(stack) => SnapshotGet(Collapse(stack), key) = KernelValue(stack, key)
         /\ GetSuits(stack, key) => EnvGet(stack, key) = KernelValue(stack, key)
         /\ GetPhaseSuits(stack) => EnvGetPhase(stack, key) = KernelValue(stack, key)
<1> DEFINE S == Strings \ {Null}
<1>1. stack.args \in Seq(S) /\ stack.env \in Seq(S) /\ Null \notin S /\ stack.env \in Seq(Strings)
  BY StackTypes
<1> HIDE DEF S
<1>2. EnvBlock(stack) = stack.env
  BY <1>1, ScanIsEnvironment
<1>3. ASSUME SnapshotFits(stack)
      PROVE  SnapshotGet(Collapse(stack), key) = KernelValue(stack, key)
  <2>1. Collapse(stack) = Pairs(stack.env)
    BY <1>1, <1>2, <1>3, SnapshotIsPairs
  <2>2. SnapshotGet(Pairs(stack.env), key) = KernelValue(stack, key)
    BY <1>1, FirstOfPairs
  <2>3. QED
    BY <2>1, <2>2
<1>4. QED
  BY <1>1, <1>2, <1>3, SameSelection

-----------------------------------------------------------------------------
(* The text of a capability                                                *)

\* The digits stand for numbers.
LEMMA DigitsAreNumbers == \A c : Worth(c) \in Nat
<1>1. ASSUME NEW c \in DOMAIN DigitValue PROVE DigitValue[c] \in Nat
  BY DEF DigitValue
<1>2. QED
  BY <1>1 DEF Worth

\* What a round of parse_handle may leave.
Readings == [error : {"none", "Malformed", "Overflow"}, raw : Nat]

\* What is read of a text, and how long it is.
IsRead(bytes, digits, m) == digits = Digits(bytes) /\ Len(digits) = m

\* There is a digit among them (capability.rs 133-135).
HasDigit(digits) == \E i \in DOMAIN digits : digits[i] # "_"

\* The rounds of the reference definition.
IsNumber(number, bytes, digits, m) ==
    /\ Number(bytes) = number[m]
    /\ number[0] = 0
    /\ \A i \in 1 .. m :
        number[i] = IF digits[i] = "_" THEN number[i - 1]
                    ELSE number[i - 1] * Radix(bytes) + Worth(digits[i])

\* Number has a value after each digit of the text.
LEMMA NumberRounds ==
  ASSUME NEW bytes, NEW m \in Nat, NEW digits, IsRead(bytes, digits, m)
  PROVE  \E number \in [0 .. m -> Nat] : IsNumber(number, bytes, digits, m)
<1> DEFINE V == Nat
           zero == 0
           radix == Radix(bytes)
           w == [i \in 1 .. m |-> Worth(digits[i])]
           G == [i \in 1 .. m |-> [n \in V |-> IF digits[i] = "_" THEN n ELSE n * radix + w[i]]]
           Is(g) == g = [i \in 0 .. m |->
                            IF i = 0 THEN 0
                            ELSE IF digits[i] = "_" THEN g[i - 1]
                            ELSE g[i - 1] * radix + Worth(digits[i])]
<1>r. radix \in Nat
  BY DEF Radix
<1>w. \A i \in 1 .. m : w[i] = Worth(digits[i]) /\ w[i] \in Nat
  BY DigitsAreNumbers
<1>n. Number(bytes) = (CHOOSE g : Is(g))[m]
  BY DEF Number, IsRead
<1> HIDE DEF radix, w
<1>1. zero \in V /\ G \in [1 .. m -> [V -> V]]
  <2>1. ASSUME NEW i \in 1 .. m, NEW n \in Nat PROVE n * radix + w[i] \in Nat
    <3>1. n * radix \in Nat
      BY <1>r, Products
    <3>2. QED
      BY <1>w, <3>1
  <2>2. QED
    BY <2>1
<1>2. \A i \in 1 .. m, n \in V : G[i][n] = IF digits[i] = "_" THEN n ELSE n * radix + w[i]
  OBVIOUS
<1> HIDE DEF G
<1>3. PICK g \in [0 .. m -> V] : IsLoop(g, m, zero, G)
  <2> HIDE DEF V, zero
  <2>1. QED
    BY <1>1, Rounds, Zenon
<1>4. ASSUME NEW i \in 1 .. m
      PROVE  g[i] = IF digits[i] = "_" THEN g[i - 1] ELSE g[i - 1] * radix + Worth(digits[i])
  <2>1. i - 1 \in 0 .. m
    OBVIOUS
  <2>2. g[i - 1] \in V
    BY <2>1
  <2>3. g[i] = G[i][g[i - 1]]
    BY <1>3 DEF IsLoop
  <2> HIDE DEF V
  <2>4. g[i] = IF digits[i] = "_" THEN g[i - 1] ELSE g[i - 1] * radix + w[i]
    BY <1>2, <2>2, <2>3, Zenon
  <2>5. QED
    BY <1>w, <2>4
<1>5. g[0] = 0
  BY <1>3 DEF IsLoop
<1>6. Is(g)
  <2> DEFINE h == [i \in 0 .. m |->
                            IF i = 0 THEN 0
                            ELSE IF digits[i] = "_" THEN g[i - 1]
                            ELSE g[i - 1] * radix + Worth(digits[i])]
  <2>1. ASSUME NEW i \in 0 .. m PROVE g[i] = h[i]
    <3>1. CASE i = 0
      BY <1>5, <3>1
    <3>2. CASE i # 0
      <4>1. i \in 1 .. m
        BY <3>2
      <4>2. h[i] = IF digits[i] = "_" THEN g[i - 1] ELSE g[i - 1] * radix + Worth(digits[i])
        BY <3>2
      <4> HIDE DEF h
      <4>3. QED
        BY <1>4, <4>1, <4>2, Zenon
    <3>3. QED
      BY <3>1, <3>2
  <2>2. h = [i \in 0 .. m |-> h[i]] /\ g = [i \in 0 .. m |-> g[i]]
    OBVIOUS
  <2> HIDE DEF h
  <2>3. g = h
    BY <2>1, <2>2, Zenon
  <2>4. QED
    BY <2>3 DEF h
<1> DEFINE number == CHOOSE h : Is(h)
<1> HIDE DEF Is
<1>7. Is(number)
  BY <1>6, Zenon
<1>s. Number(bytes) = number[m]
  BY <1>n
<1> HIDE DEF number
<1>8. number = [i \in 0 .. m |->
                    IF i = 0 THEN 0
                    ELSE IF digits[i] = "_" THEN number[i - 1]
                    ELSE number[i - 1] * radix + Worth(digits[i])]
  BY <1>7, Zenon DEF Is
<1>9. number[0] = 0
  <2>1. 0 \in 0 .. m
    OBVIOUS
  <2>2. QED
    BY <1>8, <2>1, Zenon
<1>10. ASSUME NEW i \in 1 .. m
       PROVE  number[i] = IF digits[i] = "_" THEN number[i - 1]
                          ELSE number[i - 1] * radix + Worth(digits[i])
  <2>1. i \in 0 .. m /\ i # 0
    OBVIOUS
  <2>2. QED
    BY <1>8, <2>1
<1>11. \A i \in 0 .. m : number[i] \in Nat
  <2> DEFINE S == {i \in 0 .. m : number[i] \in Nat}
  <2>1. 0 \in S
    BY <1>9
  <2>2. ASSUME NEW i \in 1 .. m, i - 1 \in S PROVE i \in S
    <3>1. number[i - 1] \in Nat /\ number[i - 1] * radix \in Nat /\ Worth(digits[i]) \in Nat
      BY <1>r, <2>2, Products, DigitsAreNumbers
    <3> DEFINE p == number[i - 1] * radix
               d == Worth(digits[i])
    <3>p. p + d \in Nat
      <4> HIDE DEF p, d
      <4>1. p \in Nat /\ d \in Nat
        BY <3>1 DEF p, d
      <4>2. QED
        BY <4>1
    <3>2. number[i] \in Nat
      BY <1>10, <3>1, <3>p, Zenon
    <3>3. QED
      BY <3>2
  <2> HIDE DEF S
  <2>3. \A i \in 0 .. m : i \in S
    BY <2>1, <2>2, UpTo
  <2>4. QED
    BY <2>3 DEF S
<1>12. number \in [0 .. m -> Nat]
  <2>1. number = [i \in 0 .. m |-> number[i]]
    BY <1>8, Zenon
  <2>2. QED
    BY <1>11, <2>1
<1>13. QED
  BY <1>s, <1>9, <1>10, <1>12, Zenon DEF radix, IsNumber

\* The rounds of parse_handle.
IsValue(value, bytes, digits, m) ==
    /\ ParseHandle(bytes) = value[m]
    /\ value[0] = Handle(0)
    /\ \A i \in 1 .. m : value[i] = TakeDigit(value[i - 1], digits[i], Radix(bytes))

\* parse_handle has a reading after each digit of the text.
LEMMA ParseRounds ==
  ASSUME NEW bytes, NEW m \in Nat, NEW digits, IsRead(bytes, digits, m), HasDigit(digits)
  PROVE  \E value \in [0 .. m -> Readings] : IsValue(value, bytes, digits, m)
<1> DEFINE V == Readings
           zero == Handle(0)
           radix == Radix(bytes)
           G == [i \in 1 .. m |-> [a \in V |-> TakeDigit(a, digits[i], radix)]]
           Is(g) == g = [i \in 0 .. m |->
                            IF i = 0 THEN Handle(0) ELSE TakeDigit(g[i - 1], digits[i], radix)]
<1>r. radix \in Nat
  BY DEF Radix
<1>n. ParseHandle(bytes) = (CHOOSE g : Is(g))[m]
  BY DEF ParseHandle, IsRead, HasDigit
<1> HIDE DEF radix
<1>t. ASSUME NEW a \in V, NEW c PROVE TakeDigit(a, c, radix) \in V
  <2>1. \A n \in Nat : Handle(n) \in V
    BY DEF Readings, Handle
  <2>2. Error("Malformed") \in V /\ Error("Overflow") \in V
    BY DEF Readings, Error
  <2>3. a.raw \in Nat
    BY DEF Readings
  <2>4. c \in DOMAIN DigitValue => a.raw * radix + DigitValue[c] \in Nat
    <3>1. a.raw * radix \in Nat
      BY <1>r, <2>3, Products
    <3>2. c \in DOMAIN DigitValue => DigitValue[c] \in Nat
      BY DigitsAreNumbers DEF Worth
    <3>3. QED
      BY <3>1, <3>2
  <2> HIDE DEF V
  <2>5. QED
    BY <2>1, <2>2, <2>4, Zenon DEF TakeDigit
<1>1. zero \in V /\ G \in [1 .. m -> [V -> V]]
  <2>1. zero \in V
    BY DEF Readings, Handle
  <2> HIDE DEF V, zero
  <2>2. QED
    BY <1>t, <2>1
<1>2. \A i \in 1 .. m, a \in V : G[i][a] = TakeDigit(a, digits[i], radix)
  <2> HIDE DEF V
  <2>1. QED
    OBVIOUS
<1> HIDE DEF G, V, zero
<1>3. PICK g \in [0 .. m -> V] : IsLoop(g, m, zero, G)
  BY <1>1, Rounds, Zenon
<1>4. ASSUME NEW i \in 1 .. m PROVE g[i] = TakeDigit(g[i - 1], digits[i], radix)
  <2>1. i - 1 \in 0 .. m
    OBVIOUS
  <2>2. g[i - 1] \in V
    BY <2>1
  <2>3. g[i] = G[i][g[i - 1]]
    BY <1>3 DEF IsLoop
  <2>4. QED
    BY <1>2, <2>2, <2>3, Zenon
<1>5. g[0] = Handle(0)
  BY <1>3 DEF IsLoop, zero
<1>6. Is(g)
  <2> DEFINE h == [i \in 0 .. m |->
                        IF i = 0 THEN Handle(0) ELSE TakeDigit(g[i - 1], digits[i], radix)]
  <2>1. ASSUME NEW i \in 0 .. m PROVE g[i] = h[i]
    <3>1. CASE i = 0
      BY <1>5, <3>1
    <3>2. CASE i # 0
      <4>1. i \in 1 .. m
        BY <3>2
      <4>2. h[i] = TakeDigit(g[i - 1], digits[i], radix)
        BY <3>2
      <4> HIDE DEF h
      <4>3. QED
        BY <1>4, <4>1, <4>2, Zenon
    <3>3. QED
      BY <3>1, <3>2
  <2>2. h = [i \in 0 .. m |-> h[i]] /\ g = [i \in 0 .. m |-> g[i]]
    OBVIOUS
  <2> HIDE DEF h
  <2>3. g = h
    BY <2>1, <2>2, Zenon
  <2>4. QED
    BY <2>3 DEF h
<1> DEFINE value == CHOOSE h : Is(h)
<1> HIDE DEF Is
<1>7. Is(value)
  BY <1>6, Zenon
<1>s. ParseHandle(bytes) = value[m]
  BY <1>n
<1> HIDE DEF value
<1>8. value = [i \in 0 .. m |->
                    IF i = 0 THEN Handle(0) ELSE TakeDigit(value[i - 1], digits[i], radix)]
  BY <1>7, Zenon DEF Is
<1>9. value[0] = Handle(0)
  BY <1>8
<1>10. ASSUME NEW i \in 1 .. m PROVE value[i] = TakeDigit(value[i - 1], digits[i], radix)
  <2>1. i \in 0 .. m /\ i # 0
    OBVIOUS
  <2>2. QED
    BY <1>8, <2>1
<1>11. \A i \in 0 .. m : value[i] \in V
  <2> DEFINE S == {i \in 0 .. m : value[i] \in V}
  <2>1. 0 \in S
    BY <1>1, <1>9 DEF zero
  <2>2. ASSUME NEW i \in 1 .. m, i - 1 \in S PROVE i \in S
    <3>1. value[i - 1] \in V
      BY <2>2
    <3>2. value[i] \in V
      BY <1>10, <1>t, <3>1
    <3>3. QED
      BY <3>2
  <2> HIDE DEF S
  <2>3. \A i \in 0 .. m : i \in S
    BY <2>1, <2>2, UpTo
  <2>4. QED
    BY <2>3 DEF S
<1>12. value \in [0 .. m -> Readings]
  <2>1. value = [i \in 0 .. m |-> value[i]]
    BY <1>8, Zenon
  <2>2. QED
    BY <1>11, <2>1 DEF V
<1>13. QED
  BY <1>s, <1>9, <1>10, <1>12, Zenon DEF radix, IsValue

\* One round, from the number read so far.
LEMMA OneDigit ==
  ASSUME NEW radix \in {10, 16}, NEW n \in Nat, n <= MaxWord, NEW c
  PROVE  /\ c = "_" => TakeDigit(Handle(n), c, radix) = Handle(n)
         /\ (c # "_" /\ (c \notin DOMAIN DigitValue \/ DigitValue[c] >= radix)) =>
                TakeDigit(Handle(n), c, radix).error # "none"
         /\ (c # "_" /\ c \in DOMAIN DigitValue /\ DigitValue[c] < radix) =>
                IF n * radix + DigitValue[c] <= MaxWord
                THEN TakeDigit(Handle(n), c, radix) = Handle(n * radix + DigitValue[c])
                ELSE TakeDigit(Handle(n), c, radix).error # "none"
<1>1. Handle(n).error = "none" /\ Handle(n).raw = n
  BY DEF Handle
<1>2. Error("Malformed").error # "none" /\ Error("Overflow").error # "none"
  BY DEF Error
<1>3. c \in DOMAIN DigitValue => DigitValue[c] \in Nat
  BY DigitsAreNumbers DEF Worth
<1>4. c = "_" => TakeDigit(Handle(n), c, radix) = Handle(n)
  BY DEF TakeDigit
<1>5. (c # "_" /\ (c \notin DOMAIN DigitValue \/ DigitValue[c] >= radix)) =>
            TakeDigit(Handle(n), c, radix) = Error("Malformed")
  BY <1>1, Zenon DEF TakeDigit
<1>6. ASSUME c # "_", c \in DOMAIN DigitValue, DigitValue[c] < radix
      PROVE  IF n * radix + DigitValue[c] <= MaxWord
             THEN TakeDigit(Handle(n), c, radix) = Handle(n * radix + DigitValue[c])
             ELSE TakeDigit(Handle(n), c, radix) = Error("Overflow")
  <2> DEFINE d == DigitValue[c]
             x == n * radix + d
  <2>1. ~(d >= radix) /\ x \in Nat /\ MaxWord \in Nat
    <3>1. d \in Nat /\ d < radix /\ radix \in Nat /\ MaxWord \in Nat
      <4>1. MaxWord \in Nat
        BY EntryAssumption
      <4>2. radix \in Nat
        OBVIOUS
      <4>3. QED
        BY <1>3, <1>6, <4>1, <4>2, Zenon
    <3>2. n * radix \in Nat
      BY <3>1, Products
    <3> HIDE DEF d
    <3>3. QED
      BY <3>1, <3>2
  <2>2. TakeDigit(Handle(n), c, radix) = IF x > MaxWord THEN Error("Overflow") ELSE Handle(x)
    BY <1>1, <1>6, <2>1, Zenon DEF TakeDigit
  <2> HIDE DEF x
  <2>3. IF x <= MaxWord THEN TakeDigit(Handle(n), c, radix) = Handle(x)
                        ELSE TakeDigit(Handle(n), c, radix) = Error("Overflow")
    BY <2>1, <2>2
  <2>4. QED
    BY <2>3 DEF x
<1>7. QED
  BY <1>2, <1>4, <1>5, <1>6

\* parse_handle (capability.rs 96-139) accepts the numerals, decimal or
\* hexadecimal, whose number fits in a word, and no other text; what it reads
\* is that number.
THEOREM HandlesAreRead ==
  ASSUME NEW bytes \in Seq(STRING)
  PROVE  IF IsNumeral(bytes) /\ Number(bytes) <= MaxWord
         THEN Number(bytes) \in Nat /\ ParseHandle(bytes) = Handle(Number(bytes))
         ELSE ParseHandle(bytes).error # "none"
<1> DEFINE digits == Digits(bytes)
           m == Len(digits)
           radix == Radix(bytes)
           IsDigit(c) == c \in DOMAIN DigitValue /\ DigitValue[c] < radix
           Good(i) == digits[i] = "_" \/ IsDigit(digits[i])
           Ok(j) == \A i \in 1 .. j : Good(i)
<1>1. digits \in Seq(STRING) /\ m \in Nat /\ DOMAIN digits = 1 .. m
  <2>1. CASE ~IsHex(bytes)
    BY <2>1 DEF Digits
  <2>2. CASE IsHex(bytes)
    <3>1. Len(bytes) \in Nat /\ Len(bytes) >= 2 /\ digits = SubSeq(bytes, 3, Len(bytes))
      BY <2>2 DEF Digits, IsHex
    <3>2. \A i \in 3 .. Len(bytes) : bytes[i] \in STRING
      BY <3>1
    <3>3. SubSeq(bytes, 3, Len(bytes)) \in Seq(STRING)
      BY <3>1
    <3> HIDE DEF digits
    <3>4. digits \in Seq(STRING)
      BY <3>1, <3>3
    <3>5. QED
      BY <3>4
  <2>3. QED
    BY <2>1, <2>2
<1>2. radix \in {10, 16}
  BY DEF Radix
<1>3. IsNumeral(bytes) <=> ((\E i \in 1 .. m : digits[i] # "_") /\ Ok(m))
  BY <1>1 DEF IsNumeral
<1>e. (\A i \in 1 .. m : digits[i] = "_") => ParseHandle(bytes) = Error("Malformed")
  BY <1>1 DEF ParseHandle
<1>d. IsRead(bytes, digits, m)
  BY DEF IsRead
<1> HIDE DEF digits, m, radix
<1>4. CASE \A i \in 1 .. m : digits[i] = "_"
  <2>1. ~IsNumeral(bytes)
    BY <1>3, <1>4, Zenon
  <2>2. ParseHandle(bytes).error # "none"
    <3>1. ParseHandle(bytes) = Error("Malformed")
      BY <1>4, <1>e, Zenon
    <3>2. Error("Malformed").error # "none"
      BY DEF Error
    <3>3. QED
      BY <3>1, <3>2, Zenon
  <2>3. QED
    BY <2>1, <2>2, Zenon
<1>5. CASE \E i \in 1 .. m : digits[i] # "_"
  <2>1. PICK number \in [0 .. m -> Nat] :
            /\ Number(bytes) = number[m]
            /\ number[0] = 0
            /\ \A i \in 1 .. m :
                number[i] = IF digits[i] = "_" THEN number[i - 1]
                            ELSE number[i - 1] * radix + Worth(digits[i])
    <3>1. PICK number \in [0 .. m -> Nat] : IsNumber(number, bytes, digits, m)
      BY <1>1, <1>d, NumberRounds, Zenon
    <3>2. QED
      BY <3>1, Zenon DEF IsNumber, radix
  <2>2. PICK value \in [0 .. m -> Readings] :
            /\ ParseHandle(bytes) = value[m]
            /\ value[0] = Handle(0)
            /\ \A i \in 1 .. m : value[i] = TakeDigit(value[i - 1], digits[i], radix)
    <3>1. HasDigit(digits)
      BY <1>1, <1>5 DEF HasDigit
    <3>2. PICK value \in [0 .. m -> Readings] : IsValue(value, bytes, digits, m)
      BY <1>1, <1>d, <3>1, ParseRounds, Zenon
    <3>3. QED
      BY <3>2, Zenon DEF IsValue, radix
  <2> DEFINE Read(j) == IF Ok(j) /\ number[j] <= MaxWord
                        THEN value[j] = Handle(number[j])
                        ELSE value[j].error # "none"
             S == {j \in 0 .. m : Read(j)}
  <2> HIDE DEF IsDigit
  <2>3. 0 \in S
    <3>1. Ok(0) /\ number[0] <= MaxWord
      <4>1. 1 .. 0 = {}
        OBVIOUS
      <4>2. Ok(0)
        BY <4>1, Zenon
      <4>3. number[0] <= MaxWord
        <5>1. MaxWord \in Nat
          BY EntryAssumption
        <5>2. number[0] = 0
          BY <2>1, Zenon
        <5>3. QED
          BY <5>1, <5>2
      <4>4. QED
        BY <4>2, <4>3
    <3> HIDE DEF Ok
    <3>2. Read(0)
      BY <2>1, <2>2, <3>1
    <3> HIDE DEF Read
    <3>3. 0 \in 0 .. m
      BY <1>1
    <3>4. QED
      BY <3>2, <3>3
  <2>4. ASSUME NEW j \in 1 .. m, j - 1 \in S PROVE j \in S
    <3> DEFINE n == number[j - 1]
               c == digits[j]
    <3>0. Read(j - 1)
      <4> HIDE DEF Read
      <4>1. QED
        BY <2>4
    <3>1. n \in Nat /\ number[j] \in Nat /\ MaxWord \in Nat
      BY <1>1, EntryAssumption
    <3>2. number[j] = IF c = "_" THEN n ELSE n * radix + Worth(c)
      BY <2>1
    <3>3. value[j] = TakeDigit(value[j - 1], c, radix)
      BY <2>2
    <3>4. Ok(j) <=> Ok(j - 1) /\ Good(j)
      <4> HIDE DEF Good
      <4>1. 1 .. j = (1 .. j - 1) \cup {j}
        OBVIOUS
      <4>2. QED
        BY <4>1
    <3>5. Good(j) <=> (c = "_" \/ IsDigit(c))
      OBVIOUS
    <3>6. number[j] >= n
      <4> DEFINE d == Worth(c)
      <4>1. d \in Nat
        BY DigitsAreNumbers
      <4>2. number[j] \in {n, n * radix + d}
        BY <3>2
      <4> HIDE DEF d, n
      <4>3. radix = 10 \/ radix = 16
        BY <1>2
      <4>4. n * radix + d >= n
        BY <3>1, <4>1, <4>3
      <4>5. QED
        BY <3>1, <4>2, <4>4
    <3>7. CASE value[j - 1].error # "none"
      <4>1. value[j] = value[j - 1]
        BY <3>3, <3>7 DEF TakeDigit
      <4>2. ~Ok(j - 1) \/ ~(n <= MaxWord)
        <5> HIDE DEF Ok
        <5>1. QED
          BY <3>0, <3>7 DEF Handle
      <4> HIDE DEF Ok, Good
      <4>3. ~Ok(j) \/ ~(number[j] <= MaxWord)
        BY <3>1, <3>4, <3>6, <4>2
      <4>4. Read(j)
        BY <3>7, <4>1, <4>3
      <4> HIDE DEF Read
      <4>5. QED
        BY <4>4
    <3>8. CASE ~(value[j - 1].error # "none")
      <4> HIDE DEF Ok, Good
      <4>1. Ok(j - 1) /\ n <= MaxWord /\ value[j - 1] = Handle(n)
        BY <3>0, <3>8
      <4> HIDE DEF n, c
      <4>2. /\ c = "_" => value[j] = Handle(n)
            /\ (c # "_" /\ ~IsDigit(c)) => value[j].error # "none"
            /\ (c # "_" /\ IsDigit(c)) =>
                    IF number[j] <= MaxWord THEN value[j] = Handle(number[j])
                                            ELSE value[j].error # "none"
        <5>1. /\ c = "_" => value[j] = Handle(n)
              /\ (c # "_" /\ (c \notin DOMAIN DigitValue \/ DigitValue[c] >= radix)) => value[j].error # "none"
              /\ (c # "_" /\ c \in DOMAIN DigitValue /\ DigitValue[c] < radix) =>
                    IF n * radix + DigitValue[c] <= MaxWord
                    THEN value[j] = Handle(n * radix + DigitValue[c])
                    ELSE value[j].error # "none"
          <6>1. n \in Nat /\ n <= MaxWord /\ value[j] = TakeDigit(Handle(n), c, radix)
            BY <3>1, <3>3, <4>1
          <6>2. QED
            BY <1>2, <6>1, OneDigit
        <5>2. c \in DOMAIN DigitValue => Worth(c) = DigitValue[c] /\ DigitValue[c] \in Nat
          BY DigitsAreNumbers DEF Worth
        <5>3. (c # "_" /\ IsDigit(c)) => number[j] = n * radix + DigitValue[c]
          BY <3>2, <5>2 DEF IsDigit
        <5>4. ~IsDigit(c) => c \notin DOMAIN DigitValue \/ DigitValue[c] >= radix
          BY <1>2, <5>2 DEF IsDigit
        <5>5. (c # "_" /\ ~IsDigit(c)) => value[j].error # "none"
          BY <5>1, <5>4, Zenon
        <5>6. (c # "_" /\ IsDigit(c)) =>
                    IF number[j] <= MaxWord THEN value[j] = Handle(number[j])
                                            ELSE value[j].error # "none"
          BY <5>1, <5>3, Zenon DEF IsDigit
        <5>7. QED
          BY <5>1, <5>5, <5>6, Zenon
      <4>3. Ok(j) <=> c = "_" \/ IsDigit(c)
        BY <3>4, <3>5, <4>1, Zenon
      <4>4. c = "_" => number[j] = n
        BY <3>2
      <4>5. CASE c = "_"
        <5>1. Ok(j) /\ number[j] <= MaxWord /\ value[j] = Handle(number[j])
          BY <4>1, <4>2, <4>3, <4>4, <4>5
        <5>2. Read(j)
          BY <5>1
        <5> HIDE DEF Read
        <5>3. QED
          BY <5>2
      <4>6. CASE c # "_"
        <5>1. Read(j)
          BY <4>2, <4>3, <4>6, Zenon
        <5> HIDE DEF Read
        <5>2. QED
          BY <5>1
      <4>7. QED
        BY <4>5, <4>6
    <3>9. QED
      BY <3>7, <3>8
  <2> HIDE DEF S
  <2>5. m \in S
    <3>1. \A i \in 0 .. m : i \in S
      BY <1>1, <2>3, <2>4, UpTo
    <3>2. m \in 0 .. m
      BY <1>1
    <3>3. QED
      BY <3>1, <3>2
  <2>6. Read(m)
    <3> HIDE DEF Read
    <3>1. QED
      BY <2>5 DEF S
  <2>7. number[m] \in Nat
    BY <1>1
  <2> HIDE DEF Ok
  <2>8. QED
    BY <1>3, <1>5, <2>1, <2>2, <2>6, <2>7
<1>6. QED
  BY <1>4, <1>5

\* The value of a variable is a text, empty where there is none.
LEMMA KernelTexts ==
  ASSUME NEW stack \in Stack \cup {Bare}, NEW key
  PROVE  /\ KernelValue(stack, key).value \in Seq(STRING)
         /\ ~KernelValue(stack, key).found => KernelValue(stack, key).value = <<>>
<1> DEFINE env == stack.env
           own == {i \in 1 .. Len(env) : env[i].eq /\ env[i].key = key}
<1>1. env \in Seq(Strings) /\ Len(env) \in Nat
  BY StackTypes, LenProperties
<1>2. KernelValue(stack, key) = ValueAt(env, IF own # {} THEN Min(own) ELSE 0)
  BY DEF KernelValue, SelectInSeq
<1>3. CASE own = {}
  <2> HIDE DEF own
  <2>1. KernelValue(stack, key) = NotFound
    BY <1>2, <1>3 DEF ValueAt
  <2>2. NotFound.value = <<>> /\ <<>> \in Seq(STRING)
    BY DEF NotFound
  <2>3. QED
    BY <2>1, <2>2
<1>4. CASE own # {}
  <2>1. own \in SUBSET Nat
    BY <1>1
  <2>2. Min(own) \in own
    BY <1>4, <2>1, MinIsMember
  <2>3. Min(own) \in 1 .. Len(env) /\ Min(own) # 0
    BY <1>1, <2>2
  <2>4. env[Min(own)] \in Strings
    BY <1>1, <2>3, ElementOfSeq
  <2>5. env[Min(own)].value \in Seq(STRING)
    BY <2>4 DEF Strings
  <2>6. KernelValue(stack, key) = Some(env[Min(own)].value)
    BY <1>2, <1>4, <2>3 DEF ValueAt
  <2>7. QED
    BY <2>5, <2>6 DEF Some
<1>5. QED
  BY <1>3, <1>4

\* recv (capability.rs 77-94) on a faithful copy of the environment finds the
\* handle that the kernel wrote, or an error where it wrote none.
LEMMA RecvIsGranted ==
  ASSUME NEW stack \in Stack \cup {Bare}, NEW snap,
         SnapshotGet(snap, EnvKey) = KernelValue(stack, EnvKey),
         SnapshotGet(snap, LegacyKey) = KernelValue(stack, LegacyKey)
  PROVE  IF Granted(stack) = 0
         THEN Recv(snap, EnvKey, LegacyKey).error # "none"
         ELSE Recv(snap, EnvKey, LegacyKey) = Handle(Granted(stack))
<1> DEFINE own == KernelValue(stack, EnvKey)
           text == IF own.found THEN own ELSE KernelValue(stack, LegacyKey)
           bytes == text.value
           handle == ParseHandle(bytes)
           got == Recv(snap, EnvKey, LegacyKey)
<1>1. got = CASE ~text.found -> Error("Missing")
              [] handle = Handle(0) -> Error("NullHandle")
              [] OTHER -> handle
  BY DEF Recv
<1>2. Granted(stack) = IF text.found THEN Meaning(bytes) ELSE 0
  BY DEF Granted
<1>3. bytes \in Seq(STRING) /\ (~text.found => bytes = <<>>)
  BY KernelTexts
<1> HIDE DEF text, bytes, handle, got
<1>4. /\ \A n : Handle(n).error = "none" /\ Handle(n).raw = n
      /\ \A name \in {"Missing", "NullHandle", "Malformed"} : Error(name).error # "none"
  BY DEF Handle, Error
<1>5. CASE ~text.found
  <2>1. ParseHandle(<<>>) = Error("Malformed")
    BY DEF ParseHandle, Digits, IsHex
  <2>2. handle = Error("Malformed")
    BY <1>3, <1>5, <2>1 DEF handle
  <2>3. handle # Handle(0)
    BY <1>4, <2>2
  <2>4. got = Error("Missing")
    BY <1>1, <1>5, <2>3
  <2>5. got.error # "none" /\ Granted(stack) = 0
    BY <1>2, <1>4, <1>5, <2>4
  <2>6. QED
    BY <2>5 DEF got
<1>6. CASE text.found
  <2>1. IF IsNumeral(bytes) /\ Number(bytes) <= MaxWord
        THEN Number(bytes) \in Nat /\ handle = Handle(Number(bytes))
        ELSE handle.error # "none"
    BY <1>3, HandlesAreRead, Zenon DEF handle
  <2>2. Granted(stack) = IF IsNumeral(bytes) /\ Number(bytes) <= MaxWord THEN Number(bytes) ELSE 0
    BY <1>2, <1>6 DEF Meaning
  <2>3. got = IF handle = Handle(0) THEN Error("NullHandle") ELSE handle
    BY <1>1, <1>6
  <2>4. CASE IsNumeral(bytes) /\ Number(bytes) <= MaxWord
    <3>1. handle = Handle(Number(bytes)) /\ Granted(stack) = Number(bytes)
      BY <2>1, <2>2, <2>4
    <3>2. handle = Handle(0) <=> Number(bytes) = 0
      BY <1>4, <3>1
    <3>3. CASE Number(bytes) = 0
      BY <1>4, <2>3, <3>1, <3>2, <3>3 DEF got
    <3>4. CASE Number(bytes) # 0
      BY <2>3, <3>1, <3>2, <3>4 DEF got
    <3>5. QED
      BY <3>3, <3>4
  <2>5. CASE ~(IsNumeral(bytes) /\ Number(bytes) <= MaxWord)
    <3>1. handle.error # "none" /\ Granted(stack) = 0
      BY <2>1, <2>2, <2>5
    <3>2. handle # Handle(0)
      BY <1>4, <3>1
    <3>3. QED
      BY <2>3, <3>1, <3>2 DEF got
  <2>6. QED
    BY <2>4, <2>5
<1>7. QED
  BY <1>5, <1>6

\* A stack's grant is what is written there, in the bare one too.
LEMMA GrantIsWritten ==
  ASSUME NEW stack \in Stack \cup {Bare}
  PROVE  stack.grant = Granted(stack)
<1>1. CASE stack \in Stack
  BY <1>1, StackAssumption
<1>2. CASE stack = Bare
  <2>1. stack.env = <<>> /\ stack.grant = 0
    BY <1>2 DEF Bare
  <2>2. ASSUME NEW key PROVE KernelValue(stack, key) = NotFound
    <3> DEFINE own == {i \in 1 .. Len(stack.env) : stack.env[i].eq /\ stack.env[i].key = key}
    <3>1. KernelValue(stack, key) = ValueAt(stack.env, IF own # {} THEN Min(own) ELSE 0)
      BY DEF KernelValue, SelectInSeq
    <3>2. own = {}
      BY <2>1
    <3> HIDE DEF own
    <3>3. QED
      BY <3>1, <3>2 DEF ValueAt
  <2>3. Granted(stack) = 0
    BY <2>2 DEF Granted, NotFound
  <2>4. QED
    BY <2>1, <2>3
<1>3. QED
  BY <1>1, <1>2

-----------------------------------------------------------------------------
(* The process                                                             *)

ProcessInv == KairosInv /\ WorkInv /\ BootInv /\ ThermalInv /\ PlaneInv /\ GrantInv

\* Together the invariants are inductive for the process as a whole.
LEMMA ProcessInductive == ProcessSpec => []ProcessInv
<1>1. ProcessInit => ProcessInv
  <2> SUFFICES ASSUME ProcessInit PROVE ProcessInv
    OBVIOUS
  <2>1. KairosInv /\ BootInv
    BY MarksDiffer DEF ProcessInit, Init, KairosInv, QueryInv, StorageInv, BootInv
  <2>2. ThermalInv
    <3>1. /\ rawZone = 0 /\ ticks = 0 /\ loaded = 0 /\ lastEpoch = 0
          /\ policy = "none" /\ lastZone = "Cold" /\ told = "Cold" /\ ~writing /\ writing \in BOOLEAN
      BY DEF ProcessInit, ThermalInit
    <3>2. 0 \in 0 .. MaxTicks /\ 0 \in 0 .. Epochs - 1
      BY ThermalAssumption
    <3>3. ThermalTypeOK
      BY <3>1, <3>2 DEF ThermalTypeOK
    <3>4. QED
      BY <3>1, <3>3 DEF ThermalInv
  <2>3. PlaneInv
    BY PlaneAssumption
       DEF ProcessInit, PlaneInit, PlaneInv, PlaneShape, PlanePending, PlaneCurrent, Active,
           NoReply
  <2>4. GrantInv
    <3>1. entry \in Stack \cup {Bare}
      BY DEF ProcessInit
    <3>2. QED
      BY <3>1 DEF ProcessInit, PlaneInit, GrantInv
  <2>5. WorkInv
    BY DEF ProcessInit, Init, WorkInv
  <2>6. QED
    BY <2>1, <2>2, <2>3, <2>4, <2>5 DEF ProcessInv
<1>2. ProcessInv /\ [ProcessNext]_allVars => ProcessInv'
  <2> SUFFICES ASSUME ProcessInv, [ProcessNext]_allVars PROVE ProcessInv'
    OBVIOUS
  <2>1. /\ Next \/ UNCHANGED kairosVars
        /\ ThermalNext \/ UNCHANGED thermalVars
        /\ (\E raw : Connect(raw)) \/ PlaneNext \/ UNCHANGED planeVars
    <3>1. CASE ProcessNext
      BY <3>1, ComponentSteps
    <3>2. CASE UNCHANGED allVars
      BY <3>2 DEF allVars
    <3>3. QED
      BY <3>1, <3>2
  <2>2. KairosInv'
    BY <2>1, QueryStep, StorageStep DEF ProcessInv, KairosInv
  <2>3. BootInv'
    BY BootStep DEF ProcessInv
  <2>4. ThermalInv'
    BY <2>1, ThermalStep DEF ProcessInv
  <2>5. PlaneInv'
    BY <2>1, PlaneStep DEF ProcessInv
  <2>6. GrantInv'
    BY GrantStep DEF ProcessInv, PlaneInv
  <2>7. WorkInv'
    BY <2>1, WorkStep DEF ProcessInv
  <2>8. QED
    BY <2>2, <2>3, <2>4, <2>5, <2>6, <2>7 DEF ProcessInv
<1>3. QED
  BY <1>1, <1>2, PTL DEF ProcessSpec

\* "`claimed` gives the single mutable user exclusive access to `reply`"
\* (kairos.rs 223): however many threads query, the reply a thread validates
\* is the one the kernel wrote for it.
THEOREM RepliesAreOwn == ProcessSpec => []ReplyIsOwn
<1>1. ProcessInv => ReplyIsOwn
  BY DEF ProcessInv, KairosInv, QueryInv, ReplyIsOwn
<1>2. QED
  BY <1>1, ProcessInductive, PTL

\* query_ref (kairos.rs 284-303) copies a topology of hundreds of bytes into
\* the storage of the process in more than one step.  However many threads
\* call it, and whatever the kernel answers, no two copies mix: outside a copy
\* the storage is one validated topology, and it is never empty again.
THEOREM StorageStaysWhole == ProcessSpec => []StorageIsWhole
<1>1. ProcessInv => StorageIsWhole
  <2> SUFFICES ASSUME ProcessInv, boot = "running", Storing = {}
               PROVE  storage # Nothing /\ ValidReply(storage)
    BY DEF StorageIsWhole
  <2>1. \A t \in Thread : pc[t] # "store2"
    BY DEF Storing
  <2>2. QED
    BY <2>1 DEF ProcessInv, KairosInv, StorageInv, BootInv, Sound
<1>2. QED
  BY <1>1, ProcessInductive, PTL

\* check_transition and the constructor (thermogenesis.rs) leave the handler
\* informed of the latest zone, for any width of the epoch byte and however
\* their loads fall between the kernel's stores.
THEOREM HandlersAreCurrent == ProcessSpec => []HandlerIsCurrent
<1>1. ProcessInv => HandlerIsCurrent
  BY DEF ProcessInv, ThermalInv, HandlerIsCurrent
<1>2. QED
  BY <1>1, ProcessInductive, PTL

\* submit and poll_reply (resonance_plane.rs): a client that began its
\* numbering over unused pages is only ever told the outcome of the command
\* it submitted last, for any range of sequence numbers, any number of
\* clients before it, and any frames lost and replies garbled.
THEOREM RepliesAreForCommands == ProcessSpec => []ReplyIsForCommand
<1>1. ProcessInv => ReplyIsForCommand
  BY DEF ProcessInv, PlaneInv, PlaneCurrent, Active, ReplyIsForCommand
<1>2. QED
  BY <1>1, ProcessInductive, PTL

\* partition_work (kairos.rs 456-520) loses no unit of work and hands none out
\* twice, for any number of domains and CPUs and any amount of work.
THEOREM WorkIsAllCovered == ProcessSpec => []WorkIsCovered
<1>1. ProcessInv => WorkIsCovered
  <2> SUFFICES ASSUME ProcessInv, NEW t \in Thread, work[t] # Nothing
               PROVE  Covers(work[t].slices, work[t].total)
    BY DEF WorkIsCovered, Covers
  <2>1. /\ Fits(work[t].of) /\ work[t].total \in Nat
        /\ work[t].slices = PartitionWork(work[t].of, work[t].total)
    BY DEF ProcessInv, WorkInv
  <2>2. QED
    BY <2>1, PartitionCovers DEF Fits
<1>2. QED
  BY <1>1, ProcessInductive, PTL

\* "Partitions work proportionally to the number of enabled CPUs in each NUMA
\* domain" (kairos.rs 453-454): within one unit, whatever the kernel answers,
\* because from_raw lets no CPU count twice in a domain.
THEOREM SharesAreProportional == ProcessSpec => []WorkIsProportional
<1>1. ProcessInv => WorkIsProportional
  <2> SUFFICES ASSUME ProcessInv, NEW t \in Thread, work[t] # Nothing, ~work[t].torn
               PROVE  Proportional(work[t].slices, work[t].total, work[t].of)
    BY DEF WorkIsProportional, Proportional
  <2>1. /\ Sound(work[t].of) /\ work[t].total \in Nat
        /\ work[t].slices = PartitionWork(work[t].of, work[t].total)
    BY DEF ProcessInv, WorkInv
  <2>2. QED
    BY <2>1, PartitionIs DEF Sound
<1>2. QED
  BY <1>1, ProcessInductive, PTL

\* The buffers of kairos.rs: counts that were validated stay within the
\* arrays of a snapshot, and no partition has more slices than its array
\* (MAXIMUM_DOMAINS), for any bounds.
THEOREM CountsStayInBounds == ProcessSpec => []TypeOK
<1>1. ProcessInv => TypeOK
  <2> SUFFICES ASSUME ProcessInv PROVE TypeOK
    OBVIOUS
  <2>1. /\ claimed \in BOOLEAN /\ buffer \in Reply \cup {Nothing}
        /\ pc \in [Thread -> {"idle", "claimed", "answered", "store1", "store2", "release"}]
        /\ keep \in [Thread -> BOOLEAN] /\ answer \in [Thread -> Reply \cup {Nothing}]
    BY DEF ProcessInv, KairosInv, QueryInv, StorageInv, WorkInv
  <2>2. ASSUME NEW s \in {storage} \cup {snapshot[t] : t \in Thread}, s # Nothing
        PROVE  Len(s.cpus) <= MaxCpus /\ Len(s.domains) <= MaxDomains
    <3>1. CASE s = InStorage
      BY <3>1, KairosAssumption DEF InStorage
    <3>2. CASE s # InStorage
      <4>1. Fits(s)
        BY <2>2, <3>2, SoundFits DEF ProcessInv, KairosInv, StorageInv
      <4>2. QED
        BY <4>1 DEF Fits
    <3>3. QED
      BY <3>1, <3>2
  <2>3. ASSUME NEW t \in Thread, work[t] # Nothing PROVE Len(work[t].slices) <= MaxDomains
    <3>1. /\ Fits(work[t].of) /\ work[t].total \in Nat
          /\ work[t].slices = PartitionWork(work[t].of, work[t].total)
      BY <2>3 DEF ProcessInv, WorkInv
    <3>2. QED
      BY <3>1, PartitionCovers DEF Fits
  <2>4. QED
    BY <2>1, <2>2, <2>3 DEF TypeOK
<1>2. QED
  BY <1>1, ProcessInductive, PTL

\* The three ways to read a variable (env.rs 147-242) agree with the kernel
\* and so with each other, for any entry stack, any bounds and any keys, each
\* where it can.
THEOREM LookupsStayFaithful == ProcessSpec => []LookupsAreFaithful
<1>1. ProcessInv => LookupsAreFaithful
  <2> SUFFICES ASSUME ProcessInv, boot # "entry", ArgsFit(entry), NEW key
               PROVE  /\ SnapshotFits(entry) =>
                            SnapshotGet(environment, key) = KernelValue(entry, key)
                      /\ GetSuits(entry, key) => EnvGet(entry, key) = KernelValue(entry, key)
                      /\ GetPhaseSuits(entry) => EnvGetPhase(entry, key) = KernelValue(entry, key)
    BY DEF LookupsAreFaithful
  <2>1. entry \in Stack \cup {Bare} /\ environment = Collapse(entry)
    BY DEF ProcessInv, GrantInv
  <2>2. QED
    BY <2>1, GetsAreFaithful
<1>2. QED
  BY <1>1, ProcessInductive, PTL

\* From the text to the kernel (capability.rs, env.rs, runtime.rs and
\* resonance_plane.rs): recv finds the handle that the kernel wrote into the
\* entry stack, whatever the text and the name it is under, and every client
\* that is ever made, and every frame in the pages, carries that handle, in a
\* process that has the features it requires.
THEOREM GrantsAreGenuine == ProcessSpec => []GrantIsGenuine
<1>1. ProcessInv => GrantIsGenuine
  <2> SUFFICES ASSUME ProcessInv PROVE GrantIsGenuine
    OBVIOUS
  <2> DEFINE genuine == ArgsFit(entry) /\ SnapshotFits(entry)
  <2>1. ASSUME boot # "entry", genuine
        PROVE  IF entry.grant = 0 THEN Received.error # "none" ELSE Received = Handle(entry.grant)
    <3>1. entry \in Stack \cup {Bare} /\ environment = Collapse(entry)
      BY <2>1 DEF ProcessInv, GrantInv
    <3>2. /\ SnapshotGet(environment, EnvKey) = KernelValue(entry, EnvKey)
          /\ SnapshotGet(environment, LegacyKey) = KernelValue(entry, LegacyKey)
      BY <2>1, <3>1, GetsAreFaithful
    <3>3. entry.grant = Granted(entry)
      BY <3>1, GrantIsWritten
    <3>4. QED
      BY <3>1, <3>2, <3>3, RecvIsGranted DEF Received
  <2>2. ASSUME client # 0
        PROVE  /\ RequiredBits \subseteq features
               /\ \A f \in {ingress, working} : f # NoFrame => f.capability = capability
    BY <2>2 DEF ProcessInv, GrantInv
  <2>3. ASSUME client # 0, genuine
        PROVE  capability = entry.grant
    <3>1. boot = "running" /\ Received.error = "none" /\ capability = Received.raw
      BY <2>3 DEF ProcessInv, GrantInv
    <3>2. Received = Handle(entry.grant)
      BY <2>1, <2>3, <3>1
    <3>3. QED
      BY <3>1, <3>2 DEF Handle
  <2>4. QED
    BY <2>1, <2>2, <2>3 DEF GrantIsGenuine, Received
<1>2. QED
  BY <1>1, ProcessInductive, PTL
=============================================================================
