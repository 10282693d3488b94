--------------------------- MODULE SlabHeap_proofs ---------------------------
(***************************************************************************)
(* Mutual exclusion of the locked sections of the heap, and from it the    *)
(* soundness of its blocks (no shared byte, size and alignment kept, slots *)
(* and counters accounted for), for any number of threads, size classes,   *)
(* pages, attempts and layouts.                                            *)
(***************************************************************************)
EXTENDS SlabHeap, FiniteSetTheorems, SequenceTheorems, WellFoundedInduction, TLAPS

\* What the exclusion needs of the types: pc is a function on the threads
\* and the lock word has two values.
Shape ==
    /\ pc \in [Thread -> {"idle", "try", "locked", "looked", "unlock"}]
    /\ lock \in {"UNLOCKED", "LOCKED"}

Exclusion == Shape /\ MutualExclusion

\* A step that moves thread t within or outside the locked section and leaves
\* the lock word alone preserves the exclusion.
LEMMA SameSide ==
    ASSUME Exclusion, lock' = lock,
           NEW t \in Thread,
           NEW label \in {"idle", "try", "locked", "looked", "unlock"},
           pc' = [pc EXCEPT ![t] = label],
           label \in {"locked", "looked", "unlock"} <=> InSection(t)
    PROVE  Exclusion'
<1>1. Shape'
  BY DEF Exclusion, Shape
<1>2. \A u \in Thread : InSection(u)' <=> InSection(u)
  BY DEF Exclusion, Shape, InSection
<1>3. MutualExclusion'
  BY <1>2 DEF Exclusion, MutualExclusion
<1>4. QED
  BY <1>1, <1>3 DEF Exclusion

\* Every step of every thread preserves the exclusion.
LEMMA ExclusionStep ==
  ASSUME Exclusion, [Next]_vars
  PROVE  Exclusion'
<1>1. ASSUME HeapInit \/ UNCHANGED vars PROVE Exclusion'
  BY <1>1 DEF HeapInit, vars, threadVars, Exclusion, Shape, MutualExclusion, InSection
<1>2. ASSUME NEW t \in Thread,
             \/ \E layout \in Layout : AllocCall(t, layout)
             \/ \E a \in live : DeallocCall(t, a)
             \/ StatsCall(t)
      PROVE  Exclusion'
  <2>1. lock' = lock /\ pc' = [pc EXCEPT ![t] = "try"] /\ ~InSection(t)
    BY <1>2 DEF AllocCall, DeallocCall, StatsCall, Enter, InSection
  <2>2. QED
    BY <2>1, SameSide
<1>3. ASSUME NEW t \in Thread, TryLock(t) PROVE Exclusion'
  <2>1. Shape'
    BY <1>3 DEF TryLock, Exclusion, Shape
  <2>2. \A u \in Thread : ~InSection(u)
    BY <1>3 DEF TryLock, Exclusion, MutualExclusion
  <2>3. \A u \in Thread : InSection(u)' <=> u = t
    BY <1>3, <2>2 DEF TryLock, Exclusion, Shape, InSection
  <2>4. MutualExclusion'
    BY <1>3, <2>3 DEF TryLock, MutualExclusion
  <2>5. QED
    BY <2>1, <2>4 DEF Exclusion
<1>4. ASSUME NEW t \in Thread, Busy(t) PROVE Exclusion'
  <2>1. CASE pc' = pc
    BY <1>4, <2>1 DEF Busy, Exclusion, Shape, MutualExclusion, InSection
  <2>2. CASE pc' = [pc EXCEPT ![t] = "idle"]
    <3>1. lock' = lock /\ ~InSection(t)
      BY <1>4 DEF Busy, InSection
    <3>2. QED
      BY <2>2, <3>1, SameSide
  <2>3. QED
    BY <1>4, <2>1, <2>2 DEF Busy, Leave
<1>5. ASSUME NEW t \in Thread,
             AllocLookup(t) \/ DeallocLookup(t)
      PROVE  Exclusion'
  <2>1. lock' = lock /\ pc' = [pc EXCEPT ![t] = "looked"] /\ InSection(t)
    BY <1>5 DEF AllocLookup, DeallocLookup, InSection
  <2>2. QED
    BY <2>1, SameSide
<1>6. ASSUME NEW t \in Thread,
             AllocMark(t) \/ DeallocMark(t) \/ StatsRead(t)
      PROVE  Exclusion'
  <2>1. lock' = lock /\ pc' = [pc EXCEPT ![t] = "unlock"] /\ InSection(t)
    BY <1>6 DEF AllocMark, DeallocMark, StatsRead, InSection
  <2>2. QED
    BY <2>1, SameSide
<1>7. ASSUME NEW t \in Thread, Unlock(t) PROVE Exclusion'
  <2>1. Shape'
    BY <1>7 DEF Unlock, Leave, Exclusion, Shape
  <2>2. \A u \in Thread : InSection(u) => u = t
    BY <1>7 DEF Unlock, Exclusion, MutualExclusion, InSection
  <2>3. \A u \in Thread : ~InSection(u)'
    BY <1>7, <2>2 DEF Unlock, Leave, Exclusion, Shape, InSection
  <2>4. MutualExclusion'
    BY <1>7, <2>3 DEF Unlock, MutualExclusion
  <2>5. QED
    BY <2>1, <2>4 DEF Exclusion
<1>8. QED
  BY <1>1, <1>2, <1>3, <1>4, <1>5, <1>6, <1>7 DEF Next, Step

\* The exclusion is an inductive invariant of the heap.
LEMMA ExclusionInductive == Spec => []Exclusion
<1>1. Init => Exclusion
  BY DEF Init, Exclusion, Shape, MutualExclusion, InSection
<1>2. Exclusion /\ [Next]_vars => Exclusion'
  BY ExclusionStep
<1>3. QED
  BY <1>1, <1>2, PTL DEF Spec

\* "Access to data is serialized by lock" (entanglement.rs 14): whatever the
\* number of threads, and wherever one of them stops, at most one is between
\* try_lock and the drop of its guard.
THEOREM SectionsExclude == Spec => []MutualExclusion
<1>1. Exclusion => MutualExclusion
  BY DEF Exclusion
<1>2. QED
  BY <1>1, ExclusionInductive, PTL

-----------------------------------------------------------------------------
(* The heap.                                                               *)

IsSlot(c, p, s) == c \in Class /\ p \in DOMAIN pages[c] /\ s \in 0 .. SlotCount(c) - 1
Taken(c, p, s) == IsSlot(c, p, s) /\ s \notin pages[c][p].free

Page == [base : Nat, free : SUBSET Nat]

\* Every page of every class is a page of the arena of its own.
PagesInv ==
    /\ pages \in [Class -> Seq(Page)]
    /\ nextPage \in Nat
    /\ \A c \in Class : \A p \in DOMAIN pages[c] :
          /\ \E n \in Nat : n < nextPage /\ pages[c][p].base = n * PageSize
          /\ pages[c][p].free \subseteq 0 .. SlotCount(c) - 1
    /\ \A c, d \in Class : \A p \in DOMAIN pages[c], q \in DOMAIN pages[d] :
          pages[c][p].base = pages[d][q].base => c = d /\ p = q

\* What a thread has looked up in the locked section still holds when it
\* marks it: a free slot for alloc, the slot of its block for dealloc.
FoundInv(t) ==
    /\ Chosen(t) => \E p, s : /\ found[t] = <<p, s>>
                              /\ IsSlot(call[t].class, p, s)
                              /\ s \in pages[call[t].class][p].free
    /\ pc[t] = "looked" /\ call[t].op = "dealloc" =>
          \E p, s : /\ found[t] = <<p, s>>
                    /\ Taken(call[t].class, p, s)
                    /\ call[t].alloc.ptr = SlotAddress(call[t].class, p, s)

\* Every call in progress uses the class of its layout.
CallInv(t) ==
    /\ pc[t] = "idle" => call[t].op = "none"
    /\ call[t].op = "alloc" => /\ call[t].layout \in Layout
                               /\ Fitting(call[t].layout) # {}
                               /\ call[t].class = ClassFor(call[t].layout)
    /\ call[t].op = "dealloc" => call[t].class = ClassFor(call[t].alloc.layout)

\* A block lies in a taken slot of the class of its layout.
Placed(a) ==
    /\ a \in Block /\ Fitting(a.layout) # {}
    /\ \E p, s : Taken(ClassFor(a.layout), p, s) /\ a.ptr = SlotAddress(ClassFor(a.layout), p, s)

\* Blocks and taken slots correspond one to one.
PlacedInv ==
    /\ \A a \in Outstanding : Placed(a)
    /\ \A a, b \in Outstanding : a.ptr = b.ptr => a = b
    /\ \A c, p, s : Taken(c, p, s) => \E a \in Outstanding : a.ptr = SlotAddress(c, p, s)

\* A block is held by the program, lost, or in the hands of one dealloc.
HandsInv ==
    /\ \A a \in live : a \notin lost
    /\ \A t \in Thread : InDealloc(t) => call[t].alloc \notin live /\ call[t].alloc \notin lost
    /\ \A t, u \in Thread : InDealloc(t) /\ InDealloc(u) /\ call[t].alloc = call[u].alloc => t = u

CountInv ==
    /\ IsFiniteSet(Outstanding)
    /\ allocCount \in Nat /\ deallocCount \in Nat
    /\ allocCount = deallocCount + Cardinality(Outstanding)

HeapInv ==
    /\ Exclusion
    /\ DOMAIN call = Thread /\ DOMAIN found = Thread
    /\ PagesInv
    /\ \A t \in Thread : FoundInv(t) /\ CallInv(t)
    /\ PlacedInv
    /\ HandsInv
    /\ CountInv

-----------------------------------------------------------------------------
(* Where slots lie.                                                        *)

\* A nonempty set of natural numbers contains its minimum.
LEMMA MinIsMember ==
  ASSUME NEW S \in SUBSET Nat, S # {}
  PROVE  Min(S) \in S
<1>1. PICK x \in S : \A y \in S : ~(<<y, x>> \in OpToRel(<, Nat))
  BY NatLessThanWellFounded, WFMin, Zenon
<1>2. ASSUME NEW y \in S, y < x PROVE FALSE
  <2>1. <<y, x>> \in {z \in Nat \X Nat : z[1] < z[2]}
    BY <1>2
  <2>2. QED
    BY <1>1, <2>1 DEF OpToRel
<1>3. \A y \in S : x <= y
  BY <1>2
<1>4. QED
  BY <1>3 DEF Min

\* The slots of a page fill it without a rest.
LEMMA SlotWithin ==
  ASSUME NEW size \in Nat \ {0}, NEW whole \in Nat, whole % size = 0,
         NEW s \in 0 .. (whole \div size) - 1
  PROVE  s * size \in Nat /\ s * size + size <= whole
<1>1. PICK k \in Nat : k = whole \div size
  OBVIOUS
<1>2. whole = size * k
  BY <1>1
<1>3. s \in Nat /\ s + 1 <= k
  BY <1>1
<1>4. size * (s + 1) <= size * k
  BY <1>3
<1>5. QED
  BY <1>2, <1>3, <1>4

\* A page has room for a slot.
LEMMA AtLeastOne ==
  ASSUME NEW whole \in Nat, NEW size \in Nat \ {0}, size <= whole
  PROVE  whole \div size \in Nat \ {0}
<1>1. whole \div size \in Nat /\ whole \div size # 0
  OBVIOUS
<1>2. QED
  BY <1>1

\* Two different numbers of slots, or of pages, are a whole one apart.
LEMMA StepsApart ==
  ASSUME NEW i \in Nat, NEW j \in Nat, i < j, NEW size \in Nat
  PROVE  i * size + size <= j * size
<1>1. PICK k \in Nat : j = i + 1 + k
  <2>1. j - i - 1 \in Nat /\ j = i + 1 + (j - i - 1)
    OBVIOUS
  <2>2. QED
    BY <2>1
<1>2. j * size = i * size + size + k * size
  BY <1>1
<1>3. k * size \in Nat /\ i * size \in Nat
  OBVIOUS
<1>4. QED
  BY <1>2, <1>3

\* The assumptions on one class.
LEMMA ClassProperties ==
  ASSUME NEW c \in Class
  PROVE  /\ ClassSize[c] \in Nat \ {0} /\ PageSize \in Nat \ {0}
         /\ ClassSize[c] <= PageSize /\ PageSize % ClassSize[c] = 0
         /\ c \in Nat
<1>1. ClassSize \in Seq(1 .. PageSize) /\ PageSize \in Nat \ {0}
  BY SlabAssumption
<1>2. ClassSize[c] \in 1 .. PageSize /\ c \in 1 .. Len(ClassSize)
  BY <1>1 DEF Class
<1>3. QED
  BY <1>1, <1>2, SlabAssumption DEF Class

\* Where a slot lies in the arena.
LEMMA SlotPlace ==
  ASSUME PagesInv, NEW c, NEW p, NEW s, IsSlot(c, p, s)
  PROVE  /\ \E n \in Nat : /\ n < nextPage /\ pages[c][p].base = n * PageSize
                            /\ SlotAddress(c, p, s) = n * PageSize + s * ClassSize[c]
         /\ s \in Nat /\ s * ClassSize[c] \in Nat
         /\ s * ClassSize[c] + ClassSize[c] <= PageSize
         /\ pages[c][p].base \in Nat /\ SlotAddress(c, p, s) \in Nat
<1>1. c \in Class /\ p \in DOMAIN pages[c] /\ s \in 0 .. SlotCount(c) - 1
  BY DEF IsSlot
<1>2. PICK n \in Nat : n < nextPage /\ pages[c][p].base = n * PageSize
  BY <1>1 DEF PagesInv
<1>3. s * ClassSize[c] \in Nat /\ s * ClassSize[c] + ClassSize[c] <= PageSize
  BY <1>1, ClassProperties, SlotWithin DEF SlotCount
<1>4. n * PageSize \in Nat
  BY <1>1, ClassProperties
<1>5. QED
  BY <1>1, <1>2, <1>3, <1>4 DEF SlotAddress

\* Two slots share no byte.
LEMMA SlotsApart ==
  ASSUME PagesInv, NEW c, NEW p, NEW s, IsSlot(c, p, s),
         NEW d, NEW q, NEW r, IsSlot(d, q, r), ~(c = d /\ p = q /\ s = r)
  PROVE  \/ SlotAddress(c, p, s) + ClassSize[c] <= SlotAddress(d, q, r)
         \/ SlotAddress(d, q, r) + ClassSize[d] <= SlotAddress(c, p, s)
<1>0. /\ c \in Class /\ p \in DOMAIN pages[c] /\ d \in Class /\ q \in DOMAIN pages[d]
      /\ PageSize \in Nat \ {0} /\ ClassSize[c] \in Nat \ {0} /\ ClassSize[d] \in Nat \ {0}
  BY ClassProperties DEF IsSlot
<1>1. PICK n \in Nat : /\ pages[c][p].base = n * PageSize
                       /\ SlotAddress(c, p, s) = n * PageSize + s * ClassSize[c]
  BY SlotPlace
<1>2. PICK m \in Nat : /\ pages[d][q].base = m * PageSize
                       /\ SlotAddress(d, q, r) = m * PageSize + r * ClassSize[d]
  BY SlotPlace
<1>3. /\ s \in Nat /\ r \in Nat /\ s * ClassSize[c] \in Nat /\ r * ClassSize[d] \in Nat
      /\ s * ClassSize[c] + ClassSize[c] <= PageSize /\ r * ClassSize[d] + ClassSize[d] <= PageSize
  BY SlotPlace
<1>4. n * PageSize \in Nat /\ m * PageSize \in Nat
  BY <1>0
<1>5. CASE n = m
  <2>1. c = d /\ p = q
    BY <1>0, <1>1, <1>2, <1>5 DEF PagesInv
  <2>2. s < r \/ r < s
    BY <1>3, <2>1
  <2>3. \/ s * ClassSize[c] + ClassSize[c] <= r * ClassSize[c]
        \/ r * ClassSize[c] + ClassSize[c] <= s * ClassSize[c]
    BY <1>0, <1>3, <2>2, StepsApart
  <2>4. QED
    BY <1>0, <1>1, <1>2, <1>3, <1>4, <1>5, <2>1, <2>3
<1>6. CASE n < m
  <2>1. n * PageSize + PageSize <= m * PageSize
    BY <1>0, <1>6, StepsApart
  <2>2. QED
    BY <1>0, <1>1, <1>2, <1>3, <1>4, <2>1
<1>7. CASE m < n
  <2>1. m * PageSize + PageSize <= n * PageSize
    BY <1>0, <1>7, StepsApart
  <2>2. SlotAddress(d, q, r) + ClassSize[d] <= m * PageSize + PageSize
    BY <1>0, <1>2, <1>3, <1>4
  <2>3. n * PageSize <= SlotAddress(c, p, s)
    BY <1>0, <1>1, <1>3, <1>4
  <2>4. SlotAddress(c, p, s) \in Nat /\ SlotAddress(d, q, r) \in Nat
    BY SlotPlace
  <2>5. QED
    BY <1>0, <1>4, <2>1, <2>2, <2>3, <2>4
<1>8. QED
  BY <1>5, <1>6, <1>7

\* An address is that of one slot.
LEMMA AddressIsSlot ==
  ASSUME PagesInv, NEW c, NEW p, NEW s, IsSlot(c, p, s),
         NEW d, NEW q, NEW r, IsSlot(d, q, r), SlotAddress(c, p, s) = SlotAddress(d, q, r)
  PROVE  c = d /\ p = q /\ s = r
<1>1. ClassSize[c] \in Nat \ {0} /\ ClassSize[d] \in Nat \ {0}
  BY ClassProperties DEF IsSlot
<1>2. SlotAddress(c, p, s) \in Nat
  BY SlotPlace
<1>3. QED
  BY <1>1, <1>2, SlotsApart

\* The class of a layout is large enough for its size and its alignment.
LEMMA ClassForFits ==
  ASSUME NEW l \in Layout, Fitting(l) # {}
  PROVE  /\ ClassFor(l) \in Class
         /\ l.size \in Nat /\ l.align \in Nat \ {0}
         /\ ClassSize[ClassFor(l)] >= l.size
         /\ ClassSize[ClassFor(l)] % l.align = 0
<1>1. Fitting(l) \in SUBSET Nat
  BY ClassProperties DEF Fitting
<1>2. ClassFor(l) \in Fitting(l)
  BY <1>1, MinIsMember DEF ClassFor
<1>3. ClassFor(l) \in Class /\ ClassSize[ClassFor(l)] >= Larger(l.size, l.align)
  BY <1>2 DEF Fitting, Needed
<1>4. l.size \in Nat /\ l.align \in Nat \ {0}
  BY LayoutAssumption
<1>5. ClassSize[ClassFor(l)] \in Nat
  BY <1>3, ClassProperties
<1>6. ClassSize[ClassFor(l)] >= l.size /\ ClassSize[ClassFor(l)] >= l.align
  BY <1>3, <1>4, <1>5 DEF Larger
<1>7. QED
  BY <1>3, <1>4, <1>6, LayoutAssumption DEF Class

\* A multiple of a multiple is a multiple.
LEMMA AlignedSum ==
  ASSUME NEW align \in Nat \ {0}, NEW size \in Nat \ {0}, NEW whole \in Nat,
         size % align = 0, whole % size = 0
  PROVE  \A n, s \in Nat : (n * whole + s * size) % align = 0
<1> SUFFICES ASSUME NEW n \in Nat, NEW s \in Nat
             PROVE  (n * whole + s * size) % align = 0
  OBVIOUS
<1>1. PICK k \in Nat : size = align * k
  <2>1. size \div align \in Nat /\ size = align * (size \div align)
    OBVIOUS
  <2>2. QED
    BY <2>1
<1>2. PICK j \in Nat : whole = size * j
  <2>1. whole \div size \in Nat /\ whole = size * (whole \div size)
    OBVIOUS
  <2>2. QED
    BY <2>1
<1>3. PICK z \in Nat : z = n * (k * j) + s * k
  OBVIOUS
<1>4. n * whole + s * size = align * z
  BY <1>1, <1>2, <1>3
<1>5. (align * z) % align = 0
  OBVIOUS
<1>6. QED
  BY <1>4, <1>5

-----------------------------------------------------------------------------
(* What the invariant says of the program's blocks.                        *)

\* The bytes of a block lie within its slot.
LEMMA BytesWithin ==
  ASSUME PagesInv, NEW a, Placed(a), NEW p, NEW s,
         IsSlot(ClassFor(a.layout), p, s), a.ptr = SlotAddress(ClassFor(a.layout), p, s)
  PROVE  /\ a.ptr \in Nat
         /\ Bytes(a) \subseteq a.ptr .. a.ptr + ClassSize[ClassFor(a.layout)] - 1
<1>1. a.ptr \in Nat
  BY SlotPlace
<1>2. /\ a.layout.size \in Nat /\ ClassSize[ClassFor(a.layout)] \in Nat
      /\ a.layout.size <= ClassSize[ClassFor(a.layout)]
  BY ClassForFits, ClassProperties DEF Placed, Block
<1>3. QED
  BY <1>1, <1>2 DEF Bytes

\* Blocks in different slots, and a slot that is still free, share no byte.
LEMMA InvImpliesDisjoint == HeapInv => BlocksDisjoint
<1> SUFFICES ASSUME HeapInv PROVE BlocksDisjoint
  OBVIOUS
<1>0. PagesInv /\ PlacedInv
  BY DEF HeapInv
<1>1. ASSUME NEW a \in Outstanding, NEW b \in Outstanding, a # b
      PROVE  Bytes(a) \cap Bytes(b) = {}
  <2> DEFINE c == ClassFor(a.layout)
             d == ClassFor(b.layout)
  <2>1. PICK p, s : Taken(c, p, s) /\ a.ptr = SlotAddress(c, p, s)
    BY <1>0 DEF PlacedInv, Placed
  <2>2. PICK q, r : Taken(d, q, r) /\ b.ptr = SlotAddress(d, q, r)
    BY <1>0 DEF PlacedInv, Placed
  <2>3. IsSlot(c, p, s) /\ IsSlot(d, q, r) /\ Placed(a) /\ Placed(b)
    BY <1>0, <2>1, <2>2 DEF Taken, PlacedInv
  <2>4. a.ptr # b.ptr
    BY <1>0, <1>1 DEF PlacedInv
  <2>5. /\ a.ptr \in Nat /\ Bytes(a) \subseteq a.ptr .. a.ptr + ClassSize[c] - 1
        /\ b.ptr \in Nat /\ Bytes(b) \subseteq b.ptr .. b.ptr + ClassSize[d] - 1
    BY <1>0, <2>1, <2>2, <2>3, BytesWithin
  <2>6. ClassSize[c] \in Nat /\ ClassSize[d] \in Nat
    BY <2>3, ClassProperties DEF IsSlot
  <2>7. a.ptr + ClassSize[c] <= b.ptr \/ b.ptr + ClassSize[d] <= a.ptr
    BY <1>0, <2>1, <2>2, <2>3, <2>4, SlotsApart
  <2> HIDE DEF c, d
  <2>8. QED
    BY <2>5, <2>6, <2>7
<1>2. ASSUME NEW t \in Thread, Chosen(t), NEW a \in Outstanding
      PROVE  Bytes(a) \cap ChosenBytes(t) = {}
  <2> DEFINE c == ClassFor(a.layout)
             d == call[t].class
  <2>1. PICK p, s : Taken(c, p, s) /\ a.ptr = SlotAddress(c, p, s)
    BY <1>0 DEF PlacedInv, Placed
  <2>2. PICK q, r : /\ found[t] = <<q, r>> /\ IsSlot(d, q, r) /\ r \in pages[d][q].free
    BY <1>2 DEF HeapInv, FoundInv
  <2>3. IsSlot(c, p, s) /\ Placed(a) /\ ~(c = d /\ p = q /\ s = r)
    BY <1>0, <2>1, <2>2 DEF Taken, PlacedInv
  <2>4. a.ptr \in Nat /\ Bytes(a) \subseteq a.ptr .. a.ptr + ClassSize[c] - 1
    BY <1>0, <2>1, <2>3, BytesWithin
  <2>5. ClassSize[c] \in Nat /\ ClassSize[d] \in Nat /\ SlotAddress(d, q, r) \in Nat
    BY <1>0, <2>2, <2>3, ClassProperties, SlotPlace DEF IsSlot
  <2>6. ChosenBytes(t) = SlotAddress(d, q, r) .. SlotAddress(d, q, r) + ClassSize[d] - 1
    BY <2>2 DEF ChosenBytes
  <2>7. \/ a.ptr + ClassSize[c] <= SlotAddress(d, q, r)
        \/ SlotAddress(d, q, r) + ClassSize[d] <= a.ptr
    BY <1>0, <2>1, <2>2, <2>3, SlotsApart
  <2> HIDE DEF c, d
  <2>8. QED
    BY <2>4, <2>5, <2>6, <2>7
<1>3. QED
  BY <1>1, <1>2 DEF BlocksDisjoint

\* A block in a slot of its class is aligned and within a page.
LEMMA InvImpliesFit == HeapInv => BlocksFit
<1> SUFFICES ASSUME HeapInv, NEW a \in live
             PROVE  /\ a.ptr % a.layout.align = 0
                    /\ a.ptr \div PageSize < nextPage
                    /\ (a.ptr % PageSize) + a.layout.size <= PageSize
  BY DEF BlocksFit
<1> DEFINE c == ClassFor(a.layout)
<1>0. PagesInv /\ Placed(a)
  BY DEF HeapInv, PlacedInv, Outstanding
<1>1. PICK p, s : IsSlot(c, p, s) /\ a.ptr = SlotAddress(c, p, s)
  BY <1>0 DEF Placed, Taken
<1>2. PICK n \in Nat : n < nextPage /\ a.ptr = n * PageSize + s * ClassSize[c]
  BY <1>0, <1>1, SlotPlace
<1>3. /\ s \in Nat /\ s * ClassSize[c] \in Nat
      /\ s * ClassSize[c] + ClassSize[c] <= PageSize
  BY <1>0, <1>1, SlotPlace
<1>4. /\ PageSize \in Nat \ {0} /\ ClassSize[c] \in Nat \ {0} /\ PageSize % ClassSize[c] = 0
  BY <1>1, ClassProperties DEF IsSlot
<1>5. /\ a.layout.size \in Nat /\ a.layout.align \in Nat \ {0}
      /\ ClassSize[c] >= a.layout.size /\ ClassSize[c] % a.layout.align = 0
  BY <1>0, ClassForFits DEF Placed, Block
<1> HIDE DEF c
<1>6. a.ptr % a.layout.align = 0
  <2>1. (n * PageSize + s * ClassSize[c]) % a.layout.align = 0
    <3>1. PICK size \in Nat \ {0}, align \in Nat \ {0} : size = ClassSize[c] /\ align = a.layout.align
      BY <1>4, <1>5
    <3>2. size % align = 0 /\ PageSize % size = 0 /\ PageSize \in Nat
      BY <1>4, <1>5, <3>1
    <3>3. \A i, j \in Nat : (i * PageSize + j * size) % align = 0
      BY <3>2, AlignedSum
    <3>4. (n * PageSize + s * size) % align = 0
      BY <1>3, <3>3
    <3>5. QED
      BY <3>1, <3>4
  <2>2. QED
    BY <1>2, <2>1
<1>7. s * ClassSize[c] \in 0 .. PageSize - 1
  BY <1>3, <1>4
<1>8. a.ptr \div PageSize = n /\ a.ptr % PageSize = s * ClassSize[c]
  <2>1. PICK r \in 0 .. PageSize - 1 : r = s * ClassSize[c]
    BY <1>7
  <2>2. (n * PageSize + r) \div PageSize = n /\ (n * PageSize + r) % PageSize = r
    BY <1>4
  <2>3. QED
    BY <1>2, <2>1, <2>2
<1>9. QED
  BY <1>2, <1>3, <1>4, <1>5, <1>6, <1>8

\* The taken slots are those of the outstanding blocks.
LEMMA InvImpliesAccounting == HeapInv => HeapAccounting
<1> SUFFICES ASSUME HeapInv PROVE HeapAccounting
  OBVIOUS
<1> DEFINE Addresses(c, p) == {SlotAddress(c, p, s) : s \in (0 .. SlotCount(c) - 1) \ pages[c][p].free}
           All == UNION {UNION {Addresses(c, p) : p \in DOMAIN pages[c]} : c \in Class}
<1>0. PlacedInv /\ CountInv
  BY DEF HeapInv
<1>1. ASSUME NEW x PROVE x \in All <=> \E c, p, s : Taken(c, p, s) /\ x = SlotAddress(c, p, s)
  BY DEF Taken, IsSlot
<1>2. ASSUME NEW a \in Outstanding PROVE \E c, p, s : Taken(c, p, s) /\ a.ptr = SlotAddress(c, p, s)
  BY <1>0 DEF PlacedInv, Placed
<1>3. {a.ptr : a \in Outstanding} = All
  <2> HIDE DEF All
  <2>1. ASSUME NEW x \in All PROVE x \in {a.ptr : a \in Outstanding}
    BY <1>0, <1>1 DEF PlacedInv
  <2>2. ASSUME NEW a \in Outstanding PROVE a.ptr \in All
    BY <1>1, <1>2
  <2>3. QED
    BY <2>1, <2>2
<1>4. QED
  BY <1>0, <1>3 DEF HeapAccounting, CountInv

-----------------------------------------------------------------------------
(* The steps of the heap.                                                  *)

\* The rows of the invariant that do not speak of the lock or of the calls.
Store == PagesInv /\ PlacedInv /\ CountInv

\* A step that moves no block and marks no slot keeps the heap, also when it
\* adds a page.
LEMMA StoreKept ==
  ASSUME Store, PagesInv', Outstanding' = Outstanding,
         UNCHANGED <<allocCount, deallocCount>>,
         \A c, p, s : Taken(c, p, s)' <=> Taken(c, p, s),
         \A c, p, s : Taken(c, p, s) => SlotAddress(c, p, s)' = SlotAddress(c, p, s)
  PROVE  Store'
<1>1. CountInv'
  BY DEF Store, CountInv
<1>2. \A a \in Outstanding : Placed(a)'
  BY DEF Store, PlacedInv, Placed
<1>3. \A c, p, s : Taken(c, p, s)' => \E a \in Outstanding' : a.ptr = SlotAddress(c, p, s)'
  BY DEF Store, PlacedInv
<1>4. PlacedInv'
  BY <1>2, <1>3 DEF Store, PlacedInv
<1>5. QED
  BY <1>1, <1>4 DEF Store

\* The blocks in the hands of a dealloc.
InHands == {call[t].alloc : t \in {u \in Thread : InDealloc(u)}}

\* A step that changes neither blocks nor pages keeps what is said of them.
LEMMA QuietStep ==
  ASSUME Store, UNCHANGED <<pages, nextPage, allocCount, deallocCount>>, Outstanding' = Outstanding
  PROVE  Store'
<1>1. PagesInv'
  BY DEF Store, PagesInv
<1>2. \A c, p, s : (Taken(c, p, s)' <=> Taken(c, p, s)) /\ SlotAddress(c, p, s)' = SlotAddress(c, p, s)
  BY DEF Taken, IsSlot, SlotAddress
<1>3. QED
  BY <1>1, <1>2, StoreKept

\* A step of thread t leaves what the others have looked up alone if it
\* leaves the pages alone.
LEMMA OthersKeep ==
  ASSUME NEW t \in Thread, NEW u \in Thread, u # t, FoundInv(u), CallInv(u),
         pages' = pages, pc'[u] = pc[u], call'[u] = call[u], found'[u] = found[u]
  PROVE  FoundInv(u)' /\ CallInv(u)'
  BY DEF FoundInv, CallInv, Chosen, Taken, IsSlot, SlotAddress

\* A thread outside the locked section has looked up nothing.
LEMMA OutsideKeeps ==
  ASSUME NEW u \in Thread, pc'[u] # "looked"
  PROVE  FoundInv(u)'
  BY DEF FoundInv, Chosen

\* The rest of the invariant, on the calls.
Calls ==
    /\ Exclusion
    /\ DOMAIN call = Thread /\ DOMAIN found = Thread
    /\ \A t \in Thread : FoundInv(t) /\ CallInv(t)
    /\ HandsInv

\* The invariant in two parts: the heap, and the calls in progress.
LEMMA InvIsParts == HeapInv <=> Store /\ Calls
  BY DEF HeapInv, Store, Calls

\* A step of thread t leaves the other threads where they are.
OthersStay(t) ==
    /\ \A u \in Thread \ {t} : pc'[u] = pc[u] /\ call'[u] = call[u] /\ found'[u] = found[u]
    /\ DOMAIN call' = Thread /\ DOMAIN found' = Thread

\* A step of one thread that neither touches the heap nor hands a block over.
LEMMA QuietThread ==
  ASSUME HeapInv, Exclusion', NEW t \in Thread, OthersStay(t),
         UNCHANGED <<pages, nextPage, allocCount, deallocCount, live, lost>>,
         InDealloc(t)' <=> InDealloc(t), InDealloc(t) => call'[t].alloc = call[t].alloc,
         FoundInv(t)', CallInv(t)'
  PROVE  HeapInv'
<1>0. Store /\ Calls
  BY InvIsParts
<1>1. \A u \in Thread : (InDealloc(u)' <=> InDealloc(u)) /\ (InDealloc(u) => call'[u].alloc = call[u].alloc)
  BY DEF OthersStay, InDealloc
<1>2. HandsInv'
  BY <1>0, <1>1 DEF Calls, HandsInv
<1>3. Outstanding' = Outstanding
  BY <1>1 DEF Outstanding
<1>4. Store'
  BY <1>0, <1>3, QuietStep
<1>5. \A u \in Thread : FoundInv(u)' /\ CallInv(u)'
  <2>1. ASSUME NEW u \in Thread, u # t PROVE FoundInv(u)' /\ CallInv(u)'
    BY <1>0, <2>1, OthersKeep DEF Calls, OthersStay
  <2>2. QED
    BY <2>1
<1>6. QED
  BY <1>2, <1>4, <1>5 DEF HeapInv, Store, OthersStay

\* In the locked section, no other thread has looked anything up.
LEMMA AloneInSection ==
  ASSUME HeapInv, NEW t \in Thread, InSection(t), OthersStay(t)
  PROVE  \A u \in Thread \ {t} : FoundInv(u)' /\ CallInv(u)'
<1> SUFFICES ASSUME NEW u \in Thread, u # t PROVE FoundInv(u)' /\ CallInv(u)'
  OBVIOUS
<1>1. pc[u] # "looked"
  BY DEF HeapInv, Exclusion, MutualExclusion, InSection
<1>2. FoundInv(u)'
  BY <1>1, OutsideKeeps DEF OthersStay
<1>3. CallInv(u)'
  BY DEF HeapInv, CallInv, OthersStay
<1>4. QED
  BY <1>2, <1>3

\* alloc and stats: the entry.
LEMMA EnterKeeps ==
  ASSUME HeapInv, Exclusion', NEW t \in Thread,
         (\E layout \in Layout : AllocCall(t, layout)) \/ StatsCall(t)
  PROVE  HeapInv'
<1>0. DOMAIN call = Thread /\ DOMAIN found = Thread /\ pc \in [Thread -> {"idle", "try", "locked", "looked", "unlock"}]
  BY DEF HeapInv, Exclusion, Shape
<1>1. /\ UNCHANGED <<pages, nextPage, allocCount, deallocCount, live, lost, found>>
      /\ pc[t] = "idle" /\ pc' = [pc EXCEPT ![t] = "try"]
  BY DEF AllocCall, StatsCall, Enter, heapVars
<1>2. OthersStay(t) /\ CallInv(t)' /\ call'[t].op # "dealloc"
  <2>1. CASE StatsCall(t)
    <3>1. call' = [call EXCEPT ![t] = [op |-> "stats"]]
      BY <2>1 DEF StatsCall, Enter
    <3>2. QED
      BY <1>0, <1>1, <3>1 DEF OthersStay, CallInv
  <2>2. ASSUME NEW layout \in Layout, AllocCall(t, layout)
        PROVE  OthersStay(t) /\ CallInv(t)' /\ call'[t].op # "dealloc"
    <3>1. /\ call' = [call EXCEPT ![t] = [op |-> "alloc", class |-> ClassFor(layout), layout |-> layout]]
          /\ Fitting(layout) # {}
      BY <2>2 DEF AllocCall, Enter
    <3>2. QED
      BY <1>0, <1>1, <3>1 DEF OthersStay, CallInv
  <2>3. QED
    BY <2>1, <2>2
<1>3. FoundInv(t)'
  BY <1>0, <1>1, OutsideKeeps
<1>4. ~InDealloc(t) /\ ~InDealloc(t)'
  BY <1>1, <1>2 DEF InDealloc
<1>5. QED
  BY <1>1, <1>2, <1>3, <1>4, QuietThread

\* dealloc: the block passes from the program to the call.
LEMMA DeallocCallKeeps ==
  ASSUME HeapInv, Exclusion', NEW t \in Thread, NEW a \in live, DeallocCall(t, a)
  PROVE  HeapInv'
<1>0. /\ DOMAIN call = Thread /\ DOMAIN found = Thread
      /\ pc \in [Thread -> {"idle", "try", "locked", "looked", "unlock"}]
      /\ HandsInv /\ Store /\ \A u \in Thread : FoundInv(u) /\ CallInv(u)
  BY DEF HeapInv, Exclusion, Shape, Store
<1>1. /\ UNCHANGED <<pages, nextPage, allocCount, deallocCount, lost, found>>
      /\ pc[t] = "idle" /\ pc' = [pc EXCEPT ![t] = "try"]
      /\ call' = [call EXCEPT ![t] = [op |-> "dealloc", class |-> ClassFor(a.layout), alloc |-> a]]
      /\ live' = live \ {a}
  BY DEF DeallocCall, Enter, heapVars
<1>2. /\ OthersStay(t) /\ CallInv(t)' /\ FoundInv(t)'
      /\ call'[t].op = "dealloc" /\ call'[t].alloc = a /\ pc'[t] = "try"
  BY <1>0, <1>1, OutsideKeeps DEF OthersStay, CallInv
<1>3. ~InDealloc(t) /\ InDealloc(t)'
  BY <1>1, <1>2 DEF InDealloc
<1>4. \A u \in Thread \ {t} : (InDealloc(u)' <=> InDealloc(u)) /\ call'[u].alloc = call[u].alloc
  BY <1>2 DEF InDealloc, OthersStay
<1>5. HandsInv'
  BY <1>0, <1>1, <1>2, <1>3, <1>4 DEF HandsInv
<1>6. Outstanding' = Outstanding
  <2>1. InHands' = InHands \cup {a}
    <3>1. ASSUME NEW x PROVE x \in InHands' <=> x \in InHands \/ x = a
      BY <1>2, <1>3, <1>4 DEF InHands
    <3>2. QED
      BY <3>1
  <2>2. Outstanding = live \cup lost \cup InHands /\ Outstanding' = live' \cup lost' \cup InHands'
    BY DEF Outstanding, InHands
  <2>3. QED
    BY <1>1, <2>1, <2>2
<1>7. Store'
  BY <1>0, <1>1, <1>6, QuietStep
<1>8. \A u \in Thread : FoundInv(u)' /\ CallInv(u)'
  <2>1. ASSUME NEW u \in Thread, u # t PROVE FoundInv(u)' /\ CallInv(u)'
    BY <1>0, <1>1, <1>2, <2>1, OthersKeep DEF OthersStay
  <2>2. QED
    BY <1>2, <2>1
<1>9. QED
  BY <1>2, <1>5, <1>7, <1>8 DEF HeapInv, Store, OthersStay

\* What a call that gives up, and a guard that is dropped, leave behind.
Left(t) ==
    /\ UNCHANGED <<pages, nextPage, allocCount, deallocCount, live>>
    /\ pc' = [pc EXCEPT ![t] = "idle"]
    /\ found' = [found EXCEPT ![t] = Null]
    /\ call' = [call EXCEPT ![t] = NoCall]

\* The call that ends has no block in its hands.
LEMMA LeftKeeps ==
  ASSUME HeapInv, Exclusion', NEW t \in Thread, Left(t), lost' = lost, ~InDealloc(t)
  PROVE  HeapInv'
<1>0. /\ DOMAIN call = Thread /\ DOMAIN found = Thread
      /\ pc \in [Thread -> {"idle", "try", "locked", "looked", "unlock"}]
  BY DEF HeapInv, Exclusion, Shape
<1>1. OthersStay(t) /\ pc'[t] = "idle" /\ call'[t] = NoCall
  BY <1>0 DEF OthersStay, Left
<1>2. ~InDealloc(t)'
  BY <1>1 DEF InDealloc
<1>3. FoundInv(t)'
  BY <1>1, OutsideKeeps
<1>4. CallInv(t)'
  BY <1>1 DEF CallInv, NoCall
<1>5. QED
  BY <1>1, <1>2, <1>3, <1>4, QuietThread DEF Left

\* A dealloc that gives up drops its block: the block is lost.
LEMMA AbandonKeeps ==
  ASSUME HeapInv, Exclusion', NEW t \in Thread, Left(t), InDealloc(t),
         lost' = lost \cup {call[t].alloc}
  PROVE  HeapInv'
<1>0. /\ DOMAIN call = Thread /\ DOMAIN found = Thread
      /\ pc \in [Thread -> {"idle", "try", "locked", "looked", "unlock"}]
      /\ HandsInv /\ Store /\ \A u \in Thread : FoundInv(u) /\ CallInv(u)
  BY DEF HeapInv, Exclusion, Shape, Store
<1>1. OthersStay(t) /\ pc'[t] = "idle" /\ call'[t] = NoCall
  BY <1>0 DEF OthersStay, Left
<1>2. ~InDealloc(t)' /\ FoundInv(t)' /\ CallInv(t)'
  BY <1>1, OutsideKeeps DEF InDealloc, CallInv, NoCall
<1>3. \A u \in Thread \ {t} : (InDealloc(u)' <=> InDealloc(u)) /\ call'[u].alloc = call[u].alloc
  BY <1>1 DEF InDealloc, OthersStay
<1>4. live' = live
  BY DEF Left
<1>5. HandsInv'
  BY <1>0, <1>2, <1>3, <1>4 DEF HandsInv
<1>6. Outstanding' = Outstanding
  <2>1. ASSUME NEW x PROVE x \in InHands <=> x \in InHands' \/ x = call[t].alloc
    BY <1>2, <1>3 DEF InHands
  <2>2. Outstanding = live \cup lost \cup InHands /\ Outstanding' = live' \cup lost' \cup InHands'
    BY DEF Outstanding, InHands
  <2>3. QED
    BY <1>4, <2>1, <2>2
<1>7. Store'
  BY <1>0, <1>6, QuietStep DEF Left
<1>8. \A u \in Thread : FoundInv(u)' /\ CallInv(u)'
  <2>1. ASSUME NEW u \in Thread, u # t PROVE FoundInv(u)' /\ CallInv(u)'
    BY <1>0, <1>1, <2>1, OthersKeep DEF OthersStay, Left
  <2>2. QED
    BY <1>2, <2>1
<1>9. QED
  BY <1>1, <1>5, <1>7, <1>8 DEF HeapInv, Store, OthersStay

\* A step that only moves a thread.
LEMMA MovedKeeps ==
  ASSUME HeapInv, Exclusion', NEW t \in Thread, NEW to \in {"locked", "unlock"},
         UNCHANGED <<pages, nextPage, allocCount, deallocCount, live, lost, call, found>>,
         pc' = [pc EXCEPT ![t] = to],
         (to = "locked" /\ pc[t] = "try") \/ (to = "unlock" /\ call[t].op # "dealloc")
  PROVE  HeapInv'
<1>0. /\ DOMAIN call = Thread /\ DOMAIN found = Thread
      /\ pc \in [Thread -> {"idle", "try", "locked", "looked", "unlock"}]
      /\ CallInv(t)
  BY DEF HeapInv, Exclusion, Shape
<1>1. OthersStay(t) /\ pc'[t] = to
  BY <1>0 DEF OthersStay
<1>2. InDealloc(t)' <=> InDealloc(t)
  BY <1>1 DEF InDealloc
<1>3. FoundInv(t)'
  BY <1>1, OutsideKeeps
<1>4. CallInv(t)'
  BY <1>0, <1>1 DEF CallInv
<1>5. QED
  BY <1>1, <1>2, <1>3, <1>4, QuietThread

\* A call that misses the lock tries again, or gives up.
LEMMA BusyKeeps ==
  ASSUME HeapInv, Exclusion', NEW t \in Thread, Busy(t)
  PROVE  HeapInv'
<1>1. CASE UNCHANGED <<pc, call, found, lost>>
  <2>1. OthersStay(t)
    BY <1>1 DEF OthersStay, HeapInv
  <2>2. FoundInv(t)' /\ CallInv(t)'
    <3>1. pages' = pages /\ FoundInv(t) /\ CallInv(t)
      BY DEF Busy, heapVars, HeapInv
    <3>2. QED
      BY <1>1, <3>1 DEF FoundInv, CallInv, Chosen, Taken, IsSlot, SlotAddress
  <2>3. QED
    BY <1>1, <2>1, <2>2, QuietThread DEF Busy, heapVars, InDealloc
<1>2. CASE Leave(t) /\ lost' = IF call[t].op = "dealloc" THEN lost \cup {call[t].alloc} ELSE lost
  <2>1. Left(t)
    BY <1>2 DEF Left, Leave, Busy, heapVars
  <2>2. pc[t] = "try"
    BY DEF Busy
  <2>3. CASE call[t].op = "dealloc"
    <3>1. InDealloc(t)
      BY <2>2, <2>3 DEF InDealloc
    <3>2. QED
      BY <1>2, <2>1, <2>3, <3>1, AbandonKeeps
  <2>4. CASE call[t].op # "dealloc"
    <3>1. ~InDealloc(t)
      BY <2>4 DEF InDealloc
    <3>2. QED
      BY <1>2, <2>1, <2>4, <3>1, LeftKeeps
  <2>5. QED
    BY <2>3, <2>4
<1>3. QED
  BY <1>1, <1>2 DEF Busy

\* dealloc finds the slot of its block, and no other: an address is that of
\* one slot, and the slot is taken as long as the block is outstanding.
LEMMA DeallocLookupKeeps ==
  ASSUME HeapInv, Exclusion', NEW t \in Thread, DeallocLookup(t)
  PROVE  HeapInv'
<1>a. PICK c, a : c = call[t].class /\ a = call[t].alloc
  OBVIOUS
<1> DEFINE matches == SlotAt(c, a.ptr)
<1>0. /\ DOMAIN call = Thread /\ DOMAIN found = Thread
      /\ pc \in [Thread -> {"idle", "try", "locked", "looked", "unlock"}]
      /\ CallInv(t) /\ PagesInv /\ PlacedInv
  BY DEF HeapInv, Exclusion, Shape
<1>1. /\ pc[t] = "locked" /\ call[t].op = "dealloc"
      /\ pc' = [pc EXCEPT ![t] = "looked"]
      /\ found' = [found EXCEPT ![t] =
                     IF matches = {} THEN Null
                     ELSE CHOOSE ps \in matches : \A qs \in matches : ps[1] <= qs[1]]
      /\ UNCHANGED <<pages, nextPage, allocCount, deallocCount, call, live, lost>>
  BY <1>a DEF DeallocLookup, heapVars
<1>2. InDealloc(t) /\ a \in Outstanding /\ c = ClassFor(a.layout)
  BY <1>0, <1>1, <1>a DEF InDealloc, Outstanding, CallInv
<1>3. PICK p, s : Taken(c, p, s) /\ a.ptr = SlotAddress(c, p, s)
  BY <1>0, <1>2 DEF PlacedInv, Placed
<1>4. /\ IsSlot(c, p, s) /\ c \in Class /\ p \in DOMAIN pages[c] /\ s \in 0 .. SlotCount(c) - 1
      /\ s \notin pages[c][p].free
  BY <1>3 DEF Taken, IsSlot
<1>5. ClassSize[c] \in Nat \ {0}
  BY <1>4, ClassProperties
<1>6. <<p, s>> \in matches
  <2>1. /\ pages[c][p].base \in Nat /\ s \in Nat
        /\ a.ptr = pages[c][p].base + s * ClassSize[c] /\ s * ClassSize[c] \in Nat
    BY <1>0, <1>3, <1>4, SlotPlace DEF SlotAddress
  <2>2. a.ptr >= pages[c][p].base /\ a.ptr - pages[c][p].base = s * ClassSize[c]
    BY <2>1
  <2>3. (s * ClassSize[c]) % ClassSize[c] = 0 /\ (s * ClassSize[c]) \div ClassSize[c] = s
    <3>1. PICK i \in Nat, k \in Nat \ {0} : i = s /\ k = ClassSize[c]
      BY <1>5, <2>1
    <3>2. (i * k) % k = 0 /\ (i * k) \div k = i
      OBVIOUS
    <3>3. QED
      BY <3>1, <3>2
  <2>4. QED
    BY <1>4, <2>2, <2>3 DEF SlotAt
<1>7. ASSUME NEW ps \in matches PROVE ps = <<p, s>>
  <2>1. PICK q \in DOMAIN pages[c], r \in 0 .. SlotCount(c) - 1 :
          /\ ps = <<q, r>>
          /\ a.ptr >= pages[c][q].base
          /\ (a.ptr - pages[c][q].base) % ClassSize[c] = 0
          /\ (a.ptr - pages[c][q].base) \div ClassSize[c] = r
    BY <1>7 DEF SlotAt
  <2>2. IsSlot(c, q, r)
    BY <1>4, <2>1 DEF IsSlot
  <2>3. a.ptr \in Nat /\ pages[c][q].base \in Nat
    BY <1>0, <1>3, <1>4, <2>2, SlotPlace
  <2>4. PICK d \in Nat : d = a.ptr - pages[c][q].base
    BY <2>1, <2>3
  <2>5. d % ClassSize[c] = 0 /\ d \div ClassSize[c] = r
    BY <2>1, <2>4
  <2>6. d = r * ClassSize[c]
    BY <1>5, <2>5
  <2>7. a.ptr = SlotAddress(c, q, r)
    BY <2>3, <2>4, <2>6 DEF SlotAddress
  <2>8. SlotAddress(c, p, s) = SlotAddress(c, q, r)
    BY <1>3, <2>7
  <2>9. p = q /\ s = r
    <3>1. PagesInv /\ IsSlot(c, p, s)
      BY <1>0, <1>4
    <3>2. QED
      BY <2>2, <2>8, <3>1, AddressIsSlot
  <2>10. QED
    BY <2>1, <2>9
<1> HIDE DEF matches
<1>8. matches = {<<p, s>>}
  BY <1>6, <1>7
<1>9. found'[t] = <<p, s>>
  <2>1. (CHOOSE ps \in matches : \A qs \in matches : ps[1] <= qs[1]) = <<p, s>>
    <3>1. p \in Nat
      BY <1>0, <1>4 DEF PagesInv
    <3>2. \A qs \in matches : <<p, s>>[1] <= qs[1]
      BY <1>8, <3>1
    <3>3. QED
      BY <1>8, <3>2
  <2>2. QED
    BY <1>0, <1>1, <1>8, <2>1
<1>10. OthersStay(t) /\ pc'[t] = "looked" /\ InDealloc(t)'
  BY <1>0, <1>1 DEF OthersStay, InDealloc
<1>11. CallInv(t)'
  BY <1>0, <1>1, <1>10 DEF CallInv
<1>12. FoundInv(t)'
  <2>1. call'[t].class = c /\ call'[t].alloc = a /\ pages' = pages
    BY <1>1, <1>a
  <2>2. Taken(c, p, s)' /\ SlotAddress(c, p, s)' = SlotAddress(c, p, s)
    BY <1>3, <2>1 DEF Taken, IsSlot, SlotAddress
  <2>3. ~Chosen(t)'
    BY <1>1 DEF Chosen
  <2>4. QED
    BY <1>3, <1>9, <2>1, <2>2, <2>3 DEF FoundInv
<1>13. QED
  BY <1>1, <1>2, <1>10, <1>11, <1>12, QuietThread

\* A new page is a page of the arena that no class has, and is all free.
LEMMA GrowKeeps ==
  ASSUME Store, NEW c \in Class,
         pages' = [pages EXCEPT ![c] = Append(@, NewPage(c, nextPage * PageSize))],
         nextPage' = nextPage + 1,
         UNCHANGED <<allocCount, deallocCount>>, Outstanding' = Outstanding,
         NEW m, m = Len(pages[c]) + 1
  PROVE  Store' /\ IsSlot(c, m, 0)' /\ 0 \in pages'[c][m].free
<1>a. PICK new : new = NewPage(c, nextPage * PageSize)
  OBVIOUS
<1>b. PICK n : n = Len(pages[c])
  OBVIOUS
<1>0. /\ PagesInv /\ pages \in [Class -> Seq(Page)] /\ pages[c] \in Seq(Page) /\ nextPage \in Nat
      /\ n \in Nat
      /\ PageSize \in Nat \ {0} /\ ClassSize[c] \in Nat \ {0} /\ nextPage * PageSize \in Nat
  <2>1. PagesInv /\ pages \in [Class -> Seq(Page)] /\ nextPage \in Nat
    BY DEF Store, PagesInv
  <2>2. pages[c] \in Seq(Page) /\ n \in Nat
    BY <2>1, <1>b
  <2>3. PageSize \in Nat \ {0} /\ ClassSize[c] \in Nat \ {0}
    BY ClassProperties
  <2>4. nextPage * PageSize \in Nat
    BY <2>1, <2>3
  <2>5. QED
    BY <2>1, <2>2, <2>3, <2>4
<1>1. SlotCount(c) \in Nat \ {0} /\ 0 \in 0 .. SlotCount(c) - 1
  <2>1. PICK k \in Nat \ {0} : k = ClassSize[c] /\ k <= PageSize
    BY <1>0, ClassProperties
  <2>2. PageSize \div ClassSize[c] \in Nat \ {0}
    BY <1>0, <2>1, AtLeastOne
  <2>3. QED
    BY <2>2 DEF SlotCount
<1>2. /\ new \in Page /\ new.base = nextPage * PageSize /\ new.free = 0 .. SlotCount(c) - 1
  BY <1>0, <1>1, <1>a DEF NewPage, Page
<1>3. /\ pages'[c] = Append(pages[c], new)
      /\ \A d \in Class : d # c => pages'[d] = pages[d]
      /\ pages' \in [Class -> Seq(Page)]
  BY <1>0, <1>2, <1>a
<1>4. /\ DOMAIN pages'[c] = (DOMAIN pages[c]) \cup {n + 1} /\ n + 1 \notin DOMAIN pages[c]
      /\ \A p \in DOMAIN pages[c] : pages'[c][p] = pages[c][p]
      /\ pages'[c][n + 1] = new
  BY <1>0, <1>2, <1>3, <1>b
<1>5. \A d \in Class : \A p : p \in DOMAIN pages[d] => p \in DOMAIN pages'[d] /\ pages'[d][p] = pages[d][p]
  BY <1>3, <1>4
<1>6. \A d \in Class : \A p : p \in DOMAIN pages'[d] => p \in DOMAIN pages[d] \/ (d = c /\ p = n + 1)
  BY <1>3, <1>4
<1>7. ASSUME NEW d \in Class, NEW p \in DOMAIN pages[d]
      PROVE  /\ \E k \in Nat : k < nextPage /\ pages[d][p].base = k * PageSize
             /\ pages[d][p].free \subseteq 0 .. SlotCount(d) - 1
             /\ pages[d][p].base # new.base
  <2>1. PICK k \in Nat : k < nextPage /\ pages[d][p].base = k * PageSize
    BY <1>0, ZenonT(30) DEF PagesInv
  <2>2. k * PageSize + PageSize <= nextPage * PageSize /\ k * PageSize \in Nat
    <3>1. k \in Nat /\ nextPage \in Nat /\ k < nextPage /\ PageSize \in Nat
      BY <1>0, <2>1
    <3>2. k * PageSize + PageSize <= nextPage * PageSize
      BY <3>1, StepsApart, ZenonT(30)
    <3>3. k * PageSize \in Nat
      BY <3>1
    <3>4. QED
      BY <3>2, <3>3
  <2>3. pages[d][p].base # new.base
    <3> DEFINE lower == k * PageSize
               upper == nextPage * PageSize
    <3>1. lower \in Nat /\ upper \in Nat /\ PageSize \in Nat \ {0} /\ lower + PageSize <= upper
      BY <1>0, <2>2
    <3>2. pages[d][p].base = lower /\ new.base = upper
      BY <1>2, <2>1
    <3> HIDE DEF lower, upper
    <3>3. lower # upper
      BY <3>1
    <3>4. QED
      BY <3>2, <3>3
  <2>4. QED
    BY <1>0, <2>1, <2>3 DEF PagesInv
<1>8. PagesInv'
  <2>1. ASSUME NEW d \in Class, NEW p \in DOMAIN pages'[d]
        PROVE  /\ \E k \in Nat : k < nextPage' /\ pages'[d][p].base = k * PageSize
               /\ pages'[d][p].free \subseteq 0 .. SlotCount(d) - 1
    <3>1. CASE p \in DOMAIN pages[d]
      <4>1. PICK k \in Nat : k < nextPage /\ pages[d][p].base = k * PageSize
        BY <1>7, <3>1
      <4>2. k < nextPage'
        BY <1>0, <4>1
      <4>3. QED
        BY <1>5, <1>7, <3>1, <4>1, <4>2
    <3>2. CASE d = c /\ p = n + 1
      <4>1. nextPage < nextPage' /\ pages'[d][p] = new
        BY <1>0, <1>4, <3>2
      <4>2. QED
        BY <1>0, <1>2, <3>2, <4>1
    <3>3. QED
      BY <1>6, <3>1, <3>2
  <2>2. ASSUME NEW d \in Class, NEW e \in Class,
               NEW p \in DOMAIN pages'[d], NEW q \in DOMAIN pages'[e],
               pages'[d][p].base = pages'[e][q].base
        PROVE  d = e /\ p = q
    <3>1. CASE p \in DOMAIN pages[d] /\ q \in DOMAIN pages[e]
      BY <1>0, <1>5, <2>2, <3>1 DEF PagesInv
    <3>2. CASE p \in DOMAIN pages[d] /\ e = c /\ q = n + 1
      BY <1>4, <1>5, <1>7, <2>2, <3>2
    <3>3. CASE q \in DOMAIN pages[e] /\ d = c /\ p = n + 1
      BY <1>4, <1>5, <1>7, <2>2, <3>3
    <3>4. QED
      BY <1>6, <3>1, <3>2, <3>3
  <2>3. nextPage' \in Nat
    BY <1>0
  <2>4. QED
    BY <1>3, <2>1, <2>2, <2>3 DEF PagesInv
<1>9. ASSUME NEW d, NEW p, NEW s
      PROVE  Taken(d, p, s)' <=> Taken(d, p, s)
  <2>1. CASE d \in Class /\ p \in DOMAIN pages[d]
    BY <1>5, <2>1 DEF Taken, IsSlot
  <2>2. CASE ~(d \in Class /\ p \in DOMAIN pages[d])
    BY <1>2, <1>4, <1>6, <2>2 DEF Taken, IsSlot
  <2>3. QED
    BY <2>1, <2>2
<1>10. ASSUME NEW d, NEW p, NEW s, Taken(d, p, s)
       PROVE  SlotAddress(d, p, s)' = SlotAddress(d, p, s)
  BY <1>5, <1>10 DEF Taken, IsSlot, SlotAddress
<1>11. Store'
  BY <1>8, <1>9, <1>10, StoreKept
<1>12. IsSlot(c, m, 0)'
  BY <1>1, <1>4, <1>b DEF IsSlot
<1>13. QED
  BY <1>1, <1>2, <1>4, <1>11, <1>12, <1>b

\* alloc finds a free slot of its class, in a new page if need be.
LEMMA AllocLookupKeeps ==
  ASSUME HeapInv, Exclusion', NEW t \in Thread, AllocLookup(t)
  PROVE  HeapInv'
<1>0. /\ DOMAIN call = Thread /\ DOMAIN found = Thread
      /\ pc \in [Thread -> {"idle", "try", "locked", "looked", "unlock"}]
      /\ CallInv(t) /\ PagesInv /\ Store /\ HandsInv
  BY DEF HeapInv, Exclusion, Shape, Store
<1>a. PICK c : c = call[t].class
  OBVIOUS
<1>1. /\ pc[t] = "locked" /\ call[t].op = "alloc"
      /\ pc' = [pc EXCEPT ![t] = "looked"]
      /\ UNCHANGED <<allocCount, deallocCount, call, live, lost>>
      /\ InSection(t)
  BY DEF AllocLookup, InSection
<1>2. c \in Class
  BY <1>0, <1>1, <1>a, ClassForFits DEF CallInv
<1>3. pc'[t] = "looked" /\ call'[t] = call[t] /\ ~InDealloc(t) /\ ~InDealloc(t)' /\ CallInv(t)'
  BY <1>0, <1>1 DEF InDealloc, CallInv
<1>4. ASSUME NEW p, NEW s, found' = [found EXCEPT ![t] = <<p, s>>],
             IsSlot(c, p, s)', s \in pages'[c][p].free
      PROVE  FoundInv(t)' /\ OthersStay(t)
  <2>1. found'[t] = <<p, s>> /\ OthersStay(t)
    BY <1>0, <1>1, <1>4 DEF OthersStay
  <2>2. call'[t].class = c /\ call'[t].op = "alloc"
    BY <1>1, <1>a
  <2>3. FoundInv(t)'
    BY <1>4, <2>1, <2>2 DEF FoundInv
  <2>4. QED
    BY <2>1, <2>3
<1>5. CASE /\ PagesWithRoom(c) # {}
           /\ LET p == Min(PagesWithRoom(c))
              IN  found' = [found EXCEPT ![t] = <<p, Min(pages[c][p].free)>>]
           /\ UNCHANGED <<pages, nextPage>>
  <2>1. PagesWithRoom(c) \in SUBSET Nat
    BY <1>0, <1>2 DEF PagesWithRoom, PagesInv
  <2>2. PICK p : p = Min(PagesWithRoom(c)) /\ p \in PagesWithRoom(c)
    BY <1>5, <2>1, MinIsMember
  <2>3. /\ p \in DOMAIN pages[c] /\ pages[c][p].free # {}
        /\ pages[c][p].free \subseteq 0 .. SlotCount(c) - 1
    BY <1>0, <1>2, <2>2 DEF PagesWithRoom, PagesInv
  <2>4. PICK s : s = Min(pages[c][p].free) /\ s \in pages[c][p].free
    <3>1. pages[c][p].free \in SUBSET Nat
      BY <2>3
    <3>2. QED
      BY <2>3, <3>1, MinIsMember
  <2>5. found' = [found EXCEPT ![t] = <<p, s>>]
    BY <1>5, <2>2, <2>4
  <2>6. IsSlot(c, p, s)' /\ s \in pages'[c][p].free
    BY <1>2, <1>5, <2>3, <2>4 DEF IsSlot
  <2>7. QED
    BY <1>1, <1>3, <1>4, <1>5, <2>5, <2>6, QuietThread
<1>6. CASE /\ pages' = [pages EXCEPT ![c] = Append(@, NewPage(c, nextPage * PageSize))]
           /\ nextPage' = nextPage + 1
           /\ found' = [found EXCEPT ![t] = <<Len(pages[c]) + 1, 0>>]
  <2>1. PICK m : m = Len(pages[c]) + 1
    OBVIOUS
  <2>2. OthersStay(t)
    BY <1>0, <1>1, <1>6 DEF OthersStay
  <2>3. \A u \in Thread : (InDealloc(u)' <=> InDealloc(u)) /\ call'[u] = call[u]
    BY <1>1, <1>3, <2>2 DEF OthersStay, InDealloc
  <2>4. Outstanding' = Outstanding
    BY <1>1, <2>3 DEF Outstanding
  <2>5. Store' /\ IsSlot(c, m, 0)' /\ 0 \in pages'[c][m].free
    BY <1>0, <1>1, <1>2, <1>6, <2>1, <2>4, GrowKeeps
  <2>6. FoundInv(t)'
    BY <1>4, <1>6, <2>1, <2>5
  <2>7. \A u \in Thread : FoundInv(u)' /\ CallInv(u)'
    BY <1>1, <1>3, <2>2, <2>6, AloneInSection
  <2>8. HandsInv'
    BY <1>0, <1>1, <2>3 DEF HandsInv
  <2>9. QED
    BY <2>2, <2>5, <2>7, <2>8 DEF HeapInv, Store, OthersStay
<1>7. CASE found' = [found EXCEPT ![t] = Null] /\ UNCHANGED <<pages, nextPage>>
  <2>1. OthersStay(t) /\ found'[t] = Null
    BY <1>0, <1>1, <1>7 DEF OthersStay
  <2>2. FoundInv(t)'
    BY <1>1, <2>1 DEF FoundInv, Chosen
  <2>3. QED
    BY <1>1, <1>3, <1>7, <2>1, <2>2, QuietThread
<1>8. QED
  BY <1>5, <1>6, <1>7, <1>a DEF AllocLookup

\* Setting the bitmask of one page moves no slot.
LEMMA MaskSet ==
  ASSUME PagesInv, NEW c \in Class, NEW p \in DOMAIN pages[c],
         NEW mask \in SUBSET (0 .. SlotCount(c) - 1),
         pages' = [pages EXCEPT ![c][p].free = mask], nextPage' = nextPage
  PROVE  /\ PagesInv'
         /\ \A d, q, s : IsSlot(d, q, s)' <=> IsSlot(d, q, s)
         /\ \A d, q, s : IsSlot(d, q, s) => SlotAddress(d, q, s)' = SlotAddress(d, q, s)
         /\ \A d, q, s : Taken(d, q, s)' <=>
               IsSlot(d, q, s) /\ s \notin (IF d = c /\ q = p THEN mask ELSE pages[d][q].free)
<1>1. /\ pages \in [Class -> Seq(Page)] /\ pages[c] \in Seq(Page) /\ pages[c][p] \in Page
      /\ nextPage \in Nat /\ SlotCount(c) \in Nat
  <2>1. pages \in [Class -> Seq(Page)] /\ nextPage \in Nat
    BY DEF PagesInv
  <2>2. SlotCount(c) \in Nat
    BY ClassProperties, AtLeastOne DEF SlotCount
  <2>3. QED
    BY <2>1, <2>2
<1>2. mask \in SUBSET Nat
  BY <1>1
<1>a. PICK new : new = [pages[c][p] EXCEPT !.free = mask]
  OBVIOUS
<1>3. new \in Page /\ new.base = pages[c][p].base /\ new.free = mask
  BY <1>1, <1>2, <1>a DEF Page
<1>4. pages' = [pages EXCEPT ![c] = [pages[c] EXCEPT ![p] = new]]
  BY <1>1, <1>a
<1>5. /\ pages'[c] = [pages[c] EXCEPT ![p] = new]
      /\ \A d \in Class : d # c => pages'[d] = pages[d]
  BY <1>1, <1>4
<1>6. pages'[c] \in Seq(Page) /\ DOMAIN pages'[c] = DOMAIN pages[c]
  <2>1. p \in 1 .. Len(pages[c])
    BY <1>1
  <2>2. [pages[c] EXCEPT ![p] = new] \in Seq(Page)
    BY <1>1, <1>3, <2>1, ExceptSeq
  <2>3. QED
    BY <1>5, <2>2
<1>7. pages' \in [Class -> Seq(Page)]
  BY <1>1, <1>4, <1>5, <1>6
<1>8. ASSUME NEW d \in Class
      PROVE  /\ DOMAIN pages'[d] = DOMAIN pages[d]
             /\ \A q \in DOMAIN pages[d] :
                   /\ pages'[d][q].base = pages[d][q].base
                   /\ pages'[d][q].free = IF d = c /\ q = p THEN mask ELSE pages[d][q].free
  <2>1. CASE d = c
    BY <1>1, <1>3, <1>5, <1>6, <2>1
  <2>2. CASE d # c
    BY <1>5, <2>2
  <2>3. QED
    BY <2>1, <2>2
<1>9. PagesInv'
  <2>1. ASSUME NEW d \in Class, NEW q \in DOMAIN pages'[d]
        PROVE  /\ \E n \in Nat : n < nextPage' /\ pages'[d][q].base = n * PageSize
               /\ pages'[d][q].free \subseteq 0 .. SlotCount(d) - 1
    <3>1. q \in DOMAIN pages[d]
      BY <1>8, <2>1
    <3>2. /\ \E n \in Nat : n < nextPage /\ pages[d][q].base = n * PageSize
          /\ pages[d][q].free \subseteq 0 .. SlotCount(d) - 1
      BY <3>1 DEF PagesInv
    <3>3. QED
      BY <1>8, <3>1, <3>2
  <2>2. ASSUME NEW d \in Class, NEW e \in Class, NEW q \in DOMAIN pages'[d],
               NEW r \in DOMAIN pages'[e], pages'[d][q].base = pages'[e][r].base
        PROVE  d = e /\ q = r
    <3>1. q \in DOMAIN pages[d] /\ r \in DOMAIN pages[e]
      BY <1>8, <2>2
    <3>2. pages[d][q].base = pages[e][r].base
      BY <1>8, <2>2, <3>1
    <3>3. QED
      BY <3>1, <3>2 DEF PagesInv
  <2>3. QED
    BY <1>1, <1>7, <2>1, <2>2 DEF PagesInv
<1>10. ASSUME NEW d, NEW q, NEW s
       PROVE  /\ IsSlot(d, q, s)' <=> IsSlot(d, q, s)
              /\ IsSlot(d, q, s) => SlotAddress(d, q, s)' = SlotAddress(d, q, s)
              /\ Taken(d, q, s)' <=>
                    IsSlot(d, q, s) /\ s \notin (IF d = c /\ q = p THEN mask ELSE pages[d][q].free)
  BY <1>8 DEF IsSlot, SlotAddress, Taken
<1>11. QED
  BY <1>9, <1>10

\* alloc marks the slot it found and hands out a block there: the block is
\* new, for no outstanding block lies in a slot that was free.
LEMMA AllocMarkKeeps ==
  ASSUME HeapInv, Exclusion', NEW t \in Thread, AllocMark(t), found[t] # Null
  PROVE  HeapInv'
<1>0. /\ DOMAIN call = Thread /\ DOMAIN found = Thread
      /\ pc \in [Thread -> {"idle", "try", "locked", "looked", "unlock"}]
      /\ CallInv(t) /\ FoundInv(t) /\ PagesInv /\ PlacedInv /\ HandsInv /\ CountInv
  BY DEF HeapInv, Exclusion, Shape
<1>a. PICK c, l : c = call[t].class /\ l = call[t].layout
  OBVIOUS
<1>1. /\ pc[t] = "looked" /\ call[t].op = "alloc"
      /\ pages' = [pages EXCEPT ![c][found[t][1]].free = @ \ {found[t][2]}]
      /\ allocCount' = allocCount + 1
      /\ live' = live \cup {[ptr |-> SlotAddress(c, found[t][1], found[t][2]), layout |-> l]}
      /\ pc' = [pc EXCEPT ![t] = "unlock"]
      /\ UNCHANGED <<nextPage, deallocCount, call, found, lost>>
  BY <1>a DEF AllocMark
<1>2. PICK p, s : found[t] = <<p, s>> /\ IsSlot(c, p, s) /\ s \in pages[c][p].free
  BY <1>0, <1>1, <1>a DEF FoundInv, Chosen
<1>3. c \in Class /\ p \in DOMAIN pages[c] /\ s \in 0 .. SlotCount(c) - 1
  BY <1>2 DEF IsSlot
<1>b. PICK mask, new : /\ mask = pages[c][p].free \ {s}
                       /\ new = [ptr |-> SlotAddress(c, p, s), layout |-> l]
  OBVIOUS
<1>4. mask \in SUBSET (0 .. SlotCount(c) - 1)
  BY <1>0, <1>3, <1>b DEF PagesInv
<1>5. pages' = [pages EXCEPT ![c][p].free = mask]
  BY <1>1, <1>2, <1>b
<1>6. /\ PagesInv'
      /\ \A d, q, r : IsSlot(d, q, r) => SlotAddress(d, q, r)' = SlotAddress(d, q, r)
      /\ \A d, q, r : Taken(d, q, r)' <=>
            IsSlot(d, q, r) /\ r \notin (IF d = c /\ q = p THEN mask ELSE pages[d][q].free)
  BY <1>0, <1>1, <1>3, <1>4, <1>5, MaskSet
<1>7. \A d, q, r : Taken(d, q, r)' <=> Taken(d, q, r) \/ (d = c /\ q = p /\ r = s)
  BY <1>2, <1>6, <1>b DEF Taken
<1>8. OthersStay(t) /\ pc'[t] = "unlock" /\ InSection(t) /\ ~InDealloc(t) /\ ~InDealloc(t)'
  BY <1>0, <1>1 DEF OthersStay, InSection, InDealloc
<1>9. \A u \in Thread : (InDealloc(u)' <=> InDealloc(u)) /\ call'[u] = call[u]
  BY <1>1, <1>8 DEF OthersStay, InDealloc
<1>10. live' = live \cup {new} /\ Outstanding' = Outstanding \cup {new}
  <2>1. live' = live \cup {new}
    BY <1>1, <1>2, <1>b
  <2>2. QED
    BY <1>1, <1>9, <2>1 DEF Outstanding
<1>11. \A a \in Outstanding : a.ptr # new.ptr
  <2> SUFFICES ASSUME NEW a \in Outstanding, a.ptr = new.ptr PROVE FALSE
    OBVIOUS
  <2>1. PICK d, q, r : Taken(d, q, r) /\ a.ptr = SlotAddress(d, q, r)
    BY <1>0 DEF PlacedInv, Placed
  <2>2. IsSlot(d, q, r) /\ SlotAddress(d, q, r) = SlotAddress(c, p, s)
    BY <1>b, <2>1 DEF Taken
  <2>3. d = c /\ q = p /\ r = s
    BY <1>0, <1>2, <2>2, AddressIsSlot
  <2>4. QED
    BY <1>2, <2>1, <2>3 DEF Taken
<1>12. new \notin Outstanding
  BY <1>11
<1>13. Placed(new)'
  <2>1. l \in Layout /\ Fitting(l) # {} /\ c = ClassFor(l)
    BY <1>0, <1>1, <1>a DEF CallInv
  <2>2. SlotAddress(c, p, s) \in Nat
    BY <1>0, <1>2, SlotPlace
  <2>3. new \in Block /\ new.layout = l /\ new.ptr = SlotAddress(c, p, s)
    BY <1>b, <2>1, <2>2 DEF Block
  <2>4. Taken(c, p, s)' /\ new.ptr = SlotAddress(c, p, s)'
    BY <1>2, <1>6, <1>7, <2>3
  <2>5. QED
    BY <2>1, <2>3, <2>4 DEF Placed
<1>14. PlacedInv'
  <2>1. ASSUME NEW a \in Outstanding PROVE Placed(a)'
    <3>1. Placed(a)
      BY <1>0 DEF PlacedInv
    <3>2. PICK q, r : Taken(ClassFor(a.layout), q, r) /\ a.ptr = SlotAddress(ClassFor(a.layout), q, r)
      BY <3>1 DEF Placed
    <3>3. Taken(ClassFor(a.layout), q, r)' /\ a.ptr = SlotAddress(ClassFor(a.layout), q, r)'
      BY <1>6, <1>7, <3>2 DEF Taken
    <3>4. QED
      BY <3>1, <3>3 DEF Placed
  <2>2. ASSUME NEW a \in Outstanding', NEW b \in Outstanding', a.ptr = b.ptr PROVE a = b
    BY <1>0, <1>10, <1>11, <2>2 DEF PlacedInv
  <2>3. ASSUME NEW d, NEW q, NEW r, Taken(d, q, r)'
        PROVE  \E a \in Outstanding' : a.ptr = SlotAddress(d, q, r)'
    <3>1. CASE d = c /\ q = p /\ r = s
      <4>1. new.ptr = SlotAddress(c, p, s)'
        BY <1>2, <1>6, <1>b
      <4>2. QED
        BY <1>10, <3>1, <4>1
    <3>2. CASE Taken(d, q, r)
      <4>1. PICK a \in Outstanding : a.ptr = SlotAddress(d, q, r)
        BY <1>0, <3>2 DEF PlacedInv
      <4>2. QED
        BY <1>6, <1>10, <3>2, <4>1 DEF Taken
    <3>3. QED
      BY <1>7, <2>3, <3>1, <3>2
  <2>4. QED
    BY <1>10, <1>13, <2>1, <2>2, <2>3 DEF PlacedInv
<1>15. HandsInv'
  <2>1. new \notin lost /\ \A u \in Thread : InDealloc(u) => call[u].alloc # new
    BY <1>12 DEF Outstanding
  <2>2. QED
    BY <1>0, <1>1, <1>9, <1>10, <2>1 DEF HandsInv
<1>16. CountInv'
  <2>1. /\ IsFiniteSet(Outstanding) /\ allocCount \in Nat /\ deallocCount \in Nat
        /\ allocCount = deallocCount + Cardinality(Outstanding)
    BY <1>0 DEF CountInv
  <2>2. IsFiniteSet(Outstanding') /\ Cardinality(Outstanding') = Cardinality(Outstanding) + 1
    BY <1>10, <1>12, <2>1, FS_AddElement
  <2>3. Cardinality(Outstanding) \in Nat
    BY <2>1, FS_CardinalityType
  <2>4. QED
    BY <1>1, <2>1, <2>2, <2>3 DEF CountInv
<1>17. \A u \in Thread : FoundInv(u)' /\ CallInv(u)'
  <2>1. FoundInv(t)'
    BY <1>8, OutsideKeeps
  <2>2. CallInv(t)'
    BY <1>0, <1>1, <1>8 DEF CallInv
  <2>3. QED
    BY <1>8, <2>1, <2>2, AloneInSection
<1>18. QED
  BY <1>6, <1>8, <1>14, <1>15, <1>16, <1>17 DEF HeapInv, OthersStay

\* dealloc frees the slot of its block and of no other: the block is in one
\* pair of hands, and blocks and taken slots correspond one to one.
LEMMA DeallocMarkKeeps ==
  ASSUME HeapInv, Exclusion', NEW t \in Thread, DeallocMark(t)
  PROVE  HeapInv'
<1>0. /\ DOMAIN call = Thread /\ DOMAIN found = Thread
      /\ pc \in [Thread -> {"idle", "try", "locked", "looked", "unlock"}]
      /\ CallInv(t) /\ FoundInv(t) /\ PagesInv /\ PlacedInv /\ HandsInv /\ CountInv
  BY DEF HeapInv, Exclusion, Shape
<1>a. PICK c, a : c = call[t].class /\ a = call[t].alloc
  OBVIOUS
<1>1. /\ pc[t] = "looked" /\ call[t].op = "dealloc"
      /\ pc' = [pc EXCEPT ![t] = "unlock"]
      /\ UNCHANGED <<nextPage, allocCount, call, found, live, lost>>
  BY DEF DeallocMark
<1>2. PICK p, s : found[t] = <<p, s>> /\ Taken(c, p, s) /\ a.ptr = SlotAddress(c, p, s)
  BY <1>0, <1>1, <1>a DEF FoundInv
<1>3. IsSlot(c, p, s) /\ c \in Class /\ p \in DOMAIN pages[c] /\ s \in 0 .. SlotCount(c) - 1
  BY <1>2 DEF Taken, IsSlot
<1>b. PICK mask : mask = pages[c][p].free \cup {s}
  OBVIOUS
<1>4. mask \in SUBSET (0 .. SlotCount(c) - 1)
  BY <1>0, <1>3, <1>b DEF PagesInv
<1>5. pages' = [pages EXCEPT ![c][p].free = mask] /\ deallocCount' = deallocCount + 1
  <2>1. found[t] # Null
    BY <1>2 DEF Null
  <2>2. QED
    BY <1>2, <1>a, <1>b, <2>1 DEF DeallocMark
<1>6. /\ PagesInv'
      /\ \A d, q, r : IsSlot(d, q, r) => SlotAddress(d, q, r)' = SlotAddress(d, q, r)
      /\ \A d, q, r : Taken(d, q, r)' <=>
            IsSlot(d, q, r) /\ r \notin (IF d = c /\ q = p THEN mask ELSE pages[d][q].free)
  BY <1>0, <1>1, <1>3, <1>4, <1>5, MaskSet
<1>7. \A d, q, r : Taken(d, q, r)' <=> Taken(d, q, r) /\ ~(d = c /\ q = p /\ r = s)
  BY <1>2, <1>6, <1>b DEF Taken
<1>8. OthersStay(t) /\ pc'[t] = "unlock" /\ InSection(t) /\ InDealloc(t) /\ ~InDealloc(t)'
  BY <1>0, <1>1 DEF OthersStay, InSection, InDealloc
<1>9. \A u \in Thread \ {t} : (InDealloc(u)' <=> InDealloc(u)) /\ call'[u] = call[u]
  BY <1>1, <1>8 DEF OthersStay, InDealloc
<1>10. a \in Outstanding /\ Outstanding' = Outstanding \ {a}
  <2>1. Outstanding = live \cup lost \cup InHands /\ Outstanding' = live' \cup lost' \cup InHands'
    BY DEF Outstanding, InHands
  <2>2. a \notin live /\ a \notin lost /\ \A u \in Thread \ {t} : InDealloc(u) => call[u].alloc # a
    BY <1>0, <1>8, <1>a DEF HandsInv
  <2>3. ASSUME NEW x PROVE x \in InHands' <=> x \in InHands /\ x # a
    BY <1>8, <1>9, <1>a, <2>2 DEF InHands
  <2>4. a \in InHands
    BY <1>8, <1>a DEF InHands
  <2>5. QED
    BY <1>1, <2>1, <2>2, <2>3, <2>4
<1>11. PlacedInv'
  <2>1. ASSUME NEW b \in Outstanding' PROVE Placed(b)'
    <3>1. b \in Outstanding /\ b # a /\ Placed(b)
      BY <1>0, <1>10 DEF PlacedInv
    <3>2. PICK q, r : Taken(ClassFor(b.layout), q, r) /\ b.ptr = SlotAddress(ClassFor(b.layout), q, r)
      BY <3>1 DEF Placed
    <3>3. b.ptr # a.ptr
      BY <1>0, <1>10, <3>1 DEF PlacedInv
    <3>4. ~(ClassFor(b.layout) = c /\ q = p /\ r = s)
      BY <1>2, <3>2, <3>3
    <3>5. Taken(ClassFor(b.layout), q, r)' /\ b.ptr = SlotAddress(ClassFor(b.layout), q, r)'
      BY <1>6, <1>7, <3>2, <3>4 DEF Taken
    <3>6. QED
      BY <3>1, <3>5 DEF Placed
  <2>2. ASSUME NEW b \in Outstanding', NEW d \in Outstanding', b.ptr = d.ptr PROVE b = d
    BY <1>0, <1>10, <2>2 DEF PlacedInv
  <2>3. ASSUME NEW d, NEW q, NEW r, Taken(d, q, r)'
        PROVE  \E b \in Outstanding' : b.ptr = SlotAddress(d, q, r)'
    <3>1. Taken(d, q, r) /\ IsSlot(d, q, r) /\ ~(d = c /\ q = p /\ r = s)
      BY <1>7, <2>3 DEF Taken
    <3>2. PICK b \in Outstanding : b.ptr = SlotAddress(d, q, r)
      BY <1>0, <3>1 DEF PlacedInv
    <3>3. SlotAddress(d, q, r) # SlotAddress(c, p, s)
      BY <1>0, <1>3, <3>1, AddressIsSlot
    <3>4. b # a
      BY <1>2, <3>2, <3>3
    <3>5. QED
      BY <1>6, <1>10, <3>1, <3>2, <3>4
  <2>4. QED
    BY <2>1, <2>2, <2>3 DEF PlacedInv
<1>12. HandsInv'
  BY <1>0, <1>1, <1>8, <1>9 DEF HandsInv
<1>13. CountInv'
  <2>1. /\ IsFiniteSet(Outstanding) /\ allocCount \in Nat /\ deallocCount \in Nat
        /\ allocCount = deallocCount + Cardinality(Outstanding)
    BY <1>0 DEF CountInv
  <2>2. IsFiniteSet(Outstanding') /\ Cardinality(Outstanding') = Cardinality(Outstanding) - 1
    BY <1>10, <2>1, FS_RemoveElement
  <2>3. Cardinality(Outstanding) \in Nat
    BY <2>1, FS_CardinalityType
  <2>4. QED
    BY <1>1, <1>5, <2>1, <2>2, <2>3 DEF CountInv
<1>14. \A u \in Thread : FoundInv(u)' /\ CallInv(u)'
  <2>1. FoundInv(t)'
    BY <1>8, OutsideKeeps
  <2>2. CallInv(t)'
    BY <1>0, <1>1, <1>8 DEF CallInv
  <2>3. QED
    BY <1>8, <2>1, <2>2, AloneInSection
<1>15. QED
  BY <1>6, <1>8, <1>11, <1>12, <1>13, <1>14 DEF HeapInv, OthersStay

\* Every step of every thread preserves the invariant of the heap.
LEMMA HeapInductive == Spec => []HeapInv
<1>1. Init => HeapInv
  <2> SUFFICES ASSUME Init PROVE HeapInv
    OBVIOUS
  <2>1. Exclusion /\ DOMAIN call = Thread /\ DOMAIN found = Thread
    BY DEF Init, Exclusion, Shape, MutualExclusion, InSection
  <2>2. \A t \in Thread : pc[t] = "idle" /\ call[t].op = "none"
    BY DEF Init, NoCall
  <2>3. live = {} /\ lost = {} /\ allocCount = 0 /\ deallocCount = 0 /\ nextPage = 0
        /\ pages = [c \in Class |-> <<>>]
    BY DEF Init
  <2>4. PagesInv /\ \A c, p, s : ~Taken(c, p, s)
    BY <2>3 DEF PagesInv, Taken, IsSlot
  <2>5. Outstanding = {}
    BY <2>2, <2>3 DEF Outstanding, InDealloc
  <2>6. CountInv
    BY <2>3, <2>5, FS_EmptySet DEF CountInv
  <2>7. HandsInv /\ \A t \in Thread : FoundInv(t) /\ CallInv(t)
    BY <2>2, <2>3 DEF HandsInv, InDealloc, FoundInv, CallInv, Chosen
  <2>8. PlacedInv
    BY <2>4, <2>5 DEF PlacedInv
  <2>9. QED
    BY <2>1, <2>4, <2>6, <2>7, <2>8 DEF HeapInv
<1>2. HeapInv /\ [Next]_vars => HeapInv'
  <2> SUFFICES ASSUME HeapInv, [Next]_vars PROVE HeapInv'
    OBVIOUS
  <2>0. Exclusion'
    BY ExclusionStep DEF HeapInv
  <2>1. CASE HeapInit \/ UNCHANGED vars
    <3>1. UNCHANGED <<heapVars, threadVars, live, lost, lock>>
      BY <2>1 DEF HeapInit, vars
    <3>2. UNCHANGED <<pages, nextPage, allocCount, deallocCount, pc, call, found, live, lost>>
      BY <3>1 DEF heapVars, threadVars
    <3>3. Outstanding' = Outstanding
      BY <3>2 DEF Outstanding, InDealloc
    <3>4. Store'
      BY <3>2, <3>3, QuietStep DEF HeapInv, Store
    <3>5. \A t \in Thread : FoundInv(t)' /\ CallInv(t)'
      BY <3>2 DEF HeapInv, FoundInv, CallInv, Chosen, Taken, IsSlot, SlotAddress
    <3>6. HandsInv'
      BY <3>2 DEF HeapInv, HandsInv, InDealloc
    <3>7. QED
      BY <2>0, <3>2, <3>4, <3>5, <3>6 DEF HeapInv, Store
  <2>2. ASSUME NEW t \in Thread, TryLock(t) PROVE HeapInv'
    BY <2>0, <2>2, MovedKeeps DEF TryLock, heapVars
  <2>3. ASSUME NEW t \in Thread, StatsRead(t) PROVE HeapInv'
    BY <2>0, <2>3, MovedKeeps DEF StatsRead, heapVars
  <2>4. ASSUME NEW t \in Thread, AllocMark(t) PROVE HeapInv'
    <3>1. CASE found[t] # Null
      BY <2>0, <2>4, <3>1, AllocMarkKeeps
    <3>2. CASE found[t] = Null
      BY <2>0, <2>4, <3>2, MovedKeeps DEF AllocMark
    <3>3. QED
      BY <3>1, <3>2
  <2>5. ASSUME NEW t \in Thread, Unlock(t) PROVE HeapInv'
    <3>1. Left(t) /\ lost' = lost /\ ~InDealloc(t)
      BY <2>5 DEF Unlock, Leave, Left, heapVars, InDealloc
    <3>2. QED
      BY <2>0, <3>1, LeftKeeps
  <2>6. QED
    BY <2>0, <2>1, <2>2, <2>3, <2>4, <2>5, EnterKeeps, DeallocCallKeeps, BusyKeeps,
       DeallocLookupKeeps, AllocLookupKeeps, DeallocMarkKeeps DEF Next, Step
<1>3. QED
  BY <1>1, <1>2, PTL DEF Spec

\* No two blocks of the program share a byte, whatever the classes, layouts
\* and interleavings, and however many calls give up on the lock.
THEOREM BlocksAreDisjoint == Spec => []BlocksDisjoint
  BY HeapInductive, InvImpliesDisjoint, PTL

\* Every block is aligned as asked and lies within one page of the arena.
THEOREM BlocksAreFit == Spec => []BlocksFit
  BY HeapInductive, InvImpliesFit, PTL

\* Bitmasks, counters and the blocks of the program agree.
THEOREM HeapIsAccounted == Spec => []HeapAccounting
  BY HeapInductive, InvImpliesAccounting, PTL
=============================================================================
