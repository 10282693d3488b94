------------------------------ MODULE SlabHeap ------------------------------
(***************************************************************************)
(* memory/mod.rs and sync/entanglement.rs: the process heap.  Threads call *)
(* alloc and dealloc; each call tries a bounded number of times to take    *)
(* the SpookyCell lock and then works on the slab pages of one size class. *)
(* A page of the fixed arena belongs to the class that first asked for it  *)
(* for good.  An address is a byte offset in the arena; the free bitmask   *)
(* of a page is the set of its free slots.                                 *)
(***************************************************************************)
EXTENDS Naturals, Sequences, FiniteSets, FiniteSetsExt

CONSTANTS Thread,
          FairThread,    \* the threads that the scheduler never abandons
          PageSize,      \* PAGE_SIZE
          ClassSize,     \* SIZE_CLASSES, ascending
          ArenaPages,    \* USER_HEAP_PAGES
          MaxSlabPages,  \* MAX_SLAB_PAGES
          Attempts,      \* the 64 of alloc and dealloc
          Layout,        \* the layouts the program asks for: [size, align]
          MaxAllocs      \* bound: alloc calls that reach the heap state

ASSUME SlabAssumption ==
    /\ PageSize \in Nat \ {0} /\ ArenaPages \in Nat /\ MaxSlabPages \in Nat
    /\ Attempts \in Nat \ {0} /\ MaxAllocs \in Nat
    /\ ClassSize \in Seq(1 .. PageSize)
    /\ \A i, j \in DOMAIN ClassSize : i < j => ClassSize[i] < ClassSize[j]
    /\ \A i \in DOMAIN ClassSize : PageSize % ClassSize[i] = 0
    /\ FairThread \subseteq Thread

\* Alignments, like the classes, are powers of two: a class that is no
\* smaller than an alignment is a multiple of it.
ASSUME LayoutAssumption ==
    \A l \in Layout :
        /\ l.size \in Nat /\ l.align \in Nat \ {0}
        /\ \A i \in DOMAIN ClassSize : ClassSize[i] >= l.align => ClassSize[i] % l.align = 0

VARIABLES ready,      \* GlobalSlabHeap::ready
          lock,       \* SpookyCell::lock
          pages,      \* SlabClass::pages by class: a sequence of [base, free]
          nextPage,   \* FixedHeapArena::next_page
          allocCount, deallocCount, oomCount,  \* HeapState
          pc,         \* where each thread stands
          call,       \* the arguments of each thread's call in progress
          tries,      \* attempts left of mutate_bounded
          found,      \* what the locked section has looked up
          live,       \* allocations the program holds: [ptr, layout]
          lost        \* allocations whose dealloc gave up on the lock

heapVars == <<pages, nextPage, allocCount, deallocCount, oomCount>>
threadVars == <<pc, call, tries, found>>
vars == <<ready, lock, heapVars, threadVars, live, lost>>

Class == DOMAIN ClassSize
Null == <<>>
NoCall == [op |-> "none"]

Larger(a, b) == IF a > b THEN a ELSE b

\* Mutant: the alignment of the layout is forgotten.
SizeOnly(layout) == layout.size

\* layout.size().max(layout.align())
Needed(layout) == Larger(layout.size, layout.align)

\* class_for: the classes that are large enough; the first one is used.
Fitting(layout) == {c \in Class : ClassSize[c] >= Needed(layout)}
ClassFor(layout) == Min(Fitting(layout))

SlotCount(c) == PageSize \div ClassSize[c]

\* SlabPage::new
NewPage(c, base) == [base |-> base, free |-> 0 .. SlotCount(c) - 1]

SlotAddress(c, p, slot) == pages[c][p].base + slot * ClassSize[c]

\* The page and slot that SlabPage::dealloc_slot computes from an address;
\* a slot that is already free is a double free and does not match.
SlotAt(c, ptr) ==
    {ps \in (DOMAIN pages[c]) \X (0 .. SlotCount(c) - 1) :
        /\ ptr >= pages[c][ps[1]].base
        /\ (ptr - pages[c][ps[1]].base) % ClassSize[c] = 0
        /\ (ptr - pages[c][ps[1]].base) \div ClassSize[c] = ps[2]
        /\ ps[2] \notin pages[c][ps[1]].free}

PagesWithRoom(c) == {p \in DOMAIN pages[c] : pages[c][p].free # {}}

Init ==
    /\ ready = FALSE
    /\ lock = "UNLOCKED"
    /\ pages = [c \in Class |-> <<>>]
    /\ nextPage = 0
    /\ allocCount = 0 /\ deallocCount = 0 /\ oomCount = 0
    /\ pc = [t \in Thread |-> "idle"]
    /\ call = [t \in Thread |-> NoCall]
    /\ tries = [t \in Thread |-> 0]
    /\ found = [t \in Thread |-> Null]
    /\ live = {}
    /\ lost = {}

-----------------------------------------------------------------------------
(* Entry of the operations.                                                *)

\* GlobalSlabHeap::init, called once by _start
HeapInit ==
    /\ ~ready
    /\ ready' = TRUE
    /\ UNCHANGED <<lock, heapVars, threadVars, live, lost>>

Enter(t, c, attempts) ==
    /\ pc' = [pc EXCEPT ![t] = "try"]
    /\ call' = [call EXCEPT ![t] = c]
    /\ tries' = [tries EXCEPT ![t] = attempts]
    /\ UNCHANGED <<ready, lock, heapVars, found, lost>>

Leave(t) ==
    /\ pc' = [pc EXCEPT ![t] = "idle"]
    /\ found' = [found EXCEPT ![t] = Null]
    /\ call' = [call EXCEPT ![t] = NoCall]
    /\ tries' = [tries EXCEPT ![t] = 0]

PendingAllocs == {t \in Thread : call[t].op = "alloc"}

\* Before init, and for more than the largest class, alloc answers null at
\* once and changes nothing.
AllocCall(t, layout) ==
    /\ pc[t] = "idle"
    /\ ready
    /\ Fitting(layout) # {}
    /\ allocCount + oomCount + Cardinality(PendingAllocs) < MaxAllocs
    /\ Enter(t, [op |-> "alloc", class |-> ClassFor(layout), layout |-> layout], Attempts)
    /\ UNCHANGED live

\* The caller gives the allocation up when it calls dealloc.
DeallocCall(t, a) ==
    /\ pc[t] = "idle"
    /\ live' = live \ {a}
    /\ Enter(t, [op |-> "dealloc", class |-> ClassFor(a.layout), alloc |-> a], Attempts)

\* stats: one attempt, and zeros when the lock is taken
StatsCall(t) ==
    /\ pc[t] = "idle"
    /\ Enter(t, [op |-> "stats"], 1)
    /\ UNCHANGED live

-----------------------------------------------------------------------------
(* SpookyCell::try_lock and EntangledPair::mutate_bounded.                 *)

\* Mutant: the lock word is stored, not compared.
TryLockBlind(t) ==
    /\ pc[t] = "try"
    /\ lock' = "LOCKED"
    /\ pc' = [pc EXCEPT ![t] = "locked"]
    /\ UNCHANGED <<ready, heapVars, call, tries, found, live, lost>>

TryLock(t) ==
    /\ pc[t] = "try"
    /\ lock = "UNLOCKED"
    /\ lock' = "LOCKED"
    /\ pc' = [pc EXCEPT ![t] = "locked"]
    /\ UNCHANGED <<ready, heapVars, call, tries, found, live, lost>>

\* Mutant: an unbounded spin.
BusyForever(t) ==
    /\ pc[t] = "try"
    /\ lock = "LOCKED"
    /\ UNCHANGED vars

\* Busy: spin again, or give the call up after the last attempt.  alloc then
\* answers null, stats answers zeros, and dealloc drops the allocation.
Busy(t) ==
    /\ pc[t] = "try"
    /\ lock = "LOCKED"
    /\ \/ /\ tries[t] > 1
          /\ tries' = [tries EXCEPT ![t] = @ - 1]
          /\ UNCHANGED <<pc, call, found, lost>>
       \/ /\ tries[t] <= 1
          /\ lost' = IF call[t].op = "dealloc" THEN lost \cup {call[t].alloc} ELSE lost
          /\ Leave(t)
    /\ UNCHANGED <<ready, lock, heapVars, live>>

-----------------------------------------------------------------------------
(* The locked sections.  Looking a slot up and marking it are two steps,   *)
(* so that the exclusion is the lock's doing.                              *)

\* SlabClass::grow and FixedHeapArena::allocate_page succeed
CanGrow(c) == Len(pages[c]) < MaxSlabPages /\ nextPage < ArenaPages

\* SlabClass::alloc: the first slot of the first page with room, growing the
\* class by a page of the arena when no page has room.
AllocLookup(t) ==
    LET c == call[t].class
    IN  /\ pc[t] = "locked"
        /\ call[t].op = "alloc"
        /\ \/ /\ PagesWithRoom(c) # {}
              /\ LET p == Min(PagesWithRoom(c))
                 IN  found' = [found EXCEPT ![t] = <<p, Min(pages[c][p].free)>>]
              /\ UNCHANGED <<pages, nextPage>>
           \/ /\ PagesWithRoom(c) = {} /\ CanGrow(c)
              /\ pages' = [pages EXCEPT ![c] = Append(@, NewPage(c, nextPage * PageSize))]
              /\ nextPage' = nextPage + 1
              /\ found' = [found EXCEPT ![t] = <<Len(pages[c]) + 1, 0>>]
           \/ /\ PagesWithRoom(c) = {} /\ ~CanGrow(c)
              /\ found' = [found EXCEPT ![t] = Null]
              /\ UNCHANGED <<pages, nextPage>>
        /\ pc' = [pc EXCEPT ![t] = "looked"]
        /\ UNCHANGED <<ready, lock, allocCount, deallocCount, oomCount, call, tries,
                       live, lost>>

AllocMark(t) ==
    LET c == call[t].class
    IN  /\ pc[t] = "looked"
        /\ call[t].op = "alloc"
        /\ \/ /\ found[t] # Null
              /\ pages' = [pages EXCEPT ![c][found[t][1]].free = @ \ {found[t][2]}]
              /\ allocCount' = allocCount + 1
              /\ live' = live \cup {[ptr |-> SlotAddress(c, found[t][1], found[t][2]),
                                     layout |-> call[t].layout]}
              /\ UNCHANGED oomCount
           \/ /\ found[t] = Null
              /\ oomCount' = oomCount + 1
              /\ UNCHANGED <<pages, allocCount, live>>
        /\ pc' = [pc EXCEPT ![t] = "unlock"]
        /\ UNCHANGED <<ready, lock, nextPage, deallocCount, call, tries, found, lost>>

\* SlabClass::dealloc
DeallocLookup(t) ==
    LET matches == SlotAt(call[t].class, call[t].alloc.ptr)
    IN  /\ pc[t] = "locked"
        /\ call[t].op = "dealloc"
        /\ found' = [found EXCEPT ![t] =
                        IF matches = {} THEN Null
                        ELSE CHOOSE ps \in matches : \A qs \in matches : ps[1] <= qs[1]]
        /\ pc' = [pc EXCEPT ![t] = "looked"]
        /\ UNCHANGED <<ready, lock, heapVars, call, tries, live, lost>>

\* Mutant: the counter is bumped but the bit is not set.
DeallocForgetsBit(t) ==
    /\ pc[t] = "looked"
    /\ call[t].op = "dealloc"
    /\ deallocCount' = deallocCount + 1
    /\ pc' = [pc EXCEPT ![t] = "unlock"]
    /\ UNCHANGED <<ready, lock, pages, nextPage, allocCount, oomCount, call, tries, found,
                   live, lost>>

DeallocMark(t) ==
    /\ pc[t] = "looked"
    /\ call[t].op = "dealloc"
    /\ IF found[t] = Null
       THEN UNCHANGED <<pages, deallocCount>>
       ELSE /\ pages' = [pages EXCEPT ![call[t].class][found[t][1]].free = @ \cup {found[t][2]}]
            /\ deallocCount' = deallocCount + 1
    /\ pc' = [pc EXCEPT ![t] = "unlock"]
    /\ UNCHANGED <<ready, lock, nextPage, allocCount, oomCount, call, tries, found, live, lost>>

StatsRead(t) ==
    /\ pc[t] = "locked"
    /\ call[t].op = "stats"
    /\ pc' = [pc EXCEPT ![t] = "unlock"]
    /\ UNCHANGED <<ready, lock, heapVars, call, tries, found, live, lost>>

\* SpookyGuard::drop
Unlock(t) ==
    /\ pc[t] = "unlock"
    /\ lock' = "UNLOCKED"
    /\ Leave(t)
    /\ UNCHANGED <<ready, heapVars, live, lost>>

Step(t) ==
    \/ TryLock(t)
    \/ Busy(t)
    \/ AllocLookup(t)
    \/ AllocMark(t)
    \/ DeallocLookup(t)
    \/ DeallocMark(t)
    \/ StatsRead(t)
    \/ Unlock(t)

Next ==
    \/ HeapInit
    \/ \E t \in Thread :
        \/ \E layout \in Layout : AllocCall(t, layout)
        \/ \E a \in live : DeallocCall(t, a)
        \/ StatsCall(t)
        \/ Step(t)

Spec == Init /\ [][Next]_vars

\* Only the threads of FairThread keep running: the others may be preempted
\* for ever at any point, also while they hold the lock.
FairSpec == Spec /\ \A t \in FairThread : WF_vars(Step(t))

-----------------------------------------------------------------------------
Block == [ptr : Nat, layout : Layout]

\* The shape of the heap state, of the calls and of the program's blocks.
TypeOK ==
    /\ ready \in BOOLEAN
    /\ lock \in {"UNLOCKED", "LOCKED"}
    /\ DOMAIN pages = Class
    /\ \A c \in Class :
        /\ Len(pages[c]) <= MaxSlabPages
        /\ \A p \in DOMAIN pages[c] :
            /\ pages[c][p].base \in {n * PageSize : n \in 0 .. nextPage - 1}
            /\ pages[c][p].free \subseteq 0 .. SlotCount(c) - 1
    /\ nextPage \in 0 .. ArenaPages
    /\ allocCount \in Nat /\ deallocCount \in Nat /\ oomCount \in Nat
    /\ pc \in [Thread -> {"idle", "try", "locked", "looked", "unlock"}]
    /\ \A t \in Thread : pc[t] = "idle" <=> call[t] = NoCall
    /\ tries \in [Thread -> 0 .. Attempts]
    /\ live \subseteq Block
    /\ lost \subseteq Block

InSection(t) == pc[t] \in {"locked", "looked", "unlock"}

\* "Access to data is serialized by lock" (entanglement.rs 14): at most one
\* thread is between try_lock and the drop of its guard, and the lock word
\* says so.
MutualExclusion ==
    /\ \A t, u \in Thread : InSection(t) /\ InSection(u) => t = u
    /\ lock = "LOCKED" <=> \E t \in Thread : InSection(t)

\* Blocks that have been handed out and whose slot has not been freed.
InDealloc(t) == pc[t] \in {"try", "locked", "looked"} /\ call[t].op = "dealloc"
Outstanding == live \cup lost \cup {call[t].alloc : t \in {u \in Thread : InDealloc(u)}}
Bytes(a) == a.ptr .. a.ptr + a.layout.size - 1

Chosen(t) == pc[t] = "looked" /\ call[t].op = "alloc" /\ found[t] # Null
ChosenBytes(t) ==
    LET c == call[t].class
        start == SlotAddress(c, found[t][1], found[t][2])
    IN  start .. start + ClassSize[c] - 1

\* No two blocks of the program share a byte, and the slot alloc is about to
\* hand out is part of none: what "bitmask ownership tracking" (mod.rs 12)
\* has to guarantee across classes, pages and threads.
BlocksDisjoint ==
    /\ \A a, b \in Outstanding : a # b => Bytes(a) \cap Bytes(b) = {}
    /\ \A t \in Thread : Chosen(t) => \A a \in Outstanding : Bytes(a) \cap ChosenBytes(t) = {}

\* The layout contract of GlobalAlloc: every block is aligned as asked and
\* lies within one page of the arena.
BlocksFit ==
    \A a \in live :
        /\ a.ptr % a.layout.align = 0
        /\ a.ptr \div PageSize < nextPage
        /\ (a.ptr % PageSize) + a.layout.size <= PageSize

\* Bitmasks, counters and program agree: the slots marked as taken are those
\* of the outstanding blocks, and alloc_count - dealloc_count is their number.
HeapAccounting ==
    /\ {a.ptr : a \in Outstanding} =
        UNION {UNION {{SlotAddress(c, p, s) : s \in (0 .. SlotCount(c) - 1) \ pages[c][p].free} :
                        p \in DOMAIN pages[c]} : c \in Class}
    /\ allocCount = deallocCount + Cardinality(Outstanding)

\* "never spins forever in Ring 3" (entanglement.rs 87): a call returns even
\* if the thread that holds the lock never runs again.
CallsReturn == \A t \in FairThread : pc[t] # "idle" ~> pc[t] = "idle"
=============================================================================
