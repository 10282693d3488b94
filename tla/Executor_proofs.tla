--------------------------- MODULE Executor_proofs ---------------------------
(***************************************************************************)
(* The count of tasks and the ready mask of the executor, for any number   *)
(* of slots, whatever a waker that outlived its frame sets.                *)
(***************************************************************************)
EXTENDS Executor, FiniteSetTheorems, WellFoundedInduction, TLAPS

\* A pass that is over has used up its mask, and only the slot being polled
\* is running.
Turn ==
    /\ pc = "out" => mask = {}
    /\ \A s \in Slots : state[s] = "RUNNING" <=> (pc = "poll" /\ s = current)

\* Only a task that is not finished is owed a poll: the bit of any other slot
\* may be dropped (lines 159-161).
OwedIsAlive == owed \subseteq Alive

ExecInv == TypeOK /\ Turn /\ OwedIsAlive /\ NoBitIsLost /\ CountIsAlive

\* The lowest bit of a mask (trailing_zeros, line 156) is one of its bits.
LEMMA LowestBit ==
  ASSUME NEW S \in SUBSET Slots, S # {}
  PROVE  Min(S) \in S
<1>1. S \in SUBSET Nat
  BY MaxTasksAssumption DEF Slots
<1>2. PICK x \in S : \A y \in S : ~(<<y, x>> \in OpToRel(<, Nat))
  BY <1>1, NatLessThanWellFounded, WFMin, Zenon
<1>3. ASSUME NEW y \in S, y < x PROVE FALSE
  <2>1. <<y, x>> \in {p \in Nat \X Nat : p[1] < p[2]}
    BY <1>1, <1>3
  <2>2. QED
    BY <1>2, <2>1 DEF OpToRel
<1>4. \A y \in S : x <= y
  BY <1>1, <1>3
<1>5. QED
  BY <1>4 DEF Min

\* A set of slots is finite and no larger than MAX_TASKS; a slot more or less
\* changes its size by one.
LEMMA SlotSets ==
  ASSUME NEW S \in SUBSET Slots
  PROVE  /\ Cardinality(S) \in 0 .. MaxTasks
         /\ \A s \in Slots \ S : Cardinality(S \cup {s}) = Cardinality(S) + 1
         /\ \A s \in S : Cardinality(S \ {s}) = Cardinality(S) - 1 /\ Cardinality(S) # 0
<1>1. IsFiniteSet(Slots) /\ Cardinality(Slots) = MaxTasks
  BY MaxTasksAssumption, FS_Interval DEF Slots
<1>2. IsFiniteSet(S) /\ Cardinality(S) <= MaxTasks
  BY <1>1, FS_Subset
<1>3. Cardinality(S) \in Nat
  BY <1>2, FS_CardinalityType
<1>4. ASSUME NEW s \in Slots \ S PROVE Cardinality(S \cup {s}) = Cardinality(S) + 1
  BY <1>2, FS_AddElement
<1>5. ASSUME NEW s \in S PROVE Cardinality(S \ {s}) = Cardinality(S) - 1 /\ Cardinality(S) # 0
  <2>1. Cardinality(S \ {s}) = Cardinality(S) - 1
    BY <1>2, FS_RemoveElement
  <2>2. Cardinality(S) # 0
    BY <1>2, FS_EmptySet
  <2>3. QED
    BY <2>1, <2>2
<1>6. QED
  BY <1>2, <1>3, <1>4, <1>5, MaxTasksAssumption

\* A step that finishes and starts no task keeps the count.
LEMMA CountKept ==
  ASSUME CountIsAlive, Alive' = Alive, count' = count
  PROVE  CountIsAlive'
  BY DEF CountIsAlive

\* Every step of the executor, of the tasks and of the wakers preserves
\* ExecInv.
LEMMA ExecInductive == Spec => []ExecInv
<1> USE MaxTasksAssumption
<1>1. Init => ExecInv
  <2> SUFFICES ASSUME Init PROVE ExecInv
    OBVIOUS
  <2>1. Alive = {}
    BY DEF Init, Alive
  <2>2. CountIsAlive
    BY <2>1, FS_EmptySet DEF Init, CountIsAlive
  <2>3. TypeOK
    <3>1. 0 \in Slots /\ 0 \in 0 .. MaxTasks
      BY DEF Slots
    <3>2. state \in [Slots -> {"FREE", "PARKED", "READY", "RUNNING", "DONE"}]
      BY DEF Init
    <3>3. QED
      BY <3>1, <3>2 DEF Init, TypeOK
  <2>4. Turn /\ OwedIsAlive /\ NoBitIsLost
    BY DEF Init, Turn, OwedIsAlive, NoBitIsLost
  <2>5. QED
    BY <2>2, <2>3, <2>4 DEF ExecInv
<1>2. ExecInv /\ [Next]_vars => ExecInv'
  <2> SUFFICES ASSUME ExecInv, [Next]_vars
               PROVE  ExecInv'
    OBVIOUS
  <2>0. TypeOK /\ Turn /\ OwedIsAlive /\ NoBitIsLost /\ CountIsAlive /\ Alive \in SUBSET Slots
    BY DEF ExecInv, Alive
  <2> USE DEF wakeVars
  <2>1. CASE Spawn
    <3>1. PICK s : s = Min(FreeSlots) /\ s \in FreeSlots
      <4>1. FreeSlots \in SUBSET Slots /\ FreeSlots # {}
        BY <2>1 DEF Spawn, FreeSlots
      <4>2. QED
        BY <4>1, LowestBit
    <3>2. /\ pc = "out" /\ s \in Slots /\ state[s] \in {"FREE", "DONE"}
          /\ state' = [state EXCEPT ![s] = "READY"] /\ readyMask' = readyMask \cup {s}
          /\ count' = count + 1 /\ UNCHANGED <<pc, forever, mask, current, clones, owed, signalled>>
      BY <2>1, <3>1 DEF Spawn, FreeSlots
    <3>3. Alive' = Alive \cup {s} /\ s \notin Alive
      BY <2>0, <3>2 DEF TypeOK, Alive
    <3>4. CountIsAlive'
      BY <2>0, <3>2, <3>3, SlotSets DEF CountIsAlive
    <3>5. count' \in 0 .. MaxTasks
      <4>1. Alive' \in SUBSET Slots
        BY DEF Alive
      <4>2. QED
        BY <3>4, <4>1, SlotSets DEF CountIsAlive
    <3>6. TypeOK'
      BY <2>0, <3>2, <3>5 DEF TypeOK
    <3>7. Turn' /\ OwedIsAlive' /\ NoBitIsLost'
      BY <2>0, <3>2, <3>3 DEF TypeOK, Turn, OwedIsAlive, NoBitIsLost
    <3>8. QED
      BY <3>4, <3>6, <3>7 DEF ExecInv
  <2>2. CASE RunUntilStall
    <3>1. TypeOK'
      BY <2>0, <2>2 DEF RunUntilStall, SwapMask, TypeOK
    <3>2. Alive' = Alive /\ count' = count
      BY <2>2 DEF RunUntilStall, Alive
    <3>3. Turn' /\ OwedIsAlive' /\ NoBitIsLost'
      BY <2>0, <2>2, <3>2 DEF RunUntilStall, SwapMask, Turn, OwedIsAlive, NoBitIsLost
    <3>4. QED
      BY <2>0, <3>1, <3>2, <3>3, CountKept DEF ExecInv
  <2>3. CASE SkipBit
    <3>1. PICK s : s = Min(mask) /\ s \in mask
      BY <2>0, <2>3, LowestBit DEF SkipBit, TypeOK
    <3>2. /\ pc = "pass" /\ s \in Slots /\ state[s] \notin {"READY", "PARKED"}
          /\ mask' = mask \ {s}
          /\ UNCHANGED <<state, readyMask, count, pc, forever, current, clones, owed, signalled>>
      BY <2>0, <2>3, <3>1 DEF SkipBit, Pollable, TypeOK
    <3>3. s \notin Alive
      BY <2>0, <3>2 DEF Alive, Turn
    <3>4. TypeOK' /\ Alive' = Alive
      BY <2>0, <3>2 DEF TypeOK, Alive
    <3>5. Turn' /\ OwedIsAlive' /\ NoBitIsLost'
      BY <2>0, <3>2, <3>3, <3>4 DEF Turn, OwedIsAlive, NoBitIsLost
    <3>6. QED
      BY <2>0, <3>2, <3>4, <3>5, CountKept DEF ExecInv
  <2>4. CASE PollBegin
    <3>1. PICK s : s = Min(mask) /\ s \in mask
      BY <2>0, <2>4, LowestBit DEF PollBegin, TypeOK
    <3>2. /\ pc = "pass" /\ s \in Slots /\ state[s] \in {"READY", "PARKED"}
          /\ current' = s /\ mask' = mask \ {s} /\ state' = [state EXCEPT ![s] = "RUNNING"]
          /\ owed' = owed \ {s} /\ signalled' = signalled \ {s} /\ pc' = "poll"
          /\ UNCHANGED <<readyMask, count, forever, clones>>
      BY <2>0, <2>4, <3>1 DEF PollBegin, Pollable, TypeOK
    <3>3. TypeOK' /\ Alive' = Alive
      BY <2>0, <3>2 DEF TypeOK, Alive
    <3>4. Turn' /\ OwedIsAlive' /\ NoBitIsLost'
      BY <2>0, <3>2, <3>3 DEF TypeOK, Turn, OwedIsAlive, NoBitIsLost
    <3>5. QED
      BY <2>0, <3>2, <3>3, <3>4, CountKept DEF ExecInv
  <2>5. CASE CloneWaker
    <3>1. TypeOK' /\ Alive' = Alive /\ count' = count
      BY <2>0, <2>5 DEF CloneWaker, TypeOK, Alive
    <3>2. Turn' /\ OwedIsAlive' /\ NoBitIsLost'
      BY <2>0, <2>5, <3>1 DEF CloneWaker, Turn, OwedIsAlive, NoBitIsLost
    <3>3. QED
      BY <2>0, <3>1, <3>2, CountKept DEF ExecInv
  <2>6. CASE PollPending
    <3>1. current \in Slots /\ state[current] = "RUNNING"
      BY <2>0, <2>6 DEF PollPending, TypeOK, Turn
    <3>2. TypeOK' /\ Alive' = Alive /\ count' = count
      BY <2>0, <2>6, <3>1 DEF PollPending, TypeOK, Alive
    <3>3. Turn' /\ OwedIsAlive' /\ NoBitIsLost'
      BY <2>0, <2>6, <3>2 DEF PollPending, TypeOK, Turn, OwedIsAlive, NoBitIsLost
    <3>4. QED
      BY <2>0, <3>2, <3>3, CountKept DEF ExecInv
  <2>7. CASE PollDone
    <3>1. PICK s : s = current /\ s \in Slots /\ state[s] = "RUNNING"
      BY <2>0, <2>7 DEF PollDone, TypeOK, Turn
    <3>2. /\ pc = "poll" /\ pc' = "pass" /\ state' = [state EXCEPT ![s] = "DONE"]
          /\ owed' = owed \ {s} /\ signalled' = signalled \ {s}
          /\ UNCHANGED <<readyMask, forever, mask, current>>
      BY <2>7, <3>1 DEF PollDone, Retire
    <3>3. Alive' = Alive \ {s} /\ s \in Alive
      BY <2>0, <3>1, <3>2 DEF TypeOK, Alive
    <3>4. count' = count - 1 /\ count # 0 /\ Cardinality(Alive \ {s}) = Cardinality(Alive) - 1
      BY <2>0, <2>7, <3>3, SlotSets DEF PollDone, CountIsAlive
    <3>5. CountIsAlive'
      BY <2>0, <3>3, <3>4 DEF CountIsAlive
    <3>6. clones' \subseteq Slots \X {"task", "orphan"}
      BY <2>0, <2>7 DEF PollDone, Retire, TypeOK
    <3>7. TypeOK'
      BY <2>0, <3>1, <3>2, <3>4, <3>6 DEF TypeOK
    <3>8. Turn' /\ OwedIsAlive' /\ NoBitIsLost'
      BY <2>0, <3>1, <3>2, <3>3 DEF TypeOK, Turn, OwedIsAlive, NoBitIsLost
    <3>9. QED
      BY <3>5, <3>7, <3>8 DEF ExecInv
  <2>8. CASE PassEnd
    <3>1. TypeOK' /\ Alive' = Alive /\ count' = count
      BY <2>0, <2>8 DEF PassEnd, SwapMask, TypeOK, Alive
    <3>2. Turn' /\ OwedIsAlive' /\ NoBitIsLost'
      BY <2>0, <2>8, <3>1 DEF PassEnd, SwapMask, Turn, OwedIsAlive, NoBitIsLost
    <3>3. QED
      BY <2>0, <3>1, <3>2, CountKept DEF ExecInv
  <2>9. CASE WakeInPoll
    <3>1. TypeOK' /\ Alive' = Alive /\ count' = count
      BY <2>0, <2>9 DEF WakeInPoll, TypeOK, Alive
    <3>2. current \in Alive
      BY <2>0, <2>9 DEF WakeInPoll, TypeOK, Turn, Alive
    <3>3. Turn' /\ OwedIsAlive' /\ NoBitIsLost'
      BY <2>0, <2>9, <3>1, <3>2 DEF WakeInPoll, Turn, OwedIsAlive, NoBitIsLost
    <3>4. QED
      BY <2>0, <3>1, <3>3, CountKept DEF ExecInv
  <2>10. ASSUME NEW s \in Slots, NEW holder \in {"task", "orphan"}, WakeStale(s, holder)
         PROVE  ExecInv'
    <3>1. TypeOK' /\ Alive' = Alive /\ count' = count
      BY <2>0, <2>10 DEF WakeStale, TypeOK, Alive
    <3>2. Turn' /\ OwedIsAlive' /\ NoBitIsLost'
      BY <2>0, <2>10, <3>1 DEF WakeStale, Turn, OwedIsAlive, NoBitIsLost
    <3>3. QED
      BY <2>0, <3>1, <3>2, CountKept DEF ExecInv
  <2>11. CASE UNCHANGED vars
    <3>1. Alive' = Alive /\ count' = count
      BY <2>11 DEF vars, Alive
    <3>2. TypeOK' /\ Turn' /\ OwedIsAlive' /\ NoBitIsLost'
      BY <2>0, <2>11, <3>1 DEF vars, TypeOK, Turn, OwedIsAlive, NoBitIsLost
    <3>3. QED
      BY <2>0, <3>1, <3>2, CountKept DEF ExecInv
  <2>12. QED
    BY <2>1, <2>2, <2>3, <2>4, <2>5, <2>6, <2>7, <2>8, <2>9, <2>10, <2>11
       DEF Next, ExecutorStep
<1>3. QED
  BY <1>1, <1>2, PTL DEF Spec

\* Type correctness of the executor and its wakers.
THEOREM TypeCorrect == Spec => []TypeOK
<1>1. ExecInv => TypeOK
  BY DEF ExecInv
<1>2. QED
  BY <1>1, ExecInductive, PTL

\* The count that run_until_stall returns is the number of unfinished tasks.
THEOREM CountsAreAlive == Spec => []CountIsAlive
<1>1. ExecInv => CountIsAlive
  BY DEF ExecInv
<1>2. QED
  BY <1>1, ExecInductive, PTL

\* No task that was spawned, or woken during its poll, drops out of the ready
\* mask before it is polled.
THEOREM BitsAreKept == Spec => []NoBitIsLost
<1>1. ExecInv => NoBitIsLost
  BY DEF ExecInv
<1>2. QED
  BY <1>1, ExecInductive, PTL
=============================================================================
