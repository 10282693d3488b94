------------------------------ MODULE Executor ------------------------------
(***************************************************************************)
(* executor.rs: the Ouroboros executor.  A pass (run_until_stall) swaps    *)
(* the ready mask to zero and polls the slots it found, lowest first;      *)
(* run_forever repeats passes until no task is alive.  Wakers set bits of  *)
(* the ready mask at any time.                                             *)
(*                                                                         *)
(* The waker handed to a future points to a WakerData on the stack of the  *)
(* loop body (lines 163-167).  While that poll runs, waking sets the bit   *)
(* of the polled slot.  A clone used after the poll has returned reads a   *)
(* dead frame; what it finds there is chosen freely: the data of some      *)
(* slot, or nothing that the scheduler sees.                               *)
(***************************************************************************)
EXTENDS Naturals, FiniteSets, FiniteSetsExt

CONSTANT MaxTasks  \* MAX_TASKS

ASSUME MaxTasksAssumption == MaxTasks \in Nat \ {0}

VARIABLES state,      \* TaskSlot::state, by slot
          readyMask,  \* OuroborosExecutor::ready_mask, the set of its bits
          count,      \* OuroborosExecutor::count
          pc,         \* "out", in a "pass", "poll"ing, or at the "end" of a pass
          forever,    \* the pass was started by run_forever
          mask,       \* run_until_stall's local copy of the mask
          current,    \* the slot being polled
          clones,     \* wakers held by somebody: <<slot, "task">> while the task
                      \* that was polled is alive, <<slot, "orphan">> after
          owed,       \* tasks woken during their poll and not polled since
          signalled   \* tasks woken through any waker and not polled since

wakeVars == <<clones, owed, signalled>>
vars == <<state, readyMask, count, pc, forever, mask, current, wakeVars>>

Slots == 0 .. MaxTasks - 1
Alive == {s \in Slots : state[s] \in {"READY", "PARKED", "RUNNING"}}

Init ==
    /\ state = [s \in Slots |-> "FREE"]
    /\ readyMask = {}
    /\ count = 0
    /\ pc = "out"
    /\ forever = FALSE
    /\ mask = {}
    /\ current = 0
    /\ clones = {}
    /\ owed = {}
    /\ signalled = {}

\* find_free_slot
FreeSlots == {s \in Slots : state[s] \in {"FREE", "DONE"}}

\* Mutant: the slot is filled but its ready bit is not set.
SpawnUnscheduled ==
    /\ pc = "out"
    /\ FreeSlots # {}
    /\ state' = [state EXCEPT ![Min(FreeSlots)] = "READY"]
    /\ count' = count + 1
    /\ UNCHANGED <<readyMask, pc, forever, mask, current, wakeVars>>

\* spawn_raw.  It borrows the executor exclusively, so no task spawns from
\* within a poll; with no free slot it answers ArenaFull and changes nothing.
Spawn ==
    /\ pc = "out"
    /\ FreeSlots # {}
    /\ LET s == Min(FreeSlots)
       IN  /\ state' = [state EXCEPT ![s] = "READY"]
           /\ readyMask' = readyMask \cup {s}
    /\ count' = count + 1
    /\ UNCHANGED <<pc, forever, mask, current, wakeVars>>

-----------------------------------------------------------------------------
(* run_until_stall                                                         *)

\* ready_mask.swap(0)
SwapMask ==
    /\ mask' = readyMask
    /\ readyMask' = {}

RunUntilStall ==
    /\ pc = "out"
    /\ forever' \in BOOLEAN
    /\ SwapMask
    /\ pc' = "pass"
    /\ UNCHANGED <<state, count, current, wakeVars>>

Pollable(s) == state[s] \in {"READY", "PARKED"}

\* A bit of a slot that holds no task, or a finished one, is dropped.
SkipBit ==
    /\ pc = "pass"
    /\ mask # {}
    /\ ~Pollable(Min(mask))
    /\ mask' = mask \ {Min(mask)}
    /\ UNCHANGED <<state, readyMask, count, pc, forever, current, wakeVars>>

\* Mutant: the loop looks at the live mask, so a slot woken meanwhile overtakes.
PollBeginLive ==
    /\ pc = "pass"
    /\ mask # {}
    /\ Pollable(Min(mask))
    /\ LET s == Min({r \in mask \cup readyMask : Pollable(r)})
       IN  /\ current' = s
           /\ mask' = mask \ {s}
           /\ readyMask' = readyMask \ {s}
           /\ state' = [state EXCEPT ![s] = "RUNNING"]
           /\ owed' = owed \ {s}
           /\ signalled' = signalled \ {s}
    /\ pc' = "poll"
    /\ UNCHANGED <<count, forever, clones>>

PollBegin ==
    /\ pc = "pass"
    /\ mask # {}
    /\ Pollable(Min(mask))
    /\ current' = Min(mask)
    /\ mask' = mask \ {Min(mask)}
    /\ state' = [state EXCEPT ![Min(mask)] = "RUNNING"]
    /\ owed' = owed \ {Min(mask)}
    /\ signalled' = signalled \ {Min(mask)}
    /\ pc' = "poll"
    /\ UNCHANGED <<readyMask, count, forever, clones>>

\* The future stores a clone of its waker (waker_clone copies the pointer).
CloneWaker ==
    /\ pc = "poll"
    /\ clones' = clones \cup {<<current, "task">>}
    /\ UNCHANGED <<state, readyMask, count, pc, forever, mask, current, owed, signalled>>

\* The future returned Pending.
PollPending ==
    /\ pc = "poll"
    /\ state' = [state EXCEPT ![current] = "PARKED"]
    /\ pc' = "pass"
    /\ UNCHANGED <<readyMask, count, forever, mask, current, wakeVars>>

\* The task is gone; whoever still holds a clone of its waker keeps it.
Retire ==
    /\ clones' = IF <<current, "task">> \in clones
                 THEN (clones \ {<<current, "task">>}) \cup {<<current, "orphan">>}
                 ELSE clones
    /\ owed' = owed \ {current}
    /\ signalled' = signalled \ {current}

\* Mutant: the count is not decremented.
PollDoneUncounted ==
    /\ pc = "poll"
    /\ state' = [state EXCEPT ![current] = "DONE"]
    /\ Retire
    /\ pc' = "pass"
    /\ UNCHANGED <<readyMask, count, forever, mask, current>>

\* The future returned Ready.
PollDone ==
    /\ pc = "poll"
    /\ state' = [state EXCEPT ![current] = "DONE"]
    /\ count' = IF count = 0 THEN 0 ELSE count - 1
    /\ Retire
    /\ pc' = "pass"
    /\ UNCHANGED <<readyMask, forever, mask, current>>

\* The pass returns the number of tasks alive.  run_forever yields and starts
\* the next pass unless that number is zero.
PassEnd ==
    /\ pc = "pass"
    /\ mask = {}
    /\ \/ /\ forever /\ count # 0
          /\ SwapMask
          /\ UNCHANGED <<pc, forever>>
       \/ /\ ~forever \/ count = 0
          /\ pc' = "out"
          /\ forever' = FALSE
          /\ UNCHANGED <<mask, readyMask>>
    /\ UNCHANGED <<state, count, current, wakeVars>>

-----------------------------------------------------------------------------
(* waker_wake, waker_wake_by_ref                                           *)

\* The running future wakes itself, or hands its waker to somebody who uses
\* it before the poll returns: the frame is alive.
WakeInPoll ==
    /\ pc = "poll"
    /\ readyMask' = readyMask \cup {current}
    /\ owed' = owed \cup {current}
    /\ signalled' = signalled \cup {current}
    /\ UNCHANGED <<state, count, pc, forever, mask, current, clones>>

\* A clone is used when the poll it came from has returned.
WakeStale(s, holder) ==
    /\ <<s, holder>> \in clones
    /\ ~(pc = "poll" /\ current = s)
    /\ clones' = clones \ {<<s, holder>>}
    /\ \/ UNCHANGED readyMask
       \/ \E r \in Slots : readyMask' = readyMask \cup {r}
    /\ signalled' = IF holder = "task" THEN signalled \cup {s} ELSE signalled
    /\ UNCHANGED <<state, count, pc, forever, mask, current, owed>>

ExecutorStep == SkipBit \/ PollBegin \/ PollPending \/ PollDone \/ PassEnd

Next ==
    \/ Spawn
    \/ RunUntilStall
    \/ ExecutorStep
    \/ CloneWaker
    \/ WakeInPoll
    \/ \E s \in Slots, holder \in {"task", "orphan"} : WakeStale(s, holder)

Spec == Init /\ [][Next]_vars

\* The thread that runs the executor keeps running and every poll returns.
FairSpec == Spec /\ WF_vars(ExecutorStep) /\ WF_vars(RunUntilStall)

-----------------------------------------------------------------------------
\* Every variable has its type.
TypeOK ==
    /\ state \in [Slots -> {"FREE", "PARKED", "READY", "RUNNING", "DONE"}]
    /\ readyMask \subseteq Slots
    /\ count \in 0 .. MaxTasks
    /\ pc \in {"out", "pass", "poll"}
    /\ forever \in BOOLEAN
    /\ mask \subseteq Slots
    /\ current \in Slots
    /\ clones \subseteq Slots \X {"task", "orphan"}
    /\ owed \subseteq Slots
    /\ signalled \subseteq Slots

\* "Returns number of tasks still alive" (executor.rs 152): count is the
\* number of unfinished tasks, whatever spurious or stale bits the mask held.
CountIsAlive == count = Cardinality(Alive)

\* A task that was never polled, or that was woken during its poll, is in the
\* ready mask or still ahead in the current pass: the swap at the start of a
\* pass loses no bit that is set while the pass runs.
NoBitIsLost ==
    \A s \in Slots :
        (state[s] = "READY" \/ s \in owed) => s \in readyMask \cup mask

\* A task that wakes itself during its poll is polled again: the bit it sets
\* is not part of the pass that is under way (executor.rs 154).
SelfWokenIsPolledAgain == \A s \in Slots : s \in owed ~> s \notin owed

\* "Wake marks the slot READY" (executor.rs 8) and "The raw waker points into
\* a retained task slot" (executor.rs 65): a task whose waker was used is in
\* the ready mask or ahead in the current pass.
WakeMarksTheSlot == \A s \in signalled : s \in readyMask \cup mask
=============================================================================
