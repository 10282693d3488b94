------------------------------- MODULE Fabric -------------------------------
(***************************************************************************)
(* fabric.rs: the fiber pool.  The owner of a FabricWeave borrows slots,   *)
(* spawns a thread on each, and learns the outcome by looking at an atomic *)
(* word that the thread stores before it exits.  The kernel may refuse a   *)
(* spawn.  A fiber's result is any word, OUTCOME_PENDING included.         *)
(***************************************************************************)
EXTENDS Naturals, FiniteSets

CONSTANTS MaxFibers,  \* MAX_FIBERS
          Result,     \* the words a closure may return
          Pending     \* OUTCOME_PENDING

ASSUME FabricAssumption == MaxFibers \in Nat

VARIABLES outcome,   \* FabricFiber::outcome, by slot
          tid,       \* FabricFiber::tid
          count,     \* FabricWeave::count
          thread,    \* the thread of each slot: "none", "running", "stored", "exited"
          result,    \* what its closure returned
          pc,        \* the owner: "idle", "spawn"ing, "harvest"ing or "join"ing
          cursor,    \* the slot it has come to
          reported   \* on_done calls of the harvest in progress: <<slot, outcome>>

fiber == <<outcome, tid, count>>
fabricVars == <<fiber, thread, result, pc, cursor, reported>>

Slots == 0 .. MaxFibers - 1

FabricInit ==
    /\ outcome = [s \in Slots |-> Pending]
    /\ tid = [s \in Slots |-> 0]
    /\ count = 0
    /\ thread = [s \in Slots |-> "none"]
    /\ result = [s \in Slots |-> Pending]
    /\ pc = "idle"
    /\ cursor = 0
    /\ reported = {}

-----------------------------------------------------------------------------
(* next_slot and spawn                                                     *)

NextSlot ==
    /\ pc = "idle"
    /\ count < MaxFibers
    /\ cursor' = count
    /\ count' = count + 1
    /\ pc' = "spawn"
    /\ UNCHANGED <<outcome, tid, thread, result, reported>>

\* The thread may run, and even finish, before spawn stores its tid.
SpawnCall ==
    /\ pc = "spawn"
    /\ outcome' = [outcome EXCEPT ![cursor] = Pending]
    /\ thread' = [thread EXCEPT ![cursor] = "running"]
    /\ pc' = "spawned"
    /\ UNCHANGED <<tid, count, result, cursor, reported>>

\* Mutant: the outcome is reset when the thread has been spawned.
SpawnReturnResets ==
    /\ pc = "spawned"
    /\ tid' = [tid EXCEPT ![cursor] = cursor + 1]
    /\ outcome' = [outcome EXCEPT ![cursor] = Pending]
    /\ pc' = "idle"
    /\ UNCHANGED <<count, thread, result, cursor, reported>>

SpawnReturn ==
    /\ pc = "spawned"
    /\ tid' = [tid EXCEPT ![cursor] = cursor + 1]
    /\ pc' = "idle"
    /\ UNCHANGED <<outcome, count, thread, result, cursor, reported>>

\* SYS_THREAD_SPAWN fails: the slot stays borrowed, without a thread.
SpawnFail ==
    /\ pc = "spawn"
    /\ outcome' = [outcome EXCEPT ![cursor] = Pending]
    /\ pc' = "idle"
    /\ UNCHANGED <<tid, count, thread, result, cursor, reported>>

-----------------------------------------------------------------------------
(* run_fiber                                                               *)

FiberStore(s) ==
    /\ thread[s] = "running"
    /\ \E r \in Result :
        /\ result' = [result EXCEPT ![s] = r]
        /\ outcome' = [outcome EXCEPT ![s] = r]
    /\ thread' = [thread EXCEPT ![s] = "stored"]
    /\ UNCHANGED <<tid, count, pc, cursor, reported>>

FiberExit(s) ==
    /\ thread[s] = "stored"
    /\ thread' = [thread EXCEPT ![s] = "exited"]
    /\ UNCHANGED <<fiber, result, pc, cursor, reported>>

-----------------------------------------------------------------------------
(* harvest_all and join_all                                                *)

\* Mutant: a fiber counts as done as soon as it has a tid.
DoneByTid(s) == tid[s] # 0

\* try_harvest answers Some
Done(s) == outcome[s] # Pending

Begin(label) ==
    /\ pc = "idle"
    /\ pc' = label
    /\ cursor' = 0
    /\ reported' = {}
    /\ UNCHANGED <<fiber, thread, result>>

HarvestCall == Begin("harvest")
JoinCall == Begin("join")

HarvestStep ==
    /\ pc = "harvest"
    /\ \/ /\ cursor < count
          /\ reported' = IF Done(cursor) THEN reported \cup {<<cursor, outcome[cursor]>>}
                         ELSE reported
          /\ cursor' = cursor + 1
          /\ UNCHANGED pc
       \/ /\ cursor = count
          /\ pc' = "idle"
          /\ UNCHANGED <<cursor, reported>>
    /\ UNCHANGED <<fiber, thread, result>>

\* spin_until_done on one fiber after the other
JoinStep ==
    /\ pc = "join"
    /\ \/ /\ cursor < count
          /\ Done(cursor)
          /\ cursor' = cursor + 1
          /\ UNCHANGED pc
       \/ /\ cursor = count
          /\ pc' = "idle"
          /\ UNCHANGED cursor
    /\ UNCHANGED <<fiber, thread, result, reported>>

\* join_all spins: the loop keeps running while the fiber is not done.
JoinSpin ==
    /\ pc = "join"
    /\ cursor < count
    /\ ~Done(cursor)
    /\ UNCHANGED fabricVars

FabricNext ==
    \/ NextSlot \/ SpawnCall \/ SpawnReturn \/ SpawnFail
    \/ \E s \in Slots : FiberStore(s) \/ FiberExit(s)
    \/ HarvestCall \/ HarvestStep
    \/ JoinCall \/ JoinStep \/ JoinSpin

FabricSpec == FabricInit /\ [][FabricNext]_fabricVars

\* Threads are scheduled, every closure returns, and the owner finishes the
\* call it is in.
FairFabricSpec ==
    /\ FabricSpec
    /\ \A s \in Slots : WF_fabricVars(FiberStore(s)) /\ WF_fabricVars(FiberExit(s))
    /\ WF_fabricVars(SpawnCall \/ SpawnReturn \/ SpawnFail)
    /\ WF_fabricVars(HarvestStep) /\ WF_fabricVars(JoinStep)

-----------------------------------------------------------------------------
\* Every variable has its type.
FabricTypeOK ==
    /\ outcome \in [Slots -> Result \cup {Pending}]
    /\ tid \in [Slots -> 0 .. MaxFibers]
    /\ count \in 0 .. MaxFibers
    /\ thread \in [Slots -> {"none", "running", "stored", "exited"}]
    /\ result \in [Slots -> Result \cup {Pending}]
    /\ pc \in {"idle", "spawn", "spawned", "harvest", "join"}
    /\ cursor \in 0 .. MaxFibers
    /\ reported \subseteq Slots \X (Result \cup {Pending})

Spawned == {s \in Slots : thread[s] # "none"}
Completed == {s \in Slots : thread[s] \in {"stored", "exited"}}

\* Whatever harvest_all reports is the outcome of a fiber that has finished
\* its closure, under the tid the kernel gave it: the owner cannot see an
\* outcome before the tid, although the thread may finish first.
HarvestIsTruthful ==
    \A r \in reported :
        /\ r[1] \in Completed
        /\ r[2] = result[r[1]]
        /\ tid[r[1]] # 0

\* join_all can return: every slot it counts has a thread, and none of them
\* has returned the word that marks a pending fiber.
Joinable ==
    \A s \in 0 .. count - 1 :
        s \in Spawned /\ (s \in Completed => result[s] # Pending)

\* join_all does not return while a fiber is still running.
JoinWaits == [][(pc = "join" /\ pc' = "idle") => Spawned \subseteq Completed]_fabricVars

\* "Block until all spawned fibers complete" (fabric.rs 200): join_all waits
\* for every fiber, and it does return when nothing but the fibers' own work
\* keeps it, however their threads and the spawns before it are scheduled.  A
\* failed spawn and a closure that returns the pending mark are the two
\* exceptions.
JoinCompletes ==
    /\ JoinWaits
    /\ pc = "join" ~> (pc # "join" \/ ~Joinable)

\* "Block until all spawned fibers complete" (fabric.rs 200), as it stands:
\* when every spawned fiber has completed, join_all returns.
JoinReturns == (pc = "join" /\ Spawned \subseteq Completed) ~> pc # "join"
=============================================================================
