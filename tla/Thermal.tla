------------------------------- MODULE Thermal -------------------------------
(***************************************************************************)
(* thermogenesis.rs: the thermal page and the policy that watches it.  The *)
(* kernel stores a zone and then advances the epoch byte (external; the    *)
(* order is the one the unit test simulates); the policy loads them one at *)
(* a time, as its constructor or check_transition does, and calls the      *)
(* handler when a new epoch shows a new zone.                              *)
(*                                                                         *)
(* ticks counts the epochs themselves, of which the page shows the         *)
(* remainder; loaded is the count behind the epoch the policy holds.       *)
(***************************************************************************)
EXTENDS Naturals

CONSTANTS Epochs,    \* 2^8, the values of the epoch byte
          RawZone,   \* the values the kernel may store as a zone
          MaxTicks   \* bound: zones the kernel publishes

ASSUME ThermalAssumption ==
    Epochs \in Nat \ {0, 1} /\ MaxTicks \in Nat /\ RawZone \subseteq Nat

VARIABLES rawZone,    \* temperature_zone
          ticks,      \* kernel_epoch is ticks % Epochs
          writing,    \* the kernel has stored a zone but not yet its epoch
          policy,     \* where the policy stands: "fresh" until check_transition
                      \* has noticed an epoch, "idle" between calls from then on
          lastZone, lastEpoch,
          loaded,     \* the ticks at which lastEpoch was loaded
          told        \* the zone the handler was last told of; the first one before that

thermalVars == <<rawZone, ticks, writing, policy, lastZone, lastEpoch, loaded, told>>

\* ThermalZone::from_raw
FromRaw(n) == CASE n = 1 -> "Warm" [] n = 2 -> "Hot" [] n = 3 -> "Critical" [] OTHER -> "Cold"

\* ThermalPage::epoch
PageEpoch == ticks % Epochs

\* ThermalPage::zeroed, and no policy yet
ThermalInit ==
    /\ rawZone = 0
    /\ ticks = 0
    /\ writing = FALSE
    /\ policy = "none"
    /\ lastZone = "Cold"
    /\ lastEpoch = 0
    /\ loaded = 0
    /\ told = "Cold"

-----------------------------------------------------------------------------
(* The kernel                                                              *)

StoreZone(n) ==
    /\ ~writing
    /\ ticks < MaxTicks
    /\ rawZone' = n
    /\ writing' = TRUE
    /\ UNCHANGED <<ticks, policy, lastZone, lastEpoch, loaded, told>>

StoreEpoch ==
    /\ writing
    /\ ticks' = ticks + 1
    /\ writing' = FALSE
    /\ UNCHANGED <<rawZone, policy, lastZone, lastEpoch, loaded, told>>

-----------------------------------------------------------------------------
(* ThermalPolicy                                                           *)

\* new: the zone is loaded first ...
NewLoadZone ==
    /\ policy = "none"
    /\ lastZone' = FromRaw(rawZone)
    /\ told' = FromRaw(rawZone)
    /\ policy' = "new"
    /\ UNCHANGED <<rawZone, ticks, writing, lastEpoch, loaded>>

\* ... and the epoch after it
NewLoadEpoch ==
    /\ policy = "new"
    /\ lastEpoch' = PageEpoch
    /\ loaded' = ticks
    /\ policy' = "fresh"
    /\ UNCHANGED <<rawZone, ticks, writing, lastZone, told>>

\* check_transition, with an epoch it has not seen; with the one it holds it
\* returns at once
CheckEpoch ==
    /\ policy \in {"fresh", "idle"}
    /\ PageEpoch # lastEpoch
    /\ lastEpoch' = PageEpoch
    /\ loaded' = ticks
    /\ policy' = "check"
    /\ UNCHANGED <<rawZone, ticks, writing, lastZone, told>>

\* Mutant: a return to the coldest zone is not taken for a transition.
CheckZoneHotter ==
    /\ policy = "check"
    /\ lastZone' = IF FromRaw(rawZone) = "Cold" THEN lastZone ELSE FromRaw(rawZone)
    /\ told' = IF FromRaw(rawZone) = "Cold" THEN told ELSE FromRaw(rawZone)
    /\ policy' = "idle"
    /\ UNCHANGED <<rawZone, ticks, writing, lastEpoch, loaded>>

\* The handler is called when the zone differs from the last one.
CheckZone ==
    /\ policy = "check"
    /\ lastZone' = FromRaw(rawZone)
    /\ told' = IF FromRaw(rawZone) # lastZone THEN FromRaw(rawZone) ELSE told
    /\ policy' = "idle"
    /\ UNCHANGED <<rawZone, ticks, writing, lastEpoch, loaded>>

ThermalNext ==
    \/ \E n \in RawZone : StoreZone(n)
    \/ StoreEpoch
    \/ NewLoadZone \/ NewLoadEpoch
    \/ CheckEpoch \/ CheckZone

ThermalSpec == ThermalInit /\ [][ThermalNext]_thermalVars

-----------------------------------------------------------------------------
\* Every variable has its type.
ThermalTypeOK ==
    /\ rawZone \in RawZone \cup {0}
    /\ ticks \in 0 .. MaxTicks
    /\ writing \in BOOLEAN
    /\ policy \in {"none", "new", "fresh", "idle", "check"}
    /\ {lastZone, told} \subseteq {"Cold", "Warm", "Hot", "Critical"}
    /\ lastEpoch \in 0 .. Epochs - 1
    /\ loaded \in 0 .. MaxTicks

\* "If zone changed, fires the registered handler" (line 25): once
\* check_transition has noticed an epoch, and the epoch it holds is the
\* latest one, the handler has been told of the zone of that epoch, however
\* the two loads fell between the kernel's two stores.  The epoch must be the
\* latest one and not the same byte a full round later, and a zone that is
\* stored and replaced between two calls is never seen.
HandlerIsCurrent ==
    (policy = "idle" /\ loaded = ticks /\ ~writing) =>
        (told = FromRaw(rawZone) /\ lastZone = told)
=============================================================================
