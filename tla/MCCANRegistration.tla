-------------------------- MODULE MCCANRegistration --------------------------
(* The bus of two units and their external devices for TLC.                *)
EXTENDS CANRegistration

CONSTANTS
  MaxFaults,  \* bounds restarts, losses and removals of devices
  MaxChanges  \* bounds the Flarms connected or removed

VARIABLES faults, changes   \* how many there have been
countVars == <<faults, changes>>

MCBase == [p \in {1, 4} |-> IF p = 1 THEN 512 ELSE 64]

MCInit == Init /\ faults = 0 /\ changes = 0
MCNext ==
  \/ faults < MaxFaults /\ faults' = faults + 1 /\ changes' = changes /\ Fault
  \/ /\ changes < MaxChanges /\ changes' = changes + 1 /\ faults' = faults
     /\ \E u \in Unit, f \in {"none", "own"} : SetFlarm(u, f)
  \/ /\ UNCHANGED countVars
     /\ \/ \E u \in Unit : UnitReceives(u) \/ Tick(u)
        \/ \E d \in External : Ask(d) \/ Hear(d)
        \/ CalmDown
MCSpec == MCInit /\ [][MCNext]_<<vars, countVars>> /\ Fairness
=============================================================================
