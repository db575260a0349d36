----------------------------- MODULE MCSetupSync -----------------------------
(* Two units for TLC: an item both may set, MacCready, and the battery     *)
(* voltage the master measures.                                            *)
EXTENDS SetupSync

CONSTANTS
  MaxChanges,   \* bounds the calls of set() by users and the commits
  MaxRestarts   \* bounds the restarts

VARIABLES changes, restarts   \* how many there have been
countVars == <<changes, restarts>>

MCOrder == <<"mc", "volt">>

\* A user does not set a clean item to what it is, which does nothing, and it
\* gets calm when the bounds are reached.
MCInit == Init /\ changes = 0 /\ restarts = 0
MCNext ==
  \/ /\ changes < MaxChanges /\ changes' = changes + 1 /\ restarts' = restarts
     /\ \/ \E u \in Unit, t \in User, i \in Item, v \in Value :
             (v # value[u][i] \/ dirty[u][i]) /\ Set(u, t, i, v)
        \/ \E u \in Unit, t \in Task, i \in Item : Commit(u, t, i)
  \/ /\ restarts < MaxRestarts /\ restarts' = restarts + 1 /\ changes' = changes
     /\ \E u \in Unit : Restart(u)
  \/ /\ UNCHANGED countVars
     /\ \/ \E u \in Unit : Receive(u) \/ Link(u)
        \/ \E u \in Unit, t \in User : Proceed(u, t)
        \/ LoopStep \/ Clear("second", "loop")
        \/ changes = MaxChanges /\ restarts = MaxRestarts /\ CalmDown
MCSpec == MCInit /\ [][MCNext]_<<vars, countVars>> /\ Fairness
=============================================================================
