----------------------------- MODULE TargetFifo -----------------------------
(***************************************************************************)
(* What the transmit path promises to the devices: the telegrams submitted *)
(* for one target leave in the order they were submitted.  Telegrams for   *)
(* different targets are not ordered with respect to each other, and a     *)
(* telegram may be given up, but only when it is the oldest of its target. *)
(* It is submitted once, and it keeps its target until it is retired.      *)
(***************************************************************************)
EXTENDS Naturals, Sequences

CONSTANTS Device,   \* targets of telegrams
          Message   \* buffers of the message pool

VARIABLES pending,  \* telegrams submitted and not yet retired, oldest first
          target    \* [Message -> Device]

vars == <<pending, target>>

Waiting == {pending[i] : i \in DOMAIN pending}

\* Sequence s without its element i.
Without(s, i) == SubSeq(s, 1, i - 1) \o SubSeq(s, i + 1, Len(s))

Init == pending = <<>> /\ target \in [Message -> Device]

\* A client addresses a telegram.
Address(m, d) ==
  /\ m \notin Waiting
  /\ target' = [target EXCEPT ![m] = d]
  /\ UNCHANGED pending

\* It hands the telegram over to the transmit path.
Submit(m) ==
  /\ m \notin Waiting
  /\ pending' = Append(pending, m)
  /\ UNCHANGED target

\* The oldest telegram of a target was sent, or was given up.
Retire(i) ==
  /\ \A j \in 1..(i - 1) : target[pending[j]] # target[pending[i]]
  /\ pending' = Without(pending, i)
  /\ UNCHANGED target

Next ==
  \/ \E m \in Message, d \in Device : Address(m, d)
  \/ \E m \in Message : Submit(m)
  \/ \E i \in DOMAIN pending : Retire(i)

Spec == Init /\ [][Next]_vars
=============================================================================
