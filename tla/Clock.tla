------------------------------- MODULE Clock --------------------------------
(***************************************************************************)
(* The clock that calls back its users (driver/time/Clock.cpp).  Tasks ask *)
(* it through a queue to start and to stop calling somebody.  The timer    *)
(* routine works off the queue and then calls those whose turn it is; who  *)
(* asked to be stopped in the meantime may be called once more.            *)
(*                                                                         *)
(* A clock is a record: the requests in the queue, who is registered, and  *)
(* who has not been called yet in the pass of the timer routine that is    *)
(* under way.  How many atoms of 10 ms lie between the turns of somebody   *)
(* is left out.                                                            *)
(***************************************************************************)
EXTENDS Naturals, Sequences, SequencesExt

CONSTANTS
  Callback,  \* the users of the clock
  QueueLen   \* entries of request_queue

Request == [op : {"start", "stop"}, cb : Callback]
ClockState == [requests : Seq(Request), registry : SUBSET Callback, due : SUBSET Callback]

\* The clock of a unit that has just started.
Fresh == [requests |-> <<>>, registry |-> {}, due |-> {}]

\* xQueueSend() waits until there is room.
MayRequest(c) == Len(c.requests) < QueueLen
Started(c, cb) == [c EXCEPT !.requests = Append(@, [op |-> "start", cb |-> cb])]
Stopped(c, cb) == [c EXCEPT !.requests = Append(@, [op |-> "stop", cb |-> cb])]

\* Where the requests about somebody are in the queue; the last one counts.
About(c, cb) == {i \in DOMAIN c.requests : c.requests[i].cb = cb}
Registry(c) ==
  {cb \in Callback : IF About(c, cb) = {} THEN cb \in c.registry
                     ELSE c.requests[Max(About(c, cb))].op = "start"}

\* The timer routine empties the queue; it is the turn of some of those
\* who are registered then.
Drained(c, turn) == [requests |-> <<>>, registry |-> Registry(c), due |-> turn]

\* It has called cb, who wants to be unregistered or not.
Called(c, cb, gone) ==
  [c EXCEPT !.due = @ \ {cb}, !.registry = IF gone THEN @ \ {cb} ELSE @]
=============================================================================
