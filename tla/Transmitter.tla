---------------------------- MODULE Transmitter -----------------------------
(***************************************************************************)
(* The way every telegram takes out of the instrument: the pool of message *)
(* buffers (comm/Messages.cpp), the queue ItfSendQueue, the single task    *)
(* transmit_task with its private deque `later' (comm/DeviceMgr.cpp), the  *)
(* device map it resolves targets with, and the Send method of each kind   *)
(* of interface as far as it decides between done, retry and error.        *)
(*                                                                         *)
(* Senders are the sensor loop, the receiver tasks of the interfaces and   *)
(* the clock timer task; all of them acquire a buffer, fill it and hand it *)
(* over with DEV::Send.  A telegram is a number of bytes; its content is   *)
(* left out.                                                               *)
(***************************************************************************)
EXTENDS Naturals, Sequences, FiniteSets

CONSTANTS
  Device,      \* device ids a telegram can be addressed to
  Interface,   \* interface objects (S1, S2, CAN, BLUEspp, BLUEnus, WIFI)
  Kind,        \* [Interface -> kind of its Send method]
  Message,     \* the preallocated buffers, MSG_POOL_SIZE of them
  Sender,      \* tasks that send telegrams
  MaxLen,      \* longest telegram, in bytes (a bound of the model)
  Mtu,         \* bytes one BT LE notification carries
  Null         \* nullptr

Kinds == {"serial", "can", "spp", "ble", "wifi"}

ASSUME ConstAssumption ==
  /\ IsFiniteSet(Message)
  /\ Kind \in [Interface -> Kinds]
  /\ MaxLen \in Nat \ {0}
  /\ Mtu \in Nat \ {0}
  /\ Null \notin Message \cup Interface

VARIABLES
  intf,      \* device map: [Device -> Interface or Null]
  free,      \* MessagePool::_freeList
  holds,     \* [Sender -> the buffer it has acquired and not yet sent]
  queue,     \* ItfSendQueue
  pc,        \* control point of transmit_task
  msg,       \* its local pointer `msg'
  fresh,     \* msg came from the queue and not from `later'
  itf,       \* the interface pointer tt_snd got from getIntf
  later,     \* its deque of postponed telegrams
  retry,     \* its local pls_retry: "none" (0), "wait" (> 0), "error" (< 0)
  target,    \* [Message -> Device], Message::target_id
  rem,       \* [Message -> bytes still in Message::buffer]
  sent,      \* [Message -> bytes of the telegram that went out] (history)
  blocked    \* telegrams whose requested waiting time has not elapsed yet

poolVars == <<free, holds, target>>
taskVars == <<pc, msg, fresh, itf, later, retry>>
vars == <<intf, free, holds, queue, pc, msg, fresh, itf, later, retry,
          target, rem, sent, blocked>>

Elems(s) == {s[i] : i \in DOMAIN s}

\* An answer of InterfaceCtrl::Send: its result, the length it reports in
\* `len', and the bytes that really went out.
Answer(res, len, out) == [res |-> res, len |-> len, out |-> out]

-----------------------------------------------------------------------------
(***************************************************************************)
(* Variants of definitions below, each with a bug that would be easy to    *)
(* make in that code.  The specification does not use them: a run with a   *)
(* variant in place shows that the property named for it notices the bug.  *)
(***************************************************************************)
\* Every notification is reported with Mtu bytes, the last one included.
BleSendAlwaysMtu(n) ==
  {Answer("none", n, 0), Answer("wait", Mtu, Mtu), Answer("wait", Mtu, 0)}

\* A queue shorter than the pool.
QueueLenShort == Cardinality(Message) - 1

\* Only the next telegram to retry is compared with.
SameTargetWaitsFirst(m) == later # <<>> /\ target[later[1]] = target[m]

\* Only telegrams that are partly out are compared with.
SameTargetWaitsPartial(m) ==
  \E i \in DOMAIN later : target[later[i]] = target[m] /\ sent[later[i]] > 0

\* Postponing a telegram leaves pls_retry as it was.
FreshAnswerNoRetry(a) ==
  IF a.res = "wait"
  THEN later' = Append(later, msg) /\ pc' = "receive" /\ UNCHANGED <<free, retry>>
  ELSE free' = Append(free, msg) /\ retry' = a.res /\ pc' = "drain" /\ UNCHANGED later

\* The telegram is recycled and stays in `later'.
LaterAnswerNoPop(a) ==
  /\ UNCHANGED later
  /\ IF a.res = "wait" /\ a.len > 0
     THEN retry' = a.res /\ pc' = "receive" /\ UNCHANGED free
     ELSE free' = Append(free, msg) /\ retry' = "none" /\ pc' = "drain"

\* A telegram is retried for as long as the interface asks for it.
LaterAnswerPatient(a) ==
  /\ UNCHANGED later
  /\ IF a.res = "wait"
     THEN retry' = a.res /\ pc' = "receive" /\ UNCHANGED free
     ELSE free' = Append(free, msg) /\ retry' = a.res /\ pc' = "pop"

\* A telegram that is given up is popped and not recycled.
LaterAnswerLeaks(a) ==
  /\ UNCHANGED later
  /\ IF a.res = "wait"
     THEN UNCHANGED free
     ELSE free' = Append(free, msg)
  /\ IF a.res = "wait" /\ a.len > 0
     THEN retry' = a.res /\ pc' = "receive"
     ELSE retry' = "none" /\ pc' = "pop"

-----------------------------------------------------------------------------
\* xQueueCreate( MSG_POOL_SIZE+1, sizeof(Message*) )
QueueLen == Cardinality(Message) + 1

(***************************************************************************)
(* What a call of InterfaceCtrl::Send can answer for n bytes.              *)
(***************************************************************************)
\* The UART driver buffers what fits; the rest is asked to be retried.
SerialSend(n) ==
  {Answer("none", n, n)} \cup {Answer("wait", c, c) : c \in 0..(n - 1)}

\* Chunks up to the first failing one.  sendData also reports a failure when
\* an alert came up on the way to a chunk that a retry did place on the bus.
CanSend(n) ==
  {Answer("none", n, n)} \cup
    UNION {{Answer("wait", c, c), Answer("wait", c, c + 1)} : c \in 0..(n - 1)}

\* All or nothing, and nothing to do without a client.  A failed write asks
\* for a retry and leaves `len' as it was.
SppSend(n) == {Answer("none", n, n), Answer("none", n, 0), Answer("wait", n, 0)}

\* One notification of at most Mtu bytes; not connected or not subscribed
\* counts as sent, and the result of the indication is not looked at.
BleSend(n) ==
  {Answer("none", n, 0)} \cup
    (IF n > Mtu THEN {Answer("wait", Mtu, Mtu), Answer("wait", Mtu, 0)}
                ELSE {Answer("none", n, n)})

\* No retries: a wrong port is an error, a failing socket is a loss.
WifiSend(n) ==
  {Answer("error", n, 0)} \cup {Answer("none", n, w) : w \in 0..n}

\* A target without an interface: tt_snd counts it as done.
NoSend(n) == {Answer("none", n, 0)}

SendAnswers(i, n) ==
  IF i = Null
  THEN NoSend(n)
  ELSE [serial |-> SerialSend(n), can |-> CanSend(n), spp |-> SppSend(n),
        ble |-> BleSend(n), wifi |-> WifiSend(n)][Kind[i]]
-----------------------------------------------------------------------------
Init ==
  /\ intf = [d \in Device |-> Null]
  /\ free \in {f \in [1..Cardinality(Message) -> Message] : Elems(f) = Message}
  /\ holds = [s \in Sender |-> Null]
  /\ queue = <<>>
  /\ pc = "receive" /\ msg = Null /\ fresh = FALSE /\ itf = Null
  /\ later = <<>> /\ retry = "none"
  /\ target \in [Message -> Device]
  /\ rem = [m \in Message |-> 0]
  /\ sent = [m \in Message |-> 0]
  /\ blocked = {}

-----------------------------------------------------------------------------
(* The device manager, seen from the transmitter.                          *)

AddDevice(d, i) ==
  /\ intf[d] = Null
  /\ intf' = [intf EXCEPT ![d] = i]
  /\ UNCHANGED <<poolVars, queue, taskVars, rem, sent, blocked>>

RemoveDevice(d) ==
  /\ intf[d] # Null
  /\ intf' = [intf EXCEPT ![d] = Null]
  /\ UNCHANGED <<poolVars, queue, taskVars, rem, sent, blocked>>

-----------------------------------------------------------------------------
(* The senders.                                                            *)

\* MessagePool::getOne, then the address and the content.  acqMessage polls
\* an empty pool every 10 ms until this step is possible; plsMessage gives up
\* on an empty pool, which changes nothing here.  A cached route or a
\* protocol object may name a device that has just been removed.
GetOne(s, d, n) ==
  /\ holds[s] = Null /\ free # <<>>
  /\ free' = Tail(free)
  /\ holds' = [holds EXCEPT ![s] = Head(free)]
  /\ target' = [target EXCEPT ![Head(free)] = d]
  /\ rem' = [rem EXCEPT ![Head(free)] = n]
  /\ sent' = [sent EXCEPT ![Head(free)] = 0]
  /\ UNCHANGED <<intf, queue, taskVars, blocked>>

\* DEV::Send blocks (portMAX_DELAY) while the queue is full.
Send(s) ==
  /\ holds[s] # Null
  /\ Len(queue) < QueueLen
  /\ queue' = Append(queue, holds[s])
  /\ holds' = [holds EXCEPT ![s] = Null]
  /\ UNCHANGED <<intf, free, target, taskVars, rem, sent, blocked>>

-----------------------------------------------------------------------------
(* transmit_task                                                           *)

SameTargetWaits(m) == \E i \in DOMAIN later : target[later[i]] = target[m]

\* A telegram arrives.  It lines up behind an older one for its target, or
\* it is sent at once, in front of everything that waits for other targets.
Receive ==
  /\ pc = "receive" /\ queue # <<>>
  /\ queue' = Tail(queue)
  /\ msg' = Head(queue)
  /\ IF SameTargetWaits(Head(queue))
     THEN /\ later' = Append(later, Head(queue))
          /\ pc' = "drain"
          /\ UNCHANGED fresh
     ELSE /\ pc' = "lookup"
          /\ fresh' = TRUE
          /\ UNCHANGED later
  /\ UNCHANGED <<intf, poolVars, itf, retry, rem, sent, blocked>>

\* xQueueReceive times out: only after the wait the last Send asked for (an
\* error value becomes a very long one), never with pls_retry = 0.
Timeout ==
  /\ pc = "receive" /\ queue = <<>>
  /\ \/ retry = "wait" /\ msg \notin blocked
     \/ retry = "error"
  /\ pc' = "drain"
  /\ UNCHANGED <<intf, poolVars, queue, msg, fresh, itf, later, retry,
                 rem, sent, blocked>>

\* One iteration of the loop over `later', or its end.
Drain ==
  /\ pc = "drain"
  /\ fresh' = FALSE
  /\ IF later = <<>>
     THEN pc' = "receive" /\ msg' = Null
     ELSE pc' = "lookup" /\ msg' = Head(later)
  /\ UNCHANGED <<intf, poolVars, queue, itf, later, retry, rem, sent, blocked>>

\* tt_snd: resolve the interface, under the lock of the device map.
Lookup ==
  /\ pc = "lookup"
  /\ itf' = intf[target[msg]]
  /\ pc' = "send"
  /\ UNCHANGED <<intf, poolVars, queue, msg, fresh, later, retry, rem, sent,
                 blocked>>

\* What transmit_task does with the answer to a telegram from the queue:
\* done with it, or postponed.
FreshAnswer(a) ==
  IF a.res = "wait"
  THEN /\ later' = Append(later, msg)
       /\ retry' = a.res /\ pc' = "receive"
       /\ UNCHANGED free
  ELSE /\ free' = Append(free, msg)
       /\ retry' = a.res /\ pc' = "drain"
       /\ UNCHANGED later

\* The same for the oldest postponed telegram: it stays only when the retry
\* took some bytes.  The buffer is back in the pool before it leaves `later'.
LaterAnswer(a) ==
  /\ UNCHANGED later
  /\ IF a.res = "wait" /\ a.len > 0
     THEN /\ retry' = a.res /\ pc' = "receive"
          /\ UNCHANGED free
     ELSE /\ free' = Append(free, msg)
          /\ retry' = IF a.res = "wait" THEN "none" ELSE a.res
          /\ pc' = "pop"

\* tt_snd: the interface's Send, the bytes chopped off, and the answer.
Transmit ==
  /\ pc = "send"
  /\ \E a \in SendAnswers(itf, rem[msg]) :
       /\ rem' = IF a.res = "wait" THEN [rem EXCEPT ![msg] = @ - a.len] ELSE rem
       /\ sent' = [sent EXCEPT ![msg] = @ + a.out]
       /\ blocked' = IF a.res = "wait" /\ (fresh \/ a.len > 0)
                     THEN blocked \cup {msg}
                     ELSE blocked \ {msg}
       /\ IF fresh THEN FreshAnswer(a) ELSE LaterAnswer(a)
  /\ UNCHANGED <<intf, holds, queue, msg, fresh, itf, target>>

\* later.pop_front()
Pop ==
  /\ pc = "pop"
  /\ later' = Tail(later)
  /\ pc' = "drain"
  /\ UNCHANGED <<intf, poolVars, queue, msg, fresh, itf, retry, rem, sent,
                 blocked>>

\* The waiting time an interface asked for passes.
Elapse(m) ==
  /\ m \in blocked
  /\ blocked' = blocked \ {m}
  /\ UNCHANGED <<intf, poolVars, queue, taskVars, rem, sent>>

-----------------------------------------------------------------------------
TransmitTask == Receive \/ Timeout \/ Drain \/ Lookup \/ Transmit \/ Pop

Next ==
  \/ \E d \in Device, i \in Interface : AddDevice(d, i)
  \/ \E d \in Device : RemoveDevice(d)
  \/ \E s \in Sender, d \in Device, n \in 1..MaxLen : GetOne(s, d, n)
  \/ \E s \in Sender : Send(s)
  \/ TransmitTask
  \/ \E m \in Message : Elapse(m)

Spec == Init /\ [][Next]_vars

\* The task runs whenever it can, a sender hands over what it acquired, and
\* time passes.  Nobody is obliged to send, or to change the devices.
Fairness ==
  /\ WF_vars(TransmitTask)
  /\ \A s \in Sender : WF_vars(Send(s))
  /\ \A m \in Message : WF_vars(Elapse(m))

FairSpec == Spec /\ Fairness

-----------------------------------------------------------------------------
(***************************************************************************)
(* Properties                                                              *)
(***************************************************************************)

TypeOK ==
  /\ intf \in [Device -> Interface \cup {Null}]
  /\ free \in Seq(Message)
  /\ holds \in [Sender -> Message \cup {Null}]
  /\ queue \in Seq(Message)
  /\ pc \in {"receive", "drain", "lookup", "send", "pop"}
  /\ msg \in Message \cup {Null}
  /\ pc \in {"lookup", "send", "pop"} => msg \in Message
  /\ fresh \in BOOLEAN
  /\ itf \in Interface \cup {Null}
  /\ later \in Seq(Message)
  /\ pc = "pop" => later # <<>>
  /\ retry \in {"none", "wait", "error"}
  /\ target \in [Message -> Device]
  /\ rem \in [Message -> Nat]
  /\ sent \in [Message -> Nat]
  /\ blocked \subseteq Message

\* The telegrams the task has in its care: its deque, less an entry that is
\* already recycled and about to be popped, and a fresh one in its hands.
Postponed == IF pc = "pop" THEN Tail(later) ELSE later
InHand == IF fresh /\ pc \in {"lookup", "send"} THEN <<msg>> ELSE <<>>

Distinct(s) == \A i, j \in DOMAIN s : s[i] = s[j] => i = j

\* Every buffer of the pool has exactly one owner: none is lost, none is
\* recycled or queued twice, although recycleMsg checks nothing and the task
\* recycles a postponed telegram while it still is the head of `later'.
Held == {m \in Message : \E s \in Sender : holds[s] = m}

OneOwner ==
  /\ Distinct(free) /\ Distinct(queue) /\ Distinct(Postponed)
  /\ \A s, t \in Sender : holds[s] = holds[t] /\ holds[s] # Null => s = t
  /\ Message = Elems(free) \cup Held \cup Elems(queue)
                 \cup Elems(Postponed) \cup Elems(InHand)
  /\ Elems(free) \cap (Held \cup Elems(queue) \cup Elems(Postponed)
                         \cup Elems(InHand)) = {}
  /\ Held \cap (Elems(queue) \cup Elems(Postponed) \cup Elems(InHand)) = {}
  /\ Elems(queue) \cap (Elems(Postponed) \cup Elems(InHand)) = {}
  /\ Elems(Postponed) \cap Elems(InHand) = {}

\* DEV::Send waits forever on a full queue, and doForward would do so with
\* the route mutex taken: a sender that owns a buffer always finds a slot.
SendNeverBlocks == \A s \in Sender : holds[s] # Null => Len(queue) < QueueLen

\* transmit_task never goes to sleep without a time-out while a telegram is
\* postponed; with none it would be sent only when another one comes along.
NoSleepWithPostponed == pc = "receive" /\ later # <<>> => retry = "wait"

\* A telegram that is partly out: its rest is still to come.
Partial(m) == m \in Elems(Postponed) /\ sent[m] > 0

\* "not to garble msg sequence": no byte of a telegram goes out while another
\* telegram for the same target is only partly out.
NoGarbledTarget ==
  [][\A m, n \in Message :
       sent'[m] > sent[m] /\ n # m /\ Partial(n) => target[n] # target[m]]_vars

\* The same for telegrams that share the interface and not the target.
NoGarbledInterface ==
  [][\A m, n \in Message :
       sent'[m] > sent[m] /\ n # m /\ Partial(n) => intf[target[n]] # itf]_vars

\* The length an interface reports with a retry is the length that went out:
\* only those bytes are chopped off the telegram.
ChoppedIsSent ==
  [][\A m \in Message :
       m \in Elems(Postponed') /\ rem'[m] < rem[m]
         => sent'[m] - sent[m] = rem[m] - rem'[m]]_vars

\* Telegrams of one target leave in the order they were submitted, each of
\* them once and with the address it was submitted with.
Pipe == Postponed \o InHand \o queue
Fifo == INSTANCE TargetFifo WITH pending <- Pipe
TargetFifoSpec == Fifo!Spec

\* Every telegram handed over is finished, one way or the other, whatever the
\* interfaces answer, and its buffer comes back to the pool.
EventuallyRecycled ==
  \A m \in Message : m \in Elems(queue) ~> m \in Elems(free)

\* An empty pool, on which acqMessage polls, does not stay empty.
PoolRecovers == free = <<>> ~> free # <<>>
=============================================================================
