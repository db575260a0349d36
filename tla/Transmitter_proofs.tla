------------------------- MODULE Transmitter_proofs -------------------------
(***************************************************************************)
(* Proofs about the transmitter, for any number of devices, interfaces,    *)
(* buffers and senders.                                                    *)
(***************************************************************************)
EXTENDS Transmitter, TLAPS, FiniteSetTheorems, SequenceTheorems

-----------------------------------------------------------------------------
(* Sequences without repetition, as the free list and the queues are.      *)

LEMMA ElemsAppend ==
  ASSUME NEW S, NEW s \in Seq(S), NEW x \in S
  PROVE  Elems(Append(s, x)) = Elems(s) \cup {x}
<1>1. /\ DOMAIN Append(s, x) = 1..(Len(s) + 1) /\ DOMAIN s = 1..Len(s)
      /\ \A i \in 1..Len(s) : Append(s, x)[i] = s[i]
      /\ Append(s, x)[Len(s) + 1] = x
      /\ Len(s) \in Nat
  BY AppendProperties, LenProperties
<1>2. ASSUME NEW e \in Elems(Append(s, x)) PROVE e \in Elems(s) \cup {x}
  BY <1>1 DEF Elems
<1>3. ASSUME NEW e \in Elems(s) \cup {x} PROVE e \in Elems(Append(s, x))
  BY <1>1 DEF Elems
<1>4. QED BY <1>2, <1>3

LEMMA DistinctAppend ==
  ASSUME NEW S, NEW s \in Seq(S), NEW x \in S, Distinct(s), x \notin Elems(s)
  PROVE  Distinct(Append(s, x))
<1>1. /\ DOMAIN Append(s, x) = 1..(Len(s) + 1) /\ DOMAIN s = 1..Len(s)
      /\ \A i \in 1..Len(s) : Append(s, x)[i] = s[i]
      /\ Append(s, x)[Len(s) + 1] = x
      /\ Len(s) \in Nat
  BY AppendProperties, LenProperties
<1>2. QED BY <1>1 DEF Distinct, Elems

LEMMA TailFacts ==
  ASSUME NEW S, NEW s \in Seq(S), s # <<>>
  PROVE  /\ Tail(s) \in Seq(S) /\ Head(s) \in S /\ Head(s) = s[1]
         /\ Len(s) \in Nat /\ Len(s) >= 1
         /\ DOMAIN s = 1..Len(s) /\ DOMAIN Tail(s) = 1..(Len(s) - 1)
         /\ \A i \in 1..(Len(s) - 1) : Tail(s)[i] = s[i + 1]
BY HeadTailProperties, LenProperties, EmptySeq

LEMMA DistinctTail ==
  ASSUME NEW S, NEW s \in Seq(S), s # <<>>, Distinct(s)
  PROVE  /\ Distinct(Tail(s))
         /\ Elems(Tail(s)) = Elems(s) \ {Head(s)}
         /\ Head(s) \in Elems(s)
<1> USE TailFacts
<1>1. Distinct(Tail(s))
  BY DEF Distinct
<1>2. Head(s) \in Elems(s)
  BY DEF Elems
<1>3. ASSUME NEW e \in Elems(Tail(s)) PROVE e \in Elems(s) \ {Head(s)}
  BY DEF Elems, Distinct
<1>4. ASSUME NEW e \in Elems(s) \ {Head(s)} PROVE e \in Elems(Tail(s))
  <2>1. PICK i \in 1..Len(s) : e = s[i]
    BY DEF Elems
  <2>2. i - 1 \in 1..(Len(s) - 1) /\ Tail(s)[i - 1] = e
    BY <2>1
  <2>3. QED BY <2>2 DEF Elems
<1>5. QED BY <1>1, <1>2, <1>3, <1>4

LEMMA DistinctLen ==
  ASSUME NEW S, IsFiniteSet(S), NEW s \in Seq(S), Distinct(s)
  PROVE  Len(s) \in Nat /\ Len(s) <= Cardinality(S)
<1>1. Len(s) \in Nat /\ s \in [1..Len(s) -> S] /\ DOMAIN s = 1..Len(s)
  BY LenProperties
<1>2. s \in Injection(1..Len(s), S)
  BY <1>1 DEF Injection, IsInjective, Distinct
<1>3. Cardinality(1..Len(s)) <= Cardinality(S)
  BY <1>2, FS_Injection
<1>4. Cardinality(1..Len(s)) = Len(s)
  BY <1>1, FS_Interval
<1>5. QED BY <1>1, <1>3, <1>4

-----------------------------------------------------------------------------
(* What a Send can answer.                                                 *)

LEMMA AnswerType ==
  ASSUME NEW i \in Interface \cup {Null}, NEW n \in Nat, NEW a \in SendAnswers(i, n)
  PROVE  /\ a.res \in {"none", "wait", "error"}
         /\ a.len \in 0..n
         /\ a.out \in Nat
<1> USE ConstAssumption DEF Answer
<1>1. CASE i = Null
  BY <1>1 DEF SendAnswers, NoSend
<1>2. CASE i # Null
  <2>1. i \in Interface /\ Kind[i] \in Kinds
    BY <1>2
  <2>2. CASE Kind[i] = "serial"
    BY <1>2, <2>1, <2>2 DEF SendAnswers, SerialSend
  <2>3. CASE Kind[i] = "can"
    BY <1>2, <2>1, <2>3 DEF SendAnswers, CanSend
  <2>4. CASE Kind[i] = "spp"
    BY <1>2, <2>1, <2>4 DEF SendAnswers, SppSend
  <2>5. CASE Kind[i] = "ble"
    BY <1>2, <2>1, <2>5 DEF SendAnswers, BleSend
  <2>6. CASE Kind[i] = "wifi"
    BY <1>2, <2>1, <2>6 DEF SendAnswers, WifiSend
  <2>7. QED BY <2>1, <2>2, <2>3, <2>4, <2>5, <2>6 DEF Kinds
<1>3. QED BY <1>1, <1>2

-----------------------------------------------------------------------------
(* Type correctness.  While the task works on a postponed telegram, that   *)
(* telegram is the head of `later'.                                        *)

AtHead == /\ pc \in {"lookup", "send"} /\ ~fresh => later # <<>> /\ msg = Head(later)
          /\ pc = "pop" => ~fresh
          /\ pc \in {"lookup", "send", "pop"} => msg # Null

TypeInv == TypeOK /\ AtHead

LEMMA InitTypeInv == Init => TypeInv
<1> SUFFICES ASSUME Init PROVE TypeInv
  OBVIOUS
<1>1. free \in Seq(Message)
  <2>1. Cardinality(Message) \in Nat
    BY ConstAssumption, FS_CardinalityType
  <2>2. free \in [1..Cardinality(Message) -> Message]
    BY DEF Init
  <2>3. QED BY <2>1, <2>2, IsASeq
<1>2. <<>> \in Seq(Message)
  BY EmptySeq
<1>3. /\ intf \in [Device -> Interface \cup {Null}]
      /\ holds \in [Sender -> Message \cup {Null}]
      /\ target \in [Message -> Device]
      /\ rem \in [Message -> Nat] /\ sent \in [Message -> Nat]
  BY DEF Init
<1>4. QED BY <1>1, <1>2, <1>3 DEF Init, TypeInv, TypeOK, AtHead

LEMMA SenderTypeInv ==
  ASSUME TypeInv, NEW s \in Sender,
         (\E d \in Device, n \in 1..MaxLen : GetOne(s, d, n)) \/ Send(s)
  PROVE  TypeInv'
<1> USE ConstAssumption DEF TypeInv, TypeOK, AtHead, taskVars, poolVars
<1>1. ASSUME NEW d \in Device, NEW n \in 1..MaxLen, GetOne(s, d, n)
      PROVE  TypeInv'
  <2>1. Head(free) \in Message /\ Tail(free) \in Seq(Message)
    BY <1>1, TailFacts DEF GetOne
  <2>2. QED BY <1>1, <2>1 DEF GetOne
<1>2. ASSUME Send(s) PROVE TypeInv'
  <2>1. Append(queue, holds[s]) \in Seq(Message)
    BY <1>2, AppendProperties DEF Send
  <2>2. QED BY <1>2, <2>1 DEF Send
<1>3. QED BY <1>1, <1>2

LEMMA TaskTypeInv ==
  ASSUME TypeInv, TransmitTask
  PROVE  TypeInv'
<1> USE ConstAssumption DEF TypeInv, TypeOK, AtHead, taskVars, poolVars
<1>1. CASE Receive
  <2>1. Head(queue) \in Message /\ Tail(queue) \in Seq(Message)
    BY <1>1, TailFacts DEF Receive
  <2>2. Append(later, Head(queue)) \in Seq(Message)
    BY <2>1, AppendProperties
  <2>3. QED BY <1>1, <2>1, <2>2 DEF Receive
<1>2. CASE Timeout
  BY <1>2 DEF Timeout
<1>3. CASE Drain
  <2>1. later # <<>> => Head(later) \in Message
    BY TailFacts
  <2>2. QED BY <1>3, <2>1 DEF Drain
<1>4. CASE Lookup
  BY <1>4 DEF Lookup
<1>5. CASE Transmit
  <2>1. PICK a \in SendAnswers(itf, rem[msg]) :
          /\ rem' = IF a.res = "wait" THEN [rem EXCEPT ![msg] = @ - a.len] ELSE rem
          /\ sent' = [sent EXCEPT ![msg] = @ + a.out]
          /\ blocked' = IF a.res = "wait" /\ (fresh \/ a.len > 0)
                        THEN blocked \cup {msg}
                        ELSE blocked \ {msg}
          /\ IF fresh THEN FreshAnswer(a) ELSE LaterAnswer(a)
    BY <1>5 DEF Transmit
  <2>2. /\ pc = "send" /\ msg \in Message /\ rem[msg] \in Nat
        /\ UNCHANGED <<intf, holds, queue, msg, fresh, itf, target>>
    BY <1>5 DEF Transmit
  <2>3. a.res \in {"none", "wait", "error"} /\ a.len \in 0..rem[msg] /\ a.out \in Nat
    BY <2>2, AnswerType
  <2>4. /\ Append(later, msg) \in Seq(Message)
        /\ Append(free, msg) \in Seq(Message)
    BY <2>2, AppendProperties
  <2>5. rem' \in [Message -> Nat] /\ sent' \in [Message -> Nat]
        /\ blocked' \subseteq Message
    BY <2>1, <2>2, <2>3
  <2>6. CASE fresh
    BY <2>1, <2>2, <2>3, <2>4, <2>5, <2>6 DEF FreshAnswer
  <2>7. CASE ~fresh
    BY <2>1, <2>2, <2>3, <2>4, <2>5, <2>7 DEF LaterAnswer
  <2>8. QED BY <2>6, <2>7
<1>6. CASE Pop
  <2>1. Tail(later) \in Seq(Message)
    BY <1>6, TailFacts DEF Pop
  <2>2. QED BY <1>6, <2>1 DEF Pop
<1>7. QED BY <1>1, <1>2, <1>3, <1>4, <1>5, <1>6 DEF TransmitTask

LEMMA NextTypeInv == TypeInv /\ [Next]_vars => TypeInv'
<1> SUFFICES ASSUME TypeInv, [Next]_vars PROVE TypeInv'
  OBVIOUS
<1>1. ASSUME NEW d \in Device, NEW i \in Interface, AddDevice(d, i)
      PROVE  TypeInv'
  BY <1>1 DEF AddDevice, TypeInv, TypeOK, AtHead, taskVars, poolVars
<1>2. ASSUME NEW d \in Device, RemoveDevice(d)
      PROVE  TypeInv'
  BY <1>2 DEF RemoveDevice, TypeInv, TypeOK, AtHead, taskVars, poolVars
<1>3. ASSUME NEW m \in Message, Elapse(m)
      PROVE  TypeInv'
  BY <1>3 DEF Elapse, TypeInv, TypeOK, AtHead, taskVars, poolVars
<1>4. CASE UNCHANGED vars
  BY <1>4 DEF vars, TypeInv, TypeOK, AtHead
<1>5. QED
  BY <1>1, <1>2, <1>3, <1>4, SenderTypeInv, TaskTypeInv DEF Next

\* The variables keep their types; in particular the task never follows a
\* null pointer and never pops an empty deque.
THEOREM TypeCorrect == Spec => []TypeOK
<1>1. TypeInv => TypeOK
  BY DEF TypeInv
<1>2. QED BY InitTypeInv, NextTypeInv, <1>1, PTL DEF Spec

-----------------------------------------------------------------------------
(* One owner per buffer.                                                   *)

LEMMA ElemsOfNone == Elems(<<>>) = {}
BY DEF Elems

LEMMA ElemsOfOne == \A x : Elems(<<x>>) = {x}
BY DEF Elems

LEMMA DistinctNone == Distinct(<<>>)
BY DEF Distinct

LEMMA PostponedType == TypeInv => Postponed \in Seq(Message)
BY TailFacts DEF TypeInv, TypeOK, Postponed

\* A step that leaves the five places alone.
LEMMA OwnersUntouched ==
  ASSUME OneOwner,
         UNCHANGED <<free, holds, queue, Postponed, InHand>>
  PROVE  OneOwner'
BY DEF OneOwner, Held

LEMMA InitOneOwner == Init => OneOwner
<1> SUFFICES ASSUME Init PROVE OneOwner
  OBVIOUS
<1>1. /\ free \in [1..Cardinality(Message) -> Message]
      /\ Elems(free) = Message
      /\ queue = <<>> /\ later = <<>> /\ pc = "receive"
      /\ holds = [s \in Sender |-> Null]
  BY DEF Init
<1>2. Distinct(free)
  <2>1. /\ Cardinality(Message) \in Nat
        /\ IsFiniteSet(1..Cardinality(Message))
        /\ Cardinality(1..Cardinality(Message)) = Cardinality(Message)
    BY ConstAssumption, FS_CardinalityType, FS_Interval
  <2>2. free \in Surjection(1..Cardinality(Message), Message)
    BY <1>1 DEF Surjection, Elems
  <2>3. free \in Injection(1..Cardinality(Message), Message)
    BY <2>1, <2>2, ConstAssumption, FS_SurjSameCardinalityImpliesInj
  <2>4. QED BY <2>3 DEF Injection, IsInjective, Distinct
<1>3. Postponed = <<>> /\ InHand = <<>>
  BY <1>1 DEF Postponed, InHand
<1>4. Held = {}
  BY <1>1, ConstAssumption DEF Held
<1>5. \A s, t \in Sender : ~(holds[s] = holds[t] /\ holds[s] # Null)
  BY <1>1
<1>6. QED BY <1>1, <1>2, <1>3, <1>4, <1>5, ElemsOfNone, DistinctNone DEF OneOwner

LEMMA GetOneOneOwner ==
  ASSUME TypeInv, OneOwner,
         NEW s \in Sender, NEW d \in Device, NEW n \in 1..MaxLen, GetOne(s, d, n)
  PROVE  OneOwner'
<1>1. /\ free # <<>> /\ free \in Seq(Message) /\ holds[s] = Null
      /\ free' = Tail(free) /\ holds' = [holds EXCEPT ![s] = Head(free)]
      /\ holds \in [Sender -> Message \cup {Null}]
      /\ UNCHANGED <<queue, pc, msg, fresh, later>>
  BY DEF GetOne, TypeInv, TypeOK, taskVars
<1>2. Distinct(free)
  BY DEF OneOwner
<1>3. /\ Head(free) \in Message /\ Head(free) # Null
      /\ Distinct(free') /\ Elems(free') = Elems(free) \ {Head(free)}
      /\ Head(free) \in Elems(free)
  BY <1>1, <1>2, DistinctTail, TailFacts, ConstAssumption
<1>4. Held' = Held \cup {Head(free)}
  BY <1>1, <1>3, ConstAssumption DEF Held
<1>5. Postponed' = Postponed /\ InHand' = InHand
  BY <1>1 DEF Postponed, InHand
<1>6. ASSUME NEW t \in Sender, NEW u \in Sender,
             holds'[t] = holds'[u], holds'[t] # Null
      PROVE  t = u
  <2>1. Head(free) \notin Held
    BY <1>3 DEF OneOwner
  <2>2. \A v \in Sender : v # s => holds'[v] # Head(free)
    BY <1>1, <1>3, <2>1 DEF Held
  <2>3. QED BY <1>1, <1>6, <2>2 DEF OneOwner
<1>7. QED BY <1>1, <1>3, <1>4, <1>5, <1>6 DEF OneOwner

LEMMA SendOneOwner ==
  ASSUME TypeInv, OneOwner, NEW s \in Sender, Send(s)
  PROVE  OneOwner'
<1>1. /\ holds[s] # Null /\ holds[s] \in Message
      /\ queue \in Seq(Message) /\ queue' = Append(queue, holds[s])
      /\ holds' = [holds EXCEPT ![s] = Null]
      /\ holds \in [Sender -> Message \cup {Null}]
      /\ UNCHANGED <<free, pc, msg, fresh, later>>
  BY DEF Send, TypeInv, TypeOK, taskVars
<1>2. holds[s] \in Held /\ Distinct(queue) /\ holds[s] \notin Elems(queue)
  BY <1>1 DEF OneOwner, Held
<1>3. Distinct(queue') /\ Elems(queue') = Elems(queue) \cup {holds[s]}
  BY <1>1, <1>2, DistinctAppend, ElemsAppend
<1>4. Held' = Held \ {holds[s]}
  <2>1. \A t \in Sender : t # s => holds[t] # holds[s]
    BY <1>1 DEF OneOwner
  <2>2. QED BY <1>1, <2>1, ConstAssumption DEF Held
<1>5. Postponed' = Postponed /\ InHand' = InHand
  BY <1>1 DEF Postponed, InHand
<1>6. \A t, u \in Sender : holds'[t] = holds'[u] /\ holds'[t] # Null => t = u
  BY <1>1 DEF OneOwner
<1>7. QED BY <1>1, <1>2, <1>3, <1>4, <1>5, <1>6 DEF OneOwner

LEMMA ReceiveOneOwner ==
  ASSUME TypeInv, OneOwner, Receive
  PROVE  OneOwner'
<1>1. /\ pc = "receive" /\ queue # <<>> /\ queue \in Seq(Message)
      /\ later \in Seq(Message)
      /\ queue' = Tail(queue) /\ msg' = Head(queue)
      /\ UNCHANGED <<free, holds>>
  BY DEF Receive, TypeInv, TypeOK, poolVars
<1>2. Distinct(queue)
  BY DEF OneOwner
<1>3. /\ Head(queue) \in Message
      /\ Distinct(queue') /\ Elems(queue') = Elems(queue) \ {Head(queue)}
      /\ Head(queue) \in Elems(queue)
  BY <1>1, <1>2, DistinctTail, TailFacts
<1>4. Postponed = later /\ InHand = <<>> /\ Held' = Held
  BY <1>1 DEF Postponed, InHand, Held
<1>5. CASE SameTargetWaits(Head(queue))
  <2>1. later' = Append(later, Head(queue)) /\ pc' = "drain"
    BY <1>5 DEF Receive
  <2>2. Distinct(later) /\ Head(queue) \notin Elems(later)
    BY <1>3, <1>4 DEF OneOwner
  <2>3. /\ Distinct(Postponed')
        /\ Elems(Postponed') = Elems(Postponed) \cup {Head(queue)}
        /\ InHand' = <<>>
    BY <1>1, <1>3, <1>4, <2>1, <2>2, DistinctAppend, ElemsAppend
    DEF Postponed, InHand
  <2>4. QED BY <1>1, <1>3, <1>4, <2>3, ElemsOfNone DEF OneOwner
<1>6. CASE ~SameTargetWaits(Head(queue))
  <2>1. later' = later /\ pc' = "lookup" /\ fresh' = TRUE
    BY <1>6 DEF Receive
  <2>2. Postponed' = Postponed /\ InHand' = <<Head(queue)>>
    BY <1>1, <1>4, <2>1 DEF Postponed, InHand
  <2>3. QED BY <1>1, <1>3, <1>4, <2>2, ElemsOfNone, ElemsOfOne DEF OneOwner
<1>7. QED BY <1>5, <1>6

LEMMA TransmitOneOwner ==
  ASSUME TypeInv, OneOwner, Transmit
  PROVE  OneOwner'
<1>1. PICK a \in SendAnswers(itf, rem[msg]) :
        IF fresh THEN FreshAnswer(a) ELSE LaterAnswer(a)
  BY DEF Transmit
<1>2. /\ pc = "send" /\ msg \in Message
      /\ free \in Seq(Message) /\ later \in Seq(Message)
      /\ UNCHANGED <<holds, queue, msg, fresh>>
  BY DEF Transmit, TypeInv, TypeOK
<1>3. Postponed = later /\ Held' = Held /\ Distinct(free) /\ Distinct(later)
  BY <1>2 DEF Postponed, Held, OneOwner
<1>4. CASE fresh
  <2>1. InHand = <<msg>> /\ Elems(InHand) = {msg}
    BY <1>2, <1>4, ElemsOfOne DEF InHand
  <2>2. msg \notin Elems(free) /\ msg \notin Elems(later)
    BY <1>3, <2>1 DEF OneOwner
  <2>3. CASE a.res = "wait"
    <3>1. free' = free /\ pc' = "receive" /\ later' = Append(later, msg)
      BY <1>1, <1>4, <2>3 DEF FreshAnswer
    <3>2. /\ Distinct(Postponed')
          /\ Elems(Postponed') = Elems(Postponed) \cup {msg}
          /\ InHand' = <<>>
      BY <1>2, <1>3, <2>2, <3>1, DistinctAppend, ElemsAppend DEF Postponed, InHand
    <3>3. QED BY <1>2, <1>3, <2>1, <3>1, <3>2, ElemsOfNone DEF OneOwner
  <2>4. CASE a.res # "wait"
    <3>1. free' = Append(free, msg) /\ pc' = "drain" /\ later' = later
      BY <1>1, <1>4, <2>4 DEF FreshAnswer
    <3>2. /\ Distinct(free') /\ Elems(free') = Elems(free) \cup {msg}
          /\ Postponed' = Postponed /\ InHand' = <<>>
      BY <1>2, <1>3, <2>2, <3>1, DistinctAppend, ElemsAppend DEF Postponed, InHand
    <3>3. QED BY <1>2, <1>3, <2>1, <3>1, <3>2, ElemsOfNone DEF OneOwner
  <2>5. QED BY <2>3, <2>4
<1>5. CASE ~fresh
  <2>1. /\ later # <<>> /\ msg = Head(later)
        /\ InHand = <<>> /\ InHand' = <<>> /\ later' = later
    BY <1>1, <1>2, <1>5 DEF TypeInv, AtHead, InHand, LaterAnswer
  <2>2. CASE a.res = "wait" /\ a.len > 0
    <3>1. free' = free /\ pc' = "receive"
      BY <1>1, <1>5, <2>2 DEF LaterAnswer
    <3>2. Postponed' = Postponed
      BY <1>3, <2>1, <3>1 DEF Postponed
    <3>3. QED BY <1>2, <2>1, <3>1, <3>2, OwnersUntouched
  <2>3. CASE ~(a.res = "wait" /\ a.len > 0)
    <3>1. free' = Append(free, msg) /\ pc' = "pop"
      BY <1>1, <1>5, <2>3 DEF LaterAnswer
    <3>2. /\ Distinct(Tail(later)) /\ Elems(Tail(later)) = Elems(later) \ {msg}
          /\ msg \in Elems(later)
      BY <1>2, <1>3, <2>1, DistinctTail
    <3>3. Postponed' = Tail(later)
      BY <2>1, <3>1 DEF Postponed
    <3>4. msg \notin Elems(free)
      BY <1>3, <3>2 DEF OneOwner
    <3>5. Distinct(free') /\ Elems(free') = Elems(free) \cup {msg}
      BY <1>2, <1>3, <3>1, <3>4, DistinctAppend, ElemsAppend
    <3>6. QED BY <1>2, <1>3, <2>1, <3>2, <3>3, <3>5, ElemsOfNone DEF OneOwner
  <2>4. QED BY <2>2, <2>3
<1>6. QED BY <1>4, <1>5

LEMMA NextOneOwner == TypeInv /\ OneOwner /\ [Next]_vars => OneOwner'
<1> SUFFICES ASSUME TypeInv, OneOwner, [Next]_vars PROVE OneOwner'
  OBVIOUS
<1>1. ASSUME \/ \E d \in Device, i \in Interface : AddDevice(d, i)
             \/ \E d \in Device : RemoveDevice(d)
             \/ \E m \in Message : Elapse(m)
             \/ UNCHANGED vars
      PROVE  OneOwner'
  <2>1. UNCHANGED <<free, holds, queue, pc, msg, fresh, later>>
    BY <1>1 DEF AddDevice, RemoveDevice, Elapse, vars, poolVars, taskVars
  <2>2. UNCHANGED <<Postponed, InHand>>
    BY <2>1 DEF Postponed, InHand
  <2>3. QED BY <2>1, <2>2, OwnersUntouched
<1>2. ASSUME Timeout \/ Drain \/ Lookup \/ Pop
      PROVE  OneOwner'
  <2>1. UNCHANGED <<free, holds, queue>>
    BY <1>2 DEF Timeout, Drain, Lookup, Pop, poolVars
  <2>2. UNCHANGED Postponed
    BY <1>2 DEF Timeout, Drain, Lookup, Pop, Postponed
  <2>3. UNCHANGED InHand
    <3>1. CASE Timeout
      BY <3>1 DEF Timeout, InHand
    <3>2. CASE Drain
      BY <3>2 DEF Drain, InHand
    <3>3. CASE Lookup
      BY <3>3 DEF Lookup, InHand
    <3>4. CASE Pop
      BY <3>4 DEF Pop, InHand
    <3>5. QED BY <1>2, <3>1, <3>2, <3>3, <3>4
  <2>4. QED BY <2>1, <2>2, <2>3, OwnersUntouched
<1>3. QED
  BY <1>1, <1>2, GetOneOneOwner, SendOneOwner, ReceiveOneOwner, TransmitOneOwner
  DEF Next, TransmitTask

\* Every buffer has exactly one owner at any time, so none leaks from the pool
\* and none is recycled twice, for any pool size and any number of senders.
THEOREM OwnershipKept == Spec => []OneOwner
<1>1. TypeInv /\ OneOwner /\ [Next]_vars => (TypeInv /\ OneOwner)'
  BY NextTypeInv, NextOneOwner
<1>2. Init => TypeInv /\ OneOwner
  BY InitTypeInv, InitOneOwner
<1>3. QED BY <1>1, <1>2, PTL DEF Spec

-----------------------------------------------------------------------------
(* Room in the queue, and no sleep with work left.                         *)

\* A sender that owns a buffer never waits in DEV::Send: the queue holds
\* distinct buffers of the pool, and has one slot more than there are.
THEOREM SendersNeverBlock == Spec => []SendNeverBlocks
<1>1. TypeInv /\ OneOwner => SendNeverBlocks
  <2> SUFFICES ASSUME TypeInv, OneOwner PROVE Len(queue) < QueueLen
    BY DEF SendNeverBlocks
  <2>1. queue \in Seq(Message) /\ Distinct(queue)
    BY DEF TypeInv, TypeOK, OneOwner
  <2>2. Len(queue) \in Nat /\ Len(queue) <= Cardinality(Message)
    BY <2>1, ConstAssumption, DistinctLen
  <2>3. Cardinality(Message) \in Nat
    BY ConstAssumption, FS_CardinalityType
  <2>4. QED BY <2>2, <2>3 DEF QueueLen
<1>2. TypeInv /\ OneOwner /\ [Next]_vars => (TypeInv /\ OneOwner)'
  BY NextTypeInv, NextOneOwner
<1>3. Init => TypeInv /\ OneOwner
  BY InitTypeInv, InitOneOwner
<1>4. QED BY <1>1, <1>2, <1>3, PTL DEF Spec

LEMMA NextNoSleep ==
  TypeInv /\ NoSleepWithPostponed /\ [Next]_vars => NoSleepWithPostponed'
<1> SUFFICES ASSUME TypeInv, NoSleepWithPostponed, [Next]_vars
             PROVE  NoSleepWithPostponed'
  OBVIOUS
<1> USE DEF NoSleepWithPostponed, poolVars, taskVars
<1>1. ASSUME \/ \E d \in Device, i \in Interface : AddDevice(d, i)
             \/ \E d \in Device : RemoveDevice(d)
             \/ \E s \in Sender, d \in Device, n \in 1..MaxLen : GetOne(s, d, n)
             \/ \E s \in Sender : Send(s)
             \/ \E m \in Message : Elapse(m)
             \/ UNCHANGED vars
      PROVE  NoSleepWithPostponed'
  <2>1. UNCHANGED <<pc, later, retry>>
    BY <1>1 DEF AddDevice, RemoveDevice, GetOne, Send, Elapse, vars
  <2>2. QED BY <2>1
<1>2. CASE Receive \/ Timeout \/ Lookup \/ Pop
  BY <1>2 DEF Receive, Timeout, Lookup, Pop
<1>3. CASE Drain
  BY <1>3 DEF Drain
<1>4. CASE Transmit
  <2>1. PICK a \in SendAnswers(itf, rem[msg]) :
          IF fresh THEN FreshAnswer(a) ELSE LaterAnswer(a)
    BY <1>4 DEF Transmit
  <2>2. CASE fresh
    BY <2>1, <2>2 DEF FreshAnswer
  <2>3. CASE ~fresh
    BY <2>1, <2>3 DEF LaterAnswer
  <2>4. QED BY <2>2, <2>3
<1>5. QED BY <1>1, <1>2, <1>3, <1>4 DEF Next, TransmitTask

\* The transmit task goes to sleep without a time-out only when nothing is
\* postponed.
THEOREM NoStuckTelegram == Spec => []NoSleepWithPostponed
<1>1. Init => NoSleepWithPostponed
  BY DEF Init, NoSleepWithPostponed
<1>2. QED BY <1>1, InitTypeInv, NextTypeInv, NextNoSleep, PTL DEF Spec

-----------------------------------------------------------------------------
(* Telegrams of one target are not mixed.                                  *)

\* Of the postponed telegrams for a target only the oldest has begun, none
\* has begun before it reaches the task, and the one in the task's hands has
\* no older one for its target.
OnlyOldestBegun ==
  /\ \A i, j \in DOMAIN Postponed :
       i < j /\ target[Postponed[i]] = target[Postponed[j]]
         => sent[Postponed[j]] = 0
  /\ \A m \in Held \cup Elems(queue) \cup Elems(InHand) : sent[m] = 0
  /\ \A m \in Elems(InHand), p \in Elems(Postponed) : target[p] # target[m]

OrderInv == TypeInv /\ OneOwner /\ OnlyOldestBegun

LEMMA BegunUntouched ==
  ASSUME OnlyOldestBegun,
         UNCHANGED <<holds, queue, Postponed, InHand, target, sent>>
  PROVE  OnlyOldestBegun'
BY DEF OnlyOldestBegun, Held

LEMMA SenderBegun ==
  ASSUME OrderInv, NEW s \in Sender,
         (\E d \in Device, n \in 1..MaxLen : GetOne(s, d, n)) \/ Send(s)
  PROVE  OnlyOldestBegun'
<1>1. UNCHANGED <<pc, msg, fresh, later>>
  BY DEF GetOne, Send, taskVars
<1>2. Postponed' = Postponed /\ InHand' = InHand
  BY <1>1 DEF Postponed, InHand
<1>3. Postponed \in Seq(Message)
  BY PostponedType DEF OrderInv
<1>4. ASSUME NEW d \in Device, NEW n \in 1..MaxLen, GetOne(s, d, n)
      PROVE  OnlyOldestBegun'
  <2> DEFINE h == Head(free)
  <2>1. /\ free \in Seq(Message) /\ free # <<>>
        /\ holds' = [holds EXCEPT ![s] = h] /\ queue' = queue
        /\ target' = [target EXCEPT ![h] = d]
        /\ sent' = [sent EXCEPT ![h] = 0]
        /\ target \in [Message -> Device] /\ sent \in [Message -> Nat]
        /\ holds \in [Sender -> Message \cup {Null}]
    BY <1>4 DEF GetOne, OrderInv, TypeInv, TypeOK
  <2>2. h \in Elems(free) /\ h \in Message
    BY <2>1, DistinctTail, TailFacts DEF OrderInv, OneOwner
  <2>3. /\ h \notin Elems(Postponed) /\ h \notin Elems(InHand)
        /\ h \notin Elems(queue)
        /\ Elems(Postponed) \subseteq Message /\ Elems(InHand) \subseteq Message
        /\ Elems(queue) \subseteq Message
    BY <2>2 DEF OrderInv, OneOwner
  <2>4. \A p \in Elems(Postponed) \cup Elems(InHand) \cup Elems(queue) :
          target'[p] = target[p] /\ sent'[p] = sent[p]
    BY <2>1, <2>3
  <2>5. \A i \in DOMAIN Postponed : Postponed[i] \in Elems(Postponed)
    BY DEF Elems
  <2>6. \A m \in Held' : sent'[m] = 0
    BY <2>1, <2>2 DEF Held, OrderInv, OnlyOldestBegun
  <2>7. QED BY <1>2, <2>1, <2>4, <2>5, <2>6 DEF OrderInv, OnlyOldestBegun
<1>5. ASSUME Send(s) PROVE OnlyOldestBegun'
  <2>1. /\ holds[s] \in Message /\ queue \in Seq(Message)
        /\ queue' = Append(queue, holds[s])
        /\ holds' = [holds EXCEPT ![s] = Null]
        /\ holds \in [Sender -> Message \cup {Null}]
        /\ target' = target /\ sent' = sent
    BY <1>5 DEF Send, OrderInv, TypeInv, TypeOK
  <2>2. Elems(queue') = Elems(queue) \cup {holds[s]} /\ holds[s] \in Held
    BY <2>1, ElemsAppend DEF Held
  <2>3. Held' \subseteq Held
    BY <2>1, ConstAssumption DEF Held
  <2>4. QED BY <1>2, <2>1, <2>2, <2>3 DEF OrderInv, OnlyOldestBegun
<1>6. QED BY <1>4, <1>5

LEMMA ReceiveBegun ==
  ASSUME OrderInv, Receive
  PROVE  OnlyOldestBegun'
<1>1. /\ pc = "receive" /\ queue # <<>> /\ queue \in Seq(Message)
      /\ later \in Seq(Message)
      /\ queue' = Tail(queue) /\ msg' = Head(queue)
      /\ UNCHANGED <<holds, target, sent>>
  BY DEF Receive, OrderInv, TypeInv, TypeOK, poolVars
<1>2. /\ Head(queue) \in Elems(queue) /\ Head(queue) \in Message
      /\ Elems(queue') \subseteq Elems(queue)
      /\ sent[Head(queue)] = 0
  <2>1. Distinct(queue)
    BY DEF OrderInv, OneOwner
  <2>2. QED BY <1>1, <2>1, DistinctTail, TailFacts DEF OrderInv, OnlyOldestBegun
<1>3. Postponed = later /\ InHand = <<>> /\ Held' = Held
  BY <1>1 DEF Postponed, InHand, Held
<1>4. CASE SameTargetWaits(Head(queue))
  <2>1. later' = Append(later, Head(queue)) /\ pc' = "drain"
    BY <1>4 DEF Receive
  <2>2. Postponed' = Append(Postponed, Head(queue)) /\ InHand' = <<>>
    BY <1>3, <2>1 DEF Postponed, InHand
  <2>3. /\ DOMAIN Postponed' = 1..(Len(later) + 1) /\ Len(later) \in Nat
        /\ DOMAIN Postponed = 1..Len(later)
        /\ \A i \in 1..Len(later) : Postponed'[i] = Postponed[i]
        /\ Postponed'[Len(later) + 1] = Head(queue)
    BY <1>1, <1>2, <1>3, <2>2, AppendProperties, LenProperties
  <2>4. \A i, j \in DOMAIN Postponed' :
          i < j /\ target[Postponed'[i]] = target[Postponed'[j]]
            => sent[Postponed'[j]] = 0
    BY <1>2, <2>3 DEF OrderInv, OnlyOldestBegun
  <2>5. QED BY <1>1, <1>2, <1>3, <2>2, <2>4, ElemsOfNone
            DEF OrderInv, OnlyOldestBegun
<1>5. CASE ~SameTargetWaits(Head(queue))
  <2>1. later' = later /\ pc' = "lookup" /\ fresh' = TRUE
    BY <1>5 DEF Receive
  <2>2. /\ Postponed' = Postponed /\ InHand' = <<Head(queue)>>
        /\ Elems(InHand') = {Head(queue)}
    BY <1>1, <1>3, <2>1, ElemsOfOne DEF Postponed, InHand
  <2>3. \A p \in Elems(Postponed) : target[p] # target[Head(queue)]
    BY <1>3, <1>5 DEF SameTargetWaits, Elems
  <2>4. QED BY <1>1, <1>2, <1>3, <2>2, <2>3 DEF OrderInv, OnlyOldestBegun
<1>6. QED BY <1>4, <1>5

\* What Transmit works on: a telegram in hand, or the oldest postponed one,
\* and no other telegram that has begun for the same target.
LEMMA OnlyOneBegun ==
  ASSUME OrderInv, pc = "send", NEW n \in Message, n # msg, Partial(n)
  PROVE  target[n] # target[msg]
<1>1. Postponed \in Seq(Message) /\ Postponed = later
  BY PostponedType DEF OrderInv, Postponed
<1>2. PICK j \in DOMAIN Postponed : n = Postponed[j] /\ sent[n] > 0
  BY DEF Partial, Elems
<1>3. sent[n] # 0
  BY <1>2 DEF OrderInv, TypeInv, TypeOK
<1>4. CASE fresh
  <2>1. msg \in Elems(InHand)
    BY <1>4, ElemsOfOne DEF InHand
  <2>2. n \in Elems(Postponed)
    BY DEF Partial
  <2>3. QED BY <2>1, <2>2 DEF OrderInv, OnlyOldestBegun
<1>5. CASE ~fresh
  <2>1. Postponed # <<>> /\ msg = Head(Postponed)
    BY <1>1, <1>5 DEF OrderInv, TypeInv, AtHead
  <2>2. /\ msg = Postponed[1] /\ DOMAIN Postponed = 1..Len(Postponed)
        /\ Len(Postponed) \in Nat /\ Len(Postponed) >= 1
    BY <1>1, <2>1, TailFacts
  <2>3. 1 \in DOMAIN Postponed /\ 1 < j
    BY <1>2, <2>2
  <2>4. QED BY <1>2, <1>3, <2>2, <2>3 DEF OrderInv, OnlyOldestBegun
<1>6. QED BY <1>4, <1>5 DEF OrderInv, TypeInv, TypeOK

LEMMA TransmitBegun ==
  ASSUME OrderInv, Transmit
  PROVE  OnlyOldestBegun'
<1>1. PICK a \in SendAnswers(itf, rem[msg]) :
        /\ sent' = [sent EXCEPT ![msg] = @ + a.out]
        /\ IF fresh THEN FreshAnswer(a) ELSE LaterAnswer(a)
  BY DEF Transmit
<1>2. /\ pc = "send" /\ msg \in Message /\ later \in Seq(Message)
      /\ sent \in [Message -> Nat] /\ target \in [Message -> Device]
      /\ UNCHANGED <<holds, queue, msg, fresh, target>>
  BY DEF Transmit, OrderInv, TypeInv, TypeOK
<1>3. Postponed = later /\ Held' = Held /\ Distinct(later)
      /\ Elems(later) \subseteq Message /\ Held \subseteq Message
      /\ Elems(queue) \subseteq Message
  BY <1>2 DEF Postponed, Held, OrderInv, OneOwner
<1>4. \A p \in Message : p # msg => sent'[p] = sent[p]
  BY <1>1, <1>2
<1>5. DOMAIN later = 1..Len(later) /\ Len(later) \in Nat
      /\ \A i \in DOMAIN later : later[i] \in Elems(later)
  BY <1>2, LenProperties DEF Elems
<1>6. InHand' = <<>>
  BY <1>1, <1>2 DEF InHand, FreshAnswer, LaterAnswer
<1>7. CASE fresh
  <2>1. InHand = <<msg>> /\ Elems(InHand) = {msg}
    BY <1>2, <1>7, ElemsOfOne DEF InHand
  <2>2. msg \notin Elems(later) /\ msg \notin Held /\ msg \notin Elems(queue)
    BY <1>3, <2>1 DEF OrderInv, OneOwner
  <2>3. \A m \in Held' \cup Elems(queue') : sent'[m] = 0
    BY <1>2, <1>3, <1>4, <2>2 DEF OrderInv, OnlyOldestBegun
  <2>4. \A i \in DOMAIN later : target[later[i]] # target[msg]
    BY <1>3, <1>5, <2>1 DEF OrderInv, OnlyOldestBegun
  <2>5. \A i, j \in DOMAIN later :
          i < j /\ target[later[i]] = target[later[j]] => sent'[later[j]] = 0
    BY <1>3, <1>4, <1>5, <2>2 DEF OrderInv, OnlyOldestBegun
  <2>6. CASE a.res = "wait"
    <3>1. Postponed' = Append(later, msg)
      BY <1>1, <1>7, <2>6 DEF FreshAnswer, Postponed
    <3>2. /\ DOMAIN Postponed' = 1..(Len(later) + 1)
          /\ \A i \in 1..Len(later) : Postponed'[i] = later[i]
          /\ Postponed'[Len(later) + 1] = msg
      BY <1>2, <3>1, AppendProperties, LenProperties
    <3>3. \A i, j \in DOMAIN Postponed' :
            i < j /\ target'[Postponed'[i]] = target'[Postponed'[j]]
              => sent'[Postponed'[j]] = 0
      BY <1>2, <1>5, <2>4, <2>5, <3>2
    <3>4. QED BY <1>6, <2>3, <3>3, ElemsOfNone DEF OnlyOldestBegun
  <2>7. CASE a.res # "wait"
    <3>1. Postponed' = later
      BY <1>1, <1>7, <2>7 DEF FreshAnswer, Postponed
    <3>2. QED BY <1>2, <1>6, <2>3, <2>5, <3>1, ElemsOfNone DEF OnlyOldestBegun
  <2>8. QED BY <2>6, <2>7
<1>8. CASE ~fresh
  <2>1. later # <<>> /\ msg = Head(later) /\ InHand = <<>> /\ later' = later
    BY <1>1, <1>2, <1>8 DEF OrderInv, TypeInv, AtHead, InHand, LaterAnswer
  <2>2. /\ msg = later[1] /\ Len(later) >= 1 /\ msg \in Elems(later)
        /\ Tail(later) \in Seq(Message) /\ DOMAIN Tail(later) = 1..(Len(later) - 1)
        /\ \A i \in 1..(Len(later) - 1) : Tail(later)[i] = later[i + 1]
    BY <1>2, <2>1, TailFacts DEF Elems
  <2>3. msg \notin Held /\ msg \notin Elems(queue)
    BY <1>3, <2>2 DEF OrderInv, OneOwner
  <2>4. \A m \in Held' \cup Elems(queue') : sent'[m] = 0
    BY <1>2, <1>3, <1>4, <2>3 DEF OrderInv, OnlyOldestBegun
  <2>5. \A j \in DOMAIN later : j > 1 => later[j] # msg
    BY <1>3, <1>5, <2>2 DEF Distinct
  <2>6. \A i, j \in DOMAIN later :
          i < j /\ target[later[i]] = target[later[j]] => sent'[later[j]] = 0
    BY <1>3, <1>4, <1>5, <2>5 DEF OrderInv, OnlyOldestBegun
  <2>7. Postponed' = later \/ Postponed' = Tail(later)
    BY <2>1 DEF Postponed
  <2>8. \A i, j \in DOMAIN Postponed' :
          i < j /\ target'[Postponed'[i]] = target'[Postponed'[j]]
            => sent'[Postponed'[j]] = 0
    <3>1. CASE Postponed' = later
      BY <1>2, <2>6, <3>1
    <3>2. CASE Postponed' = Tail(later)
      <4>1. ASSUME NEW i \in 1..(Len(later) - 1), NEW j \in 1..(Len(later) - 1),
                   i < j, target'[Tail(later)[i]] = target'[Tail(later)[j]]
            PROVE  sent'[Tail(later)[j]] = 0
        <5>1. i + 1 \in DOMAIN later /\ j + 1 \in DOMAIN later /\ i + 1 < j + 1
          BY <1>5, <4>1
        <5>2. Tail(later)[i] = later[i + 1] /\ Tail(later)[j] = later[j + 1]
          BY <2>2
        <5>3. target[later[i + 1]] = target[later[j + 1]]
          BY <1>2, <4>1, <5>2
        <5>4. QED BY <2>6, <5>1, <5>2, <5>3
      <4>2. DOMAIN Postponed' = 1..(Len(later) - 1)
        BY <2>2, <3>2
      <4>3. QED BY <3>2, <4>1, <4>2
    <3>3. QED BY <2>7, <3>1, <3>2
  <2>9. QED BY <1>6, <2>4, <2>8, ElemsOfNone DEF OnlyOldestBegun
<1>9. QED BY <1>7, <1>8

LEMMA NextOrderInv == OrderInv /\ [Next]_vars => OrderInv'
<1> SUFFICES ASSUME OrderInv, [Next]_vars PROVE OnlyOldestBegun'
  BY NextTypeInv, NextOneOwner DEF OrderInv
<1>1. ASSUME \/ \E d \in Device, i \in Interface : AddDevice(d, i)
             \/ \E d \in Device : RemoveDevice(d)
             \/ \E m \in Message : Elapse(m)
             \/ UNCHANGED vars
      PROVE  OnlyOldestBegun'
  <2>1. UNCHANGED <<holds, queue, pc, msg, fresh, later, target, sent>>
    BY <1>1 DEF AddDevice, RemoveDevice, Elapse, vars, poolVars, taskVars
  <2>2. UNCHANGED <<Postponed, InHand>>
    BY <2>1 DEF Postponed, InHand
  <2>3. QED BY <2>1, <2>2, BegunUntouched DEF OrderInv
<1>2. ASSUME Timeout \/ Drain \/ Lookup \/ Pop
      PROVE  OnlyOldestBegun'
  <2>1. UNCHANGED <<holds, queue, target, sent>>
    BY <1>2 DEF Timeout, Drain, Lookup, Pop, poolVars
  <2>2. UNCHANGED Postponed
    BY <1>2 DEF Timeout, Drain, Lookup, Pop, Postponed
  <2>3. UNCHANGED InHand
    <3>1. CASE Timeout
      BY <3>1 DEF Timeout, InHand
    <3>2. CASE Drain
      BY <3>2 DEF Drain, InHand
    <3>3. CASE Lookup
      BY <3>3 DEF Lookup, InHand
    <3>4. CASE Pop
      BY <3>4 DEF Pop, InHand
    <3>5. QED BY <1>2, <3>1, <3>2, <3>3, <3>4
  <2>4. QED BY <2>1, <2>2, <2>3, BegunUntouched DEF OrderInv
<1>3. QED
  BY <1>1, <1>2, SenderBegun, ReceiveBegun, TransmitBegun DEF Next, TransmitTask

LEMMA InitOrderInv == Init => OrderInv
<1> SUFFICES ASSUME Init PROVE OnlyOldestBegun
  BY InitTypeInv, InitOneOwner DEF OrderInv
<1>1. Postponed = <<>> /\ InHand = <<>> /\ queue = <<>>
  BY DEF Init, Postponed, InHand
<1>2. Held = {}
  BY ConstAssumption DEF Init, Held
<1>3. QED BY <1>1, <1>2, ElemsOfNone DEF OnlyOldestBegun

\* No byte of a telegram is sent while another one for the same target is only
\* partly out.
THEOREM TargetsNotGarbled == Spec => NoGarbledTarget
<1>1. OrderInv /\ [Next]_vars =>
        [\A m, n \in Message :
           sent'[m] > sent[m] /\ n # m /\ Partial(n) => target[n] # target[m]]_vars
  <2> SUFFICES ASSUME OrderInv, Next, NEW m \in Message, NEW n \in Message,
                      sent'[m] > sent[m], n # m, Partial(n)
               PROVE  target[n] # target[m]
    BY DEF vars
  <2>1. sent \in [Message -> Nat]
    BY DEF OrderInv, TypeInv, TypeOK
  <2>2. sent' # sent
    BY <2>1
  <2>3. CASE Transmit
    <3>1. pc = "send" /\ msg \in Message
      BY <2>3 DEF Transmit, OrderInv, TypeInv, TypeOK
    <3>2. PICK a \in SendAnswers(itf, rem[msg]) :
            sent' = [sent EXCEPT ![msg] = @ + a.out]
      BY <2>3 DEF Transmit
    <3>3. m = msg
      BY <2>1, <3>2
    <3>4. QED BY <3>1, <3>3, OnlyOneBegun
  <2>4. CASE \E s \in Sender, d \in Device, k \in 1..MaxLen : GetOne(s, d, k)
    BY <2>1, <2>4 DEF GetOne
  <2>5. QED
    BY <2>2, <2>3, <2>4
    DEF Next, TransmitTask, AddDevice, RemoveDevice, Send, Receive, Timeout,
        Drain, Lookup, Pop, Elapse
<1>2. QED BY <1>1, InitOrderInv, NextOrderInv, PTL DEF Spec, NoGarbledTarget

-----------------------------------------------------------------------------
(***************************************************************************)
(* The transmitter implements TargetFifo.  The pipe is what the task has   *)
(* postponed, what it has in its hands, and the queue, in that order: a    *)
(* telegram moves through it in every step of the task and changes its     *)
(* place only when it leaves.                                              *)
(***************************************************************************)

\* The head of a sequence moved to the end of the one before it.
LEMMA MoveHead ==
  ASSUME NEW S, NEW s \in Seq(S), NEW q \in Seq(S), q # <<>>
  PROVE  /\ Append(s, Head(q)) \o Tail(q) = s \o q
         /\ (s \o <<Head(q)>>) \o Tail(q) = s \o q
<1>1. Head(q) \in S /\ Tail(q) \in Seq(S) /\ <<Head(q)>> \in Seq(S)
  BY TailFacts
<1>2. q = <<Head(q)>> \o Tail(q)
  BY <1>1, HeadTailProperties, ConcatProperties, SeqEqual, LenProperties
<1>3. (s \o <<Head(q)>>) \o Tail(q) = s \o q
  BY <1>1, <1>2, ConcatAssociative
<1>4. Append(s, Head(q)) = s \o <<Head(q)>>
  BY <1>1, AppendIsConcat
<1>5. QED BY <1>3, <1>4

\* What comes before and behind one element of a sequence.
LEMMA Around ==
  ASSUME NEW S, NEW p \in Seq(S), NEW x \in S, NEW q \in Seq(S),
         NEW s, s = (p \o <<x>>) \o q, NEW i, i = Len(p) + 1
  PROVE  /\ i \in DOMAIN s /\ s[i] = x
         /\ DOMAIN p = 1..(i - 1) /\ \A j \in 1..(i - 1) : s[j] = p[j]
         /\ SubSeq(s, 1, i - 1) = p /\ SubSeq(s, i + 1, Len(s)) = q
<1>1. /\ Len(p) \in Nat /\ Len(q) \in Nat
      /\ <<x>> \in Seq(S) /\ Len(<<x>>) = 1 /\ <<x>>[1] = x
  BY LenProperties
<1>2. /\ p \o <<x>> \in Seq(S) /\ Len(p \o <<x>>) = i
      /\ \A j \in 1..Len(p) : (p \o <<x>>)[j] = p[j]
      /\ (p \o <<x>>)[i] = x
  BY <1>1, ConcatProperties
<1>3. /\ s \in Seq(S) /\ Len(s) = i + Len(q) /\ DOMAIN s = 1..Len(s)
      /\ \A j \in 1..i : s[j] = (p \o <<x>>)[j]
      /\ \A j \in 1..Len(q) : s[i + j] = q[j]
  BY <1>1, <1>2, ConcatProperties, LenProperties
<1>4. SubSeq(s, 1, i - 1) = p
  <2>1. \A j \in 1..(i - 1) : s[j] \in S
    BY <1>1, <1>3, ElementOfSeq
  <2>2. /\ SubSeq(s, 1, i - 1) \in Seq(S) /\ Len(SubSeq(s, 1, i - 1)) = Len(p)
        /\ \A j \in 1..Len(p) : SubSeq(s, 1, i - 1)[j] = s[j]
    BY <1>1, <2>1, SubSeqProperties
  <2>3. QED BY <1>1, <1>2, <1>3, <2>2, SeqEqual
<1>5. SubSeq(s, i + 1, Len(s)) = q
  <2>1. \A j \in (i + 1)..Len(s) : s[j] \in S
    BY <1>1, <1>3, ElementOfSeq
  <2>2. /\ SubSeq(s, i + 1, Len(s)) \in Seq(S)
        /\ Len(SubSeq(s, i + 1, Len(s))) = Len(q)
        /\ \A j \in 1..Len(q) : SubSeq(s, i + 1, Len(s))[j] = s[i + j]
    BY <1>1, <1>3, <2>1, SubSeqProperties
  <2>3. QED BY <1>3, <2>2, SeqEqual
<1>6. i \in DOMAIN s /\ s[i] = x
  BY <1>1, <1>2, <1>3
<1>7. DOMAIN p = 1..(i - 1) /\ \A j \in 1..(i - 1) : s[j] = p[j]
  BY <1>1, <1>2, <1>3, LenProperties
<1>8. QED BY <1>4, <1>5, <1>6, <1>7

LEMMA PipeFacts ==
  ASSUME TypeInv
  PROVE  /\ Postponed \in Seq(Message) /\ InHand \in Seq(Message)
         /\ queue \in Seq(Message) /\ Postponed \o InHand \in Seq(Message)
         /\ Pipe \in Seq(Message)
         /\ \A i \in DOMAIN Pipe :
              Pipe[i] \in Elems(Postponed) \cup Elems(InHand) \cup Elems(queue)
<1>1. /\ Postponed \in Seq(Message) /\ queue \in Seq(Message)
      /\ InHand \in Seq(Message)
  BY PostponedType DEF TypeInv, TypeOK, InHand
<1>2. Postponed \o InHand \in Seq(Message) /\ Pipe \in Seq(Message)
  BY <1>1, ConcatProperties DEF Pipe
<1>3. ASSUME NEW i \in DOMAIN Pipe
      PROVE  Pipe[i] \in Elems(Postponed) \cup Elems(InHand) \cup Elems(queue)
  <2>1. /\ Len(Pipe) = Len(Postponed) + Len(InHand) + Len(queue)
        /\ \A j \in 1..Len(Pipe) : Pipe[j] =
             IF j <= Len(Postponed \o InHand) THEN (Postponed \o InHand)[j]
                                   ELSE queue[j - Len(Postponed \o InHand)]
        /\ Len(Postponed \o InHand) = Len(Postponed) + Len(InHand)
        /\ \A j \in 1..Len(Postponed \o InHand) : (Postponed \o InHand)[j] =
             IF j <= Len(Postponed) THEN Postponed[j] ELSE InHand[j - Len(Postponed)]
    BY <1>1, <1>2, ConcatProperties DEF Pipe
  <2>2. /\ Len(Postponed) \in Nat /\ Len(InHand) \in Nat /\ Len(queue) \in Nat
        /\ DOMAIN Postponed = 1..Len(Postponed) /\ DOMAIN InHand = 1..Len(InHand)
        /\ DOMAIN queue = 1..Len(queue) /\ DOMAIN Pipe = 1..Len(Pipe)
    BY <1>1, <1>2, LenProperties
  <2>3. CASE i <= Len(Postponed)
    <3>1. Pipe[i] = Postponed[i] /\ i \in DOMAIN Postponed
      BY <2>1, <2>2, <2>3
    <3>2. QED BY <3>1 DEF Elems
  <2>4. CASE i > Len(Postponed) /\ i <= Len(Postponed) + Len(InHand)
    <3>1. Pipe[i] = InHand[i - Len(Postponed)] /\ i - Len(Postponed) \in DOMAIN InHand
      BY <2>1, <2>2, <2>4
    <3>2. QED BY <3>1 DEF Elems
  <2>5. CASE i > Len(Postponed) + Len(InHand)
    <3> DEFINE k == i - (Len(Postponed) + Len(InHand))
    <3>1. Pipe[i] = queue[k] /\ k \in DOMAIN queue
      BY <2>1, <2>2, <2>5
    <3>2. QED BY <3>1 DEF Elems
  <2>6. QED BY <2>2, <2>3, <2>4, <2>5
<1>4. QED BY <1>1, <1>2, <1>3

\* A buffer nobody has handed over yet is not in the pipe.
LEMMA NotWaiting ==
  ASSUME TypeInv, OneOwner, NEW m \in Elems(free) \cup Held
  PROVE  m \notin Fifo!Waiting
BY PipeFacts DEF OneOwner, Fifo!Waiting

\* A step that leaves the three places alone.
LEMMA PipeUntouched ==
  UNCHANGED <<queue, Postponed, InHand, target>> => UNCHANGED Fifo!vars
BY DEF Fifo!vars, Pipe

LEMMA SenderSteps ==
  ASSUME OrderInv, NEW s \in Sender,
         (\E d \in Device, n \in 1..MaxLen : GetOne(s, d, n)) \/ Send(s)
  PROVE  [Fifo!Next]_(Fifo!vars)
<1>1. UNCHANGED <<pc, msg, fresh, later>>
  BY DEF GetOne, Send, taskVars
<1>2. Postponed' = Postponed /\ InHand' = InHand
  BY <1>1 DEF Postponed, InHand
<1>3. ASSUME NEW d \in Device, NEW n \in 1..MaxLen, GetOne(s, d, n)
      PROVE  \E m \in Message : Fifo!Address(m, d)
  <2>1. /\ free \in Seq(Message) /\ free # <<>> /\ Distinct(free)
        /\ queue' = queue /\ target' = [target EXCEPT ![Head(free)] = d]
    BY <1>3 DEF GetOne, OrderInv, TypeInv, TypeOK, OneOwner
  <2>2. Head(free) \in Elems(free) /\ Head(free) \in Message
    BY <2>1, DistinctTail, TailFacts
  <2>3. Head(free) \notin Fifo!Waiting
    BY <2>2, NotWaiting DEF OrderInv
  <2>4. Pipe' = Pipe
    BY <1>2, <2>1 DEF Pipe
  <2>5. QED BY <2>1, <2>2, <2>3, <2>4 DEF Fifo!Address
<1>4. ASSUME Send(s) PROVE \E m \in Message : Fifo!Submit(m)
  <2>1. /\ holds[s] \in Message /\ holds[s] \in Held /\ target' = target
        /\ queue' = Append(queue, holds[s])
    BY <1>4 DEF Send, OrderInv, TypeInv, TypeOK, Held
  <2>2. holds[s] \notin Fifo!Waiting
    BY <2>1, NotWaiting DEF OrderInv
  <2>3. Pipe' = Append(Pipe, holds[s])
    <3>1. /\ queue \in Seq(Message) /\ Postponed \o InHand \in Seq(Message)
          /\ Pipe \in Seq(Message) /\ <<holds[s]>> \in Seq(Message)
      BY <2>1, PipeFacts DEF OrderInv
    <3>2. Pipe' = (Postponed \o InHand) \o (queue \o <<holds[s]>>)
      BY <1>2, <2>1, <3>1, AppendIsConcat DEF Pipe
    <3>3. Pipe' = Pipe \o <<holds[s]>>
      BY <3>1, <3>2, ConcatAssociative DEF Pipe
    <3>4. QED BY <2>1, <3>1, <3>3, AppendIsConcat
  <2>4. QED BY <2>1, <2>2, <2>3 DEF Fifo!Submit
<1>5. QED BY <1>3, <1>4 DEF Fifo!Next

\* A telegram leaves the pipe, and none before it is for the same target.
LEMMA Leaves ==
  ASSUME NEW p \in Seq(Message), NEW x \in Message, NEW q \in Seq(Message),
         Pipe = (p \o <<x>>) \o q, Pipe' = p \o q, target' = target,
         \A j \in DOMAIN p : target[p[j]] # target[x]
  PROVE  Fifo!Next
<1>1. PICK i : i = Len(p) + 1
  OBVIOUS
<1>2. PICK s : s = Pipe
  OBVIOUS
<1>3. s = (p \o <<x>>) \o q
  BY <1>2
<1>4. /\ i \in DOMAIN s /\ s[i] = x
      /\ DOMAIN p = 1..(i - 1) /\ \A j \in 1..(i - 1) : s[j] = p[j]
      /\ SubSeq(s, 1, i - 1) = p /\ SubSeq(s, i + 1, Len(s)) = q
  BY <1>1, <1>3, Around
<1>5. Fifo!Retire(i)
  BY <1>2, <1>4 DEF Fifo!Retire, Fifo!Without
<1>6. QED BY <1>2, <1>4, <1>5 DEF Fifo!Next

LEMMA ReceiveSteps ==
  ASSUME TypeInv, Receive
  PROVE  UNCHANGED Fifo!vars
<1>1. /\ pc = "receive" /\ queue # <<>> /\ queue \in Seq(Message)
      /\ later \in Seq(Message) /\ queue' = Tail(queue) /\ msg' = Head(queue)
      /\ Postponed = later /\ InHand = <<>> /\ target' = target
  BY DEF Receive, TypeInv, TypeOK, Postponed, InHand, poolVars
<1>2. Head(queue) \in Message /\ Append(later, Head(queue)) \in Seq(Message)
  BY <1>1, TailFacts, AppendProperties
<1>3. Pipe = later \o queue
  BY <1>1, ConcatEmptySeq DEF Pipe
<1>4. CASE SameTargetWaits(Head(queue))
  <2>1. Postponed' = Append(later, Head(queue)) /\ InHand' = <<>>
    BY <1>4 DEF Receive, Postponed, InHand
  <2>2. Pipe' = Append(later, Head(queue)) \o Tail(queue)
    BY <1>1, <1>2, <2>1, ConcatEmptySeq DEF Pipe
  <2>3. QED BY <1>1, <1>3, <2>2, MoveHead DEF Fifo!vars
<1>5. CASE ~SameTargetWaits(Head(queue))
  <2>1. Postponed' = later /\ InHand' = <<Head(queue)>>
    BY <1>1, <1>5 DEF Receive, Postponed, InHand
  <2>2. Pipe' = (later \o <<Head(queue)>>) \o Tail(queue)
    BY <1>1, <2>1 DEF Pipe
  <2>3. QED BY <1>1, <1>3, <2>2, MoveHead DEF Fifo!vars
<1>6. QED BY <1>4, <1>5

LEMMA TransmitSteps ==
  ASSUME OrderInv, Transmit
  PROVE  [Fifo!Next]_(Fifo!vars)
<1>1. PICK a \in SendAnswers(itf, rem[msg]) :
        IF fresh THEN FreshAnswer(a) ELSE LaterAnswer(a)
  BY DEF Transmit
<1>2. /\ pc = "send" /\ msg \in Message /\ later \in Seq(Message)
      /\ queue \in Seq(Message)
      /\ UNCHANGED <<queue, msg, fresh, target>> /\ Postponed = later
  BY DEF Transmit, OrderInv, TypeInv, TypeOK, Postponed
<1>3. InHand' = <<>>
  BY <1>1, <1>2 DEF InHand, FreshAnswer, LaterAnswer
<1>4. CASE fresh
  <2>1. InHand = <<msg>> /\ Elems(InHand) = {msg} /\ Pipe = (later \o <<msg>>) \o queue
    BY <1>2, <1>4, ElemsOfOne DEF InHand, Pipe
  <2>2. CASE a.res = "wait"
    <3>1. Postponed' = Append(later, msg)
      BY <1>1, <1>4, <2>2 DEF FreshAnswer, Postponed
    <3>2. Append(later, msg) = later \o <<msg>> /\ Append(later, msg) \in Seq(Message)
      BY <1>2, AppendIsConcat, AppendProperties
    <3>3. Pipe' = (later \o <<msg>>) \o queue
      BY <1>2, <1>3, <3>1, <3>2, ConcatEmptySeq DEF Pipe
    <3>4. QED BY <1>2, <2>1, <3>3 DEF Fifo!vars
  <2>3. CASE a.res # "wait"
    <3>1. Pipe' = later \o queue
      <4>1. Postponed' = later
        BY <1>1, <1>4, <2>3 DEF FreshAnswer, Postponed
      <4>2. QED BY <1>2, <1>3, <4>1, ConcatEmptySeq DEF Pipe
    <3>2. \A j \in DOMAIN later : target[later[j]] # target[msg]
      BY <1>2, <2>1 DEF OrderInv, OnlyOldestBegun, Elems
    <3>3. PICK p, x, q : p = later /\ x = msg /\ q = queue
      OBVIOUS
    <3>4. Fifo!Next
      BY <1>2, <2>1, <3>1, <3>2, <3>3, Leaves
    <3>5. QED BY <3>4
  <2>4. QED BY <2>2, <2>3
<1>5. CASE ~fresh
  <2>1. later # <<>> /\ msg = Head(later) /\ InHand = <<>> /\ later' = later
    BY <1>1, <1>2, <1>5 DEF OrderInv, TypeInv, AtHead, InHand, LaterAnswer
  <2>2. Pipe = later \o queue
    BY <1>2, <2>1, ConcatEmptySeq DEF Pipe
  <2>3. CASE pc' # "pop"
    <3>1. Pipe' = Pipe
      BY <1>2, <1>3, <2>1, <2>3 DEF Pipe, Postponed
    <3>2. QED BY <1>2, <3>1 DEF Fifo!vars
  <2>4. CASE pc' = "pop"
    <3>1. Tail(later) \in Seq(Message) /\ Head(later) \in Message
          /\ <<>> \in Seq(Message) /\ <<Head(later)>> \in Seq(Message)
      BY <1>2, <2>1, TailFacts, EmptySeq
    <3>2. Pipe' = Tail(later) \o queue
      BY <1>2, <1>3, <2>1, <2>4, <3>1, ConcatEmptySeq DEF Pipe, Postponed
    <3>3. Pipe = (<<>> \o <<Head(later)>>) \o (Tail(later) \o queue)
      <4>1. (<<>> \o <<Head(later)>>) \o Tail(later) = <<>> \o later
        BY <1>2, <2>1, <3>1, MoveHead
      <4>2. <<>> \o <<Head(later)>> = <<Head(later)>> /\ <<>> \o later = later
        BY <1>2, <3>1, ConcatEmptySeq
      <4>3. (<<Head(later)>> \o Tail(later)) \o queue
              = <<Head(later)>> \o (Tail(later) \o queue)
        BY <1>2, <3>1, ConcatAssociative
      <4>4. QED BY <2>2, <4>1, <4>2, <4>3
    <3>4. Tail(later) \o queue \in Seq(Message)
      BY <1>2, <3>1, ConcatProperties
    <3>5. <<>> \o (Tail(later) \o queue) = Tail(later) \o queue
      BY <3>4, ConcatEmptySeq
    <3>6. PICK x, q : x = Head(later) /\ q = Tail(later) \o queue
      OBVIOUS
    <3>7. \A j \in DOMAIN <<>> : target[<<>>[j]] # target[x]
      OBVIOUS
    <3>8. Fifo!Next
      BY <1>2, <3>1, <3>2, <3>3, <3>4, <3>5, <3>6, <3>7, Leaves
    <3>9. QED BY <3>8
  <2>5. QED BY <2>3, <2>4
<1>6. QED BY <1>4, <1>5 DEF OrderInv, TypeInv, TypeOK

LEMMA NextFifo == OrderInv /\ [Next]_vars => [Fifo!Next]_(Fifo!vars)
<1> SUFFICES ASSUME OrderInv, [Next]_vars PROVE [Fifo!Next]_(Fifo!vars)
  OBVIOUS
<1>1. ASSUME \/ \E d \in Device, i \in Interface : AddDevice(d, i)
             \/ \E d \in Device : RemoveDevice(d)
             \/ \E m \in Message : Elapse(m)
             \/ UNCHANGED vars
      PROVE  UNCHANGED Fifo!vars
  <2>1. UNCHANGED <<queue, pc, msg, fresh, later, target>>
    BY <1>1 DEF AddDevice, RemoveDevice, Elapse, vars, poolVars, taskVars
  <2>2. QED BY <2>1, PipeUntouched DEF Postponed, InHand
<1>2. ASSUME Timeout \/ Drain \/ Lookup \/ Pop
      PROVE  UNCHANGED Fifo!vars
  <2>1. UNCHANGED <<queue, target>>
    BY <1>2 DEF Timeout, Drain, Lookup, Pop, poolVars
  <2>2. UNCHANGED Postponed
    BY <1>2 DEF Timeout, Drain, Lookup, Pop, Postponed
  <2>3. UNCHANGED InHand
    BY <1>2 DEF Timeout, Drain, Lookup, Pop, InHand
  <2>4. QED BY <2>1, <2>2, <2>3, PipeUntouched
<1>3. QED
  BY <1>1, <1>2, SenderSteps, ReceiveSteps, TransmitSteps
  DEF Next, TransmitTask, OrderInv

\* For each target, telegrams are submitted and leave like in a queue, whatever
\* the interfaces answer and whichever telegrams are postponed.
THEOREM ImplementsTargetFifo == Spec => TargetFifoSpec
<1>1. Init => Fifo!Init
  <2> SUFFICES ASSUME Init PROVE Fifo!Init
    OBVIOUS
  <2>1. Postponed = <<>> /\ InHand = <<>> /\ queue = <<>>
    BY DEF Init, Postponed, InHand
  <2>2. Pipe = <<>>
    BY <2>1, EmptySeq, ConcatEmptySeq DEF Pipe
  <2>3. QED BY <2>2 DEF Init, Fifo!Init
<1>2. QED
  BY <1>1, InitOrderInv, NextOrderInv, NextFifo, PTL
  DEF Spec, TargetFifoSpec, Fifo!Spec
=============================================================================
