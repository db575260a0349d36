-------------------------- MODULE SetupSync_proofs --------------------------
(***************************************************************************)
(* Proofs about the items of two units, for any number of items, values    *)
(* and telegrams on the way.                                               *)
(***************************************************************************)
EXTENDS SetupSync, TLAPS, SequenceTheorems

-----------------------------------------------------------------------------
(***************************************************************************)
(* The invariant.  For each item the units are not known to disagree on,   *)
(* either an initial sync is still to come that sends it, or the last      *)
(* telegram about it on the way in one direction has the sender's value    *)
(* and nothing is on the way in the other one, or a call of set() that has *)
(* flagged it is about to send it and nothing is on the way to that unit,  *)
(* or the units agree and nothing is on the way.                           *)
(***************************************************************************)

\* No telegram about item i is on line c.
NoneOn(c, i) == \A k \in 1..Len(c) : c[k].item # i
\* The last telegram about item i on line c carries v.
Ends(c, i, v) ==
  \E k \in 1..Len(c) :
    /\ c[k].item = i /\ c[k].value = v
    /\ \A l \in 1..Len(c) : l > k => c[l].item # i

\* Task t of unit u has built a telegram about item i.
Tells(u, t, i) == built[u][t] # Null /\ built[u][t].item = i
Silent(u, i) == NoneOn(chan[u], i) /\ \A t \in Task : ~Tells(Peer(u), t, i)
LastBuilt(u, i) ==
  \E t \in Task : /\ Tells(u, t, i) /\ built[u][t].value = value[u][i]
                  /\ \A r \in Task : Tells(u, r, i) => r = t
LastSent(u, i) ==
  Ends(chan[Peer(u)], i, value[u][i]) /\ \A r \in Task : ~Tells(u, r, i)
Follows(u, i) == Silent(u, i) /\ (LastBuilt(u, i) \/ LastSent(u, i))
Owes(u, i) == Silent(u, i) /\ Unsent(u, i)
Same(i) == Silent("master", i) /\ Silent("second", i) /\ Agree(i)

\* The next item the sensor loop sends.
From == IF at = Null THEN idx ELSE at
Pending(i) ==
  \/ kick
  \/ \E k \in 1..Len(chan["master"]) : chan["master"][k] = InitReq
  \/ \E j \in 1..N : j > From /\ Order[j] = i

Known(i) ==
  \/ Pending(i) \/ Follows("second", i) \/ \E u \in Unit : Owes(u, i)
  \/ "master" \in linked /\ (Follows("master", i) \/ Same(i))

\* What the receiver of unit u sets is the next telegram.
Receiving(u) ==
  LET c == call[u]["sync"] IN
    \/ c = Null
    \/ /\ c.pc # "sync" /\ chan[u] # <<>>
       /\ Head(chan[u]).item = c.item /\ Head(chan[u]).value = c.new
    \/ c.pc = "sync" /\ u = "second" /\ kick /\ u \in linked

Calls ==
  /\ "second" \notin linked => kick /\ chan["second"] = <<>>
  /\ "master" \notin linked => chan["master"] = <<>> /\ idx = N /\ at = Null
  /\ built["second"]["loop"] = Null
  /\ IF phase = "entry" THEN at # Null /\ built["master"]["loop"] = Null ELSE at = Null
  /\ \A u \in Unit, t \in User : call[u][t] # Null => built[u][t] = Null
  /\ \A u \in Unit : Receiving(u)

IInv == TypeOK /\ Calls /\ \A i \in Both \ apart : Known(i)

-----------------------------------------------------------------------------
(* Lines.                                                                  *)

LEMMA Items ==
  /\ N \in Nat /\ Order \in Seq(Item)
  /\ \A j \in 1..N : Order[j] \in Item
  /\ \A i \in Item : \E j \in 1..N : Order[j] = i
  /\ Both \subseteq Item /\ Measured \subseteq Item /\ Both \cap Measured = {}
  /\ Null \notin Value /\ Null \notin Item /\ Null \notin Nat
  /\ Null \notin ItemMsg /\ Null \notin Call
  /\ Stored \subseteq Both /\ Reading \subseteq Value
<1>1. Order \in Seq(Item)
  BY SyncAssumption
<1>2. N \in Nat /\ DOMAIN Order = 1..N
  BY <1>1, LenProperties DEF N
<1>3. QED BY <1>1, <1>2, SyncAssumption DEF Item, Range

LEMMA Peers ==
  ASSUME NEW u \in Unit
  PROVE  /\ Peer(u) \in Unit /\ Peer(u) # u /\ Peer(Peer(u)) = u
         /\ \A w \in Unit : w = u \/ w = Peer(u)
BY DEF Unit, Peer

LEMMA LineAppend ==
  ASSUME NEW c \in Seq(Msg), NEW m \in Msg
  PROVE  /\ Append(c, m) \in Seq(Msg)
         /\ \A i : NoneOn(c, i) /\ m.item # i => NoneOn(Append(c, m), i)
         /\ Ends(Append(c, m), m.item, m.value)
         /\ \A i, v : Ends(c, i, v) /\ m.item # i => Ends(Append(c, m), i, v)
         /\ \A k \in 1..Len(c) : k \in 1..Len(Append(c, m)) /\ Append(c, m)[k] = c[k]
         /\ Len(Append(c, m)) \in 1..Len(Append(c, m)) /\ Append(c, m)[Len(Append(c, m))] = m
         /\ c # <<>> => Append(c, m) # <<>> /\ Head(Append(c, m)) = Head(c)
<1> DEFINE a == Append(c, m)
<1>1. /\ a \in Seq(Msg) /\ Len(c) \in Nat /\ Len(a) = Len(c) + 1
      /\ \A k \in 1..Len(c) : a[k] = c[k]
      /\ a[Len(c) + 1] = m
  BY AppendProperties, LenProperties
<1> HIDE DEF a
<1>2. ASSUME NEW i, NoneOn(c, i), m.item # i PROVE NoneOn(a, i)
  BY <1>1, <1>2 DEF NoneOn
<1>3. Ends(a, m.item, m.value)
  BY <1>1 DEF Ends
<1>4. ASSUME NEW i, NEW v, Ends(c, i, v), m.item # i PROVE Ends(a, i, v)
  BY <1>1, <1>4 DEF Ends
<1>5. ASSUME c # <<>> PROVE a # <<>> /\ Head(a) = Head(c)
  <2>1. Len(c) >= 1 /\ Len(<<>>) = 0
    BY <1>1, <1>5, EmptySeq
  <2>2. a # <<>>
    BY <1>1, <2>1
  <2>3. Head(a) = a[1] /\ Head(c) = c[1]
    BY <1>1, <1>5, <2>2, HeadTailProperties
  <2>4. QED BY <1>1, <2>1, <2>2, <2>3
<1>6. QED BY <1>1, <1>2, <1>3, <1>4, <1>5 DEF a

LEMMA LineTail ==
  ASSUME NEW c \in Seq(Msg), c # <<>>
  PROVE  /\ Tail(c) \in Seq(Msg) /\ Head(c) \in Msg
         /\ \A i : NoneOn(c, i) => NoneOn(Tail(c), i) /\ Head(c).item # i
         /\ \A i, v : Ends(c, i, v) =>
              \/ Ends(Tail(c), i, v)
              \/ Head(c).item = i /\ Head(c).value = v /\ NoneOn(Tail(c), i)
         /\ \A k \in 1..Len(c) :
              c[k] = Head(c) \/ \E l \in 1..Len(Tail(c)) : Tail(c)[l] = c[k]
<1> DEFINE t == Tail(c)
<1>1. /\ t \in Seq(Msg) /\ Head(c) \in Msg /\ Head(c) = c[1]
      /\ Len(c) \in Nat /\ Len(c) >= 1 /\ Len(t) = Len(c) - 1
      /\ \A k \in 1..(Len(c) - 1) : t[k] = c[k + 1]
  BY HeadTailProperties, LenProperties, EmptySeq
<1> HIDE DEF t
<1>2. ASSUME NEW i, NoneOn(c, i) PROVE NoneOn(t, i) /\ Head(c).item # i
  BY <1>1, <1>2 DEF NoneOn
<1>3. ASSUME NEW i, NEW v, Ends(c, i, v)
      PROVE  Ends(t, i, v) \/ (Head(c).item = i /\ Head(c).value = v /\ NoneOn(t, i))
  <2>1. PICK k \in 1..Len(c) : /\ c[k].item = i /\ c[k].value = v
                               /\ \A l \in 1..Len(c) : l > k => c[l].item # i
    BY <1>3 DEF Ends
  <2>2. CASE k = 1
    BY <1>1, <2>1, <2>2 DEF NoneOn
  <2>3. CASE k # 1
    <3>1. k - 1 \in 1..Len(t) /\ t[k - 1] = c[k]
      BY <1>1, <2>3
    <3>2. \A l \in 1..Len(t) : l > k - 1 => t[l].item # i
      BY <1>1, <2>1
    <3>3. QED BY <2>1, <3>1, <3>2 DEF Ends
  <2>4. QED BY <2>2, <2>3
<1>4. ASSUME NEW k \in 1..Len(c), c[k] # Head(c)
      PROVE  \E l \in 1..Len(t) : t[l] = c[k]
  <2>1. k - 1 \in 1..Len(t) /\ t[k - 1] = c[k]
    BY <1>1, <1>4
  <2>2. QED BY <2>1
<1>5. QED BY <1>1, <1>2, <1>3, <1>4 DEF t

LEMMA ComingIsNotSilent ==
  ASSUME TypeOK, NEW u \in Unit, NEW i \in Item, Coming(u, i) = {}
  PROVE  Silent(u, i)
<1>1. DOMAIN chan[u] = 1..Len(chan[u]) /\ \A k \in 1..Len(chan[u]) : chan[u][k] \in Msg
  BY LenProperties, ElementOfSeq DEF TypeOK
<1>2. \A k \in 1..Len(chan[u]) : chan[u][k] # Null => chan[u][k].item # i
  BY <1>1 DEF Coming, Range
<1>3. \A m \in Msg : m.item = i => m # Null
  BY Items DEF Msg, ItemMsg, InitReq
<1>4. NoneOn(chan[u], i)
  BY <1>1, <1>2, <1>3 DEF NoneOn
<1>5. DOMAIN built[Peer(u)] = Task
  BY Peers DEF TypeOK
<1>6. \A t \in Task : ~Tells(Peer(u), t, i)
  BY <1>5 DEF Coming, Tells, Range
<1>7. QED BY <1>4, <1>6 DEF Silent

-----------------------------------------------------------------------------
(* Type correctness, and where the two tasks can be.                       *)

TInv == TypeOK /\ Calls

LEMMA InitT == Init => TInv
<1> SUFFICES ASSUME Init PROVE TInv
  OBVIOUS
<1>1. <<>> \in Seq(Msg)
  BY EmptySeq
<1>2. TypeOK
  <2>1. /\ value \in [Unit -> [Item -> Value]] /\ dirty \in [Unit -> [Item -> BOOLEAN]]
        /\ stored \in [Unit -> [Item -> Value \cup {Null}]]
    BY SyncAssumption DEF Init
  <2>2. built \in [Unit -> [Task -> ItemMsg \cup {Null}]] /\ chan \in [Unit -> Seq(Msg)]
    BY <1>1 DEF Init
  <2>3. call \in [Unit -> [Setter -> Call \cup {Null}]] /\ clearing \in [Unit -> [Task -> Stored \cup {Null}]]
    BY DEF Init
  <2>4. idx \in 0..N
    BY Items DEF Init
  <2>5. QED BY <2>1, <2>2, <2>3, <2>4 DEF Init, TypeOK
<1>3. Calls
  BY DEF Init, Calls, Receiving, Unit, Task, Setter
<1>4. QED BY <1>2, <1>3 DEF TInv

\* The next telegram is still the one the receiver deals with.
LEMMA StillReceiving ==
  ASSUME NEW u \in Unit, Receiving(u), call'[u]["sync"] = call[u]["sync"],
         chan[u] # <<>> => chan'[u] # <<>> /\ Head(chan'[u]) = Head(chan[u]),
         kick => kick', u \in linked => u \in linked'
  PROVE  Receiving(u)'
BY DEF Receiving

\* What build does to the telegrams built, and to apart.
LEMMA BuildType ==
  ASSUME TypeOK, NEW u \in Unit, NEW t \in Task, NEW i \in Item, NEW v \in Value, Build(u, t, i, v)
  PROVE  /\ built' \in [Unit -> [Task -> ItemMsg \cup {Null}]] /\ apart' \subseteq Item
         /\ \A w \in Unit, r \in Task : w # u \/ r # t => built'[w][r] = built[w][r]
         /\ \A w \in Unit, r \in Task :
              built'[w][r] # built[w][r] => built'[w][r] = [item |-> i, value |-> v]
         /\ \A j \in Item : j \in apart => j \in apart' \/ j = i
<1>1. CASE u \in linked /\ i \in Shared(u)
  <2>1. built' = [built EXCEPT ![u][t] = [item |-> i, value |-> v]]
    BY <1>1 DEF Build
  <2>2. apart' \subseteq Item /\ \A j \in Item : j \in apart => j \in apart' \/ j = i
    BY <1>1 DEF Build, TypeOK
  <2>3. [item |-> i, value |-> v] \in ItemMsg
    BY DEF ItemMsg
  <2>4. QED BY <2>1, <2>2, <2>3 DEF TypeOK
<1>2. CASE ~(u \in linked /\ i \in Shared(u))
  BY <1>2 DEF Build, TypeOK
<1>3. QED BY <1>1, <1>2

LEMMA LoadT ==
  ASSUME TInv, NEW u \in Unit, NEW t \in Setter, NEW i \in Item, NEW v \in Value,
         Load(u, t, i, v),
         t \in User => built[u][t] = Null,
         t = "sync" => chan[u] # <<>> /\ Head(chan[u]).item = i /\ Head(chan[u]).value = v
  PROVE  TInv'
<1>1. PICK c \in Call : c = [pc |-> "valid", item |-> i, new |-> v,
                            word |-> dirty[u][i], changed |-> FALSE]
  <2>1. dirty[u][i] \in BOOLEAN
    BY DEF TInv, TypeOK
  <2>2. [pc |-> "valid", item |-> i, new |-> v, word |-> dirty[u][i], changed |-> FALSE] \in Call
    BY <2>1 DEF Call
  <2>3. QED BY <2>2
<1> call' = [call EXCEPT ![u][t] = c]
  BY <1>1 DEF Load
<1>2. TypeOK'
  BY <1>1 DEF Load, TInv, TypeOK, itemVars, unitVars, wireVars, loopVars, historyVars
<1>3. \A w \in Unit, r \in Setter : call'[w][r] # call[w][r] => w = u /\ r = t /\ call'[w][r] = c
  BY <1>1 DEF TInv, TypeOK
<1>4. "sync" \in Setter /\ User \subseteq Setter
  BY DEF Setter
<1>5. ASSUME NEW w \in Unit PROVE Receiving(w)'
  <2>1. CASE w = u /\ t = "sync"
    <3>1. call'[u]["sync"] = c /\ c.pc # "sync" /\ c.item = i /\ c.new = v
      BY <1>1, <2>1 DEF TInv, TypeOK
    <3>2. QED BY <2>1, <3>1 DEF Receiving, Load, wireVars
  <2>2. CASE ~(w = u /\ t = "sync")
    <3>1. call'[w]["sync"] = call[w]["sync"]
      BY <1>3, <1>4, <2>2
    <3>2. QED BY <3>1, StillReceiving DEF TInv, Calls, Load, wireVars, unitVars
  <2>3. QED BY <2>1, <2>2
<1>6. ASSUME NEW w \in Unit, NEW r \in User, call'[w][r] # Null PROVE built'[w][r] = Null
  BY <1>3, <1>4, <1>6 DEF TInv, Calls, Load, wireVars
<1>7. Calls'
  BY <1>5, <1>6 DEF TInv, Calls, Load, wireVars, unitVars, loopVars
<1>8. QED BY <1>2, <1>7 DEF TInv

LEMMA SetT ==
  ASSUME TInv, NEW u \in Unit, NEW t \in User, NEW i \in Item, NEW v \in Value, Set(u, t, i, v)
  PROVE  TInv'
BY LoadT, SyncAssumption DEF Set, Idle, Setter

LEMMA TakeT ==
  ASSUME TInv, NEW u \in Unit, Take(u)
  PROVE  TInv'
<1>1. Head(chan[u]) \in ItemMsg
  BY LineTail DEF Take, TInv, TypeOK, Msg
<1>2. Head(chan[u]).item \in Item /\ Head(chan[u]).value \in Value
  BY <1>1 DEF ItemMsg
<1>3. QED BY <1>2, LoadT, SyncAssumption DEF Take, Setter

\* A call of set() goes on, or comes to its end.
LEMMA CallT ==
  ASSUME TInv, NEW u \in Unit, NEW t \in User, NEW c \in Call \cup {Null},
         call[u][t] # Null, call' = [call EXCEPT ![u][t] = c],
         chan' = chan, kick' = kick, linked' = linked,
         \A w \in Unit, r \in Task : w # u \/ r # t \/ c # Null => built'[w][r] = built[w][r]
  PROVE  /\ call' \in [Unit -> [Setter -> Call \cup {Null}]]
         /\ \A w \in Unit : Receiving(w)'
         /\ \A w \in Unit, r \in User : call'[w][r] # Null => built'[w][r] = Null
<1>1. User \subseteq Setter /\ User \subseteq Task /\ "sync" \in Setter /\ t # "sync"
  BY SyncAssumption DEF Setter, Task
<1>2. call' \in [Unit -> [Setter -> Call \cup {Null}]]
  BY DEF TInv, TypeOK
<1>3. \A w \in Unit, r \in Setter :
        IF w = u /\ r = t THEN call'[w][r] = c ELSE call'[w][r] = call[w][r]
  BY <1>1 DEF TInv, TypeOK
<1>4. ASSUME NEW w \in Unit PROVE Receiving(w)'
  <2>1. call'[w]["sync"] = call[w]["sync"]
    BY <1>1, <1>3
  <2>2. QED BY <2>1, StillReceiving DEF TInv, Calls
<1>5. ASSUME NEW w \in Unit, NEW r \in User, call'[w][r] # Null PROVE built'[w][r] = Null
  BY <1>1, <1>3, <1>5 DEF TInv, Calls
<1>6. QED BY <1>2, <1>4, <1>5

LEMMA ValidT ==
  ASSUME TInv, NEW u \in Unit, NEW t \in Setter, Valid(u, t)
  PROVE  TInv'
<1>1. call[u][t] \in Call /\ call[u][t] # Null /\ call[u][t].pc = "valid"
  BY DEF TInv, TypeOK, Valid, At
<1>2. call[u][t].item \in Item /\ call[u][t].word \in BOOLEAN
  BY <1>1 DEF Call
<1>3. PICK c \in Call : /\ c = [call[u][t] EXCEPT !.pc = "value"]
                        /\ call' = [call EXCEPT ![u][t] = c]
  <2>1. [call[u][t] EXCEPT !.pc = "value"] \in Call
    BY <1>1 DEF Call
  <2>2. call' = [call EXCEPT ![u][t] = [call[u][t] EXCEPT !.pc = "value"]]
    BY DEF Valid, TInv, TypeOK
  <2>3. QED BY <2>1, <2>2
<1> chan' = chan /\ kick' = kick /\ built' = built /\ linked' = linked
  BY DEF Valid, unitVars, wireVars
<1>4. /\ call' \in [Unit -> [Setter -> Call \cup {Null}]]
      /\ \A w \in Unit : Receiving(w)'
      /\ \A w \in Unit, r \in User : call'[w][r] # Null => built'[w][r] = Null
  <2>1. CASE t \in User
    BY <1>1, <1>3, <2>1, CallT
  <2>2. CASE t = "sync"
    <3>1. call' \in [Unit -> [Setter -> Call \cup {Null}]]
      <4>1. call \in [Unit -> [Setter -> Call \cup {Null}]]
        BY DEF TInv, TypeOK
      <4>2. c \in Call \cup {Null}
        OBVIOUS
      <4>3. [call EXCEPT ![u][t] = c] \in [Unit -> [Setter -> Call \cup {Null}]]
        BY <4>1, <4>2
      <4>4. QED BY <1>3, <4>3
    <3>2. /\ call'[u]["sync"] = c /\ \A w \in Unit : w # u => call'[w] = call[w]
          /\ \A r \in User : call'[u][r] = call[u][r]
      <4>1. call \in [Unit -> [Setter -> Call \cup {Null}]]
        BY DEF TInv, TypeOK
      <4>2. User \subseteq Setter /\ "sync" \in Setter /\ "sync" \notin User
        BY SyncAssumption DEF Setter
      <4>3. QED BY <1>3, <2>2, <4>1, <4>2
    <3>3. c.pc = "value" /\ c.item = call[u][t].item /\ c.new = call[u][t].new
      BY <1>1, <1>3 DEF Call
    <3>4. ASSUME NEW w \in Unit PROVE Receiving(w)'
      <4>1. CASE w = u
        BY <1>1, <2>2, <3>2, <3>3, <4>1 DEF Receiving, TInv, Calls
      <4>2. CASE w # u
        BY <3>2, <4>2, StillReceiving DEF TInv, Calls
      <4>3. QED BY <4>1, <4>2
    <3>5. \A w \in Unit, r \in User : call'[w][r] # Null => built'[w][r] = Null
      BY <3>2 DEF TInv, Calls
    <3>6. QED BY <3>1, <3>4, <3>5
  <2>3. QED BY <2>1, <2>2 DEF Setter
<1>5. dirty' \in [Unit -> [Item -> BOOLEAN]]
  BY <1>2 DEF TInv, TypeOK, Valid
<1>6. apart' \subseteq Item
  BY <1>2 DEF TInv, TypeOK, Valid, Unflag
<1>7. TypeOK'
  BY <1>4, <1>5, <1>6 DEF TInv, TypeOK, Valid, unitVars, wireVars, loopVars
<1>8. Calls'
  BY <1>4 DEF TInv, Calls, Valid, unitVars, wireVars, loopVars
<1>9. QED BY <1>7, <1>8 DEF TInv

LEMMA AssignType ==
  ASSUME TypeOK, NEW u \in Unit, NEW i \in Item, NEW v \in Value, Assign(u, i, v)
  PROVE  /\ value' \in [Unit -> [Item -> Value]] /\ dirty' \in [Unit -> [Item -> BOOLEAN]]
         /\ \A w \in Unit, j \in Item :
              IF w = u /\ j = i THEN /\ value'[w][j] = v
                                    /\ dirty'[w][j] = (dirty[w][j] \/ value[w][j] # v)
              ELSE value'[w][j] = value[w][j] /\ dirty'[w][j] = dirty[w][j]
<1>1. value' \in [Unit -> [Item -> Value]]
  BY DEF Assign, TypeOK
<1>2. dirty' \in [Unit -> [Item -> BOOLEAN]]
  BY DEF Assign, TypeOK
<1>3. QED BY <1>1, <1>2 DEF Assign, TypeOK

LEMMA ChangeT ==
  ASSUME TInv, NEW u \in Unit, NEW t \in User, Change(u, t)
  PROVE  TInv'
<1>1. t \in Setter /\ call[u][t] \in Call
  BY DEF TInv, TypeOK, Change, At, Setter
<1>2. PICK c \in Call : c = [call[u][t] EXCEPT !.pc = "sync",
                             !.changed = value[u][call[u][t].item] # call[u][t].new]
  BY <1>1 DEF Call
<1>3. call' = [call EXCEPT ![u][t] = c]
  BY <1>2 DEF Change
<1>4. call[u][t].item \in Item /\ call[u][t].new \in Value
  BY <1>1 DEF Call
<1>5. value' \in [Unit -> [Item -> Value]] /\ dirty' \in [Unit -> [Item -> BOOLEAN]]
  BY <1>4, AssignType DEF TInv, Change
<1>6. /\ call' \in [Unit -> [Setter -> Call \cup {Null}]]
      /\ \A w \in Unit : Receiving(w)'
      /\ \A w \in Unit, r \in User : call'[w][r] # Null => built'[w][r] = Null
  BY <1>3, CallT DEF Change, At, unitVars, wireVars
<1>7. QED
  BY <1>5, <1>6 DEF TInv, TypeOK, Calls, Change, unitVars, wireVars, loopVars, historyVars

LEMMA SendIfDirtyT ==
  ASSUME TInv, NEW u \in Unit, NEW t \in User, SendIfDirty(u, t)
  PROVE  TInv'
<1>1. PICK i \in Item : /\ i = call[u][t].item
                         /\ IF dirty[u][i] THEN Build(u, t, i, value[u][i]) ELSE UNCHANGED <<built, apart>>
  <2>1. call[u][t] \in Call
    BY DEF SendIfDirty, At, TInv, TypeOK, Setter
  <2>2. call[u][t].item \in Item
    BY <2>1 DEF Call
  <2>3. QED BY <2>2 DEF SendIfDirty
<1>2. t \in Task /\ t # "loop" /\ "loop" \in Task /\ "master" \in Unit /\ "second" \in Unit
  BY SyncAssumption DEF Task, Unit
<1>3. /\ built' \in [Unit -> [Task -> ItemMsg \cup {Null}]] /\ apart' \subseteq Item
      /\ \A w \in Unit, r \in Task : w # u \/ r # t => built'[w][r] = built[w][r]
  <2>1. CASE dirty[u][i]
    <3>1. PICK v \in Value : v = value[u][i]
      BY DEF TInv, TypeOK
    <3>2. Build(u, t, i, v)
      BY <1>1, <2>1, <3>1
    <3>3. TypeOK /\ t \in Task
      BY <1>2 DEF TInv
    <3>4. /\ built' \in [Unit -> [Task -> ItemMsg \cup {Null}]] /\ apart' \subseteq Item
          /\ \A w \in Unit, r \in Task : w # u \/ r # t => built'[w][r] = built[w][r]
      BY <3>2, <3>3, BuildType
    <3>5. QED BY <3>4
  <2>2. CASE ~dirty[u][i]
    BY <1>1, <2>2 DEF TInv, TypeOK
  <2>3. QED BY <2>1, <2>2
<1>4. /\ call' \in [Unit -> [Setter -> Call \cup {Null}]]
      /\ \A w \in Unit : Receiving(w)'
      /\ \A w \in Unit, r \in User : call'[w][r] # Null => built'[w][r] = Null
  <2>1. /\ call' = [call EXCEPT ![u][t] = Null] /\ call[u][t] # Null
        /\ chan' = chan /\ kick' = kick /\ linked' = linked
    BY DEF SendIfDirty, At, unitVars
  <2>2. \A w \in Unit, r \in Task : w # u \/ r # t \/ Null # Null => built'[w][r] = built[w][r]
    BY <1>3
  <2>3. Null \in Call \cup {Null}
    OBVIOUS
  <2>4. QED BY <2>1, <2>2, <2>3, CallT
<1>5. built'["second"]["loop"] = built["second"]["loop"] /\ built'["master"]["loop"] = built["master"]["loop"]
  BY <1>2, <1>3
<1>6. QED
  BY <1>3, <1>4, <1>5 DEF TInv, TypeOK, Calls, SendIfDirty, unitVars, itemVars, loopVars

LEMMA CommitT ==
  ASSUME TInv, NEW u \in Unit, NEW t \in Task, NEW i \in Item, Commit(u, t, i)
  PROVE  TInv'
<1>1. i \in Stored /\ clearing' = [clearing EXCEPT ![u][t] = i]
  BY DEF Commit
<1>2. clearing' \in [Unit -> [Task -> Stored \cup {Null}]]
  BY <1>1 DEF TInv, TypeOK
<1>3. TypeOK'
  BY <1>2 DEF TInv, TypeOK, Commit, itemVars, wireVars, loopVars, historyVars
<1>4. Calls'
  BY DEF TInv, Calls, Receiving, Commit, wireVars, loopVars
<1>5. QED BY <1>3, <1>4 DEF TInv

LEMMA ClearT ==
  ASSUME TInv, NEW u \in Unit, NEW t \in Task, Clear(u, t)
  PROVE  TInv'
<1>1. clearing[u][t] \in Stored /\ clearing[u][t] \in Item
  BY Items DEF TInv, TypeOK, Clear
<1>2. clearing' \in [Unit -> [Task -> Stored \cup {Null}]] /\ dirty' \in [Unit -> [Item -> BOOLEAN]]
  BY <1>1 DEF TInv, TypeOK, Clear
<1>3. apart' \subseteq Item
  BY <1>1 DEF TInv, TypeOK, Clear, Unflag
<1>4. TypeOK'
  BY <1>2, <1>3 DEF TInv, TypeOK, Clear, unitVars, wireVars, loopVars
<1>5. Calls'
  BY DEF TInv, Calls, Receiving, Clear, unitVars, wireVars, loopVars
<1>6. QED BY <1>4, <1>5 DEF TInv

LEMMA MeasureT ==
  ASSUME TInv, NEW i \in Measured, NEW v \in Reading, Measure(i, v)
  PROVE  TInv'
<1>1. /\ i \in Item /\ v \in Value /\ "master" \in Unit /\ "second" \in Unit
      /\ "loop" \in Task /\ User \subseteq Task
  BY Items DEF Unit, Task
<1>2. value' \in [Unit -> [Item -> Value]] /\ dirty' \in [Unit -> [Item -> BOOLEAN]]
  BY <1>1, AssignType DEF TInv, Measure
<1>3. /\ built' \in [Unit -> [Task -> ItemMsg \cup {Null}]] /\ apart' \subseteq Item
      /\ \A w \in Unit, r \in Task : w # "master" \/ r # "loop" => built'[w][r] = built[w][r]
  <2>1. CASE dirty'["master"][i]
    BY <1>1, <2>1, BuildType DEF TInv, Measure
  <2>2. CASE ~dirty'["master"][i]
    BY <2>2 DEF TInv, TypeOK, Measure
  <2>3. QED BY <2>1, <2>2
<1>4. \A w \in Unit, r \in User : built'[w][r] = built[w][r]
  BY <1>1, <1>3, SyncAssumption
<1>5. built'["second"]["loop"] = built["second"]["loop"]
  BY <1>1, <1>3
<1>6. TypeOK'
  BY <1>2, <1>3 DEF TInv, TypeOK, Measure, callVars, unitVars
<1>7. Calls'
  BY <1>4, <1>5 DEF TInv, Calls, Receiving, Measure, callVars, unitVars
<1>8. QED BY <1>6, <1>7 DEF TInv

LEMMA SyncEntryT ==
  ASSUME TInv, SyncEntry
  PROVE  TInv' /\ "master" \in linked /\ at \in 0..N - 1
<1>1. at \in 0..N - 1 /\ "master" \in linked /\ at + 1 \in 1..N
  BY Items DEF TInv, TypeOK, Calls, SyncEntry
<1>2. /\ Order[at + 1] \in Item /\ value["master"][Order[at + 1]] \in Value
      /\ "master" \in Unit /\ "second" \in Unit /\ "loop" \in Task /\ User \subseteq Task
  BY <1>1, Items DEF TInv, TypeOK, Unit, Task
<1>3. /\ built' \in [Unit -> [Task -> ItemMsg \cup {Null}]] /\ apart' \subseteq Item
      /\ \A w \in Unit, r \in Task : w # "master" \/ r # "loop" => built'[w][r] = built[w][r]
  BY <1>2, BuildType DEF TInv, SyncEntry
<1>4. /\ built'["second"]["loop"] = built["second"]["loop"]
      /\ \A w \in Unit, r \in User : built'[w][r] = built[w][r]
  BY <1>2, <1>3, SyncAssumption
<1>5. idx' \in 0..N /\ at' = Null /\ phase' \in {"measure", "sync"}
  BY <1>1, Items DEF SyncEntry
<1>6. TypeOK'
  BY <1>3, <1>5 DEF TInv, TypeOK, SyncEntry, itemVars, callVars, unitVars
<1>7. Calls'
  BY <1>1, <1>4, <1>5 DEF TInv, Calls, Receiving, SyncEntry, callVars, unitVars
<1>8. QED BY <1>1, <1>6, <1>7 DEF TInv

LEMMA QueueT ==
  ASSUME TInv, NEW u \in Unit, NEW t \in Task, Queue(u, t)
  PROVE  TInv'
<1> DEFINE m == built[u][t]
<1>1. m \in ItemMsg /\ m \in Msg /\ m.item \in Item
  BY DEF Queue, TInv, TypeOK, ItemMsg, Msg
<1>2. /\ built' \in [Unit -> [Task -> ItemMsg \cup {Null}]]
      /\ \A w \in Unit, r \in Task : built[w][r] = Null => built'[w][r] = Null
  BY DEF Queue, TInv, TypeOK
<1>3. /\ chan' \in [Unit -> Seq(Msg)] /\ apart' \subseteq Item
      /\ \A w \in Unit : w \notin linked => chan'[w] = chan[w]
      /\ \A w \in Unit : chan[w] # <<>> => chan'[w] # <<>> /\ Head(chan'[w]) = Head(chan[w])
  <2>1. CASE Peer(u) \in linked
    <3>1. /\ Append(chan[Peer(u)], m) \in Seq(Msg)
          /\ chan[Peer(u)] # <<>> => /\ Append(chan[Peer(u)], m) # <<>>
                                     /\ Head(Append(chan[Peer(u)], m)) = Head(chan[Peer(u)])
      BY <1>1, Peers, LineAppend DEF TInv, TypeOK
    <3>2. /\ chan'[Peer(u)] = Append(chan[Peer(u)], m) /\ apart' = apart
          /\ \A w \in Unit : w # Peer(u) => chan'[w] = chan[w]
      BY <2>1, Peers DEF Queue, TInv, TypeOK
    <3>3. chan' \in [Unit -> Seq(Msg)]
      BY <2>1, <3>1, Peers DEF Queue, TInv, TypeOK
    <3>4. QED BY <2>1, <3>1, <3>2, <3>3 DEF TInv, TypeOK
  <2>2. CASE Peer(u) \notin linked
    BY <1>1, <2>2 DEF Queue, TInv, TypeOK
  <2>3. QED BY <2>1, <2>2
<1>4. TypeOK'
  BY <1>2, <1>3 DEF TInv, TypeOK, Queue, itemVars, callVars, unitVars, loopVars
<1>5. /\ call' = call /\ kick' = kick /\ linked' = linked /\ idx' = idx /\ at' = at /\ phase' = phase
  BY DEF Queue, callVars, unitVars, loopVars
<1>6. \A w \in Unit : Receiving(w)'
  BY <1>3, <1>5, StillReceiving DEF TInv, Calls
<1>7. User \subseteq Task /\ "loop" \in Task /\ "master" \in Unit /\ "second" \in Unit
  BY DEF Task, Unit
<1>8. Calls'
  BY <1>2, <1>3, <1>5, <1>6, <1>7 DEF TInv, Calls
<1>9. QED BY <1>4, <1>8 DEF TInv

\* What a receiver does with the call of set() for the next telegram.
LEMMA ReceiverT ==
  ASSUME TInv, NEW u \in Unit, ReceiveItem(u)
  PROVE  /\ call[u]["sync"] \in Call /\ call[u]["sync"].pc = "value"
         /\ call[u]["sync"].item \in Item /\ call[u]["sync"].new \in Value
         /\ chan[u] \in Seq(Msg) /\ chan[u] # <<>> /\ u \in linked
         /\ Head(chan[u]).item = call[u]["sync"].item
         /\ Head(chan[u]).value = call[u]["sync"].new
         /\ Head(chan[u]) # InitReq
<1>1. call[u]["sync"] \in Call /\ call[u]["sync"].pc = "value"
  BY DEF ReceiveItem, At, TInv, TypeOK, Setter
<1>2. call[u]["sync"].item \in Item /\ call[u]["sync"].new \in Value /\ call[u]["sync"] # Null
  BY <1>1, Items DEF Call
<1>3. /\ chan[u] # <<>> /\ Head(chan[u]).item = call[u]["sync"].item
      /\ Head(chan[u]).value = call[u]["sync"].new
  BY <1>1, <1>2 DEF TInv, Calls, Receiving
<1>4. chan[u] \in Seq(Msg) /\ u \in linked
  BY <1>3 DEF TInv, TypeOK, Calls, Unit
<1>5. Head(chan[u]) # InitReq
  BY <1>2, <1>3, Items DEF InitReq
<1>6. QED BY <1>1, <1>2, <1>3, <1>4, <1>5

LEMMA ReceiveItemT ==
  ASSUME TInv, NEW u \in Unit, ReceiveItem(u)
  PROVE  TInv'
<1>1. PICK c \in Call : c = call[u]["sync"] /\ c.pc = "value" /\ c.item \in Item /\ c.new \in Value
  BY ReceiverT
<1>2. value' \in [Unit -> [Item -> Value]] /\ dirty' \in [Unit -> [Item -> BOOLEAN]]
  BY <1>1, AssignType DEF TInv, ReceiveItem
<1>3. PICK d \in Call \cup {Null} :
        /\ d = IF u = "second" /\ kick THEN [c EXCEPT !.pc = "sync"] ELSE Null
        /\ call' = [call EXCEPT ![u]["sync"] = d]
  <2>1. [c EXCEPT !.pc = "sync"] \in Call
    BY DEF Call
  <2>2. QED BY <1>1, <2>1 DEF ReceiveItem
<1>4. "sync" \in Setter /\ User \subseteq Setter /\ "sync" \notin User
  BY SyncAssumption DEF Setter
<1>5. /\ call' \in [Unit -> [Setter -> Call \cup {Null}]] /\ call'[u]["sync"] = d
      /\ \A w \in Unit, r \in Setter : w # u \/ r # "sync" => call'[w][r] = call[w][r]
  <2>1. call \in [Unit -> [Setter -> Call \cup {Null}]]
    BY DEF TInv, TypeOK
  <2>2. QED BY <1>3, <1>4, <2>1
<1>6. Tail(chan[u]) \in Seq(Msg) /\ u \in linked
  BY ReceiverT, LineTail
<1>7. chan' \in [Unit -> Seq(Msg)] /\ \A w \in Unit : w # u => chan'[w] = chan[w]
  BY <1>6 DEF ReceiveItem, TInv, TypeOK
<1>8. TypeOK'
  BY <1>2, <1>5, <1>7 DEF ReceiveItem, TInv, TypeOK, unitVars, loopVars, historyVars
<1>9. ASSUME NEW w \in Unit PROVE Receiving(w)'
  <2>1. CASE w = u
    <3>1. d = Null \/ (d.pc = "sync" /\ u = "second" /\ kick)
      BY <1>3 DEF Call
    <3>2. u \in linked' /\ kick' = kick
      BY <1>6 DEF ReceiveItem, unitVars
    <3>3. QED BY <1>5, <2>1, <3>1, <3>2 DEF Receiving
  <2>2. CASE w # u
    BY <1>4, <1>5, <1>7, <2>2, StillReceiving DEF TInv, Calls, ReceiveItem, unitVars
  <2>3. QED BY <2>1, <2>2
<1>10. Calls'
  <2>1. \A w \in Unit, r \in User : call'[w][r] = call[w][r]
    BY <1>4, <1>5
  <2>2. \A w \in Unit : w \notin linked => chan'[w] = chan[w]
    BY <1>6, <1>7
  <2>3. QED
    BY <1>9, <2>1, <2>2 DEF TInv, Calls, ReceiveItem, unitVars, loopVars, Unit
<1>11. QED BY <1>8, <1>10 DEF TInv

LEMMA AskT ==
  ASSUME TInv, Ask
  PROVE  /\ TInv' /\ "second" \in linked /\ chan["master"] \in Seq(Msg) /\ InitReq \in Msg
         /\ \A r \in User : call'["second"][r] = call["second"][r]
         /\ call'["master"] = call["master"]
<1>1. /\ "sync" \in Setter /\ User \subseteq Setter /\ "sync" \notin User
      /\ "master" \in Unit /\ "second" \in Unit
  BY SyncAssumption DEF Setter, Unit
<1>2. /\ call' \in [Unit -> [Setter -> Call \cup {Null}]] /\ call'["second"]["sync"] = Null
      /\ \A r \in Setter : r # "sync" => call'["second"][r] = call["second"][r]
      /\ call'["master"] = call["master"]
  BY <1>1 DEF Ask, TInv, TypeOK
<1>3. chan["master"] \in Seq(Msg) /\ InitReq \in Msg
  BY <1>1 DEF TInv, TypeOK, Msg
<1>4. Append(chan["master"], InitReq) \in Seq(Msg)
      /\ (chan["master"] # <<>> => /\ Append(chan["master"], InitReq) # <<>>
                                   /\ Head(Append(chan["master"], InitReq)) = Head(chan["master"]))
  BY <1>3, LineAppend
<1>5. /\ chan' \in [Unit -> Seq(Msg)] /\ chan'["second"] = chan["second"]
      /\ "master" \notin linked => chan'["master"] = chan["master"]
      /\ chan["master"] # <<>> => chan'["master"] # <<>> /\ Head(chan'["master"]) = Head(chan["master"])
  BY <1>1, <1>4 DEF Ask, TInv, TypeOK
<1>6. TypeOK'
  BY <1>2, <1>5, Items DEF Ask, TInv, TypeOK, itemVars, loopVars
<1>7. "second" \in linked
  BY <1>1 DEF Ask, At, TInv, Calls, Receiving
<1>8. Receiving("second")' /\ Receiving("master")'
  <2>1. Receiving("second")'
    BY <1>2 DEF Receiving
  <2>2. Receiving("master")'
    <3>1. call'["master"]["sync"] = call["master"]["sync"]
      BY <1>2
    <3>2. call["master"]["sync"] = Null \/ call["master"]["sync"].pc # "sync"
      BY <1>1 DEF TInv, Calls, Receiving
    <3>3. QED BY <1>1, <1>5, <3>1, <3>2 DEF TInv, Calls, Receiving
  <2>3. QED BY <2>1, <2>2
<1>9. \A r \in User : call'["second"][r] = call["second"][r]
  BY <1>1, <1>2
<1>10. Calls'
  <2>1. /\ built' = built /\ linked' = linked /\ idx' = idx /\ at' = at /\ phase' = phase /\ kick' = FALSE
    BY DEF Ask, loopVars
  <2>2. \A w \in Unit : w = "second" \/ w = "master"
    BY DEF Unit
  <2>3. \A w \in Unit, r \in User : call'[w][r] = call[w][r]
    BY <1>2, <1>9, <2>2
  <2>4. \A w \in Unit : Receiving(w)'
    BY <1>8, <2>2
  <2>5. QED BY <1>5, <1>7, <2>1, <2>3, <2>4 DEF TInv, Calls
<1>11. QED BY <1>1, <1>2, <1>3, <1>6, <1>7, <1>9, <1>10 DEF TInv

LEMMA ReceiveInitT ==
  ASSUME TInv, ReceiveInit
  PROVE  TInv'
<1>1. chan["master"] \in Seq(Msg) /\ chan["master"] # <<>> /\ "master" \in linked
  BY DEF TInv, TypeOK, ReceiveInit, Calls, Unit
<1>2. Tail(chan["master"]) \in Seq(Msg)
  BY <1>1, LineTail
<1>3. chan' \in [Unit -> Seq(Msg)] /\ chan'["second"] = chan["second"]
  BY <1>2 DEF TInv, TypeOK, ReceiveInit, Unit
<1>4. apart' \subseteq Item
  BY Items DEF TInv, TypeOK, ReceiveInit
<1>5. TypeOK'
  BY <1>3, <1>4, Items DEF TInv, TypeOK, ReceiveInit, itemVars, callVars, unitVars
<1>6. /\ call' = call /\ built' = built /\ linked' = linked /\ kick' = kick /\ at' = at /\ phase' = phase
  BY DEF ReceiveInit, callVars, unitVars
<1>7. Receiving("master") /\ Receiving("second")
  BY DEF TInv, Calls, Unit
<1>8. call["master"]["sync"] = Null
  <2>1. \A j \in Item : j # Null
    BY Items
  <2>2. Head(chan["master"]).item = Null
    BY DEF ReceiveInit, InitReq
  <2>3. call["master"]["sync"] \in Call => call["master"]["sync"].item \in Item
    BY DEF Call
  <2>4. call["master"]["sync"] \in Call \cup {Null}
    BY DEF TInv, TypeOK, Unit, Setter
  <2>5. QED BY <1>7, <2>1, <2>2, <2>3, <2>4 DEF Receiving
<1>9. Receiving("master")' /\ Receiving("second")'
  BY <1>3, <1>6, <1>7, <1>8 DEF Receiving
<1>10. Calls'
  BY <1>1, <1>3, <1>6, <1>9 DEF TInv, Calls, Unit
<1>11. QED BY <1>5, <1>10 DEF TInv

LEMMA RestartT ==
  ASSUME TInv, NEW u \in Unit, Restart(u)
  PROVE  TInv'
<1>1. Reloaded(u) \in [Item -> Value]
  BY SyncAssumption DEF Reloaded, TInv, TypeOK
<1>2. /\ value' \in [Unit -> [Item -> Value]] /\ dirty' \in [Unit -> [Item -> BOOLEAN]]
      /\ linked' \subseteq Unit /\ kick' \in BOOLEAN
  BY <1>1 DEF Restart, TInv, TypeOK
<1>3. /\ built' \in [Unit -> [Task -> ItemMsg \cup {Null}]]
      /\ \A w \in Unit, r \in Task : built[w][r] = Null => built'[w][r] = Null
  BY DEF Restart, TInv, TypeOK
<1>4. /\ chan' \in [Unit -> Seq(Msg)] /\ chan'[u] = <<>>
      /\ \A w \in Unit : w # u => chan'[w] = chan[w]
  BY EmptySeq DEF Restart, TInv, TypeOK
<1>5. apart' \subseteq Item /\ idx' \in 0..N /\ phase' \in {"measure", "sync", "entry"}
  BY Items DEF Restart, TInv, TypeOK, loopVars
<1>6. /\ call' \in [Unit -> [Setter -> Call \cup {Null}]]
      /\ \A r \in Setter : call'[u][r] = Null
      /\ \A w \in Unit : w # u => call'[w] = call[w]
  BY DEF Restart, TInv, TypeOK
<1>7. clearing' \in [Unit -> [Task -> Stored \cup {Null}]]
  BY DEF Restart, TInv, TypeOK
<1>8. TypeOK'
  BY <1>2, <1>3, <1>4, <1>5, <1>6, <1>7 DEF Restart, TInv, TypeOK, loopVars
<1>9. User \subseteq Setter /\ "sync" \in Setter /\ User \subseteq Task /\ "loop" \in Task
  BY DEF Setter, Task
<1>10. ASSUME NEW w \in Unit PROVE Receiving(w)'
  <2>1. CASE w = u
    BY <1>6, <1>9, <2>1 DEF Receiving
  <2>2. CASE w # u
    <3>1. w \in linked => w \in linked'
      BY <2>2 DEF Restart
    <3>2. kick => kick'
      BY DEF Restart
    <3>3. QED BY <1>4, <1>6, <2>2, <3>1, <3>2, StillReceiving DEF TInv, Calls
  <2>3. QED BY <2>1, <2>2
<1>11. \A w \in Unit, r \in User : call'[w][r] # Null => built'[w][r] = Null
  BY <1>3, <1>6, <1>9 DEF TInv, Calls
<1>12. /\ built'["second"]["loop"] = Null
       /\ built["master"]["loop"] = Null => built'["master"]["loop"] = Null
  BY <1>3, <1>9 DEF TInv, Calls, Unit
<1>13. Calls'
  BY <1>4, <1>10, <1>11, <1>12 DEF Restart, TInv, Calls, loopVars, Unit
<1>14. QED BY <1>8, <1>13 DEF TInv

LEMMA LinkT ==
  ASSUME TInv, NEW u \in Unit, Link(u)
  PROVE  TInv'
<1>1. /\ linked' = linked \cup {u} /\ call' = call /\ chan' = chan /\ built' = built
      /\ kick => kick'
  BY DEF Link, LinkedKick, callVars, wireVars
<1>2. ASSUME NEW w \in Unit PROVE Receiving(w)'
  <2>1. Receiving(w) /\ (w \in linked => w \in linked') /\ call'[w]["sync"] = call[w]["sync"]
    BY <1>1 DEF TInv, Calls
  <2>2. chan[w] # <<>> => chan'[w] # <<>> /\ Head(chan'[w]) = Head(chan[w])
    BY <1>1
  <2>3. QED BY <1>1, <2>1, <2>2, StillReceiving
<1>3. TypeOK'
  BY DEF Link, LinkedKick, TInv, TypeOK, itemVars, callVars, wireVars, loopVars, historyVars
<1>4. Calls'
  <2>1. idx' = idx /\ at' = at /\ phase' = phase
    BY DEF Link, loopVars
  <2>2. QED BY <1>1, <1>2, <2>1 DEF TInv, Calls
<1>5. QED BY <1>3, <1>4 DEF TInv

LEMMA StepT == TInv /\ [Next]_vars => TInv'
<1> SUFFICES ASSUME TInv, [Next]_vars PROVE TInv'
  OBVIOUS
<1>1. CASE UNCHANGED vars
  BY <1>1 DEF TInv, TypeOK, Calls, Receiving, vars, itemVars, callVars, unitVars, wireVars,
     loopVars, historyVars
<1>2. ASSUME NEW u \in Unit, Receive(u) PROVE TInv'
  BY <1>2, TakeT, ValidT, ReceiveItemT, AskT, ReceiveInitT DEF Receive, Setter
<1>3. ASSUME NEW u \in Unit, NEW t \in User, Proceed(u, t) PROVE TInv'
  BY <1>3, ValidT, ChangeT, SendIfDirtyT, QueueT, ClearT DEF Proceed, Setter, Task
<1>4. CASE TakeIndex
  <2>1. TypeOK'
    BY <1>4, Items DEF TakeIndex, Idle, TInv, TypeOK, itemVars, callVars, unitVars, wireVars, historyVars
  <2>2. Calls'
    BY <1>4, Items DEF TakeIndex, Idle, TInv, TypeOK, Calls, Receiving, callVars, unitVars, wireVars
  <2>3. QED BY <2>1, <2>2 DEF TInv
<1>5. CASE CalmDown
  BY <1>5 DEF CalmDown, TInv, TypeOK, Calls, Receiving, itemVars, callVars, unitVars, wireVars, loopVars
<1>6. "loop" \in Task /\ "master" \in Unit /\ "second" \in Unit
  BY DEF Task, Unit
<1>7. CASE LoopStep
  BY <1>4, <1>6, <1>7, MeasureT, SyncEntryT, QueueT, ClearT DEF LoopStep
<1>8. QED
  BY <1>1, <1>2, <1>3, <1>5, <1>6, <1>7, LinkT, RestartT, CommitT, SetT, ClearT DEF Next

\* The variables keep their types (the item, line and task state of SetupNG,
\* SetupCommon and XCVSyncMsg).
THEOREM TypeCorrect == Spec => []TypeOK
<1>1. TInv => TypeOK
  BY DEF TInv
<1>2. QED BY InitT, StepT, <1>1, PTL DEF Spec

-----------------------------------------------------------------------------
(***************************************************************************)
(* The units agree.  A step either does not touch the telegrams about an   *)
(* item and its values, or it is one of the cases below.                   *)
(***************************************************************************)

\* The telegrams about i, and the value of u, are as before.
Untouched(u, i) ==
  /\ \A t \in Task : (Tells(u, t, i)' <=> Tells(u, t, i))
                     /\ (Tells(u, t, i) => built'[u][t] = built[u][t])
  /\ value'[u][i] = value[u][i]

LEMMA Frame ==
  ASSUME chan' = chan, NEW i \in Item, \A u \in Unit : Untouched(u, i)
  PROVE  /\ \A u \in Unit : Silent(u, i) => Silent(u, i)'
         /\ \A u \in Unit : Follows(u, i) => Follows(u, i)'
         /\ Same(i) => Same(i)'
<1>1. ASSUME NEW u \in Unit, Silent(u, i) PROVE Silent(u, i)'
  BY <1>1, Peers DEF Silent, Untouched
<1>2. ASSUME NEW u \in Unit, LastBuilt(u, i) PROVE LastBuilt(u, i)'
  BY <1>2 DEF LastBuilt, Untouched
<1>3. ASSUME NEW u \in Unit, LastSent(u, i) PROVE LastSent(u, i)'
  BY <1>3 DEF LastSent, Untouched
<1>4. Same(i) => Same(i)'
  BY <1>1 DEF Same, Agree, Untouched, Unit
<1>5. QED BY <1>1, <1>2, <1>3, <1>4 DEF Follows

LEMMA KnownFrame ==
  ASSUME chan' = chan, NEW i \in Item, \A u \in Unit : Untouched(u, i),
         \A u \in Unit : Owes(u, i) => Unsent(u, i)',
         linked \subseteq linked', kick => kick', Known(i), ~Pending(i)
  PROVE  Known(i)'
<1>1. \A u \in Unit : Owes(u, i) => Owes(u, i)'
  BY Frame DEF Owes
<1>2. QED BY <1>1, Frame DEF Known, Unit

\* Steps that touch neither telegrams nor the values of the item.
LEMMA QuietK ==
  ASSUME IInv, chan' = chan, built' = built, linked \subseteq linked', kick => kick',
         From' = From, NEW i \in Both, i \notin apart,
         \A u \in Unit : value'[u][i] = value[u][i],
         \A u \in Unit : Owes(u, i) => Unsent(u, i)'
  PROVE  Known(i)'
<1>1. \A u \in Unit : Untouched(u, i)
  BY DEF Untouched, Tells
<1>2. Pending(i) => Pending(i)'
  BY DEF Pending
<1>3. i \in Item /\ Known(i)
  BY Items DEF IInv
<1>4. QED BY <1>1, <1>2, <1>3, KnownFrame DEF Known

\* The calls that are about to send i stay where they are.
LEMMA UnsentStays ==
  ASSUME NEW u \in Unit, NEW i \in Item, Unsent(u, i), u \in linked', dirty'[u][i],
         \A t \in User : At(u, t, "sync") /\ call[u][t].item = i => call'[u][t] = call[u][t]
  PROVE  Unsent(u, i)'
<1>1. PICK t \in User : At(u, t, "sync") /\ call[u][t].item = i /\ call[u][t].changed
  BY DEF Unsent
<1>2. call'[u][t] = call[u][t]
  BY <1>1
<1>3. QED BY <1>1, <1>2 DEF Unsent, At

\* A telegram that is built where none is on its way is the last one.
LEMMA BuildFollows ==
  ASSUME TypeOK, NEW u \in linked, NEW t \in Task, NEW i \in Both, NEW v \in Value,
         built[u][t] = Null, Build(u, t, i, v), i \notin apart',
         chan' = chan, value'[u][i] = v
  PROVE  Follows(u, i)'
<1> USE Peers, Items
<1>1. u \in Unit /\ i \in Item /\ i \in Shared(u)
  BY DEF TypeOK, Shared
<1>2. /\ built' = [built EXCEPT ![u][t] = [item |-> i, value |-> v]]
      /\ ~Conflict(u, t, i)
  BY <1>1 DEF Build
<1>3. Silent(u, i)
  BY <1>1, <1>2, ComingIsNotSilent DEF Conflict
<1>4. \A r \in Task : r # t => ~Tells(u, r, i)
  BY <1>2 DEF Conflict, Tells
<1>5. Silent(u, i)'
  BY <1>1, <1>2, <1>3 DEF Silent, Tells, TypeOK
<1>6. [item |-> i, value |-> v] # Null
  BY <1>1 DEF ItemMsg
<1>7. LastBuilt(u, i)'
  BY <1>1, <1>2, <1>4, <1>6 DEF LastBuilt, Tells, TypeOK
<1>8. QED BY <1>5, <1>7 DEF Follows

\* A telegram about another item changes nothing for i.
LEMMA BuildUntouched ==
  ASSUME TypeOK, NEW u \in Unit, NEW t \in Task, NEW j \in Item, NEW v \in Value,
         built[u][t] = Null, Build(u, t, j, v), NEW i \in Item, i # j
  PROVE  \A w \in Unit, r \in Task :
           (Tells(w, r, i)' <=> Tells(w, r, i)) /\ (Tells(w, r, i) => built'[w][r] = built[w][r])
<1> TAKE w \in Unit, r \in Task
<1>1. CASE built'[w][r] = built[w][r]
  BY <1>1 DEF Tells
<1>2. CASE built'[w][r] # built[w][r]
  <2>1. w = u /\ r = t /\ built'[w][r] = [item |-> j, value |-> v]
    BY <1>2, BuildType
  <2>2. built'[w][r].item = j
    BY <2>1
  <2>3. QED BY <2>1, <2>2 DEF Tells
<1>3. QED BY <1>1, <1>2

LEMMA LoadK ==
  ASSUME IInv, NEW u \in Unit, NEW t \in Setter, NEW j \in Item, NEW v \in Value, Load(u, t, j, v),
         NEW i \in Both, i \notin apart'
  PROVE  Known(i)'
<1>1. /\ value' = value /\ dirty' = dirty /\ chan' = chan /\ built' = built /\ linked' = linked
      /\ kick' = kick /\ From' = From /\ apart' = apart
  BY DEF Load, itemVars, unitVars, wireVars, loopVars, historyVars, From
<1>2. \A w \in Unit, r \in User : call[w][r] # Null => call'[w][r] = call[w][r]
  BY DEF Load, IInv, TypeOK, Setter
<1>3. ASSUME NEW w \in Unit, Unsent(w, i) PROVE Unsent(w, i)'
  BY <1>1, <1>2, <1>3, UnsentStays, Items DEF Unsent, At
<1>4. QED BY <1>1, <1>3, QuietK DEF Owes

LEMMA TakeK ==
  ASSUME IInv, NEW u \in Unit, Take(u), NEW i \in Both, i \notin apart'
  PROVE  Known(i)'
<1>1. Head(chan[u]) \in ItemMsg
  BY LineTail DEF Take, IInv, TypeOK, Msg
<1>2. Head(chan[u]).item \in Item /\ Head(chan[u]).value \in Value
  BY <1>1 DEF ItemMsg
<1>3. QED BY <1>2, LoadK DEF Take, Setter

\* The receiver stores the flags word of an item that is on its way; what its
\* unit owes the other one then is not what keeps the item known.
LEMMA ValidK ==
  ASSUME IInv, NEW u \in Unit, NEW t \in Setter, Valid(u, t), NEW i \in Both, i \notin apart'
  PROVE  Known(i)'
<1>1. PICK c \in Call : c = call[u][t] /\ c.pc = "valid" /\ c.item \in Item /\ c.word \in BOOLEAN
  <2>1. call[u][t] \in Call /\ call[u][t].pc = "valid"
    BY DEF IInv, TypeOK, Valid, At
  <2>2. call[u][t].item \in Item /\ call[u][t].word \in BOOLEAN
    BY <2>1 DEF Call
  <2>3. QED BY <2>1, <2>2
<1>2. /\ value' = value /\ chan' = chan /\ built' = built /\ linked' = linked /\ kick' = kick
      /\ From' = From /\ dirty' = [dirty EXCEPT ![u][c.item] = c.word]
      /\ apart' = IF c.word \/ t = "sync" THEN apart ELSE Unflag(u, c.item)
      /\ call' = [call EXCEPT ![u][t].pc = "value"]
  BY <1>1 DEF Valid, unitVars, wireVars, loopVars, From
<1>3. i \in Item /\ i \notin apart
  BY <1>2, Items DEF Unflag
<1>4. \A w \in Unit, r \in User : w # u \/ r # t => call'[w][r] = call[w][r]
  BY <1>2 DEF IInv, TypeOK, Setter
<1>5. \A w \in Unit : w # u \/ c.item # i \/ c.word => (dirty[w][i] => dirty'[w][i])
  BY <1>1, <1>2, <1>3 DEF IInv, TypeOK
<1>6. ASSUME NEW w \in Unit, Owes(w, i) PROVE Unsent(w, i)'
  <2>1. ASSUME w = u, c.item = i, ~c.word PROVE FALSE
    <3>1. CASE t = "sync"
      <4>1. c # Null /\ c.pc # "sync"
        BY <1>1, Items
      <4>2. chan[u] # <<>> /\ Head(chan[u]).item = i
        BY <1>1, <2>1, <3>1, <4>1 DEF IInv, Calls, Receiving
      <4>3. chan[u] \in Seq(Msg) /\ NoneOn(chan[u], i)
        BY <1>6, <2>1 DEF IInv, TypeOK, Owes, Silent
      <4>4. QED BY <4>2, <4>3, LineTail
    <3>2. CASE t # "sync"
      BY <1>2, <1>6, <2>1, <3>2 DEF Unflag, Owes
    <3>3. QED BY <3>1, <3>2
  <2>2. dirty'[w][i] /\ w \in linked'
    BY <1>2, <1>5, <1>6, <2>1 DEF Owes, Unsent
  <2>3. \A r \in User : At(w, r, "sync") => call'[w][r] = call[w][r]
    BY <1>1, <1>4 DEF At
  <2>4. QED BY <1>3, <1>6, <2>2, <2>3, UnsentStays DEF Owes
<1>7. QED BY <1>2, <1>3, <1>6, QuietK

LEMMA CommitK ==
  ASSUME IInv, NEW u \in Unit, NEW t \in Task, NEW j \in Item, Commit(u, t, j),
         NEW i \in Both, i \notin apart'
  PROVE  Known(i)'
<1>1. /\ value' = value /\ dirty' = dirty /\ chan' = chan /\ built' = built /\ linked' = linked
      /\ kick' = kick /\ From' = From /\ apart' = apart /\ call' = call
  BY DEF Commit, itemVars, wireVars, loopVars, historyVars, From
<1>2. \A w \in Unit : Unsent(w, i) => Unsent(w, i)'
  BY <1>1 DEF Unsent, At
<1>3. QED BY <1>1, <1>2, QuietK DEF Owes

LEMMA ClearK ==
  ASSUME IInv, NEW u \in Unit, NEW t \in Task, Clear(u, t), NEW i \in Both, i \notin apart'
  PROVE  Known(i)'
<1>1. /\ value' = value /\ chan' = chan /\ built' = built /\ linked' = linked /\ kick' = kick
      /\ From' = From /\ call' = call /\ apart' = Unflag(u, clearing[u][t])
      /\ dirty' = [dirty EXCEPT ![u][clearing[u][t]] = FALSE]
  BY DEF Clear, unitVars, wireVars, loopVars, From
<1>2. i \in Item /\ i \notin apart /\ clearing[u][t] \in Item
  BY <1>1, Items DEF Unflag, Clear, IInv, TypeOK
<1>3. ASSUME NEW w \in Unit, Unsent(w, i) PROVE Unsent(w, i)'
  <2>1. w # u \/ clearing[u][t] # i
    BY <1>1, <1>3 DEF Unflag
  <2>2. dirty'[w][i] = dirty[w][i]
    BY <1>1, <1>2, <2>1 DEF IInv, TypeOK
  <2>3. QED BY <1>1, <1>3, <2>2 DEF Unsent, At
<1>4. QED BY <1>1, <1>2, <1>3, QuietK DEF Owes

LEMMA ChangeK ==
  ASSUME IInv, NEW u \in Unit, NEW t \in User, Change(u, t), NEW i \in Both, i \notin apart'
  PROVE  Known(i)'
<1> DEFINE p == Peer(u)
<1> USE Peers
<1>1. PICK c \in Call : c = call[u][t] /\ c # Null /\ c.pc = "value" /\ c.item \in Item /\ c.new \in Value
  <2>1. call[u][t] \in Call /\ call[u][t] # Null /\ call[u][t].pc = "value"
    BY DEF IInv, TypeOK, Change, At, Setter
  <2>2. call[u][t].item \in Item /\ call[u][t].new \in Value
    BY <2>1 DEF Call
  <2>3. QED BY <2>1, <2>2
<1>2. PICK d \in Call : /\ d.pc = "sync" /\ d.item = c.item /\ d.changed = (value[u][c.item] # c.new)
                        /\ call' = [call EXCEPT ![u][t] = d]
  <2>1. [c EXCEPT !.pc = "sync", !.changed = value[u][c.item] # c.new] \in Call
    BY DEF Call
  <2>2. call' = [call EXCEPT ![u][t] = [c EXCEPT !.pc = "sync", !.changed = value[u][c.item] # c.new]]
    BY <1>1 DEF Change
  <2>3. QED BY <2>1, <2>2 DEF Call
<1>3. /\ chan' = chan /\ built' = built /\ linked' = linked /\ kick' = kick
      /\ From' = From /\ apart' = apart /\ Assign(u, c.item, c.new)
  BY <1>1 DEF Change, unitVars, wireVars, loopVars, historyVars, From
<1>4. i \in Item /\ TypeOK /\ i \notin apart /\ Known(i)
  BY <1>3, Items DEF IInv
<1>5. \A w \in Unit :
        IF w = u /\ i = c.item THEN /\ value'[w][i] = c.new
                                    /\ dirty'[w][i] = (dirty[w][i] \/ value[w][i] # c.new)
        ELSE value'[w][i] = value[w][i] /\ dirty'[w][i] = dirty[w][i]
  BY <1>1, <1>3, <1>4, AssignType
<1>6. /\ call'[u][t] = d
      /\ \A w \in Unit, r \in User : w # u \/ r # t => call'[w][r] = call[w][r]
  BY <1>2, <1>4 DEF TypeOK, Setter
<1>7. ASSUME NEW w \in Unit, Unsent(w, i) PROVE Unsent(w, i)'
  <2>1. \A r \in User : At(w, r, "sync") => call'[w][r] = call[w][r]
    BY <1>1, <1>6 DEF At
  <2>2. dirty'[w][i] /\ w \in linked'
    BY <1>3, <1>5, <1>7 DEF Unsent
  <2>3. QED BY <1>4, <1>7, <2>1, <2>2, UnsentStays
<1>8. CASE i # c.item \/ value[u][i] = c.new
  <2>1. \A w \in Unit : value'[w][i] = value[w][i]
    BY <1>5, <1>8
  <2>2. QED BY <1>3, <1>4, <1>7, <2>1, QuietK DEF Owes
<1>9. CASE i = c.item /\ value[u][i] # c.new
  <2>1. Pending(i) => Pending(i)'
    BY <1>3 DEF Pending
  <2>2. \A w \in Unit : Silent(w, i) => Silent(w, i)'
    BY <1>3 DEF Silent, Tells
  <2>3. value'[p][i] = value[p][i]
    BY <1>5
  <2>4. Follows(p, i) => Follows(p, i)'
    BY <1>3, <2>2, <2>3 DEF Follows, LastBuilt, LastSent, Tells
  <2>5. \A w \in Unit : Owes(w, i) => Owes(w, i)'
    BY <1>7, <2>2 DEF Owes
  <2>6. CASE u \in linked
    <3>1. Unsent(u, i)'
      <4>1. dirty'[u][i]
        BY <1>5, <1>9
      <4>2. d # Null /\ d.item = i /\ d.changed
        BY <1>2, <1>9, Items
      <4>3. QED BY <1>2, <1>3, <1>6, <2>6, <4>1, <4>2 DEF Unsent, At
    <3>2. CASE Silent(u, i)
      BY <2>2, <3>1, <3>2 DEF Owes, Known
    <3>3. CASE ~Silent(u, i)
      <4>1. ~Follows(u, i) /\ ~Same(i)
        BY <3>3 DEF Follows, Same, Unit
      <4>2. QED BY <1>3, <1>4, <2>1, <2>4, <2>5, <4>1 DEF Known, Unit, Peer
    <3>4. QED BY <3>2, <3>3
  <2>7. CASE u \notin linked
    <3>1. CASE u = "second"
      <4>1. kick
        BY <2>7, <3>1 DEF IInv, Calls
      <4>2. QED BY <1>3, <4>1 DEF Known, Pending
    <3>2. CASE u = "master"
      BY <1>4, <2>1, <2>4, <2>5, <2>7, <3>2 DEF Known, Peer
    <3>3. QED BY <3>1, <3>2 DEF Unit
  <2>8. QED BY <2>6, <2>7
<1>10. QED BY <1>8, <1>9

LEMMA SendIfDirtyK ==
  ASSUME IInv, NEW u \in Unit, NEW t \in User, SendIfDirty(u, t), NEW i \in Both, i \notin apart'
  PROVE  Known(i)'
<1>1. PICK j \in Item : /\ j = call[u][t].item
                        /\ IF dirty[u][j] THEN Build(u, t, j, value[u][j]) ELSE UNCHANGED <<built, apart>>
  <2>1. call[u][t] \in Call
    BY DEF SendIfDirty, At, IInv, TypeOK, Setter
  <2>2. call[u][t].item \in Item
    BY <2>1 DEF Call
  <2>3. QED BY <2>2 DEF SendIfDirty
<1>2. /\ chan' = chan /\ linked' = linked /\ kick' = kick /\ From' = From /\ value' = value
      /\ dirty' = dirty /\ call' = [call EXCEPT ![u][t] = Null]
  BY DEF SendIfDirty, itemVars, unitVars, loopVars, From
<1>3. i \in Item /\ TypeOK /\ t \in Task /\ t \in Setter /\ built[u][t] = Null
  BY Items DEF IInv, Calls, Task, Setter, SendIfDirty, At
<1>4. PICK v \in Value : v = value[u][j]
  BY <1>3 DEF TypeOK
<1>5. \A w \in Unit, r \in User : w # u \/ r # t => call'[w][r] = call[w][r]
  BY <1>2, <1>3 DEF TypeOK, Setter
<1>6. ASSUME NEW w \in Unit, Unsent(w, i), w # u \/ i # j PROVE Unsent(w, i)'
  <2>1. \A r \in User : At(w, r, "sync") /\ call[w][r].item = i => call'[w][r] = call[w][r]
    BY <1>1, <1>5, <1>6
  <2>2. dirty'[w][i] /\ w \in linked'
    BY <1>2, <1>6 DEF Unsent
  <2>3. QED BY <1>3, <1>6, <2>1, <2>2, UnsentStays
<1>7. CASE i = j /\ dirty[u][j] /\ u \in linked
  <2>1. Build(u, t, i, v) /\ value'[u][i] = v
    BY <1>1, <1>2, <1>4, <1>7
  <2>2. Follows(u, i)'
    BY <1>2, <1>3, <1>7, <2>1, BuildFollows
  <2>3. QED BY <1>2, <1>7, <2>2 DEF Known, Unit
<1>8. CASE i # j /\ dirty[u][j]
  <2>1. Build(u, t, j, v)
    BY <1>1, <1>4, <1>8
  <2>2. \A w \in Unit : Untouched(w, i)
    BY <1>2, <1>3, <1>8, <2>1, BuildUntouched DEF Untouched
  <2>3. i \notin apart
    BY <1>3, <1>8, <2>1, BuildType
  <2>4. Pending(i) => Pending(i)'
    BY <1>2 DEF Pending
  <2>5. Known(i)
    BY <2>3 DEF IInv
  <2>6. CASE Pending(i)
    BY <2>4, <2>6 DEF Known
  <2>7. CASE ~Pending(i)
    BY <1>2, <1>3, <1>6, <1>8, <2>2, <2>5, <2>7, KnownFrame DEF Owes
  <2>8. QED BY <2>6, <2>7
<1>9. CASE ~dirty[u][j] \/ (i = j /\ u \notin linked)
  <2>1. built' = built /\ apart' = apart
    BY <1>1, <1>9 DEF Build
  <2>2. ASSUME NEW w \in Unit, Unsent(w, i) PROVE w # u \/ i # j
    BY <1>9, <2>2 DEF Unsent
  <2>3. QED BY <1>2, <1>6, <2>1, <2>2, QuietK DEF Owes
<1>10. QED BY <1>7, <1>8, <1>9

LEMMA MeasureK ==
  ASSUME IInv, NEW j \in Measured, NEW v \in Reading, Measure(j, v),
         NEW i \in Both, i \notin apart'
  PROVE  Known(i)'
<1>1. /\ i \in Item /\ TypeOK /\ "loop" \in Task /\ "master" \in Unit /\ j \in Item /\ i # j
      /\ v \in Value
  BY Items DEF IInv, Task, Unit
<1>2. /\ chan' = chan /\ linked' = linked /\ kick' = kick /\ From' = From /\ call' = call
      /\ built["master"]["loop"] = Null /\ Assign("master", j, v)
      /\ \/ Build("master", "loop", j, v)
         \/ UNCHANGED <<built, apart>>
  BY DEF Measure, Idle, callVars, unitVars, From
<1>3. \A w \in Unit : value'[w][i] = value[w][i] /\ dirty'[w][i] = dirty[w][i]
  BY <1>1, <1>2, AssignType
<1>4. \A w \in Unit : Unsent(w, i) => Unsent(w, i)'
  BY <1>2, <1>3 DEF Unsent, At
<1>5. CASE Build("master", "loop", j, v)
  <2>1. \A w \in Unit : Untouched(w, i)
    BY <1>1, <1>2, <1>3, <1>5, BuildUntouched DEF Untouched
  <2>2. i \notin apart
    BY <1>1, <1>5, BuildType
  <2>3. Pending(i) => Pending(i)'
    BY <1>2 DEF Pending
  <2>4. QED BY <1>1, <1>2, <1>4, <2>1, <2>2, <2>3, KnownFrame DEF IInv, Known, Owes
<1>6. CASE UNCHANGED <<built, apart>>
  BY <1>2, <1>3, <1>4, <1>6, QuietK DEF Owes
<1>7. QED BY <1>2, <1>5, <1>6

LEMMA SyncEntryK ==
  ASSUME IInv, SyncEntry, NEW i \in Both, i \notin apart'
  PROVE  Known(i)'
<1> DEFINE j == Order[at + 1]
<1>1. i \in Item /\ TInv /\ TypeOK /\ "loop" \in Task /\ "master" \in Unit
  BY Items DEF IInv, TInv, Task, Unit
<1>2. "master" \in linked /\ at \in 0..N - 1 /\ at # Null
  BY <1>1, SyncEntryT, Items
<1>3. at + 1 \in 1..N /\ j \in Item /\ value["master"][j] \in Value
  BY <1>1, <1>2, Items DEF TypeOK
<1>4. /\ chan' = chan /\ linked' = linked /\ kick' = kick
      /\ value' = value /\ dirty' = dirty /\ call' = call
      /\ idx' = at + 1 /\ at' = Null
      /\ built["master"]["loop"] = Null /\ Build("master", "loop", j, value["master"][j])
  BY DEF SyncEntry, itemVars, callVars, unitVars, IInv, Calls
<1>5. CASE i = j
  <2>1. Follows("master", i)'
    BY <1>1, <1>2, <1>3, <1>4, <1>5, BuildFollows
  <2>2. QED BY <1>2, <1>4, <2>1 DEF Known
<1>6. CASE i # j
  <2>1. Pending(i) => Pending(i)'
    <3>1. From = at /\ From' = at + 1
      BY <1>2, <1>4 DEF From
    <3>2. \A k \in 1..N : k > at /\ Order[k] = i => k > at + 1
      BY <1>2, <1>6, Items
    <3>3. QED BY <1>4, <3>1, <3>2 DEF Pending
  <2>2. \A w \in Unit : Untouched(w, i)
    BY <1>1, <1>3, <1>4, <1>6, BuildUntouched DEF Untouched
  <2>3. i \notin apart
    BY <1>1, <1>3, <1>4, <1>6, BuildType
  <2>4. \A w \in Unit : Unsent(w, i) => Unsent(w, i)'
    BY <1>4 DEF Unsent, At
  <2>5. QED BY <1>1, <1>4, <2>1, <2>2, <2>3, <2>4, KnownFrame DEF IInv, Known, Owes
<1>7. QED BY <1>5, <1>6

LEMMA QueueK ==
  ASSUME IInv, NEW u \in Unit, NEW t \in Task, Queue(u, t),
         NEW i \in Both, i \notin apart'
  PROVE  Known(i)'
<1> DEFINE m == built[u][t]
           p == Peer(u)
<1> USE Peers
<1>1. /\ i \in Item /\ TInv /\ TypeOK /\ i \notin apart
      /\ m \in ItemMsg /\ m \in Msg /\ m # Null
  BY Items DEF IInv, TInv, TypeOK, Queue, Msg
<1>2. /\ built' = [built EXCEPT ![u][t] = Null] /\ linked' = linked /\ kick' = kick
      /\ idx' = idx /\ at' = at /\ value' = value
  BY DEF Queue, itemVars, unitVars, loopVars
<1>3. /\ built'[u][t] = Null
      /\ \A w \in Unit, r \in Task : w # u \/ r # t => built'[w][r] = built[w][r]
  BY <1>1, <1>2 DEF TypeOK
<1>4. \A w \in Unit : Unsent(w, i) => Unsent(w, i)'
  BY DEF Queue, itemVars, callVars, unitVars, Unsent, At
<1>5. CASE p \notin linked
  <2>1. CASE kick
    BY <1>2, <2>1 DEF Known, Pending
  <2>2. CASE ~kick
    <3>1. u = "second" /\ m.item # i /\ chan' = chan
      BY <1>5, <2>2 DEF IInv, Calls, Queue, Peer, Unit
    <3>2. \A w \in Unit : Untouched(w, i)
      BY <1>2, <1>3, <3>1 DEF Untouched, Tells
    <3>3. Pending(i) => Pending(i)'
      BY <1>2, <3>1 DEF Pending, From
    <3>4. QED BY <1>1, <1>2, <1>4, <3>1, <3>2, <3>3, KnownFrame DEF IInv, Known, Owes
  <2>3. QED BY <2>1, <2>2
<1>6. CASE p \in linked
  <2>1. /\ chan'[p] = Append(chan[p], m) /\ chan[p] \in Seq(Msg)
        /\ \A w \in Unit : w # p => chan'[w] = chan[w]
    BY <1>1, <1>6 DEF Queue, TypeOK
  <2>2. Pending(i) => Pending(i)'
    <3>1. ASSUME NEW k \in 1..Len(chan["master"]), chan["master"][k] = InitReq
          PROVE  \E l \in 1..Len(chan'["master"]) : chan'["master"][l] = InitReq
      BY <1>1, <2>1, <3>1, LineAppend DEF Unit
    <3>2. QED BY <1>2, <3>1 DEF Pending, From
  <2>3. ASSUME NEW w \in Unit, Silent(w, i), w = u \/ m.item # i PROVE Silent(w, i)'
    <3>1. NoneOn(chan'[w], i)
      <4>1. CASE w = p
        <5>1. NoneOn(chan[p], i) /\ m.item # i
          BY <2>3, <4>1 DEF Silent
        <5>2. NoneOn(Append(chan[p], m), i)
          BY <1>1, <2>1, <5>1, LineAppend
        <5>3. QED BY <2>1, <4>1, <5>2
      <4>2. CASE w # p
        BY <2>1, <2>3, <4>2 DEF Silent
      <4>3. QED BY <4>1, <4>2
    <3>2. \A r \in Task : ~Tells(Peer(w), r, i)'
      BY <1>3, <2>3 DEF Silent, Tells
    <3>3. QED BY <3>1, <3>2 DEF Silent
  <2>4. Silent(p, i) => m.item # i
    BY <1>1 DEF Silent, Tells
  <2>5. ASSUME Follows(u, i) PROVE Follows(u, i)'
    <3>1. CASE m.item = i
      <4>1. Tells(u, t, i) /\ m.value = value[u][i] /\ \A r \in Task : Tells(u, r, i) => r = t
        BY <1>1, <2>5, <3>1 DEF Follows, LastBuilt, LastSent, Tells
      <4>2. Ends(chan'[p], i, value[u][i])
        BY <1>1, <2>1, <3>1, <4>1, LineAppend
      <4>3. \A r \in Task : ~Tells(u, r, i)'
        BY <1>3, <4>1 DEF Tells
      <4>4. QED BY <1>2, <2>3, <2>5, <4>2, <4>3 DEF Follows, LastSent
    <3>2. CASE m.item # i
      <4>1. ASSUME LastBuilt(u, i) PROVE LastBuilt(u, i)'
        <5>1. PICK s \in Task : /\ Tells(u, s, i) /\ built[u][s].value = value[u][i]
                                /\ \A r \in Task : Tells(u, r, i) => r = s
          BY <4>1 DEF LastBuilt
        <5>2. built'[u][s] = built[u][s] /\ \A r \in Task : Tells(u, r, i)' => Tells(u, r, i)
          BY <1>3, <3>2, <5>1 DEF Tells
        <5>3. QED BY <1>2, <5>1, <5>2 DEF LastBuilt, Tells
      <4>2. LastSent(u, i) => LastSent(u, i)'
        <5>1. Ends(chan[p], i, value[u][i]) => Ends(chan'[p], i, value[u][i])
          BY <1>1, <2>1, <3>2, LineAppend
        <5>2. QED BY <1>2, <1>3, <5>1 DEF LastSent, Tells
      <4>3. QED BY <2>3, <2>5, <4>1, <4>2 DEF Follows
    <3>3. QED BY <3>1, <3>2
  <2>6. ASSUME Follows(p, i) PROVE Follows(p, i)'
    <3>1. m.item # i /\ Silent(p, i)'
      BY <2>3, <2>4, <2>6 DEF Follows
    <3>2. chan'[u] = chan[u] /\ \A r \in Task : built'[p][r] = built[p][r]
      BY <1>3, <2>1
    <3>3. LastBuilt(p, i) => LastBuilt(p, i)'
      BY <1>2, <3>2 DEF LastBuilt, Tells
    <3>4. LastSent(p, i) => LastSent(p, i)'
      BY <1>2, <3>2 DEF LastSent, Tells
    <3>5. QED BY <2>6, <3>1, <3>3, <3>4 DEF Follows
  <2>7. Same(i) => Same(i)'
    <3>1. Same(i) => Silent(p, i) /\ Silent(u, i)
      BY DEF Same, Unit
    <3>2. QED BY <1>2, <2>3, <2>4, <3>1 DEF Same, Agree, Unit
  <2>8. \A w \in Unit : Follows(w, i) => Follows(w, i)'
    BY <2>5, <2>6
  <2>9. \A w \in Unit : Owes(w, i) => Owes(w, i)'
    BY <1>4, <2>3, <2>4 DEF Owes
  <2>10. QED BY <1>1, <1>2, <2>2, <2>7, <2>8, <2>9 DEF IInv, Known, Unit
<1>7. QED BY <1>5, <1>6

LEMMA ReceiveItemK ==
  ASSUME IInv, NEW u \in Unit, ReceiveItem(u), NEW i \in Both, i \notin apart'
  PROVE  Known(i)'
<1> DEFINE m == Head(chan[u])
           p == Peer(u)
<1> USE Peers
<1>1. /\ i \in Item /\ TypeOK /\ u \in linked /\ chan[u] \in Seq(Msg) /\ chan[u] # <<>>
      /\ m.item = call[u]["sync"].item /\ m.item \in Item
      /\ m.value = call[u]["sync"].new /\ m.value \in Value
  BY Items, ReceiverT DEF IInv, TInv
<1>2. /\ built' = built /\ linked' = linked /\ From' = From /\ kick' = kick /\ apart' = apart
      /\ Assign(u, m.item, m.value) /\ chan'[u] = Tail(chan[u])
      /\ \A w \in Unit : w # u => chan'[w] = chan[w]
  BY <1>1 DEF ReceiveItem, unitVars, loopVars, historyVars, From, TypeOK
<1>3. Pending(i) => Pending(i)'
  <2>1. ASSUME NEW k \in 1..Len(chan["master"]), chan["master"][k] = InitReq
        PROVE  \E l \in 1..Len(chan'["master"]) : chan'["master"][l] = InitReq
    <3>1. CASE u = "master"
      <4>1. m # InitReq
        BY ReceiverT DEF IInv, TInv
      <4>2. \E l \in 1..Len(Tail(chan[u])) : Tail(chan[u])[l] = chan[u][k]
        BY <1>1, <2>1, <3>1, <4>1, LineTail
      <4>3. QED BY <1>2, <2>1, <3>1, <4>2
    <3>2. CASE u # "master"
      BY <1>2, <2>1, <3>2 DEF Unit
    <3>3. QED BY <3>1, <3>2
  <2>2. QED BY <1>2, <2>1 DEF Pending, From
<1>4. ASSUME NEW w \in Unit, Silent(w, i) PROVE Silent(w, i)'
  <2>1. NoneOn(chan'[w], i)
    <3>1. CASE w = u
      BY <1>1, <1>2, <1>4, <3>1, LineTail DEF Silent
    <3>2. CASE w # u
      BY <1>2, <1>4, <3>2 DEF Silent
    <3>3. QED BY <3>1, <3>2
  <2>2. QED BY <1>2, <1>4, <2>1 DEF Silent, Tells
<1>5. Silent(u, i) => m.item # i
  BY <1>1, LineTail DEF Silent
<1>6. value'[p][i] = value[p][i] /\ (m.item # i => value'[u][i] = value[u][i])
  BY <1>1, <1>2, AssignType
<1>7. m.item = i => value'[u][i] = m.value
  BY <1>1, <1>2, AssignType
<1>8. ASSUME Follows(u, i) PROVE Follows(u, i)'
  <2>1. m.item # i /\ chan'[p] = chan[p] /\ value'[u][i] = value[u][i]
    BY <1>2, <1>5, <1>6, <1>8 DEF Follows
  <2>2. LastBuilt(u, i) => LastBuilt(u, i)'
    BY <1>2, <2>1 DEF LastBuilt, Tells
  <2>3. LastSent(u, i) => LastSent(u, i)'
    BY <1>2, <2>1 DEF LastSent, Tells
  <2>4. QED BY <1>4, <1>8, <2>2, <2>3 DEF Follows
<1>9. ASSUME Follows(p, i) PROVE Follows(p, i)' \/ Same(i)'
  <2>1. Silent(p, i)'
    BY <1>4, <1>9 DEF Follows
  <2>2. CASE LastBuilt(p, i)
    BY <1>2, <1>6, <2>1, <2>2 DEF Follows, LastBuilt, Tells
  <2>3. CASE LastSent(p, i)
    <3>1. \/ Ends(Tail(chan[u]), i, value[p][i])
          \/ m.item = i /\ m.value = value[p][i] /\ NoneOn(Tail(chan[u]), i)
      BY <1>1, <2>3, LineTail DEF LastSent
    <3>2. CASE Ends(Tail(chan[u]), i, value[p][i])
      BY <1>2, <1>6, <2>1, <2>3, <3>2 DEF Follows, LastSent, Tells
    <3>3. CASE m.item = i /\ m.value = value[p][i] /\ NoneOn(Tail(chan[u]), i)
      <4>1. Silent(u, i)'
        BY <1>2, <2>3, <3>3 DEF Silent, LastSent, Tells
      <4>2. value'[u][i] = value'[p][i]
        <5>1. value'[p][i] = value[p][i] /\ value'[u][i] = m.value
          BY <1>6, <1>7, <3>3
        <5>2. QED BY <3>3, <5>1
      <4>3. QED BY <2>1, <4>1, <4>2 DEF Same, Agree, Unit, Peer
    <3>4. QED BY <3>1, <3>2, <3>3
  <2>4. QED BY <1>9, <2>2, <2>3 DEF Follows
<1>10. Same(i) => Same(i)'
  <2>1. ASSUME Same(i) PROVE m.item # i
    BY <1>5, <2>1 DEF Same, Unit
  <2>2. ASSUME Same(i), NEW w \in Unit PROVE value'[w][i] = value[w][i]
    BY <1>6, <2>1, <2>2
  <2>3. QED BY <1>4, <2>2 DEF Same, Agree, Unit
<1>11. ASSUME NEW w \in Unit, Owes(w, i) PROVE Owes(w, i)'
  <2>1. \A r \in User : call'[w][r] = call[w][r]
    BY SyncAssumption DEF ReceiveItem, IInv, TypeOK, Setter
  <2>2. dirty[w][i] => dirty'[w][i]
    BY <1>1, <1>2, AssignType
  <2>3. Unsent(w, i)'
    BY <1>1, <1>2, <1>11, <2>1, <2>2, UnsentStays DEF Owes, Unsent
  <2>4. QED BY <1>4, <1>11, <2>3 DEF Owes
<1>12. "master" \in linked \/ u = "second"
  BY <1>1 DEF Unit
<1>13. Known(i)
  BY <1>2 DEF IInv
<1>14. QED
  BY <1>1, <1>2, <1>3, <1>8, <1>9, <1>10, <1>11, <1>12, <1>13 DEF Known, Unit, Peer

LEMMA AskK ==
  ASSUME IInv, Ask, NEW i \in Both, i \notin apart'
  PROVE  Known(i)'
<1>1. "master" \in linked
  BY DEF Ask
<1>2. chan'["master"] = Append(chan["master"], InitReq) /\ "master" \in Unit
  BY <1>1 DEF Ask, IInv, TypeOK, Unit
<1>3. chan["master"] \in Seq(Msg) /\ InitReq \in Msg
  BY AskT DEF IInv, TInv
<1>4. \E k \in 1..Len(chan'["master"]) : chan'["master"][k] = InitReq
  BY <1>2, <1>3, LineAppend
<1>5. QED BY <1>4 DEF Known, Pending

LEMMA ReceiveInitK ==
  ASSUME IInv, ReceiveInit, NEW i \in Both, i \notin apart'
  PROVE  Known(i)'
<1>1. PICK j \in 1..N : Order[j] = i
  BY Items
<1>2. idx' = 0 /\ at' = at /\ at \in 0..N - 1 \cup {Null}
  BY DEF ReceiveInit, IInv, TypeOK
<1>3. CASE at = Null
  BY <1>1, <1>2, <1>3, Items DEF Known, Pending, From
<1>4. CASE at # Null
  <2>1. at \in 0..N - 1 /\ From' = at
    BY <1>2, <1>4 DEF From
  <2>2. i \notin {Order[k] : k \in {l \in 1..at : Order[l] \in Both}}
    BY <1>4 DEF ReceiveInit
  <2>3. j > at
    BY <1>1, <2>1, <2>2, Items
  <2>4. QED BY <1>1, <2>1, <2>3 DEF Known, Pending
<1>5. QED BY <1>3, <1>4

LEMMA RestartK ==
  ASSUME IInv, NEW u \in Unit, Restart(u), NEW i \in Both, i \notin apart'
  PROVE  Known(i)'
<1>1. kick'
  <2>1. CASE u = "second"
    BY <2>1 DEF Restart, IInv, TypeOK
  <2>2. CASE u = "master"
    BY <2>2 DEF Restart, IInv, TypeOK, Calls
  <2>3. QED BY <2>1, <2>2 DEF Unit
<1>2. QED BY <1>1 DEF Known, Pending

LEMMA LinkK ==
  ASSUME IInv, NEW u \in Unit, Link(u), NEW i \in Both, i \notin apart'
  PROVE  Known(i)'
<1>1. /\ linked \subseteq linked' /\ From' = From /\ chan' = chan /\ built' = built
      /\ value' = value /\ dirty' = dirty /\ call' = call /\ apart' = apart
  BY DEF Link, itemVars, callVars, wireVars, loopVars, historyVars, From
<1>2. kick => kick'
  BY DEF Link, LinkedKick
<1>3. \A w \in Unit : Unsent(w, i) => Unsent(w, i)'
  BY <1>1 DEF Unsent, At
<1>4. QED BY <1>1, <1>2, <1>3, QuietK DEF Owes

LEMMA StepI == IInv /\ [Next]_vars => IInv'
<1> SUFFICES ASSUME IInv, [Next]_vars, NEW i \in Both, i \notin apart' PROVE Known(i)'
  BY StepT DEF IInv, TInv
<1>1. CASE UNCHANGED vars
  <2>1. \A w \in Unit : Unsent(w, i) => Unsent(w, i)'
    BY <1>1 DEF vars, itemVars, callVars, unitVars, Unsent, At
  <2>2. QED
    BY <1>1, <2>1, QuietK DEF vars, itemVars, unitVars, wireVars, loopVars, historyVars, From, Owes
<1>2. ASSUME NEW u \in Unit, Receive(u) PROVE Known(i)'
  BY <1>2, TakeK, ValidK, ReceiveItemK, AskK, ReceiveInitK DEF Receive, Setter
<1>3. ASSUME NEW u \in Unit, NEW t \in User, Proceed(u, t) PROVE Known(i)'
  BY <1>3, ValidK, ChangeK, SendIfDirtyK, QueueK, ClearK DEF Proceed, Setter, Task
<1>4. ASSUME NEW u \in Unit, NEW t \in User, NEW j \in Item, NEW v \in Value, Set(u, t, j, v)
      PROVE  Known(i)'
  BY <1>4, LoadK DEF Set, Setter
<1>5. CASE TakeIndex
  <2>1. From' = From
    BY <1>5, Items DEF TakeIndex, From, IInv, Calls, TypeOK
  <2>2. \A w \in Unit : Unsent(w, i) => Unsent(w, i)'
    BY <1>5 DEF TakeIndex, itemVars, callVars, unitVars, Unsent, At
  <2>3. QED
    BY <1>5, <2>1, <2>2, QuietK DEF TakeIndex, itemVars, unitVars, wireVars, historyVars, Owes
<1>6. CASE CalmDown
  <2>1. \A w \in Unit : Unsent(w, i) => Unsent(w, i)'
    BY <1>6 DEF CalmDown, itemVars, callVars, unitVars, Unsent, At
  <2>2. QED
    BY <1>6, <2>1, QuietK DEF CalmDown, itemVars, unitVars, wireVars, loopVars, From, Owes
<1>7. "loop" \in Task /\ "master" \in Unit /\ "second" \in Unit
  BY DEF Task, Unit
<1>8. CASE LoopStep
  BY <1>5, <1>7, <1>8, MeasureK, SyncEntryK, QueueK, ClearK DEF LoopStep
<1>9. QED
  BY <1>1, <1>2, <1>3, <1>4, <1>6, <1>7, <1>8, LinkK, RestartK, CommitK, ClearK DEF Next

LEMMA InitI == Init => IInv
<1> SUFFICES ASSUME Init PROVE IInv
  OBVIOUS
<1>1. kick
  BY DEF Init
<1>2. QED BY <1>1, InitT DEF IInv, TInv, Known, Pending

LEMMA InvAgree == IInv => AgreeWhenQuiet
<1> SUFFICES ASSUME IInv, Quiet, NEW i \in Both \ apart PROVE Agree(i)
  BY DEF AgreeWhenQuiet
<1>1. Len(<<>>) = 0
  OBVIOUS
<1>2. /\ \A u \in Unit : chan[u] = <<>> /\ Len(chan[u]) = 0 /\ chan[Peer(u)] = <<>>
      /\ \A u \in Unit, t \in Task : built[u][t] = Null
  BY <1>1, Peers DEF Quiet
<1>3. ~Pending(i)
  BY <1>2, Items DEF Quiet, Pending, From, Unit
<1>4. \A u \in Unit : ~Follows(u, i)
  BY <1>1, <1>2 DEF Follows, LastBuilt, LastSent, Tells, Ends
<1>5. \A u \in Unit : ~Owes(u, i)
  BY DEF Quiet, Owes, Unsent, At, Setter
<1>6. QED BY <1>3, <1>4, <1>5 DEF IInv, Known, Same, Unit

\* Once the traffic has died down the units agree on the items both may set,
\* but for the reasons named in apart: edits that crossed or overtook each
\* other, a dirty flag that another task took away before set() looked at it,
\* a request that came while the index was written, a telegram that a
\* restarted master missed, and a master that restarted alone (set, commit, sendItem, syncEntry).
THEOREM AgreesWhenQuiet == Spec => []AgreeWhenQuiet
BY InitI, StepI, InvAgree, PTL DEF Spec
=============================================================================
