----------------------- MODULE CANRegistration_proofs ------------------------
(***************************************************************************)
(* Proofs about the registration of devices, for any number of ids of a    *)
(* priority, any external devices, and one unit or two.                    *)
(***************************************************************************)
EXTENDS CANRegistration, TLAPS, SequenceTheorems

(***************************************************************************)
(* The invariant.  The second unit is the only device of its priority, so  *)
(* it always gets the first id, and no answer to it names another one.     *)
(***************************************************************************)
Telegram == {m \in Msg : m.type = "acc" /\ m.dev = "xcv" => m.ch = Base[4]}
Inboxes == inbox \in [Node -> Seq(Telegram)]

Slot(p, s) == \E n \in 0..Chunks : s = Base[p] + 4 * n
Registrar(k, s) ==
  /\ DOMAIN k \subseteq Device /\ s \in [{1, 4} -> Nat]
  /\ \A p \in {1, 4} : Slot(p, s[p])
  /\ \A d \in DOMAIN k : k[d] \in Id /\ Base[Prio(d)] <= k[d] /\ k[d] < s[Prio(d)]
  /\ \A d, e \in DOMAIN k : d # e => k[d] # k[e]
  /\ IF "xcv" \in DOMAIN k THEN k["xcv"] = Base[4] ELSE s[4] = Base[4]
Registrars ==
  /\ DOMAIN known = Unit /\ next \in [Unit -> [{1, 4} -> Nat]]
  /\ \A u \in Unit : Registrar(known[u], next[u])

Clocks == clock \in [Unit -> C!ClockState] /\ \A u \in Unit : Len(clock[u].requests) <= QueueLen
LinkFirst == link = Null \/ link = [listen |-> Base[4], send |-> Base[4] + 1]
Rest ==
  /\ id \in [External -> Id \cup {Null}] /\ asks \subseteq External
  /\ flarm \in [Unit -> {"none", "own", "peer"}] /\ peerCap \in [Unit -> BOOLEAN]
  /\ missed \subseteq {"master", "second"} /\ removed \subseteq Unit \cup External /\ calm \in BOOLEAN

RInv == Inboxes /\ Registrars /\ Clocks /\ LinkFirst /\ Rest

-----------------------------------------------------------------------------
(* Numbers and telegrams.                                                  *)

LEMMA Numbers ==
  /\ Base[1] \in Nat /\ Base[4] \in Nat /\ Chunks \in Nat /\ Chunks > 0
  /\ Base[4] + 4 * Chunks <= Base[1]
  /\ Unit \subseteq {"master", "second"} /\ "xcv" \notin External /\ "master" \in Unit
  /\ Base[4] \in Id
  /\ QueueLen \in Nat /\ QueueLen > 1
<1>1. 0 \in 0..Chunks - 1 /\ Base[4] = Base[4] + 4 * 0
  BY CANAssumption
<1>2. Base[4] \in Id
  BY <1>1 DEF Id
<1>3. QED BY <1>2, CANAssumption

LEMMA IdsAreNumbers ==
  ASSUME NEW i \in Id
  PROVE  i \in Nat
BY Numbers DEF Id

LEMMA SlotIsId ==
  ASSUME NEW p \in {1, 4}, NEW s, Slot(p, s), s # Base[p] + 4 * Chunks
  PROVE  s \in Id /\ Slot(p, s + 4) /\ s \in Nat /\ Base[p] <= s /\ s < Base[p] + 4 * Chunks
<1>1. PICK n \in 0..Chunks : s = Base[p] + 4 * n
  BY DEF Slot
<1>2. n \in 0..Chunks - 1 /\ n + 1 \in 0..Chunks
  BY <1>1, Numbers
<1>3. s + 4 = Base[p] + 4 * (n + 1)
  BY <1>1, <1>2, Numbers
<1>4. s \in Id
  BY <1>1, <1>2 DEF Id
<1>5. s \in Nat /\ Base[p] <= s /\ s < Base[p] + 4 * Chunks
  BY <1>1, <1>2, Numbers
<1>6. QED BY <1>2, <1>3, <1>4, <1>5 DEF Slot

LEMMA SlotBounds ==
  ASSUME NEW p \in {1, 4}, NEW s, Slot(p, s)
  PROVE  s \in Nat /\ Base[p] <= s /\ s <= Base[p] + 4 * Chunks
BY Numbers DEF Slot

LEMMA Telegrams ==
  /\ \A d \in Device, c \in BOOLEAN : Reg(d, c) \in Telegram
  /\ \A d \in Device, i \in Id, c \in BOOLEAN : (d = "xcv" => i = Base[4]) => Acc(d, i, c) \in Telegram
  /\ \A d \in Device : Nac(d) \in Telegram
  /\ Lor \in Telegram
  /\ \A c \in BOOLEAN : Pcap(c) \in Telegram
<1>1. ASSUME NEW d \in Device, NEW c \in BOOLEAN PROVE Reg(d, c) \in Telegram
  <2>1. Reg(d, c) \in Msg
    BY DEF Msg
  <2>2. QED BY <2>1 DEF Telegram, Reg
<1>2. ASSUME NEW d \in Device, NEW i \in Id, NEW c \in BOOLEAN, d = "xcv" => i = Base[4]
      PROVE  Acc(d, i, c) \in Telegram
  <2>1. Acc(d, i, c) \in Msg
    BY DEF Msg
  <2>2. Acc(d, i, c).dev = d /\ Acc(d, i, c).ch = i
    BY DEF Acc
  <2>3. QED BY <1>2, <2>1, <2>2 DEF Telegram
<1>3. ASSUME NEW d \in Device PROVE Nac(d) \in Telegram
  <2>1. Nac(d) \in Msg
    BY DEF Msg
  <2>2. QED BY <2>1 DEF Telegram, Nac
<1>4. Lor \in Telegram
  <2>1. Lor \in Msg
    BY DEF Msg
  <2>2. QED BY <2>1 DEF Telegram, Lor
<1>5. ASSUME NEW c \in BOOLEAN PROVE Pcap(c) \in Telegram
  <2>1. Pcap(c) \in Msg
    BY DEF Msg
  <2>2. QED BY <2>1 DEF Telegram, Pcap
<1>6. QED BY <1>1, <1>2, <1>3, <1>4, <1>5

LEMMA TelegramFields ==
  ASSUME NEW m \in Telegram
  PROVE  /\ m \in Msg /\ m.dev \in Device /\ m.cap \in BOOLEAN
         /\ m.type = "acc" => m.ch \in Id /\ (m.dev = "xcv" => m.ch = Base[4])
<1> DEFINE Fine == m.dev \in Device /\ m.cap \in BOOLEAN /\ (m.type = "acc" => m.ch \in Id)
<1>1. m \in Msg /\ (m.type = "acc" /\ m.dev = "xcv" => m.ch = Base[4])
  BY DEF Telegram
<1>2. ASSUME NEW d \in Device, NEW c \in BOOLEAN, m = Reg(d, c) PROVE Fine
  BY <1>2 DEF Reg
<1>3. ASSUME NEW d \in Device, NEW i \in Id, NEW c \in BOOLEAN, m = Acc(d, i, c) PROVE Fine
  BY <1>3 DEF Acc
<1>4. ASSUME NEW d \in Device, m = Nac(d) PROVE Fine
  BY <1>4 DEF Nac
<1>5. ASSUME m = Lor PROVE Fine
  BY <1>5 DEF Lor, Device
<1>6. ASSUME NEW c \in BOOLEAN, m = Pcap(c) PROVE Fine
  BY <1>6 DEF Pcap, Device
<1>7. Fine
  BY <1>1, <1>2, <1>3, <1>4, <1>5, <1>6 DEF Msg
<1>8. QED BY <1>1, <1>7

LEMMA DeliveredType ==
  ASSUME NEW box \in [Node -> Seq(Telegram)], NEW ns, NEW m \in Telegram
  PROVE  Delivered(box, ns, m) \in [Node -> Seq(Telegram)]
BY AppendProperties DEF Delivered

LEMMA TakenType ==
  ASSUME Inboxes, NEW n \in Node, inbox[n] # <<>>
  PROVE  Taken(n) \in [Node -> Seq(Telegram)] /\ Head(inbox[n]) \in Telegram
BY HeadTailProperties DEF Taken, Inboxes

LEMMA DigestType ==
  ASSUME Rest, NEW u \in Unit, NEW cap \in BOOLEAN, NEW box \in [Node -> Seq(Telegram)],
         Digest(u, cap, box)
  PROVE  /\ inbox' \in [Node -> Seq(Telegram)]
         /\ flarm' \in [Unit -> {"none", "own", "peer"}] /\ peerCap' \in [Unit -> BOOLEAN]
<1>1. Pcap(TRUE) \in Telegram
  BY Telegrams
<1>2. Announced(u, TRUE, box) \in [Node -> Seq(Telegram)]
  BY <1>1, DeliveredType DEF Announced
<1>3. QED BY <1>2 DEF Digest, Rest

-----------------------------------------------------------------------------
(* What a registrar hands out.                                             *)

LEMMA Granted ==
  ASSUME NEW k, NEW s, Registrar(k, s), NEW d \in Device,
         NEW ch, ch = IF d \in DOMAIN k THEN k[d] ELSE s[Prio(d)],
         d \in DOMAIN k \/ s[Prio(d)] # Base[Prio(d)] + 4 * Chunks,
         NEW k2, k2 = Added(k, d, ch),
         NEW s2, s2 = IF ch = s[Prio(d)] THEN [s EXCEPT ![Prio(d)] = @ + 4] ELSE s
  PROVE  Registrar(k2, s2) /\ ch \in Id /\ (d = "xcv" => ch = Base[4])
<1> DEFINE p == Prio(d)
<1>1. /\ DOMAIN k2 = {d} \cup DOMAIN k /\ k2[d] = ch
      /\ \A e \in DOMAIN k : e # d => k2[e] = k[e]
  BY DEF Added
<1>2. /\ DOMAIN k \subseteq Device /\ s \in [{1, 4} -> Nat]
      /\ \A q \in {1, 4} : Slot(q, s[q])
      /\ \A e \in DOMAIN k : k[e] \in Id /\ k[e] \in Nat /\ Base[Prio(e)] <= k[e] /\ k[e] < s[Prio(e)]
      /\ \A e, f \in DOMAIN k : e # f => k[e] # k[f]
      /\ IF "xcv" \in DOMAIN k THEN k["xcv"] = Base[4] ELSE s[4] = Base[4]
  BY IdsAreNumbers DEF Registrar
<1>3. /\ \A e \in Device : Prio(e) \in {1, 4} /\ (Prio(e) = 4 <=> e = "xcv")
      /\ p \in {1, 4} /\ s[1] \in Nat /\ s[4] \in Nat
  BY <1>2 DEF Prio
<1>4. CASE d \in DOMAIN k
  <2>1. ch = k[d] /\ ch # s[p]
    BY <1>2, <1>3, <1>4
  <2>2. s2 = s
    BY <2>1
  <2>3. DOMAIN k2 = DOMAIN k /\ \A e \in DOMAIN k : k2[e] = k[e]
    BY <1>1, <1>4, <2>1
  <2>4. Registrar(k2, s2)
    <3>1. IF "xcv" \in DOMAIN k2 THEN k2["xcv"] = Base[4] ELSE s[4] = Base[4]
      BY <1>2, <2>3
    <3>2. \A e \in DOMAIN k2 : k2[e] \in Id /\ Base[Prio(e)] <= k2[e] /\ k2[e] < s[Prio(e)]
      BY <1>2, <2>3
    <3>3. \A e, f \in DOMAIN k2 : e # f => k2[e] # k2[f]
      BY <1>2, <2>3
    <3>4. DOMAIN k2 \subseteq Device /\ s \in [{1, 4} -> Nat] /\ \A q \in {1, 4} : Slot(q, s[q])
      BY <1>2, <2>3
    <3>5. Registrar(k2, s)
      BY <3>1, <3>2, <3>3, <3>4 DEF Registrar
    <3>6. QED BY <2>2, <3>5
  <2>5. QED BY <1>2, <1>4, <2>1, <2>4
<1>5. CASE d \notin DOMAIN k
  <2>1. ch = s[p] /\ s[p] # Base[p] + 4 * Chunks
    BY <1>5
  <2>2. ch \in Id /\ Slot(p, ch + 4) /\ ch \in Nat /\ Base[p] <= ch /\ ch < Base[p] + 4 * Chunks
    BY <1>2, <1>3, <2>1, SlotIsId
  <2>3. s2 = [s EXCEPT ![p] = ch + 4]
    BY <2>1
  <2>4. s2 \in [{1, 4} -> Nat] /\ s2[p] = ch + 4 /\ \A q \in {1, 4} : q # p => s2[q] = s[q]
    BY <1>2, <1>3, <2>2, <2>3
  <2>5. \A q \in {1, 4} : Slot(q, s2[q]) /\ s[q] <= s2[q]
    BY <1>2, <1>3, <2>1, <2>2, <2>4
  <2>6. d = "xcv" => ch = Base[4]
    BY <1>2, <1>5, <2>1 DEF Prio
  <2>7. ASSUME NEW e \in DOMAIN k PROVE k[e] # ch
    <3>1. k[e] \in Nat /\ Base[Prio(e)] <= k[e] /\ k[e] < s[Prio(e)] /\ e \in Device
      BY <1>2, <2>7
    <3>2. s[1] >= Base[1] /\ s[4] <= Base[4] + 4 * Chunks
      BY <1>2, SlotBounds
    <3>3. CASE Prio(e) = p
      BY <2>1, <2>2, <3>1, <3>3
    <3>4. CASE Prio(e) = 1 /\ p = 4
      BY <2>2, <3>1, <3>4, Numbers
    <3>5. CASE Prio(e) = 4 /\ p = 1
      BY <1>3, <2>1, <2>2, <3>1, <3>2, <3>5, Numbers
    <3>6. QED BY <1>3, <3>1, <3>3, <3>4, <3>5
  <2>8. ASSUME NEW e \in DOMAIN k2
        PROVE  k2[e] \in Id /\ Base[Prio(e)] <= k2[e] /\ k2[e] < s2[Prio(e)]
    <3>1. CASE e = d
      BY <1>1, <2>2, <2>4, <3>1
    <3>2. CASE e # d
      <4>1. e \in DOMAIN k /\ k2[e] = k[e] /\ Prio(e) \in {1, 4}
        BY <1>1, <1>2, <1>3, <2>8, <3>2
      <4>2. s[Prio(e)] \in Nat /\ s2[Prio(e)] \in Nat /\ s[Prio(e)] <= s2[Prio(e)]
        BY <1>2, <2>4, <2>5, <4>1
      <4>3. QED BY <1>2, <4>1, <4>2
    <3>3. QED BY <3>1, <3>2
  <2>9. \A e, f \in DOMAIN k2 : e # f => k2[e] # k2[f]
    BY <1>1, <1>2, <2>7
  <2>10. IF "xcv" \in DOMAIN k2 THEN k2["xcv"] = Base[4] ELSE s2[4] = Base[4]
    <3>1. CASE d = "xcv"
      BY <1>1, <2>6, <3>1
    <3>2. CASE d # "xcv"
      <4>1. s2[4] = s[4]
        BY <1>3, <2>4, <3>2
      <4>2. "xcv" \in DOMAIN k2 <=> "xcv" \in DOMAIN k
        BY <1>1, <3>2
      <4>3. "xcv" \in DOMAIN k => k2["xcv"] = k["xcv"]
        BY <1>1, <3>2
      <4>4. QED BY <1>2, <4>1, <4>2, <4>3
    <3>3. QED BY <3>1, <3>2
  <2>11. DOMAIN k2 \subseteq Device
    BY <1>1, <1>2
  <2>12. Registrar(k2, s2)
    BY <2>4, <2>5, <2>8, <2>9, <2>10, <2>11 DEF Registrar
  <2>13. QED BY <2>2, <2>6, <2>12
<1>6. QED BY <1>4, <1>5

LEMMA FreshRegistrar == Registrar(<<>>, Base)
<1>1. DOMAIN <<>> = {}
  OBVIOUS
<1>2. \A p \in {1, 4} : Base[p] = Base[p] + 4 * 0 /\ 0 \in 0..Chunks
  BY CANAssumption
<1>3. Base \in [{1, 4} -> Nat]
  BY CANAssumption
<1>4. QED BY <1>1, <1>2, <1>3 DEF Registrar, Slot

LEMMA FewerRegistered ==
  ASSUME NEW k, NEW s, Registrar(k, s), NEW d \in External
  PROVE  Registrar([e \in DOMAIN k \ {d} |-> k[e]], s)
BY Numbers DEF Registrar

-----------------------------------------------------------------------------
(* Clocks.                                                                 *)

LEMMA ClockRequest ==
  ASSUME NEW c \in C!ClockState, NEW cb \in {"reregister", "query"}
  PROVE  /\ Len(c.requests) \in Nat
         /\ C!Started(c, cb) \in C!ClockState /\ Len(C!Started(c, cb).requests) = Len(c.requests) + 1
         /\ C!Stopped(c, cb) \in C!ClockState /\ Len(C!Stopped(c, cb).requests) = Len(c.requests) + 1
<1>1. [op |-> "start", cb |-> cb] \in C!Request /\ [op |-> "stop", cb |-> cb] \in C!Request
  BY DEF C!Request
<1>2. c.requests \in Seq(C!Request)
  BY DEF C!ClockState
<1>3. Len(c.requests) \in Nat
  BY <1>2, LenProperties
<1>4. ASSUME NEW r \in C!Request
      PROVE  Append(c.requests, r) \in Seq(C!Request) /\ Len(Append(c.requests, r)) = Len(c.requests) + 1
  BY <1>2, AppendProperties
<1>5. C!Started(c, cb) \in C!ClockState /\ Len(C!Started(c, cb).requests) = Len(c.requests) + 1
  BY <1>1, <1>4 DEF C!Started, C!ClockState
<1>6. C!Stopped(c, cb) \in C!ClockState /\ Len(C!Stopped(c, cb).requests) = Len(c.requests) + 1
  BY <1>1, <1>4 DEF C!Stopped, C!ClockState
<1>7. QED BY <1>3, <1>5, <1>6

LEMMA BootedClock ==
  ASSUME NEW u
  PROVE  Booted(u) \in C!ClockState /\ Len(Booted(u).requests) <= 2 /\ Len(Booted(u).requests) \in Nat
<1>1. C!Fresh \in C!ClockState /\ Len(C!Fresh.requests) = 0
  BY EmptySeq DEF C!Fresh, C!ClockState
<1>2. PICK f \in C!ClockState : f = C!Fresh /\ Len(f.requests) = 0
  BY <1>1
<1>3. PICK c \in C!ClockState : c = C!Started(f, "reregister") /\ Len(c.requests) = Len(f.requests) + 1
  BY ClockRequest
<1>4. PICK q \in C!ClockState : q = C!Started(c, "query") /\ Len(q.requests) = Len(c.requests) + 1
  BY ClockRequest
<1>5. Booted(u) = IF u = "second" THEN q ELSE c
  BY <1>2, <1>3, <1>4 DEF Booted
<1>6. Len(c.requests) = 1
  BY <1>2, <1>3
<1>7. Len(q.requests) = 2
  BY <1>4, <1>6
<1>8. CASE u = "second"
  <2>1. Booted(u) = q
    BY <1>5, <1>8
  <2>2. Len(Booted(u).requests) = 2
    BY <1>7, <2>1
  <2>3. QED BY <2>1, <2>2
<1>9. CASE u # "second"
  <2>1. Booted(u) = c
    BY <1>5, <1>9
  <2>2. Len(Booted(u).requests) = 1
    BY <1>6, <2>1
  <2>3. QED BY <2>1, <2>2
<1>10. QED BY <1>8, <1>9

-----------------------------------------------------------------------------
(* The steps.                                                              *)

LEMMA InitRInv == Init => RInv
<1> SUFFICES ASSUME Init PROVE RInv
  OBVIOUS
<1>1. Inboxes
  BY EmptySeq DEF Init, Inboxes
<1>2. Registrars
  BY FreshRegistrar, CANAssumption DEF Init, Registrars
<1>3. Clocks
  BY BootedClock, Numbers DEF Init, Clocks
<1>4. QED BY <1>1, <1>2, <1>3 DEF Init, RInv, LinkFirst, Rest

LEMMA RegisterStep ==
  ASSUME RInv, NEW u \in Unit, Register(u)
  PROVE  RInv'
<1> DEFINE m == Head(inbox[u])
           d == m.dev
           ch == Grant(u, d)
<1>1. inbox[u] # <<>> /\ Taken(u) \in [Node -> Seq(Telegram)] /\ m \in Telegram
  BY TakenType DEF Register, Got, RInv, Node
<1>2. d \in Device /\ m.cap \in BOOLEAN
  BY <1>1, TelegramFields
<1>3. Prio(d) \in {1, 4} /\ Registrar(known[u], next[u])
  BY <1>2 DEF RInv, Registrars, Prio
<1>h. UNCHANGED <<clock, link, externalVars, historyVars>>
  BY DEF Register
<1>4. CASE d \notin DOMAIN known[u] /\ Exhausted(u, Prio(d))
  <2>1. inbox' = Delivered(Taken(u), Answered(u, d), Nac(d)) /\ UNCHANGED <<registrarVars, capsVars>>
    BY <1>4 DEF Register
  <2>2. Inboxes'
    BY <1>1, <1>2, <2>1, Telegrams, DeliveredType DEF Inboxes
  <2>3. QED BY <1>h, <2>1, <2>2
              DEF RInv, Registrars, Clocks, LinkFirst, Rest, registrarVars, capsVars, externalVars, historyVars
<1>5. CASE ~(d \notin DOMAIN known[u] /\ Exhausted(u, Prio(d)))
  <2> DEFINE box == Delivered(Taken(u), Answered(u, d), Acc(d, ch, d = "xcv" /\ HasFlarm(u)))
  <2>1. /\ next' = IF ch = next[u][Prio(d)] THEN [next EXCEPT ![u][Prio(d)] = @ + 4] ELSE next
        /\ known' = [known EXCEPT ![u] = Added(@, d, ch)]
        /\ \/ d = "xcv" /\ Digest(u, m.cap, box) /\ missed' = missed \ {u}
           \/ inbox' = box /\ UNCHANGED capsVars
    BY <1>5 DEF Register
  <2> DEFINE s2 == IF ch = next[u][Prio(d)] THEN [next[u] EXCEPT ![Prio(d)] = @ + 4] ELSE next[u]
             k2 == Added(known[u], d, ch)
  <2>2. d \in DOMAIN known[u] \/ next[u][Prio(d)] # Base[Prio(d)] + 4 * Chunks
    BY <1>5 DEF Exhausted
  <2>3. ch = IF d \in DOMAIN known[u] THEN known[u][d] ELSE next[u][Prio(d)]
    BY DEF Grant
  <2> HIDE DEF ch
  <2>4. Registrar(k2, s2) /\ ch \in Id /\ (d = "xcv" => ch = Base[4])
    BY <1>2, <1>3, <2>2, <2>3, Granted
  <2>5. /\ DOMAIN known' = Unit /\ next' \in [Unit -> [{1, 4} -> Nat]]
        /\ next'[u] = s2 /\ known'[u] = k2
        /\ \A v \in Unit : v # u => next'[v] = next[v] /\ known'[v] = known[v]
    <3>1. DOMAIN known = Unit /\ next \in [Unit -> [{1, 4} -> Nat]] /\ s2 \in [{1, 4} -> Nat]
      BY <2>4 DEF RInv, Registrars, Registrar
    <3>2. next' = [next EXCEPT ![u] = s2]
      BY <2>1, <3>1
    <3>3. QED BY <2>1, <3>1, <3>2
  <2>6. Registrars'
    BY <2>4, <2>5 DEF RInv, Registrars
  <2>7. box \in [Node -> Seq(Telegram)]
    <3>1. (d = "xcv" /\ HasFlarm(u)) \in BOOLEAN
      BY DEF HasFlarm
    <3>2. Acc(d, ch, d = "xcv" /\ HasFlarm(u)) \in Telegram
      BY <1>2, <2>4, <3>1, Telegrams
    <3>3. QED BY <1>1, <3>2, DeliveredType
  <2> HIDE DEF box
  <2>8. CASE d = "xcv" /\ Digest(u, m.cap, box) /\ missed' = missed \ {u}
    <3>1. Inboxes' /\ flarm' \in [Unit -> {"none", "own", "peer"}] /\ peerCap' \in [Unit -> BOOLEAN]
      BY <1>2, <2>7, <2>8, DigestType DEF RInv, Inboxes
    <3>2. QED BY <1>h, <2>6, <2>8, <3>1 DEF RInv, Clocks, LinkFirst, Rest, externalVars, historyVars
  <2>9. CASE inbox' = box /\ UNCHANGED capsVars
    BY <1>h, <2>6, <2>7, <2>9 DEF RInv, Inboxes, Clocks, LinkFirst, Rest, externalVars, historyVars, capsVars
  <2>10. QED BY <2>1, <2>8, <2>9
<1>6. QED BY <1>4, <1>5

LEMMA CapsStep ==
  ASSUME RInv, NEW u \in Unit, ReceiveCap(u) \/ \E f \in {"none", "own"} : SetFlarm(u, f)
  PROVE  RInv'
<1>1. CASE ReceiveCap(u)
  <2>1. Inboxes' /\ Head(inbox[u]) \in Telegram
    BY <1>1, TakenType DEF ReceiveCap, Got, RInv, Inboxes, Node
  <2>2. peerCap' \in [Unit -> BOOLEAN] /\ missed' \subseteq {"master", "second"}
    BY <1>1, <2>1, TelegramFields DEF ReceiveCap, RInv, Rest, Peer
  <2>3. QED BY <1>1, <2>1, <2>2
              DEF ReceiveCap, RInv, Registrars, Clocks, LinkFirst, Rest, registrarVars, externalVars, historyVars
<1>2. ASSUME NEW f \in {"none", "own"}, SetFlarm(u, f) PROVE RInv'
  <2>1. Pcap(f # "none") \in Telegram
    BY Telegrams
  <2>2. Inboxes'
    BY <1>2, <2>1, DeliveredType DEF SetFlarm, Announced, RInv, Inboxes
  <2>3. Rest'
    BY <1>2, Numbers DEF SetFlarm, RInv, Rest, externalVars
  <2>4. QED BY <1>2, <2>2, <2>3 DEF SetFlarm, RInv, Registrars, Clocks, LinkFirst, registrarVars
<1>3. QED BY <1>1, <1>2

LEMMA SecondStep ==
  ASSUME RInv, "second" \in Unit, Accepted \/ Rejected \/ RestartQuery
  PROVE  RInv'
<1>n. "second" \in Node /\ clock["second"] \in C!ClockState /\ QueueLen \in Nat
  BY Numbers DEF Node, RInv, Clocks
<1>1. CASE Accepted
  <2> DEFINE m == Head(inbox["second"])
  <2>1. /\ Taken("second") \in [Node -> Seq(Telegram)] /\ m \in Telegram /\ m.type = "acc"
        /\ m.cap \in BOOLEAN /\ (m.dev = "xcv" => m.ch = Base[4])
    BY <1>1, <1>n, TakenType, TelegramFields DEF Accepted, Got, RInv
  <2>2. CASE ForMe(m)
    <3>1. /\ C!MayRequest(clock["second"])
          /\ clock' = [clock EXCEPT !["second"] = C!Stopped(@, "query")]
          /\ link' = IF link = Null THEN [listen |-> m.ch, send |-> m.ch + 1] ELSE link
          /\ Digest("second", m.cap, Taken("second"))
      BY <1>1, <2>2 DEF Accepted
    <3>2. C!Stopped(clock["second"], "query") \in C!ClockState
          /\ Len(C!Stopped(clock["second"], "query").requests) <= QueueLen
      BY <1>n, <3>1, ClockRequest DEF C!MayRequest
    <3>3. Clocks'
      BY <3>1, <3>2 DEF RInv, Clocks
    <3>4. LinkFirst'
      BY <2>1, <2>2, <3>1 DEF RInv, LinkFirst, ForMe
    <3>5. Inboxes' /\ flarm' \in [Unit -> {"none", "own", "peer"}] /\ peerCap' \in [Unit -> BOOLEAN]
      BY <2>1, <3>1, DigestType DEF RInv, Inboxes
    <3>6. QED BY <1>1, <3>3, <3>4, <3>5
                DEF Accepted, RInv, Registrars, Rest, registrarVars, externalVars, historyVars
  <2>3. CASE ~ForMe(m)
    <3>1. Inboxes'
      BY <1>1, <2>1, <2>3 DEF Accepted, Inboxes
    <3>2. QED BY <1>1, <2>3, <3>1
                DEF Accepted, RInv, Registrars, Clocks, LinkFirst, Rest, registrarVars, externalVars, historyVars
  <2>4. QED BY <2>2, <2>3
<1>2. CASE Rejected
  <2>1. Inboxes'
    BY <1>2, <1>n, TakenType DEF Rejected, Got, RInv, Inboxes
  <2>2. QED BY <1>2, <2>1 DEF Rejected, RInv, Registrars, Clocks, LinkFirst, Rest, registrarVars,
                              externalVars, capsVars, historyVars
<1>3. CASE RestartQuery
  <2>1. Taken("second") \in [Node -> Seq(Telegram)]
    BY <1>3, <1>n, TakenType DEF RestartQuery, Got, RInv
  <2>2. Reg("xcv", HasFlarm("second")) \in Telegram
    BY Telegrams DEF HasFlarm, Device
  <2>3. Inboxes'
    BY <1>3, <2>1, <2>2, DeliveredType DEF RestartQuery, Inboxes
  <2>4. RestartsQuery(clock["second"]) \in C!ClockState
        /\ Len(RestartsQuery(clock["second"]).requests) <= QueueLen
    BY <1>3, <1>n, ClockRequest DEF RestartQuery, RestartsQuery, C!MayRequest
  <2>5. Clocks'
    BY <1>3, <2>4 DEF RestartQuery, RInv, Clocks
  <2>6. QED BY <1>3, <2>3, <2>5
              DEF RestartQuery, RInv, Registrars, LinkFirst, Rest, registrarVars, externalVars, historyVars
<1>4. QED BY <1>1, <1>2, <1>3

LEMMA TimerStep ==
  ASSUME RInv, NEW u \in Unit, Tick(u)
  PROVE  RInv'
<1>c. clock \in [Unit -> C!ClockState] /\ \A v \in Unit : Len(clock[v].requests) <= QueueLen
  BY DEF RInv, Clocks
<1>1. CASE Drain(u)
  <2>1. PICK turn \in SUBSET C!Registry(clock[u]) : clock' = [clock EXCEPT ![u] = C!Drained(@, turn)]
    BY <1>1 DEF Drain
  <2>2. C!Registry(clock[u]) \subseteq {"reregister", "query"}
    BY DEF C!Registry
  <2>3. C!Drained(clock[u], turn) \in C!ClockState /\ Len(C!Drained(clock[u], turn).requests) = 0
    BY <2>1, <2>2, EmptySeq DEF C!Drained, C!ClockState
  <2>4. Clocks'
    BY <1>c, <2>1, <2>3, Numbers DEF Clocks
  <2>5. QED BY <1>1, <2>4 DEF Drain, RInv, Inboxes, Registrars, LinkFirst, Rest, registrarVars, externalVars,
                             capsVars, historyVars
<1>2. ASSUME NEW c \in C!ClockState, NEW cb, NEW gone \in BOOLEAN
      PROVE  C!Called(c, cb, gone) \in C!ClockState /\ C!Called(c, cb, gone).requests = c.requests
  BY <1>2 DEF C!Called, C!ClockState
<1>3. CASE TickReregister(u)
  <2>1. Inboxes'
    BY <1>3, Telegrams, DeliveredType DEF TickReregister, RInv, Inboxes
  <2>2. Clocks'
    BY <1>c, <1>2, <1>3 DEF TickReregister, Clocks
  <2>3. QED BY <1>3, <2>1, <2>2 DEF TickReregister, RInv, Registrars, LinkFirst, Rest, registrarVars,
                                    externalVars, capsVars, historyVars
<1>4. CASE u = "second" /\ TickQuery
  <2>1. Reg("xcv", HasFlarm("second")) \in Telegram
    BY Telegrams DEF HasFlarm, Device
  <2>2. Inboxes'
    BY <1>4, <2>1, DeliveredType DEF TickQuery, RInv, Inboxes
  <2>3. Clocks'
    BY <1>c, <1>2, <1>4 DEF TickQuery, Clocks
  <2>4. QED BY <1>4, <2>2, <2>3 DEF TickQuery, RInv, Registrars, LinkFirst, Rest, registrarVars, externalVars,
                                    historyVars
<1>5. QED BY <1>1, <1>3, <1>4 DEF Tick

LEMMA ExternalStep ==
  ASSUME RInv, NEW d \in External, Ask(d) \/ Hear(d) \/ RestartDevice(d)
  PROVE  RInv'
<1>n. d \in Node /\ d \in Device
  BY DEF Node, Device
<1>1. CASE Ask(d)
  <2>1. Inboxes'
    BY <1>1, <1>n, Telegrams, DeliveredType DEF Ask, RInv, Inboxes
  <2>2. QED BY <1>1, <2>1 DEF Ask, RInv, Registrars, Clocks, LinkFirst, Rest, registrarVars, externalVars,
                              capsVars, historyVars
<1>2. CASE Hear(d)
  <2> DEFINE m == Head(inbox[d])
  <2>1. Inboxes' /\ m \in Telegram
    BY <1>2, <1>n, TakenType DEF Hear, RInv, Inboxes
  <2>2. \/ m.type = "acc" /\ id' = [id EXCEPT ![d] = m.ch] /\ asks' = asks \ {d}
        \/ asks' = asks \cup {d} /\ id' = id
        \/ UNCHANGED externalVars
    BY <1>2 DEF Hear
  <2>3. id' \in [External -> Id \cup {Null}] /\ asks' \subseteq External
    BY <2>1, <2>2, TelegramFields DEF RInv, Rest, externalVars
  <2>4. QED BY <1>2, <2>1, <2>3 DEF Hear, RInv, Registrars, Clocks, LinkFirst, Rest, registrarVars, capsVars,
                                    historyVars
<1>3. CASE RestartDevice(d)
  <2>1. Inboxes'
    BY <1>3, EmptySeq DEF RestartDevice, RInv, Inboxes
  <2>2. QED BY <1>3, <2>1 DEF RestartDevice, RInv, Registrars, Clocks, LinkFirst, Rest, registrarVars,
                              capsVars, historyVars
<1>4. QED BY <1>1, <1>2, <1>3

LEMMA FaultStep ==
  ASSUME RInv,
         \/ \E u \in Unit : RestartUnit(u) \/ \E d \in External : RemoveDevice(u, d)
         \/ \E n \in Node : Lose(n)
         \/ CalmDown
  PROVE  RInv'
<1>1. ASSUME NEW u \in Unit, RestartUnit(u) PROVE RInv'
  <2>1. Inboxes'
    BY <1>1, EmptySeq DEF RestartUnit, RInv, Inboxes
  <2>2. Registrars'
    BY <1>1, FreshRegistrar, CANAssumption DEF RestartUnit, RInv, Registrars
  <2>3. Clocks'
    BY <1>1, BootedClock, Numbers DEF RestartUnit, RInv, Clocks
  <2>4. LinkFirst'
    BY <1>1 DEF RestartUnit, RInv, LinkFirst
  <2>5. Rest'
    BY <1>1, Numbers DEF RestartUnit, RInv, Rest, externalVars, historyVars
  <2>6. QED BY <2>1, <2>2, <2>3, <2>4, <2>5 DEF RInv
<1>2. ASSUME NEW u \in Unit, NEW d \in External, RemoveDevice(u, d) PROVE RInv'
  <2> DEFINE k2 == [e \in DOMAIN known[u] \ {d} |-> known[u][e]]
  <2>1. known' = [known EXCEPT ![u] = k2] /\ next' = next
    BY <1>2 DEF RemoveDevice
  <2>2. Registrar(k2, next[u])
    BY FewerRegistered DEF RInv, Registrars
  <2> HIDE DEF k2
  <2>3. Registrars'
    BY <2>1, <2>2 DEF RInv, Registrars
  <2>4. Rest'
    BY <1>2 DEF RemoveDevice, RInv, Rest, externalVars, capsVars
  <2>5. QED BY <1>2, <2>3, <2>4 DEF RemoveDevice, RInv, Inboxes, Clocks, LinkFirst
<1>3. ASSUME NEW n \in Node, Lose(n) PROVE RInv'
  <2>1. Inboxes'
    BY <1>3, TakenType DEF Lose, RInv, Inboxes
  <2>2. Rest'
    BY <1>3 DEF Lose, Peer, RInv, Rest, externalVars, historyVars
  <2>3. QED BY <1>3, <2>1, <2>2 DEF Lose, RInv, Registrars, Clocks, LinkFirst, registrarVars
<1>4. CASE CalmDown
  BY <1>4 DEF CalmDown, RInv, Inboxes, Registrars, Clocks, LinkFirst, Rest, registrarVars, externalVars, capsVars
<1>5. QED BY <1>1, <1>2, <1>3, <1>4

LEMMA NextRInv == RInv /\ [Next]_vars => RInv'
<1> SUFFICES ASSUME RInv, [Next]_vars PROVE RInv'
  OBVIOUS
<1>1. ASSUME NEW u \in Unit, UnitReceives(u) PROVE RInv'
  BY <1>1, RegisterStep, CapsStep, SecondStep DEF UnitReceives
<1>2. ASSUME NEW u \in Unit, Tick(u) \/ \E f \in {"none", "own"} : SetFlarm(u, f) PROVE RInv'
  BY <1>2, TimerStep, CapsStep
<1>3. ASSUME NEW d \in External, Ask(d) \/ Hear(d) \/ RestartDevice(d) PROVE RInv'
  BY <1>3, ExternalStep
<1>4. CASE UNCHANGED vars
  BY <1>4 DEF vars, RInv, Inboxes, Registrars, Clocks, LinkFirst, Rest, registrarVars, externalVars, capsVars,
              historyVars
<1>5. QED BY <1>1, <1>2, <1>3, <1>4, FaultStep DEF Next, Fault

LEMMA Always == Spec => []RInv
BY InitRInv, NextRInv, PTL DEF Spec

-----------------------------------------------------------------------------
\* The variables keep their types: no registrar hands out an id beyond the
\* range of its priority, and the queue of the clock keeps within its array.
THEOREM TypeCorrect == Spec => []TypeOK
<1>1. RInv => TypeOK
  <2> SUFFICES ASSUME RInv PROVE TypeOK
    OBVIOUS
  <2>1. inbox \in [Node -> Seq(Msg)]
    <3>1. \A s \in Seq(Telegram) : s \in Seq(Msg)
      BY SeqMonotonic DEF Telegram
    <3>2. QED BY <3>1 DEF RInv, Inboxes
  <2>2. \A u \in Unit, p \in {1, 4} : next[u][p] \in Base[p]..Base[p] + 4 * Chunks
    BY SlotBounds, Numbers DEF RInv, Registrars, Registrar
  <2>3. link = Null \/ (link.listen \in Id /\ link.send = link.listen + 1)
    BY Numbers DEF RInv, LinkFirst
  <2>4. QED BY <2>1, <2>2, <2>3 DEF RInv, Registrars, Registrar, Clocks, Rest, TypeOK
<1>2. QED BY <1>1, Always, PTL

\* A registrar never has two devices on one id.
THEOREM IdsAlwaysDistinct == Spec => []IdsDistinct
<1>1. RInv => IdsDistinct
  BY DEF RInv, Registrars, Registrar, IdsDistinct
<1>2. QED BY <1>1, Always, PTL

\* The second unit listens where the master sends to and the other way round.
THEOREM LinkAlwaysAgrees == Spec => []LinkAgrees
<1>1. RInv => LinkAgrees
  BY Numbers DEF RInv, Registrars, Registrar, LinkFirst, LinkAgrees
<1>2. QED BY <1>1, Always, PTL

-----------------------------------------------------------------------------
(***************************************************************************)
(* No phantom Flarm.  As long as no user removes one, a Flarm is only ever *)
(* spoken of when some unit has one of its own: then it keeps it.  So      *)
(* either some unit has a Flarm, or no unit takes the other one for one    *)
(* and no query or answer on its way speaks of one.                        *)
(***************************************************************************)
Modest == {m \in Telegram : ~(m.dev = "xcv" /\ m.type \in {"reg", "acc"} /\ m.cap)}
NoRumour == \A u \in Unit : flarm[u] # "peer" /\ inbox[u] \in Seq(Modest)
OwnSomewhere == removed \cap Unit = {} => NoRumour \/ \E v \in Unit : flarm[v] = "own"

\* Inboxes that keep to a set of telegrams.
LEMMA DeliveredIn ==
  ASSUME NEW S, NEW box \in [Node -> Seq(Telegram)], NEW n \in Node, box[n] \in Seq(S),
         NEW ns, NEW m, n \in ns => m \in S
  PROVE  Delivered(box, ns, m)[n] \in Seq(S)
<1>1. Delivered(box, ns, m)[n] = IF n \in ns THEN Append(box[n], m) ELSE box[n]
  BY DEF Delivered
<1>2. n \in ns => Append(box[n], m) \in Seq(S)
  BY AppendProperties
<1>3. QED BY <1>1, <1>2

LEMMA TakenIn ==
  ASSUME NEW S, inbox \in [Node -> Seq(Telegram)], NEW n \in Node, inbox[n] \in Seq(S),
         NEW k \in Node, inbox[k] # <<>>
  PROVE  Taken(k)[n] \in Seq(S) /\ (n = k => Head(inbox[n]) \in S)
<1>1. Taken(k)[n] = IF n = k THEN Tail(inbox[n]) ELSE inbox[n]
  BY DEF Taken
<1>2. n = k => Tail(inbox[n]) \in Seq(S) /\ Head(inbox[n]) \in S
  BY HeadTailProperties
<1>3. QED BY <1>1, <1>2

LEMMA ModestTelegrams ==
  /\ \A d \in Device : Reg(d, FALSE) \in Modest /\ Nac(d) \in Modest
  /\ \A d \in Device, i \in Id : (d = "xcv" => i = Base[4]) => Acc(d, i, FALSE) \in Modest
  /\ Lor \in Modest /\ \A c \in BOOLEAN : Pcap(c) \in Modest
<1>1. \A d \in Device : Reg(d, FALSE).cap = FALSE /\ Nac(d).cap = FALSE
  BY DEF Reg, Nac
<1>2. \A d \in Device, i \in Id : Acc(d, i, FALSE).cap = FALSE
  BY DEF Acc
<1>3. Lor.cap = FALSE /\ \A c \in BOOLEAN : Pcap(c).type = "cap"
  BY DEF Lor, Pcap
<1>4. QED BY <1>1, <1>2, <1>3, Telegrams DEF Modest

\* Where nobody has a Flarm and nobody speaks of one, nobody takes one over.
LEMMA ModestDigest ==
  ASSUME NEW u \in Unit, NEW m \in Modest, m.dev = "xcv", m.type \in {"reg", "acc"}, NEW box,
         Digest(u, m.cap, box)
  PROVE  flarm' = flarm /\ inbox' = box
<1>1. ~m.cap
  BY DEF Modest
<1>2. QED BY <1>1 DEF Digest, TakesFlarm

LEMMA OwnStays ==
  ASSUME RInv, [Next]_vars, removed' \cap Unit = {}, NEW v \in Unit, flarm[v] = "own"
  PROVE  flarm'[v] = "own"
<1>f. flarm \in [Unit -> {"none", "own", "peer"}]
  BY DEF RInv, Rest
<1>0. ASSUME NEW u \in Unit, NEW cap, NEW box, Digest(u, cap, box) PROVE flarm'[v] = "own"
  BY <1>f, <1>0 DEF Digest, TakesFlarm, HasFlarm
<1>1. ASSUME NEW u \in Unit, Register(u) PROVE flarm'[v] = "own"
  <2>1. UNCHANGED capsVars \/ \E cap, box : Digest(u, cap, box)
    BY <1>1 DEF Register
  <2>2. QED BY <1>0, <2>1 DEF capsVars
<1>2. ASSUME NEW u \in Unit, ReceiveCap(u) PROVE flarm'[v] = "own"
  BY <1>2 DEF ReceiveCap
<1>3. ASSUME "second" \in Unit, Accepted PROVE flarm'[v] = "own"
  <2>1. flarm' = flarm \/ \E cap, box : Digest("second", cap, box)
    BY <1>3 DEF Accepted
  <2>2. QED BY <1>0, <1>3, <2>1
<1>4. ASSUME Rejected \/ RestartQuery \/ TickQuery PROVE flarm'[v] = "own"
  BY <1>4 DEF Rejected, RestartQuery, TickQuery, capsVars
<1>5. ASSUME NEW u \in Unit, Drain(u) \/ TickReregister(u) PROVE flarm'[v] = "own"
  BY <1>5 DEF Drain, TickReregister, capsVars
<1>6. ASSUME NEW u \in Unit, NEW f \in {"none", "own"}, SetFlarm(u, f) PROVE flarm'[v] = "own"
  <2>1. flarm' = [flarm EXCEPT ![u] = f] /\ (f = "none" => u \in removed')
    BY <1>6 DEF SetFlarm
  <2>2. QED BY <1>f, <2>1
<1>7. ASSUME NEW d \in External, Ask(d) \/ Hear(d) \/ RestartDevice(d) PROVE flarm'[v] = "own"
  BY <1>7 DEF Ask, Hear, RestartDevice, capsVars
<1>8. ASSUME NEW u \in Unit, RestartUnit(u) PROVE flarm'[v] = "own"
  BY <1>f, <1>8 DEF RestartUnit
<1>9. ASSUME NEW u \in Unit, NEW d \in External, RemoveDevice(u, d) PROVE flarm'[v] = "own"
  BY <1>9 DEF RemoveDevice, capsVars
<1>10. ASSUME NEW n \in Node, Lose(n) PROVE flarm'[v] = "own"
  BY <1>10 DEF Lose
<1>11. CASE CalmDown
  BY <1>11 DEF CalmDown, capsVars
<1>12. CASE UNCHANGED vars
  BY <1>12 DEF vars, capsVars
<1>13. ASSUME NEW u \in Unit, UnitReceives(u) \/ Tick(u) PROVE flarm'[v] = "own"
  BY <1>13, <1>1, <1>2, <1>3, <1>4, <1>5 DEF UnitReceives, Tick
<1>14. CASE Fault
  BY <1>14, <1>7, <1>8, <1>9, <1>10 DEF Fault
<1>15. QED BY <1>6, <1>7, <1>11, <1>12, <1>13, <1>14 DEF Next

LEMMA GrantIsId ==
  ASSUME RInv, NEW u \in Unit, NEW d \in Device, ~(d \notin DOMAIN known[u] /\ Exhausted(u, Prio(d)))
  PROVE  Grant(u, d) \in Id /\ (d = "xcv" => Grant(u, d) = Base[4])
<1> DEFINE ch == Grant(u, d)
           k2 == Added(known[u], d, ch)
           s2 == IF ch = next[u][Prio(d)] THEN [next[u] EXCEPT ![Prio(d)] = @ + 4] ELSE next[u]
<1>1. d \in DOMAIN known[u] \/ next[u][Prio(d)] # Base[Prio(d)] + 4 * Chunks
  BY DEF Exhausted
<1>2. ch = IF d \in DOMAIN known[u] THEN known[u][d] ELSE next[u][Prio(d)]
  BY DEF Grant
<1>3. Registrar(known[u], next[u])
  BY DEF RInv, Registrars
<1> HIDE DEF ch
<1>4. Registrar(k2, s2) /\ ch \in Id /\ (d = "xcv" => ch = Base[4])
  BY <1>1, <1>2, <1>3, Granted
<1>5. QED BY <1>4 DEF ch

\* No step starts the rumour.
LEMMA NoRumourStep ==
  ASSUME RInv, NoRumour, [Next]_vars, \A v \in Unit : flarm[v] # "own" /\ flarm'[v] # "own"
  PROVE  NoRumour'
<1>f. /\ flarm \in [Unit -> {"none", "own", "peer"}] /\ \A v \in Unit : ~HasFlarm(v)
      /\ inbox \in [Node -> Seq(Telegram)] /\ Unit \subseteq Node /\ External \cap Unit = {}
  BY Numbers, CANAssumption DEF RInv, Rest, Inboxes, HasFlarm, NoRumour, Node
<1>m. \A v \in Unit : flarm[v] # "peer" /\ inbox[v] \in Seq(Modest)
  BY DEF NoRumour
<1>t. ASSUME NEW n \in Node, inbox[n] # <<>>
      PROVE  /\ Taken(n) \in [Node -> Seq(Telegram)] /\ Head(inbox[n]) \in Telegram
             /\ \A v \in Unit : Taken(n)[v] \in Seq(Modest) /\ (n = v => Head(inbox[n]) \in Modest)
  BY <1>f, <1>m, <1>t, TakenType, TakenIn DEF RInv
<1>q. Reg("xcv", FALSE) \in Modest /\ Lor \in Modest /\ \A c \in BOOLEAN : Pcap(c) \in Modest
  BY ModestTelegrams DEF Device
<1>s. ASSUME UNCHANGED <<flarm, inbox>> PROVE NoRumour'
  BY <1>m, <1>s DEF NoRumour
<1>b. ASSUME NEW box \in [Node -> Seq(Telegram)], \A v \in Unit : box[v] \in Seq(Modest),
             NEW ns, NEW m \in Modest, flarm' = flarm, inbox' = Delivered(box, ns, m)
      PROVE  NoRumour'
  <2>1. \A v \in Unit : Delivered(box, ns, m)[v] \in Seq(Modest)
    BY <1>b, <1>f, DeliveredIn
  <2>2. QED BY <1>m, <1>b, <2>1 DEF NoRumour
<1>k. ASSUME NEW n \in Node, inbox[n] # <<>>, flarm' = flarm, inbox' = Taken(n) PROVE NoRumour'
  BY <1>m, <1>t, <1>k DEF NoRumour
<1>1. ASSUME NEW u \in Unit, Register(u) PROVE NoRumour'
  <2> DEFINE m == Head(inbox[u])
             d == m.dev
             ch == Grant(u, d)
  <2>1. inbox[u] # <<>> /\ m \in Modest /\ m \in Telegram /\ m.type = "reg" /\ u \in Node
    BY <1>1, <1>f, <1>t DEF Register, Got
  <2>2. d \in Device
    BY <2>1, TelegramFields
  <2>3. CASE d \notin DOMAIN known[u] /\ Exhausted(u, Prio(d))
    <3>1. inbox' = Delivered(Taken(u), Answered(u, d), Nac(d)) /\ flarm' = flarm
      BY <1>1, <2>3 DEF Register, capsVars
    <3>2. Nac(d) \in Modest
      BY <2>2, ModestTelegrams
    <3>3. QED BY <1>b, <1>t, <2>1, <3>1, <3>2
  <2>4. CASE ~(d \notin DOMAIN known[u] /\ Exhausted(u, Prio(d)))
    <3> DEFINE a == Acc(d, ch, d = "xcv" /\ HasFlarm(u))
               box == Delivered(Taken(u), Answered(u, d), a)
    <3>1. \/ d = "xcv" /\ Digest(u, m.cap, box)
          \/ inbox' = box /\ UNCHANGED capsVars
      BY <1>1, <2>4 DEF Register
    <3>2. flarm' = flarm /\ inbox' = box
      BY <2>1, <3>1, ModestDigest DEF capsVars
    <3>3. (d = "xcv" /\ HasFlarm(u)) = FALSE
      BY <1>f
    <3>4. ch \in Id /\ (d = "xcv" => ch = Base[4])
      BY <2>2, <2>4, GrantIsId
    <3> HIDE DEF ch
    <3>5. a \in Modest
      BY <2>2, <3>3, <3>4, ModestTelegrams
    <3> HIDE DEF a
    <3>6. QED BY <1>b, <1>t, <2>1, <3>2, <3>5
  <2>5. QED BY <2>3, <2>4
<1>2. ASSUME NEW u \in Unit, ReceiveCap(u) PROVE NoRumour'
  BY <1>2, <1>f, <1>k DEF ReceiveCap, Got
<1>3. ASSUME "second" \in Unit, Accepted PROVE NoRumour'
  <2> DEFINE m == Head(inbox["second"])
  <2>1. inbox["second"] # <<>> /\ m \in Modest /\ m.type = "acc" /\ "second" \in Node
    BY <1>3, <1>f, <1>t DEF Accepted, Got
  <2>2. flarm' = flarm /\ inbox' = Taken("second")
    <3>1. CASE ForMe(m)
      <4>1. m.dev = "xcv" /\ Digest("second", m.cap, Taken("second"))
        BY <1>3, <3>1 DEF Accepted, ForMe
      <4>2. QED BY <1>3, <2>1, <4>1, ModestDigest
    <3>2. CASE ~ForMe(m)
      BY <1>3, <3>2 DEF Accepted
    <3>3. QED BY <3>1, <3>2
  <2>3. QED BY <1>k, <2>1, <2>2
<1>4. ASSUME "second" \in Unit, Rejected PROVE NoRumour'
  BY <1>4, <1>f, <1>k DEF Rejected, Got, capsVars
<1>5. ASSUME "second" \in Unit, RestartQuery PROVE NoRumour'
  <2>1. /\ inbox["second"] # <<>> /\ flarm' = flarm
        /\ inbox' = Delivered(Taken("second"), {"master"}, Reg("xcv", HasFlarm("second")))
    BY <1>5 DEF RestartQuery, Got
  <2>2. HasFlarm("second") = FALSE
    BY <1>5, <1>f DEF HasFlarm
  <2>3. QED BY <1>5, <1>b, <1>f, <1>q, <1>t, <2>1, <2>2
<1>6. ASSUME "second" \in Unit, TickQuery PROVE NoRumour'
  <2>1. flarm' = flarm /\ inbox' = Delivered(inbox, {"master"}, Reg("xcv", HasFlarm("second")))
    BY <1>6 DEF TickQuery
  <2>2. HasFlarm("second") = FALSE
    BY <1>6, <1>f DEF HasFlarm
  <2>3. QED BY <1>b, <1>f, <1>m, <1>q, <2>1, <2>2
<1>7. ASSUME NEW u \in Unit, Drain(u) PROVE NoRumour'
  BY <1>7, <1>s DEF Drain, capsVars
<1>8. ASSUME NEW u \in Unit, TickReregister(u) PROVE NoRumour'
  <2>1. flarm' = flarm /\ inbox' = Delivered(inbox, Reregistered(u), Lor)
    BY <1>8 DEF TickReregister, capsVars
  <2>2. QED BY <1>b, <1>f, <1>m, <1>q, <2>1
<1>9. ASSUME NEW u \in Unit, NEW f \in {"none", "own"}, SetFlarm(u, f) PROVE NoRumour'
  \* Nobody has one to remove, and nobody has one afterwards.
  <2>1. flarm' = [flarm EXCEPT ![u] = f] /\ (f = "none" => HasFlarm(u))
    BY <1>9 DEF SetFlarm
  <2>2. flarm'[u] = f
    BY <1>f, <2>1
  <2>3. QED BY <1>f, <2>1, <2>2
<1>10. ASSUME NEW d \in External, Ask(d) PROVE NoRumour'
  <2>1. flarm' = flarm /\ inbox' = Delivered(inbox, Unit, Reg(d, FALSE)) /\ d \in Device
    BY <1>10 DEF Ask, capsVars, Device
  <2>2. Reg(d, FALSE) \in Modest
    BY <2>1, ModestTelegrams
  <2>3. QED BY <1>b, <1>f, <1>m, <2>1, <2>2
<1>11. ASSUME NEW d \in External, Hear(d) PROVE NoRumour'
  BY <1>11, <1>k DEF Hear, capsVars, Node
<1>12. ASSUME NEW n \in Node, NEW S, flarm' \in [Unit -> S], "peer" \notin S, inbox' = [inbox EXCEPT ![n] = <<>>]
       PROVE  NoRumour'
  BY <1>f, <1>m, <1>12, EmptySeq DEF NoRumour
<1>13. ASSUME NEW d \in External, RestartDevice(d) PROVE NoRumour'
  <2>1. flarm' = flarm /\ inbox' = [inbox EXCEPT ![d] = <<>>] /\ flarm \in [Unit -> {"none", "own"}] /\ d \in Node
    BY <1>13, <1>f, <1>m DEF RestartDevice, capsVars, Node
  <2>2. QED BY <1>12, <2>1
<1>14. ASSUME NEW u \in Unit, RestartUnit(u) PROVE NoRumour'
  <2>1. flarm' = [flarm EXCEPT ![u] = IF @ = "own" THEN "own" ELSE "none"] /\ inbox' = [inbox EXCEPT ![u] = <<>>]
    BY <1>14 DEF RestartUnit
  <2>2. flarm' \in [Unit -> {"none", "own"}]
    BY <1>f, <1>m, <2>1
  <2>3. QED BY <1>12, <1>f, <2>1, <2>2
<1>15. ASSUME NEW u \in Unit, NEW d \in External, RemoveDevice(u, d) PROVE NoRumour'
  BY <1>15, <1>s DEF RemoveDevice, capsVars
<1>16. ASSUME NEW n \in Node, Lose(n) PROVE NoRumour'
  BY <1>16, <1>k DEF Lose
<1>17. CASE CalmDown \/ UNCHANGED vars
  BY <1>17, <1>s DEF CalmDown, capsVars, vars
<1>18. ASSUME NEW u \in Unit, UnitReceives(u) \/ Tick(u) PROVE NoRumour'
  BY <1>18, <1>1, <1>2, <1>3, <1>4, <1>5, <1>6, <1>7, <1>8 DEF UnitReceives, Tick
<1>19. CASE Fault
  BY <1>19, <1>13, <1>14, <1>15, <1>16 DEF Fault
<1>20. QED BY <1>9, <1>10, <1>11, <1>17, <1>18, <1>19 DEF Next

LEMMA RemovedGrows ==
  ASSUME [Next]_vars
  PROVE  removed \subseteq removed'
<1>1. ASSUME NEW u \in Unit, UnitReceives(u) \/ Tick(u) PROVE removed \subseteq removed'
  BY <1>1 DEF UnitReceives, Tick, Register, ReceiveCap, Accepted, Rejected, RestartQuery, Drain, TickReregister,
              TickQuery, historyVars
<1>2. ASSUME NEW u \in Unit, NEW f \in {"none", "own"}, SetFlarm(u, f) PROVE removed \subseteq removed'
  BY <1>2 DEF SetFlarm
<1>3. CASE Fault
  BY <1>3 DEF Fault, RestartUnit, RemoveDevice, RestartDevice, Lose, historyVars
<1>4. CASE CalmDown \/ UNCHANGED vars \/ \E d \in External : Ask(d) \/ Hear(d)
  BY <1>4 DEF CalmDown, Ask, Hear, vars, historyVars
<1>5. QED BY <1>1, <1>2, <1>3, <1>4 DEF Next

LEMMA OwnSomewhereStep ==
  ASSUME RInv, OwnSomewhere, [Next]_vars
  PROVE  OwnSomewhere'
<1> SUFFICES ASSUME removed' \cap Unit = {}, \A v \in Unit : flarm'[v] # "own" PROVE NoRumour'
  BY DEF OwnSomewhere
<1>1. removed \cap Unit = {}
  BY RemovedGrows
<1>2. \A v \in Unit : flarm[v] # "own"
  BY OwnStays
<1>3. NoRumour
  BY <1>1, <1>2 DEF OwnSomewhere
<1>4. QED BY <1>2, <1>3, NoRumourStep

LEMMA InitOwnSomewhere == Init => OwnSomewhere
BY EmptySeq, Numbers DEF Init, OwnSomewhere, NoRumour, Node

LEMMA AlwaysOwnSomewhere == Spec => []OwnSomewhere
BY InitOwnSomewhere, OwnSomewhereStep, Always, PTL DEF Spec

\* A unit takes the other one for a Flarm only if that one has a Flarm of its
\* own, as long as no user removed a Flarm; never do the two take each other
\* for one, whatever is lost or crosses, and whoever restarts.
THEOREM PhantomNever == Spec => []NoPhantomFlarm
<1>1. OwnSomewhere => NoPhantomFlarm
  <2> SUFFICES ASSUME OwnSomewhere, removed \cap Unit = {}, NEW u \in Unit, NEW v \in Unit, u # v, flarm[u] = "peer"
               PROVE  flarm[v] = "own"
    BY DEF NoPhantomFlarm
  <2>1. PICK w \in Unit : flarm[w] = "own"
    BY DEF OwnSomewhere, NoRumour
  <2>2. w = v
    BY <2>1, Numbers
  <2>3. QED BY <2>1, <2>2
<1>2. QED BY <1>1, AlwaysOwnSomewhere, PTL

-----------------------------------------------------------------------------
(***************************************************************************)
(* What the units know of each other.  Unless one was not told, the last   *)
(* telegram on its way that tells it has the truth; and when none is, then *)
(* the truth is what it knows, if there is a sync plug-in at all: one that *)
(* is added comes with a query or an answer that tells.  Queries of the    *)
(* second unit only ever reach the master.                                 *)
(***************************************************************************)
Says(l, s, h) ==
  \A i \in DOMAIN s : Tells(l, s[i]) /\ (\A j \in DOMAIN s : j > i => ~Tells(l, s[j])) => s[i].cap = h
Silent(l, s) == \A i \in DOMAIN s : ~Tells(l, s[i])
Heard(l, s, synced, cap, h) == Says(l, s, h) /\ (Silent(l, s) /\ synced => cap = h)

NoQuery == {m \in Telegram : ~(m.type = "reg" /\ m.dev = "xcv")}
QueriesAtMaster == "second" \in Unit => inbox["second"] \in Seq(NoQuery)

Aware(l, t) == t \notin missed => Heard(l, inbox[l], Synced(l), peerCap[l], HasFlarm(t))
AllAware == \A l, t \in Unit : l # t => Aware(l, t)

LEMMA HeardAppend ==
  ASSUME NEW l, NEW s \in Seq(Telegram), NEW m \in Telegram, NEW synced, NEW cap, NEW h
  PROVE  /\ Tells(l, m) /\ m.cap = h => Heard(l, Append(s, m), synced, cap, h)
         /\ ~Tells(l, m) /\ Heard(l, s, synced, cap, h) => Heard(l, Append(s, m), synced, cap, h)
<1> DEFINE b == Append(s, m)
           n == Len(s) + 1
<1>1. /\ Len(s) \in Nat /\ DOMAIN s = 1..Len(s) /\ DOMAIN b = 1..n
      /\ b[n] = m /\ \A i \in 1..Len(s) : b[i] = s[i]
  BY AppendProperties
<1> HIDE DEF b
<1>2. ASSUME Tells(l, m), m.cap = h PROVE Heard(l, b, synced, cap, h)
  <2>1. n \in DOMAIN b /\ Tells(l, b[n])
    BY <1>1, <1>2
  <2>2. ~Silent(l, b)
    BY <2>1 DEF Silent
  <2>3. ASSUME NEW i \in DOMAIN b, \A j \in DOMAIN b : j > i => ~Tells(l, b[j]) PROVE b[i].cap = h
    <3>1. ~(n > i)
      BY <2>1, <2>3
    <3>2. i = n
      BY <1>1, <3>1
    <3>3. QED BY <1>1, <1>2, <3>2
  <2>4. QED BY <2>2, <2>3 DEF Heard, Says
<1>3. ASSUME ~Tells(l, m), Heard(l, s, synced, cap, h) PROVE Heard(l, b, synced, cap, h)
  <2>1. Silent(l, b) => Silent(l, s)
    BY <1>1 DEF Silent
  <2>2. ASSUME NEW i \in DOMAIN b, Tells(l, b[i]), \A j \in DOMAIN b : j > i => ~Tells(l, b[j]) PROVE b[i].cap = h
    <3>1. i \in DOMAIN s /\ b[i] = s[i]
      BY <1>1, <1>3, <2>2
    <3>2. ASSUME NEW j \in DOMAIN s, j > i PROVE ~Tells(l, s[j])
      BY <1>1, <2>2, <3>2
    <3>3. QED BY <1>3, <2>2, <3>1, <3>2 DEF Heard, Says
  <2>3. QED BY <1>3, <2>1, <2>2 DEF Heard, Says
<1>4. QED BY <1>2, <1>3 DEF b

LEMMA HeardTail ==
  ASSUME NEW l, NEW s \in Seq(Telegram), s # <<>>, NEW synced, NEW cap, NEW h, Heard(l, s, synced, cap, h)
  PROVE  /\ ~Tells(l, Head(s)) => Heard(l, Tail(s), synced, cap, h)
         /\ \A synced2, cap2 : Tells(l, Head(s)) /\ (synced2 => cap2 = Head(s).cap)
                                 => Heard(l, Tail(s), synced2, cap2, h)
<1> DEFINE b == Tail(s)
<1>1. /\ Len(s) \in Nat \ {0} /\ DOMAIN s = 1..Len(s) /\ DOMAIN b = 1..Len(s) - 1
      /\ Head(s) = s[1] /\ \A i \in 1..Len(s) - 1 : b[i] = s[i + 1]
  <2>1. Len(s) \in Nat \ {0} /\ b \in Seq(Telegram) /\ Len(b) = Len(s) - 1 /\ \A i \in 1..Len(b) : b[i] = s[i + 1]
    BY HeadTailProperties
  <2>2. QED BY <2>1
<1> HIDE DEF b
<1>2. Says(l, b, h)
  <2> SUFFICES ASSUME NEW i \in DOMAIN b, Tells(l, b[i]), \A j \in DOMAIN b : j > i => ~Tells(l, b[j])
               PROVE  b[i].cap = h
    BY DEF Says
  <2>1. i + 1 \in DOMAIN s /\ b[i] = s[i + 1]
    BY <1>1
  <2>2. ASSUME NEW j \in DOMAIN s, j > i + 1 PROVE ~Tells(l, s[j])
    <3>1. j - 1 \in DOMAIN b /\ j - 1 > i /\ b[j - 1] = s[j]
      BY <1>1, <2>2
    <3>2. QED BY <3>1
  <2>3. QED BY <2>1, <2>2 DEF Heard, Says
<1>3. ASSUME Silent(l, b), NEW j \in DOMAIN s, j > 1 PROVE ~Tells(l, s[j])
  <2>1. j - 1 \in DOMAIN b /\ b[j - 1] = s[j]
    BY <1>1, <1>3
  <2>2. QED BY <1>3, <2>1 DEF Silent
<1>4. ASSUME ~Tells(l, Head(s)), Silent(l, b) PROVE Silent(l, s)
  BY <1>1, <1>3, <1>4 DEF Silent
<1>5. ASSUME Tells(l, Head(s)), Silent(l, b) PROVE Head(s).cap = h
  <2>1. 1 \in DOMAIN s
    BY <1>1
  <2>2. QED BY <1>1, <1>3, <1>5, <2>1 DEF Heard, Says
<1>6. QED BY <1>2, <1>4, <1>5 DEF Heard, b

\* Nobody told a unit without a sync plug-in anything yet.
LEMMA HeardNothing ==
  ASSUME NEW l, NEW synced, ~synced, NEW cap, NEW h
  PROVE  Heard(l, <<>>, synced, cap, h)
BY DEF Heard, Says

LEMMA Tellers ==
  /\ \A l, c : Tells(l, Pcap(c)) /\ Pcap(c).cap = c
  /\ \A c : Tells("master", Reg("xcv", c)) /\ ~Tells("second", Reg("xcv", c)) /\ Reg("xcv", c).cap = c
  /\ \A i, c : Tells("second", Acc("xcv", i, c)) /\ ~Tells("master", Acc("xcv", i, c)) /\ Acc("xcv", i, c).cap = c
  /\ \A l, d : ~Tells(l, Nac(d)) /\ ~Tells(l, Lor)
  /\ \A l, d, i, c : d # "xcv" => ~Tells(l, Reg(d, c)) /\ ~Tells(l, Acc(d, i, c))
<1>1. \A l, c : Tells(l, Pcap(c)) /\ Pcap(c).cap = c
  BY DEF Tells, Pcap
<1>2. \A c : Tells("master", Reg("xcv", c)) /\ ~Tells("second", Reg("xcv", c)) /\ Reg("xcv", c).cap = c
  BY DEF Tells, Reg
<1>3. \A i, c : Tells("second", Acc("xcv", i, c)) /\ ~Tells("master", Acc("xcv", i, c)) /\ Acc("xcv", i, c).cap = c
  BY DEF Tells, Acc
<1>4. \A l, d : ~Tells(l, Nac(d)) /\ ~Tells(l, Lor)
  BY DEF Tells, Nac, Lor
<1>5. \A l, d, i, c : d # "xcv" => ~Tells(l, Reg(d, c)) /\ ~Tells(l, Acc(d, i, c))
  BY DEF Tells, Reg, Acc
<1>6. QED BY <1>1, <1>2, <1>3, <1>4, <1>5

LEMMA NoQueries ==
  /\ \A d \in External : Reg(d, FALSE) \in NoQuery
  /\ \A d \in Device : Nac(d) \in NoQuery
  /\ \A d \in Device, i \in Id, c \in BOOLEAN : (d = "xcv" => i = Base[4]) => Acc(d, i, c) \in NoQuery
  /\ Lor \in NoQuery /\ \A c \in BOOLEAN : Pcap(c) \in NoQuery
<1>1. \A d \in External : Reg(d, FALSE).dev # "xcv" /\ d \in Device
  BY Numbers DEF Reg, Device
<1>2. /\ \A d : Nac(d).type # "reg"
      /\ \A d, i, c : Acc(d, i, c).type # "reg"
      /\ Lor.type # "reg" /\ \A c : Pcap(c).type # "reg"
  BY DEF Nac, Acc, Lor, Pcap
<1>3. QED BY <1>1, <1>2, Telegrams DEF NoQuery

LEMMA QueriesAtMasterStep ==
  ASSUME RInv, QueriesAtMaster, [Next]_vars
  PROVE  QueriesAtMaster'
<1> SUFFICES ASSUME "second" \in Unit PROVE inbox'["second"] \in Seq(NoQuery)
  BY DEF QueriesAtMaster
<1>f. /\ inbox \in [Node -> Seq(Telegram)] /\ Unit \subseteq Node /\ External \subseteq Node
      /\ "second" \in Node /\ inbox["second"] \in Seq(NoQuery)
      /\ \A c \in BOOLEAN : Pcap(c) \in NoQuery
  BY NoQueries DEF RInv, Inboxes, Node, QueriesAtMaster
<1>b. ASSUME NEW box \in [Node -> Seq(Telegram)], box["second"] \in Seq(NoQuery), NEW ns, NEW m,
             "second" \in ns => m \in NoQuery
      PROVE  Delivered(box, ns, m)["second"] \in Seq(NoQuery)
  BY <1>f, <1>b, DeliveredIn
<1>t. ASSUME NEW n \in Node, inbox[n] # <<>>
      PROVE  /\ Taken(n) \in [Node -> Seq(Telegram)] /\ Taken(n)["second"] \in Seq(NoQuery)
             /\ Head(inbox[n]) \in Telegram
  BY <1>f, <1>t, TakenType, TakenIn DEF RInv
<1>d. ASSUME NEW u, NEW cap, NEW box \in [Node -> Seq(Telegram)], box["second"] \in Seq(NoQuery), Digest(u, cap, box)
      PROVE  inbox'["second"] \in Seq(NoQuery)
  BY <1>f, <1>b, <1>d DEF Digest, Announced
<1>1. ASSUME NEW u \in Unit, Register(u) PROVE inbox'["second"] \in Seq(NoQuery)
  <2> DEFINE m == Head(inbox[u])
             d == m.dev
             ch == Grant(u, d)
  <2>1. inbox[u] # <<>> /\ m \in Telegram /\ m.type = "reg" /\ u \in Node /\ d \in Device
    BY <1>1, <1>f, <1>t, TelegramFields DEF Register, Got
  <2>2. CASE d \notin DOMAIN known[u] /\ Exhausted(u, Prio(d))
    <3>1. inbox' = Delivered(Taken(u), Answered(u, d), Nac(d)) /\ Nac(d) \in NoQuery
      BY <1>1, <2>1, <2>2, NoQueries DEF Register
    <3>2. QED BY <1>b, <1>t, <2>1, <3>1
  <2>3. CASE ~(d \notin DOMAIN known[u] /\ Exhausted(u, Prio(d)))
    <3> DEFINE a == Acc(d, ch, d = "xcv" /\ HasFlarm(u))
               box == Delivered(Taken(u), Answered(u, d), a)
    <3>1. Digest(u, m.cap, box) \/ inbox' = box
      BY <1>1, <2>3 DEF Register
    <3>2. ch \in Id /\ (d = "xcv" => ch = Base[4]) /\ (d = "xcv" /\ HasFlarm(u)) \in BOOLEAN
      BY <2>1, <2>3, GrantIsId DEF HasFlarm
    <3> HIDE DEF ch
    <3>3. a \in NoQuery /\ a \in Telegram
      BY <2>1, <3>2, NoQueries DEF NoQuery
    <3> HIDE DEF a
    <3>4. box \in [Node -> Seq(Telegram)] /\ box["second"] \in Seq(NoQuery)
      BY <1>b, <1>t, <2>1, <3>3, DeliveredType
    <3> HIDE DEF box
    <3>5. QED BY <1>d, <3>1, <3>4
  <2>4. QED BY <2>2, <2>3
<1>2. ASSUME NEW u \in Unit, ReceiveCap(u) PROVE inbox'["second"] \in Seq(NoQuery)
  BY <1>2, <1>f, <1>t DEF ReceiveCap, Got
<1>3. ASSUME Accepted PROVE inbox'["second"] \in Seq(NoQuery)
  <2>1. /\ inbox["second"] # <<>>
        /\ inbox' = Taken("second") \/ \E cap : Digest("second", cap, Taken("second"))
    BY <1>3 DEF Accepted, Got
  <2>2. QED BY <1>d, <1>f, <1>t, <2>1
<1>4. ASSUME Rejected PROVE inbox'["second"] \in Seq(NoQuery)
  BY <1>4, <1>f, <1>t DEF Rejected, Got
<1>5. ASSUME RestartQuery PROVE inbox'["second"] \in Seq(NoQuery)
  <2>1. /\ inbox["second"] # <<>>
        /\ inbox' = Delivered(Taken("second"), {"master"}, Reg("xcv", HasFlarm("second")))
    BY <1>5 DEF RestartQuery, Got
  <2>2. QED BY <1>b, <1>f, <1>t, <2>1
<1>6. ASSUME TickQuery PROVE inbox'["second"] \in Seq(NoQuery)
  BY <1>6, <1>b, <1>f DEF TickQuery
<1>7. ASSUME NEW u \in Unit, TickReregister(u) PROVE inbox'["second"] \in Seq(NoQuery)
  BY <1>7, <1>b, <1>f, NoQueries DEF TickReregister
<1>8. ASSUME NEW u \in Unit, NEW f \in {"none", "own"}, SetFlarm(u, f) PROVE inbox'["second"] \in Seq(NoQuery)
  <2>1. inbox' = inbox \/ inbox' = Announced(u, f # "none", inbox)
    BY <1>8 DEF SetFlarm
  <2>2. QED BY <1>b, <1>f, <2>1 DEF Announced
<1>9. ASSUME NEW d \in External, Ask(d) PROVE inbox'["second"] \in Seq(NoQuery)
  BY <1>9, <1>b, <1>f, NoQueries DEF Ask
<1>10. ASSUME NEW d \in External, Hear(d) PROVE inbox'["second"] \in Seq(NoQuery)
  BY <1>10, <1>f, <1>t DEF Hear
<1>11. ASSUME NEW n \in Node, inbox' = [inbox EXCEPT ![n] = <<>>] PROVE inbox'["second"] \in Seq(NoQuery)
  BY <1>11, <1>f, EmptySeq
<1>12. ASSUME Fault PROVE inbox'["second"] \in Seq(NoQuery)
  <2>1. ASSUME NEW u \in Unit, RestartUnit(u) PROVE inbox'["second"] \in Seq(NoQuery)
    BY <1>11, <1>f, <2>1 DEF RestartUnit
  <2>2. ASSUME NEW u \in Unit, NEW d \in External, RemoveDevice(u, d) PROVE inbox'["second"] \in Seq(NoQuery)
    BY <1>f, <2>2 DEF RemoveDevice
  <2>3. ASSUME NEW d \in External, RestartDevice(d) PROVE inbox'["second"] \in Seq(NoQuery)
    BY <1>11, <1>f, <2>3 DEF RestartDevice
  <2>4. ASSUME NEW n \in Node, Lose(n) PROVE inbox'["second"] \in Seq(NoQuery)
    BY <1>t, <2>4 DEF Lose
  <2>5. QED BY <1>12, <2>1, <2>2, <2>3, <2>4 DEF Fault
<1>13. ASSUME CalmDown \/ UNCHANGED vars \/ \E u \in Unit : Drain(u) PROVE inbox'["second"] \in Seq(NoQuery)
  BY <1>13, <1>f DEF CalmDown, vars, Drain
<1>14. ASSUME NEW u \in Unit, UnitReceives(u) \/ Tick(u) PROVE inbox'["second"] \in Seq(NoQuery)
  BY <1>14, <1>1, <1>2, <1>3, <1>4, <1>5, <1>6, <1>7, <1>13 DEF UnitReceives, Tick
<1>15. QED BY <1>8, <1>9, <1>10, <1>12, <1>13, <1>14 DEF Next

\* Every step leaves l aware of the Flarm of t, or t among those that missed
\* to tell.
LEMMA AwareStep ==
  ASSUME RInv, QueriesAtMaster, NEW l \in Unit, NEW t \in Unit, l # t, Aware(l, t), [Next]_vars
  PROVE  Aware(l, t)'
<1> DEFINE Told(s) == Heard(l, s, Synced(l), peerCap[l], HasFlarm(t))
           Goal == Heard(l, inbox'[l], Synced(l)', peerCap'[l], HasFlarm(t)')
<1> SUFFICES ASSUME t \notin missed' PROVE Goal
  BY DEF Aware
<1>f. /\ inbox \in [Node -> Seq(Telegram)] /\ Unit \subseteq Node /\ External \subseteq Node
      /\ l \in Node /\ t \in Node /\ inbox[l] \in Seq(Telegram)
      /\ flarm \in [Unit -> {"none", "own", "peer"}] /\ peerCap \in [Unit -> BOOLEAN]
      /\ DOMAIN known = Unit
      /\ Peer(t) = l /\ Peer(l) = t /\ "master" \in Unit /\ "second" \in Unit
      /\ (l = "master" /\ t = "second") \/ (l = "second" /\ t = "master")
      /\ l \notin External /\ "xcv" \notin External /\ Unit = {l, t}
  BY Numbers, CANAssumption DEF RInv, Inboxes, Rest, Registrars, Node, Peer
<1>a. t \notin missed => Told(inbox[l])
  BY DEF Aware
<1>q. \A c \in BOOLEAN : Pcap(c) \in Telegram /\ Reg("xcv", c) \in Telegram
  BY Telegrams DEF Device
<1>s. ASSUME Told(inbox'[l]), UNCHANGED <<known, link>> \/ Synced(l)' = Synced(l),
             peerCap'[l] = peerCap[l], flarm'[t] = flarm[t]
      PROVE  Goal
  <2>1. Synced(l)' = Synced(l)
    BY <1>s DEF Synced
  <2>2. HasFlarm(t)' = HasFlarm(t)
    BY <1>s DEF HasFlarm
  <2>3. QED BY <1>s, <2>1, <2>2
<1>u. ASSUME UNCHANGED <<known, link, peerCap, flarm>>, Told(inbox'[l]) PROVE Goal
  BY <1>s, <1>u
<1>w. ASSUME NEW s \in Seq(Telegram), NEW m \in Telegram, Tells(l, m), m.cap = HasFlarm(t)', inbox'[l] = Append(s, m)
      PROVE  Goal
  BY <1>w, HeardAppend
<1>b. ASSUME NEW box \in [Node -> Seq(Telegram)], NEW ns, NEW m \in Telegram, ~Tells(l, m), Told(box[l])
      PROVE  Told(Delivered(box, ns, m)[l])
  <2>1. Delivered(box, ns, m)[l] = IF l \in ns THEN Append(box[l], m) ELSE box[l]
    BY <1>f DEF Delivered
  <2>2. box[l] \in Seq(Telegram)
    BY <1>f
  <2>3. QED BY <1>b, <2>1, <2>2, HeardAppend
<1>t. ASSUME NEW n \in Node, inbox[n] # <<>>
      PROVE  /\ Taken(n) \in [Node -> Seq(Telegram)] /\ Head(inbox[n]) \in Telegram
             /\ Taken(n)[l] = IF n = l THEN Tail(inbox[l]) ELSE inbox[l]
  BY <1>f, <1>t, TakenType DEF RInv, Taken
<1>k. ASSUME NEW n \in Node, inbox[n] # <<>>, n = l => ~Tells(l, Head(inbox[l])), t \notin missed
      PROVE  Told(Taken(n)[l])
  BY <1>a, <1>f, <1>k, <1>t, HeardTail
<1>h. ASSUME inbox[l] # <<>>, Tells(l, Head(inbox[l])), inbox'[l] = Tail(inbox[l]),
             Synced(l)' => peerCap'[l] = Head(inbox[l]).cap, flarm'[t] = flarm[t], t \notin missed
      PROVE  Goal
  <2>1. HasFlarm(t)' = HasFlarm(t)
    BY <1>h DEF HasFlarm
  <2>2. Told(inbox[l])
    BY <1>a, <1>h
  <2>3. Heard(l, Tail(inbox[l]), Synced(l)', peerCap'[l], HasFlarm(t))
    BY <1>f, <1>h, <2>2, HeardTail
  <2>4. QED BY <1>h, <2>1, <2>3
<1>dt. ASSUME NEW box \in [Node -> Seq(Telegram)], NEW cap, Digest(t, cap, box),
              Heard(l, box[l], Synced(l)', peerCap[l], HasFlarm(t))
       PROVE  Goal
  <2>1. peerCap'[l] = peerCap[l] /\ box[l] \in Seq(Telegram)
    BY <1>dt, <1>f DEF Digest
  <2>2. CASE flarm' = [flarm EXCEPT ![t] = "peer"] /\ inbox' = Delivered(box, {l}, Pcap(TRUE))
    <3>1. HasFlarm(t)' = TRUE
      BY <1>f, <2>2 DEF HasFlarm
    <3>2. inbox'[l] = Append(box[l], Pcap(TRUE))
      BY <1>f, <2>2 DEF Delivered
    <3>3. QED BY <1>q, <1>w, <2>1, <3>1, <3>2, Tellers
  <2>3. CASE flarm' = flarm /\ inbox' = box
    BY <1>dt, <2>1, <2>3 DEF HasFlarm
  <2>4. QED BY <1>dt, <1>f, <2>2, <2>3 DEF Digest, Announced
<1>dl. ASSUME NEW box \in [Node -> Seq(Telegram)], NEW cap, Digest(l, cap, box)
       PROVE  peerCap'[l] = cap /\ flarm'[t] = flarm[t] /\ inbox'[l] = box[l]
  <2>1. Delivered(box, {Peer(l)}, Pcap(TRUE))[l] = box[l]
    BY <1>f DEF Delivered
  <2>2. QED BY <1>dl, <1>f, <2>1 DEF Digest, Announced
<1>1. ASSUME NEW u \in Unit, Register(u) PROVE Goal
  <2> DEFINE m == Head(inbox[u])
             d == m.dev
             ch == Grant(u, d)
             a == Acc(d, ch, d = "xcv" /\ HasFlarm(u))
             box == Delivered(Taken(u), Answered(u, d), a)
  <2>1. /\ inbox[u] # <<>> /\ m \in Telegram /\ m.type = "reg" /\ u \in Node /\ d \in Device
        /\ Taken(u) \in [Node -> Seq(Telegram)] /\ link' = link
    BY <1>1, <1>f, <1>t, TelegramFields DEF Register, Got
  <2>2. d # "xcv" => ~Tells(l, m)
    BY <2>1 DEF Tells
  <2>3. u = "second" => d # "xcv"
    <3>1. u = "second" => m \in NoQuery
      BY <1>f, <2>1, TakenIn DEF QueriesAtMaster
    <3>2. QED BY <2>1, <3>1 DEF NoQuery
  <2>4. CASE d \notin DOMAIN known[u] /\ Exhausted(u, Prio(d))
    \* The second unit is never rejected, it is the only one of its priority.
    <3>1. /\ inbox' = Delivered(Taken(u), Answered(u, d), Nac(d))
          /\ UNCHANGED <<known, link, peerCap, flarm, missed>>
      BY <1>1, <2>1, <2>4 DEF Register, registrarVars, capsVars
    <3>2. d # "xcv"
      <4>1. Registrar(known[u], next[u])
        BY DEF RInv, Registrars
      <4>2. d = "xcv" => next[u][4] = Base[4] /\ next[u][4] = Base[4] + 4 * Chunks
        BY <2>4, <4>1 DEF Registrar, Exhausted, Prio
      <4>3. QED BY <4>2, Numbers
    <3>3. Told(Taken(u)[l])
      BY <1>k, <2>1, <2>2, <3>1, <3>2
    <3>4. Nac(d) \in Telegram /\ ~Tells(l, Nac(d))
      BY <2>1, Telegrams, Tellers
    <3>5. QED BY <1>b, <1>u, <2>1, <3>1, <3>3, <3>4
  <2>5. CASE ~(d \notin DOMAIN known[u] /\ Exhausted(u, Prio(d)))
    <3>1. /\ known' = [known EXCEPT ![u] = Added(@, d, ch)]
          /\ IF d = "xcv" THEN Digest(u, m.cap, box) /\ missed' = missed \ {u}
                          ELSE inbox' = box /\ UNCHANGED capsVars
      BY <1>1, <2>5 DEF Register
    <3>2. ch \in Id /\ (d = "xcv" => ch = Base[4]) /\ (d = "xcv" /\ HasFlarm(u)) \in BOOLEAN
      BY <2>1, <2>5, GrantIsId DEF HasFlarm
    <3> HIDE DEF ch
    <3>3. a \in Telegram /\ box \in [Node -> Seq(Telegram)]
      <4>1. a \in Telegram
        BY <2>1, <3>2, Telegrams
      <4>2. QED BY <2>1, <4>1, DeliveredType
    <3>4. CASE d # "xcv"
      <4>1. UNCHANGED <<peerCap, flarm, missed>> /\ inbox' = box
        BY <3>1, <3>4 DEF capsVars
      <4>2. Told(Taken(u)[l])
        BY <1>k, <2>1, <2>2, <3>4, <4>1
      <4>3. ~Tells(l, a)
        BY <3>4, Tellers
      <4>4. Told(inbox'[l])
        BY <1>b, <2>1, <3>3, <4>1, <4>2, <4>3
      <4>5. "xcv" \in DOMAIN known'["master"] <=> "xcv" \in DOMAIN known["master"]
        <5>1. known'["master"] = known["master"] \/ known'["master"] = Added(known["master"], d, ch)
          BY <1>f, <3>1
        <5>2. QED BY <3>4, <5>1 DEF Added
      <4>6. Synced(l)' = Synced(l)
        BY <2>1, <4>5 DEF Synced
      <4>7. QED BY <1>s, <4>1, <4>4, <4>6
    <3>5. CASE d = "xcv" /\ l = "master"
      \* The master hears the query.
      <4>1. u = l /\ Digest(l, m.cap, box) /\ missed' = missed \ {l} /\ Tells(l, m)
        <5>1. u = l
          BY <1>f, <2>3, <3>5
        <5>2. Tells(l, m)
          BY <2>1, <3>5 DEF Tells
        <5>3. QED BY <3>1, <3>5, <5>1, <5>2
      <4>2. peerCap'[l] = m.cap /\ flarm'[t] = flarm[t] /\ inbox'[l] = box[l]
        BY <1>dl, <3>3, <4>1
      <4>3. box[l] = Tail(inbox[l])
        BY <1>f, <1>t, <2>1, <3>5, <4>1 DEF Delivered, Answered, NodeOf
      <4>4. QED BY <1>h, <2>1, <4>1, <4>2, <4>3
    <3>6. CASE d = "xcv" /\ l = "second"
      \* The second unit gets an answer, and the Flarm of its own back if the
      \* master takes it over.
      <4>1. u = t /\ Digest(t, m.cap, box)
        <5>1. u = t
          BY <1>f, <2>3, <3>6
        <5>2. QED BY <3>1, <3>6, <5>1
      <4>2. box[l] = Append(inbox[l], a)
        BY <1>f, <1>t, <2>1, <3>6, <4>1 DEF Delivered, Answered, NodeOf
      <4>3. Tells(l, a) /\ a.cap = HasFlarm(t)
        <5>1. a = Acc("xcv", ch, HasFlarm(t))
          BY <3>6, <4>1 DEF HasFlarm
        <5>2. QED BY <3>6, <5>1, Tellers
      <4> HIDE DEF a, box
      <4>4. Heard(l, box[l], Synced(l)', peerCap[l], HasFlarm(t))
        BY <1>f, <3>3, <4>2, <4>3, HeardAppend
      <4>5. QED BY <1>dt, <3>3, <4>1, <4>4
    <3>7. QED BY <1>f, <3>4, <3>5, <3>6
  <2>6. QED BY <2>4, <2>5
<1>2. ASSUME NEW u \in Unit, ReceiveCap(u) PROVE Goal
  <2>1. /\ inbox[u] # <<>> /\ Head(inbox[u]).type = "cap" /\ inbox' = Taken(u) /\ u \in Node
        /\ UNCHANGED <<known, link, flarm>>
        /\ IF Synced(u) THEN peerCap' = [peerCap EXCEPT ![u] = Head(inbox[u]).cap] /\ missed' = missed
                        ELSE peerCap' = peerCap /\ missed' = missed \cup {Peer(u)}
    BY <1>2, <1>f DEF ReceiveCap, Got, registrarVars
  <2>2. t \notin missed
    BY <2>1
  <2>3. CASE u = l
    <3>1. Tells(l, Head(inbox[l])) /\ inbox'[l] = Tail(inbox[l])
      BY <1>t, <2>1, <2>3 DEF Tells
    <3>2. Synced(l)' => Synced(l)
      BY <2>1 DEF Synced
    <3>3. Synced(l)' => peerCap'[l] = Head(inbox[l]).cap
      BY <1>f, <2>1, <2>3, <3>2
    <3>4. QED BY <1>h, <2>1, <2>2, <2>3, <3>1, <3>3
  <2>4. CASE u = t
    <3>1. peerCap'[l] = peerCap[l]
      BY <1>f, <2>1, <2>4
    <3>2. Told(inbox'[l])
      BY <1>k, <2>1, <2>2, <2>4
    <3>3. QED BY <1>s, <2>1, <3>1, <3>2
  <2>5. QED BY <1>f, <2>3, <2>4
<1>3. ASSUME Accepted PROVE Goal
  <2> DEFINE m == Head(inbox["second"])
  <2>1. /\ inbox["second"] # <<>> /\ m.type = "acc" /\ UNCHANGED <<known, missed>> /\ "second" \in Node
        /\ Taken("second") \in [Node -> Seq(Telegram)]
        /\ Taken("second")[l] = IF l = "second" THEN Tail(inbox[l]) ELSE inbox[l]
    BY <1>3, <1>f, <1>t DEF Accepted, Got, registrarVars
  <2>2. CASE m.dev = "xcv"
    <3>1. /\ Digest("second", m.cap, Taken("second"))
          /\ link' = IF link = Null THEN [listen |-> m.ch, send |-> m.ch + 1] ELSE link
      BY <1>3, <2>2 DEF Accepted, ForMe
    <3>2. CASE l = "second"
      <4>1. peerCap'[l] = m.cap /\ flarm'[t] = flarm[t] /\ inbox'[l] = Tail(inbox[l])
        BY <1>dl, <2>1, <3>1, <3>2
      <4>2. Tells(l, Head(inbox[l]))
        BY <2>1, <2>2, <3>2 DEF Tells
      <4>3. QED BY <1>h, <2>1, <3>2, <4>1, <4>2
    <3>3. CASE t = "second"
      <4>1. Synced(l)' = Synced(l)
        BY <1>f, <2>1, <3>3 DEF Synced
      <4>2. Told(inbox[l])
        BY <1>a, <2>1
      <4>3. Heard(l, Taken("second")[l], Synced(l)', peerCap[l], HasFlarm(t))
        BY <1>f, <2>1, <3>3, <4>1, <4>2
      <4>4. QED BY <1>dt, <2>1, <3>1, <3>3, <4>3
    <3>4. QED BY <1>f, <3>2, <3>3
  <2>3. CASE m.dev # "xcv"
    <3>1. inbox' = Taken("second") /\ UNCHANGED <<known, link, flarm, peerCap>>
      BY <1>3, <2>1, <2>3 DEF Accepted, ForMe
    <3>2. ~Tells("second", m)
      BY <2>1, <2>3 DEF Tells
    <3>3. Told(inbox'[l])
      BY <1>k, <2>1, <3>1, <3>2
    <3>4. QED BY <1>u, <3>1, <3>3
  <2>4. QED BY <2>2, <2>3
<1>4. ASSUME Rejected PROVE Goal
  <2>1. /\ inbox["second"] # <<>> /\ Head(inbox["second"]).type = "nac" /\ inbox' = Taken("second")
        /\ UNCHANGED <<known, link, peerCap, flarm, missed>>
    BY <1>4 DEF Rejected, Got, registrarVars, capsVars
  <2>2. ~Tells("second", Head(inbox["second"]))
    BY <2>1 DEF Tells
  <2>3. Told(inbox'[l])
    BY <1>f, <1>k, <2>1, <2>2
  <2>4. QED BY <1>u, <2>1, <2>3
\* A query of the second unit tells the master.
<1>o. ASSUME NEW box \in [Node -> Seq(Telegram)], l = "second" /\ t \notin missed => Told(box[l]),
             UNCHANGED <<known, link, peerCap, flarm>>, missed' = missed \ {"second"},
             inbox' = Delivered(box, {"master"}, Reg("xcv", HasFlarm("second")))
      PROVE  Goal
  <2>1. HasFlarm("second")' = HasFlarm("second") /\ HasFlarm("second") \in BOOLEAN
    BY <1>o DEF HasFlarm
  <2>2. CASE l = "master"
    <3>1. inbox'[l] = Append(box[l], Reg("xcv", HasFlarm("second"))) /\ box[l] \in Seq(Telegram)
      BY <1>o, <1>f, <2>2 DEF Delivered
    <3>2. t = "second" /\ Reg("xcv", HasFlarm("second")).cap = HasFlarm(t)' /\ Tells(l, Reg("xcv", HasFlarm("second")))
      BY <1>f, <2>1, <2>2, Tellers
    <3>3. QED BY <1>q, <1>w, <2>1, <3>1, <3>2
  <2>3. CASE l = "second"
    <3>1. inbox'[l] = box[l] /\ t \notin missed
      BY <1>o, <1>f, <2>3 DEF Delivered
    <3>2. QED BY <1>o, <1>u, <2>3, <3>1
  <2>4. QED BY <1>f, <2>2, <2>3
<1>5. ASSUME RestartQuery PROVE Goal
  <2>1. /\ inbox["second"] # <<>> /\ Head(inbox["second"]).type = "lor"
        /\ inbox' = Delivered(Taken("second"), {"master"}, Reg("xcv", HasFlarm("second")))
        /\ UNCHANGED <<known, link, peerCap, flarm>> /\ missed' = missed \ {"second"}
    BY <1>5 DEF RestartQuery, Got, registrarVars
  <2>2. ~Tells("second", Head(inbox["second"]))
    BY <2>1 DEF Tells
  <2>3. t \notin missed => Told(Taken("second")[l])
    BY <1>f, <1>k, <2>1, <2>2
  <2>4. Taken("second") \in [Node -> Seq(Telegram)]
    BY <1>f, <1>t, <2>1
  <2>5. QED BY <1>o, <2>1, <2>3, <2>4
<1>6. ASSUME TickQuery PROVE Goal
  <2>1. /\ inbox' = Delivered(inbox, {"master"}, Reg("xcv", HasFlarm("second")))
        /\ UNCHANGED <<known, link, peerCap, flarm>> /\ missed' = missed \ {"second"}
    BY <1>6 DEF TickQuery, registrarVars
  <2>2. QED BY <1>a, <1>f, <1>o, <2>1
<1>7. ASSUME NEW u \in Unit, Drain(u) PROVE Goal
  BY <1>7, <1>a, <1>u DEF Drain, registrarVars, capsVars
<1>8. ASSUME NEW u \in Unit, TickReregister(u) PROVE Goal
  <2>1. /\ inbox' = Delivered(inbox, Reregistered(u), Lor) /\ UNCHANGED <<known, link, peerCap, flarm, missed>>
    BY <1>8 DEF TickReregister, registrarVars, capsVars
  <2>2. Told(inbox'[l])
    BY <1>a, <1>b, <1>f, <2>1, Telegrams, Tellers
  <2>3. QED BY <1>u, <2>1, <2>2
<1>9. ASSUME NEW u \in Unit, NEW f \in {"none", "own"}, SetFlarm(u, f) PROVE Goal
  <2>1. /\ flarm' = [flarm EXCEPT ![u] = f] /\ UNCHANGED <<known, link, peerCap>>
        /\ IF Synced(u) THEN inbox' = Announced(u, f # "none", inbox) /\ missed' = missed \ {u}
                        ELSE inbox' = inbox /\ missed' = missed \cup {u}
    BY <1>9 DEF SetFlarm, registrarVars
  <2>2. CASE u = t
    <3>1. Synced(t) /\ inbox' = Delivered(inbox, {l}, Pcap(f # "none"))
      BY <1>f, <2>1, <2>2 DEF Announced
    <3>2. inbox'[l] = Append(inbox[l], Pcap(f # "none")) /\ HasFlarm(t)' = (f # "none")
      BY <1>f, <2>1, <2>2, <3>1 DEF Delivered, HasFlarm
    <3>3. (f # "none") \in BOOLEAN
      OBVIOUS
    <3>4. QED BY <1>f, <1>q, <1>w, <3>2, <3>3, Tellers
  <2>3. CASE u = l
    <3>1. flarm'[t] = flarm[t] /\ inbox'[l] = inbox[l] /\ t \notin missed
      BY <1>f, <2>1, <2>3 DEF Announced, Delivered
    <3>2. QED BY <1>a, <1>s, <2>1, <3>1
  <2>4. QED BY <1>f, <2>2, <2>3
<1>10. ASSUME NEW d \in External, Ask(d) PROVE Goal
  <2>1. inbox' = Delivered(inbox, Unit, Reg(d, FALSE)) /\ UNCHANGED <<known, link, peerCap, flarm, missed>>
    BY <1>10 DEF Ask, registrarVars, capsVars
  <2>2. d # "xcv" /\ d \in Device
    BY <1>f DEF Device
  <2>3. Reg(d, FALSE) \in Telegram /\ ~Tells(l, Reg(d, FALSE))
    BY <2>2, Telegrams, Tellers
  <2>4. Told(inbox'[l])
    BY <1>a, <1>b, <1>f, <2>1, <2>3
  <2>5. QED BY <1>u, <2>1, <2>4
<1>11. ASSUME NEW d \in External, Hear(d) PROVE Goal
  <2>1. inbox[d] # <<>> /\ inbox' = Taken(d) /\ UNCHANGED <<known, link, peerCap, flarm, missed>> /\ d # l /\ d \in Node
    BY <1>11, <1>f DEF Hear, registrarVars, capsVars
  <2>2. QED BY <1>k, <1>u, <2>1
<1>12. ASSUME NEW u \in Unit, RestartUnit(u) PROVE Goal
  <2>1. /\ known' = [known EXCEPT ![u] = <<>>] /\ inbox' = [inbox EXCEPT ![u] = <<>>]
        /\ link' = IF u = "second" THEN Null ELSE link
        /\ flarm' = [flarm EXCEPT ![u] = IF @ = "own" THEN "own" ELSE "none"]
        /\ peerCap' = [peerCap EXCEPT ![u] = FALSE]
        /\ missed' = IF flarm[u] = "peer" THEN missed \cup {u} ELSE missed
    BY <1>12 DEF RestartUnit
  <2>2. CASE u = l
    <3>1. inbox'[l] = <<>>
      BY <1>f, <2>1, <2>2
    <3>2. ~Synced(l)'
      BY <1>f, <2>1, <2>2, EmptySeq DEF Synced
    <3>3. QED BY <3>1, <3>2, HeardNothing
  <2>3. CASE u = t
    <3>1. flarm[t] # "peer" /\ t \notin missed
      BY <2>1, <2>3
    <3>2. flarm'[t] = flarm[t] /\ peerCap'[l] = peerCap[l] /\ inbox'[l] = inbox[l]
      BY <1>f, <2>1, <2>3, <3>1
    <3>3. Synced(l)' = Synced(l)
      BY <1>f, <2>1, <2>3 DEF Synced
    <3>4. QED BY <1>a, <1>s, <3>1, <3>2, <3>3
  <2>4. QED BY <1>f, <2>2, <2>3
<1>13. ASSUME NEW u \in Unit, NEW d \in External, RemoveDevice(u, d) PROVE Goal
  <2>1. /\ known' = [known EXCEPT ![u] = [e \in DOMAIN known[u] \ {d} |-> known[u][e]]] /\ d # "xcv"
        /\ UNCHANGED <<inbox, link, peerCap, flarm, missed>>
    BY <1>13, <1>f DEF RemoveDevice, capsVars
  <2>2. Synced(l)' = Synced(l)
    BY <1>f, <2>1 DEF Synced
  <2>3. QED BY <1>a, <1>s, <2>1, <2>2
<1>14. ASSUME NEW d \in External, RestartDevice(d) PROVE Goal
  <2>1. inbox' = [inbox EXCEPT ![d] = <<>>] /\ UNCHANGED <<known, link, peerCap, flarm, missed>> /\ d # l
    BY <1>14, <1>f DEF RestartDevice, registrarVars, capsVars
  <2>2. QED BY <1>a, <1>f, <1>u, <2>1
<1>15. ASSUME NEW n \in Node, Lose(n) PROVE Goal
  <2>1. /\ inbox[n] # <<>> /\ inbox' = Taken(n) /\ UNCHANGED <<known, link, peerCap, flarm>>
        /\ missed' = IF n \in Unit /\ Tells(n, Head(inbox[n])) THEN missed \cup {Peer(n)} ELSE missed
    BY <1>15 DEF Lose, registrarVars
  <2>2. t \notin missed /\ (n = l => ~Tells(l, Head(inbox[l])))
    BY <1>f, <2>1
  <2>3. QED BY <1>k, <1>u, <2>1, <2>2
<1>16. CASE CalmDown \/ UNCHANGED vars
  BY <1>16, <1>a, <1>u DEF CalmDown, vars, registrarVars, capsVars
<1>17. ASSUME NEW u \in Unit, UnitReceives(u) \/ Tick(u) PROVE Goal
  BY <1>17, <1>1, <1>2, <1>3, <1>4, <1>5, <1>6, <1>7, <1>8 DEF UnitReceives, Tick
<1>18. CASE Fault
  BY <1>18, <1>12, <1>13, <1>14, <1>15 DEF Fault
<1>19. QED BY <1>9, <1>10, <1>11, <1>16, <1>17, <1>18 DEF Next

LEMMA InitAware == Init => QueriesAtMaster /\ AllAware
<1> SUFFICES ASSUME Init PROVE QueriesAtMaster /\ AllAware
  OBVIOUS
<1>1. \A n \in Unit : inbox[n] = <<>>
  BY DEF Init, Node
<1>2. \A l \in Unit : ~Synced(l)
  BY Numbers, EmptySeq DEF Init, Synced
<1>3. \A l, t \in Unit : Aware(l, t)
  BY <1>1, <1>2, HeardNothing DEF Aware
<1>4. QED BY <1>1, <1>3, EmptySeq DEF QueriesAtMaster, AllAware

LEMMA AlwaysAware == Spec => []AllAware
<1>1. RInv /\ QueriesAtMaster /\ AllAware /\ [Next]_vars => (QueriesAtMaster /\ AllAware)'
  BY QueriesAtMasterStep, AwareStep DEF AllAware
<1>2. QED BY <1>1, InitAware, Always, PTL DEF Spec

\* Once everything is answered each unit knows whether the other one has a
\* Flarm, but for a change it was not told: no query, answer or change that
\* is still on its way overwrites newer knowledge.
THEOREM CapsAlwaysAgree == Spec => []CapsAgree
<1>1. AllAware /\ RInv => CapsAgree
  <2> SUFFICES ASSUME AllAware, RInv, Quiet, NEW u \in Unit, NEW v \in Unit, u # v, u \notin missed
               PROVE  peerCap[v] = HasFlarm(u)
    BY DEF CapsAgree
  <2>1. inbox[v] = <<>> /\ Synced(v)
    BY Numbers DEF Quiet, Node
  <2>2. Heard(v, inbox[v], Synced(v), peerCap[v], HasFlarm(u))
    BY DEF AllAware, Aware
  <2>3. Silent(v, inbox[v])
    BY <2>1 DEF Silent
  <2>4. QED BY <2>1, <2>2, <2>3 DEF Heard
<1>2. QED BY <1>1, AlwaysAware, Always, PTL

-----------------------------------------------------------------------------
(***************************************************************************)
(* The ids external devices work with, where one registrar answers them.   *)
(* A device claims the id it has, unless it asks anyway or will be told    *)
(* to, and the ids of the answers on their way that no such telegram       *)
(* follows.  Once the registrar has asked everybody to register again, all *)
(* claims are ids it has handed out since it started: they are below the   *)
(* next one, and no two devices claim one, nor one that another device is  *)
(* known by.  A removed device keeps its claim, and nobody gets its id.    *)
(***************************************************************************)
OneRegistrar == Unit = {"master"}

NoLor(s) == \A j \in DOMAIN s : s[j].type # "lor"
Promised(s, i) ==
  \E k \in DOMAIN s : s[k].type = "acc" /\ s[k].ch = i /\ \A j \in DOMAIN s : j > k => s[j].type # "lor"
Claims(d, i) == (id[d] = i /\ d \notin asks /\ NoLor(inbox[d])) \/ Promised(inbox[d], i)

Reasked == "reregister" \notin C!Registry(clock["master"])
ClaimsApart ==
  Reasked => \A d \in External, i \in Id : Claims(d, i) =>
    /\ i < next["master"][1]
    /\ \A e \in External \ {d} : ~Claims(e, i) /\ (e \in DOMAIN known["master"] => known["master"][e] # i)

LEMMA PromisedAppend ==
  ASSUME NEW s \in Seq(Telegram), NEW m \in Telegram, NEW i
  PROVE  /\ Promised(Append(s, m), i) => (Promised(s, i) /\ m.type # "lor") \/ (m.type = "acc" /\ m.ch = i)
         /\ NoLor(Append(s, m)) => NoLor(s) /\ m.type # "lor"
<1> DEFINE b == Append(s, m)
<1>1. /\ Len(s) \in Nat /\ DOMAIN s = 1..Len(s) /\ DOMAIN b = 1..Len(s) + 1
      /\ b[Len(s) + 1] = m /\ \A j \in 1..Len(s) : b[j] = s[j]
  BY AppendProperties
<1> HIDE DEF b
<1>2. ASSUME Promised(b, i) PROVE (Promised(s, i) /\ m.type # "lor") \/ (m.type = "acc" /\ m.ch = i)
  <2>1. PICK k \in DOMAIN b : b[k].type = "acc" /\ b[k].ch = i /\ \A j \in DOMAIN b : j > k => b[j].type # "lor"
    BY <1>2 DEF Promised
  <2>2. CASE k = Len(s) + 1
    BY <1>1, <2>1, <2>2
  <2>3. CASE k # Len(s) + 1
    <3>1. k \in DOMAIN s /\ b[k] = s[k] /\ Len(s) + 1 > k /\ Len(s) + 1 \in DOMAIN b
      BY <1>1, <2>3
    <3>2. m.type # "lor"
      BY <1>1, <2>1, <3>1
    <3>3. ASSUME NEW j \in DOMAIN s, j > k PROVE s[j].type # "lor"
      BY <1>1, <2>1, <3>3
    <3>4. QED BY <2>1, <3>1, <3>2, <3>3 DEF Promised
  <2>4. QED BY <2>2, <2>3
<1>3. ASSUME NoLor(b) PROVE NoLor(s) /\ m.type # "lor"
  <2>1. Len(s) + 1 \in DOMAIN b /\ \A j \in DOMAIN s : j \in DOMAIN b /\ b[j] = s[j]
    BY <1>1
  <2>2. QED BY <1>1, <1>3, <2>1 DEF NoLor
<1>4. QED BY <1>2, <1>3 DEF b

LEMMA PromisedTail ==
  ASSUME NEW s \in Seq(Telegram), s # <<>>, NEW i
  PROVE  /\ Promised(Tail(s), i) => Promised(s, i)
         /\ NoLor(Tail(s)) /\ Head(s).type # "lor" => NoLor(s)
         /\ NoLor(Tail(s)) /\ Head(s).type = "acc" => Promised(s, Head(s).ch)
<1> DEFINE b == Tail(s)
<1>1. /\ Len(s) \in Nat \ {0} /\ DOMAIN s = 1..Len(s) /\ DOMAIN b = 1..Len(s) - 1
      /\ Head(s) = s[1] /\ \A j \in 1..Len(s) - 1 : b[j] = s[j + 1]
  <2>1. /\ Len(s) \in Nat \ {0} /\ b \in Seq(Telegram) /\ Len(b) = Len(s) - 1
        /\ \A j \in 1..Len(b) : b[j] = s[j + 1]
    BY HeadTailProperties
  <2>2. QED BY <2>1
<1> HIDE DEF b
<1>2. \A j \in DOMAIN s : j > 1 => j - 1 \in DOMAIN b /\ b[j - 1] = s[j]
  BY <1>1
<1>3. ASSUME Promised(b, i) PROVE Promised(s, i)
  <2>1. PICK k \in DOMAIN b : b[k].type = "acc" /\ b[k].ch = i /\ \A j \in DOMAIN b : j > k => b[j].type # "lor"
    BY <1>3 DEF Promised
  <2>2. k + 1 \in DOMAIN s /\ s[k + 1] = b[k]
    BY <1>1
  <2>3. ASSUME NEW j \in DOMAIN s, j > k + 1 PROVE s[j].type # "lor"
    <3>1. j > 1 /\ j - 1 > k
      BY <1>1, <2>3
    <3>2. QED BY <1>2, <2>1, <3>1
  <2>4. QED BY <2>1, <2>2, <2>3 DEF Promised
<1>4. ASSUME NoLor(b), NEW j \in DOMAIN s, j > 1 PROVE s[j].type # "lor"
  BY <1>2, <1>4 DEF NoLor
<1>5. ASSUME NoLor(b), Head(s).type # "lor" PROVE NoLor(s)
  BY <1>1, <1>4, <1>5 DEF NoLor
<1>6. ASSUME NoLor(b), Head(s).type = "acc" PROVE Promised(s, Head(s).ch)
  <2>1. 1 \in DOMAIN s
    BY <1>1
  <2>2. QED BY <1>1, <1>4, <1>6, <2>1 DEF Promised
<1>7. QED BY <1>3, <1>5, <1>6 DEF b

LEMMA NothingPromised == NoLor(<<>>) /\ \A i : ~Promised(<<>>, i)
BY DEF NoLor, Promised

LEMMA RegistryDrained ==
  ASSUME NEW c, NEW turn
  PROVE  C!Registry(C!Drained(c, turn)) = C!Registry(c)
<1>1. C!Drained(c, turn).requests = <<>> /\ C!Drained(c, turn).registry = C!Registry(c)
  BY DEF C!Drained
<1>2. \A cb : C!About(C!Drained(c, turn), cb) = {}
  BY <1>1 DEF C!About
<1>3. C!Registry(C!Drained(c, turn)) = {cb \in {"reregister", "query"} : cb \in C!Registry(c)}
  BY <1>1, <1>2 DEF C!Registry
<1>4. C!Registry(c) \subseteq {"reregister", "query"}
  BY DEF C!Registry
<1>5. QED BY <1>3, <1>4

LEMMA RegistryBooted == "reregister" \in C!Registry(Booted("master"))
<1> DEFINE c == Booted("master")
           r == [op |-> "start", cb |-> "reregister"]
<1>1. c.requests = <<r>>
  BY DEF Booted, C!Started, C!Fresh
<1> HIDE DEF c
<1>2. C!About(c, "reregister") = {1}
  BY <1>1 DEF C!About
<1>3. C!Max({1}) = 1
  BY DEF C!Max
<1>4. c.requests[1].op = "start"
  BY <1>1
<1>5. QED BY <1>2, <1>3, <1>4 DEF C!Registry, c

LEMMA OnlyLor ==
  ASSUME NEW m \in Telegram, m.type = "lor"
  PROVE  m = Lor
<1>1. m \in Msg
  BY DEF Telegram
<1>2. ASSUME NEW d, NEW c, m = Reg(d, c) PROVE FALSE
  BY <1>2 DEF Reg
<1>3. ASSUME NEW d, NEW i, NEW c, m = Acc(d, i, c) PROVE FALSE
  BY <1>3 DEF Acc
<1>4. ASSUME NEW d, m = Nac(d) PROVE FALSE
  BY <1>4 DEF Nac
<1>5. ASSUME NEW c, m = Pcap(c) PROVE FALSE
  BY <1>5 DEF Pcap
<1>6. QED BY <1>1, <1>2, <1>3, <1>4, <1>5 DEF Msg

\* What a device takes from its inbox, or misses, adds no claim.
LEMMA TakenClaims ==
  ASSUME RInv, NEW d \in External, inbox[d] # <<>>, inbox'[d] = Tail(inbox[d]), NEW i \in Id,
         \/ id'[d] = id[d] /\ (d \notin asks' => d \notin asks) /\ (Head(inbox[d]).type = "lor" => d \in asks')
         \/ Head(inbox[d]).type = "acc" /\ id'[d] = Head(inbox[d]).ch,
         Claims(d, i)'
  PROVE  Claims(d, i)
<1>1. inbox[d] \in Seq(Telegram)
  BY DEF RInv, Inboxes, Node
<1>2. CASE Promised(inbox'[d], i)
  BY <1>1, <1>2, PromisedTail DEF Claims
<1>3. CASE id'[d] = i /\ d \notin asks' /\ NoLor(inbox'[d])
  BY <1>1, <1>3, PromisedTail DEF Claims
<1>4. QED BY <1>2, <1>3 DEF Claims

\* The registrar answers a device that is there or not.
LEMMA GrantedClaims ==
  ASSUME OneRegistrar, RInv, RInv', ClaimsApart, Reasked, NEW g \in External,
         NEW ch, ch = Grant("master", g),
         known'["master"] = Added(known["master"], g, ch),
         next'["master"][1] = IF ch = next["master"][1] THEN ch + 4 ELSE next["master"][1],
         \A d \in External, i \in Id : Claims(d, i)' => Claims(d, i) \/ (d = g /\ i = ch)
  PROVE  ClaimsApart'
<1>f. /\ "master" \in Unit /\ g \in Device /\ Prio(g) = 1 /\ External \subseteq Device /\ next["master"][1] \in Nat
      /\ Registrar(known["master"], next["master"]) /\ Registrar(known'["master"], next'["master"])
  BY Numbers, CANAssumption DEF RInv, Registrars, Registrar, Device, Prio
<1>1. ch = IF g \in DOMAIN known["master"] THEN known["master"][g] ELSE next["master"][1]
  BY <1>f DEF Grant
<1>2. /\ g \in DOMAIN known'["master"] /\ known'["master"][g] = ch
      /\ \A e \in DOMAIN known'["master"] : e # g => e \in DOMAIN known["master"] /\ known'["master"][e] = known["master"][e]
  BY DEF Added
<1>3. /\ ch \in Id /\ ch \in Nat /\ ch < next'["master"][1] /\ next["master"][1] <= next'["master"][1]
      /\ next'["master"][1] \in Nat
  <2>1. ch \in Id /\ ch < next'["master"][1] /\ next'["master"][1] \in Nat
    BY <1>f, <1>2 DEF Registrar
  <2>2. ch \in Nat
    BY <2>1, IdsAreNumbers
  <2>3. QED BY <1>f, <2>1, <2>2
\* What another device claims is not the id g gets.
<1>4. ASSUME NEW d \in External, d # g, NEW i \in Id, Claims(d, i) PROVE i # ch
  <2>1. i < next["master"][1] /\ (g \in DOMAIN known["master"] => known["master"][g] # i) /\ i \in Nat
    BY <1>4, IdsAreNumbers DEF ClaimsApart
  <2>2. QED BY <1>f, <1>1, <2>1
<1>5. ASSUME NEW d \in External, NEW i \in Id, Claims(d, i)' PROVE i < next'["master"][1]
  <2>1. CASE d = g /\ i = ch
    BY <1>3, <2>1
  <2>2. CASE Claims(d, i)
    <3>1. i < next["master"][1] /\ i \in Nat
      BY <2>2, IdsAreNumbers DEF ClaimsApart
    <3>2. QED BY <1>f, <1>3, <3>1
  <2>3. QED BY <1>5, <2>1, <2>2
<1>6. ASSUME NEW d \in External, NEW i \in Id, Claims(d, i)', NEW e \in External \ {d} PROVE ~Claims(e, i)'
  <2>1. CASE Claims(d, i) /\ Claims(e, i)
    BY <2>1 DEF ClaimsApart
  <2>2. CASE Claims(e, i)' /\ ~(Claims(d, i) /\ Claims(e, i))
    <3>1. Claims(e, i) \/ (e = g /\ i = ch)
      BY <2>2
    <3>2. Claims(d, i) \/ (d = g /\ i = ch)
      BY <1>6
    <3>3. QED BY <1>4, <1>6, <2>2, <3>1, <3>2
  <2>3. QED BY <1>6, <2>1, <2>2
<1>7. ASSUME NEW d \in External, NEW i \in Id, Claims(d, i)', NEW e \in External \ {d},
             e \in DOMAIN known'["master"]
      PROVE  known'["master"][e] # i
  <2>1. CASE Claims(d, i)
    <3>1. CASE e = g
      BY <1>2, <1>4, <1>7, <2>1, <3>1
    <3>2. CASE e # g
      BY <1>2, <1>7, <2>1, <3>2 DEF ClaimsApart
    <3>3. QED BY <3>1, <3>2
  <2>2. CASE d = g /\ i = ch
    BY <1>f, <1>2, <1>7, <2>2 DEF Registrar
  <2>3. QED BY <1>7, <2>1, <2>2
<1>8. QED BY <1>5, <1>6, <1>7 DEF ClaimsApart

LEMMA ClaimsStep ==
  ASSUME OneRegistrar, RInv, RInv', ClaimsApart, [Next]_vars
  PROVE  ClaimsApart'
<1>f. /\ inbox \in [Node -> Seq(Telegram)] /\ "master" \in Node /\ External \subseteq Node /\ Unit = {"master"}
      /\ "master" \notin External /\ "second" \notin External /\ "xcv" \notin External
      /\ \A d \in External : inbox[d] \in Seq(Telegram)
  BY CANAssumption DEF OneRegistrar, RInv, Inboxes, Node
<1>r. ASSUME clock' = clock PROVE Reasked' = Reasked
  BY <1>r DEF Reasked
<1>n. ASSUME Reasked' => Reasked, \A d \in External, i \in Id : Claims(d, i)' => Claims(d, i),
             next'["master"][1] = next["master"][1],
             \A e \in External : e \in DOMAIN known'["master"]
                                   => e \in DOMAIN known["master"] /\ known'["master"][e] = known["master"][e]
      PROVE  ClaimsApart'
  BY <1>n DEF ClaimsApart
<1>i. ASSUME NEW d \in External, id'[d] = id[d], d \in asks' <=> d \in asks, inbox'[d] = inbox[d], NEW i
      PROVE  Claims(d, i)' <=> Claims(d, i)
  BY <1>i DEF Claims
\* A telegram that is no answer adds no claim.
<1>b. ASSUME NEW d \in External, id'[d] = id[d], d \in asks' <=> d \in asks,
             NEW m \in Telegram, inbox'[d] = Append(inbox[d], m) \/ inbox'[d] = inbox[d],
             NEW i \in Id, Claims(d, i)'
      PROVE  Claims(d, i) \/ (inbox'[d] # inbox[d] /\ m.type = "acc" /\ m.ch = i)
  <2>1. CASE inbox'[d] = inbox[d]
    BY <1>b, <1>i, <2>1
  <2>2. CASE inbox'[d] # inbox[d]
    <3>1. inbox'[d] = Append(inbox[d], m) /\ inbox[d] \in Seq(Telegram)
      BY <1>b, <1>f, <2>2
    <3>2. CASE Promised(inbox'[d], i)
      BY <1>b, <2>2, <3>1, <3>2, PromisedAppend DEF Claims
    <3>3. CASE id'[d] = i /\ d \notin asks' /\ NoLor(inbox'[d])
      BY <1>b, <3>1, <3>3, PromisedAppend DEF Claims
    <3>4. QED BY <1>b, <3>2, <3>3 DEF Claims
  <2>3. QED BY <2>1, <2>2
<1>1. ASSUME Register("master") PROVE ClaimsApart'
  <2> DEFINE m == Head(inbox["master"])
             g == m.dev
             ch == Grant("master", g)
  <2>1. /\ inbox["master"] # <<>> /\ m \in Telegram /\ g \in Device /\ UNCHANGED <<clock, id, asks>>
        /\ \A d \in External : Taken("master")[d] = inbox[d]
    <3>1. inbox["master"] # <<>> /\ UNCHANGED <<clock, id, asks>>
      BY <1>1 DEF Register, Got, externalVars
    <3>2. m \in Telegram /\ Taken("master") \in [Node -> Seq(Telegram)]
      BY <1>f, <3>1, TakenType DEF RInv
    <3>3. \A d \in External : Taken("master")[d] = inbox[d]
      BY <1>f DEF Taken
    <3>4. QED BY <3>1, <3>2, <3>3, TelegramFields
  <2>2. Reasked' = Reasked
    BY <1>r, <2>1
  <2>3. ASSUME NEW d \in External, NEW x
        PROVE  Delivered(Taken("master"), Answered("master", g), x)[d] = IF d = g THEN Append(inbox[d], x) ELSE inbox[d]
    <3>1. d \in Answered("master", g) <=> d = g
      BY <1>f DEF Answered, NodeOf
    <3>2. QED BY <1>f, <2>1, <3>1 DEF Delivered
  <2>4. CASE g \notin DOMAIN known["master"] /\ Exhausted("master", Prio(g))
    <3>1. inbox' = Delivered(Taken("master"), Answered("master", g), Nac(g)) /\ UNCHANGED <<known, next>>
      BY <1>1, <2>4 DEF Register, registrarVars
    <3>2. Nac(g) \in Telegram /\ Nac(g).type = "nac"
      BY <2>1, Telegrams DEF Nac
    <3>3. \A d \in External, i \in Id : Claims(d, i)' => Claims(d, i)
      <4>1. \A d \in External : inbox'[d] = Append(inbox[d], Nac(g)) \/ inbox'[d] = inbox[d]
        BY <2>3, <3>1
      <4>2. QED BY <1>b, <2>1, <3>2, <4>1
    <3>4. QED BY <1>n, <2>2, <3>1, <3>3
  <2>5. CASE ~(g \notin DOMAIN known["master"] /\ Exhausted("master", Prio(g)))
    <3> DEFINE a == Acc(g, ch, g = "xcv" /\ HasFlarm("master"))
               box == Delivered(Taken("master"), Answered("master", g), a)
    <3>1. /\ next' = IF ch = next["master"][Prio(g)] THEN [next EXCEPT !["master"][Prio(g)] = @ + 4] ELSE next
          /\ known' = [known EXCEPT !["master"] = Added(@, g, ch)]
          /\ \/ g = "xcv" /\ Digest("master", m.cap, box)
             \/ inbox' = box
      BY <1>1, <2>5 DEF Register
    <3>2. ch \in Id /\ (g = "xcv" => ch = Base[4]) /\ (g = "xcv" /\ HasFlarm("master")) \in BOOLEAN
      BY <1>f, <2>1, <2>5, GrantIsId DEF HasFlarm
    <3>3. a \in Telegram /\ a.ch = ch
      <4>1. a.ch = ch
        BY DEF Acc
      <4> HIDE DEF ch
      <4>2. QED BY <2>1, <3>2, <4>1, Telegrams
    <3>4. \A d \in External : box[d] = IF d = g THEN Append(inbox[d], a) ELSE inbox[d]
      BY <2>3
    <3>5. DOMAIN known = Unit /\ next \in [Unit -> [{1, 4} -> Nat]] /\ Prio(g) = IF g = "xcv" THEN 4 ELSE 1
      BY DEF RInv, Registrars, Prio
    <3>6. known'["master"] = Added(known["master"], g, ch)
      BY <1>f, <3>1, <3>5
    <3> HIDE DEF a, box
    <3>7. CASE g = "xcv"
      <4>1. \A d \in External : inbox'[d] = box[d]
        <5>1. \A d \in External : Delivered(box, {"second"}, Pcap(TRUE))[d] = box[d]
          BY <1>f DEF Delivered
        <5>2. QED BY <3>1, <5>1 DEF Digest, Announced, Peer
      <4>2. \A d \in External : inbox'[d] = inbox[d]
        BY <1>f, <3>4, <3>7, <4>1
      <4>3. \A d \in External, i \in Id : Claims(d, i)' => Claims(d, i)
        BY <1>i, <2>1, <4>2
      <4>4. next'["master"][1] = next["master"][1]
        BY <1>f, <3>1, <3>5, <3>7
      <4>5. \A e \in External : e \in DOMAIN known'["master"]
                                  => e \in DOMAIN known["master"] /\ known'["master"][e] = known["master"][e]
        BY <1>f, <3>6, <3>7 DEF Added
      <4>6. QED BY <1>n, <2>2, <4>3, <4>4, <4>5
    <3>8. CASE g # "xcv"
      <4>1. g \in External /\ inbox' = box
        BY <2>1, <3>1, <3>8 DEF Device
      <4>2. ASSUME NEW d \in External, NEW i \in Id, Claims(d, i)' PROVE Claims(d, i) \/ (d = g /\ i = ch)
        <5>1. inbox'[d] = IF d = g THEN Append(inbox[d], a) ELSE inbox[d]
          BY <3>4, <4>1
        <5>2. Claims(d, i) \/ (inbox'[d] # inbox[d] /\ a.ch = i)
          BY <1>b, <2>1, <3>3, <4>2, <5>1
        <5>3. QED BY <3>3, <5>1, <5>2
      <4>3. next'["master"][1] = IF ch = next["master"][1] THEN ch + 4 ELSE next["master"][1]
        BY <1>f, <3>1, <3>5, <3>8
      <4>4. CASE Reasked
        BY <3>6, <4>1, <4>2, <4>3, <4>4, GrantedClaims
      <4>5. CASE ~Reasked
        BY <2>2, <4>5 DEF ClaimsApart
      <4>6. QED BY <4>4, <4>5
    <3>9. QED BY <3>7, <3>8
  <2>6. QED BY <2>4, <2>5
<1>2. ASSUME UNCHANGED <<known, next, id, asks>>, Reasked' => Reasked, \A d \in External : inbox'[d] = inbox[d]
      PROVE  ClaimsApart'
  <2>1. \A d \in External, i \in Id : Claims(d, i)' => Claims(d, i)
    BY <1>2, <1>i
  <2>2. QED BY <1>2, <1>n, <2>1
<1>3. ASSUME ReceiveCap("master") PROVE ClaimsApart'
  <2>1. UNCHANGED <<known, next, id, asks, clock>> /\ inbox' = Taken("master")
    BY <1>3 DEF ReceiveCap, registrarVars, externalVars
  <2>2. \A d \in External : inbox'[d] = inbox[d]
    BY <1>f, <2>1 DEF Taken
  <2>3. QED BY <1>2, <1>r, <2>1, <2>2
<1>4. ASSUME Drain("master") PROVE ClaimsApart'
  <2>1. UNCHANGED <<known, next, id, asks, inbox>>
    BY <1>4 DEF Drain, registrarVars, externalVars
  <2>2. PICK turn : clock' = [clock EXCEPT !["master"] = C!Drained(@, turn)]
    BY <1>4 DEF Drain
  <2>3. clock'["master"] = C!Drained(clock["master"], turn)
    BY <1>f, <2>2 DEF RInv, Clocks
  <2>4. Reasked' <=> Reasked
    BY <2>3, RegistryDrained DEF Reasked
  <2>5. QED BY <1>2, <2>1, <2>4
\* All external devices will be told to register again: nobody claims an id.
<1>5. ASSUME TickReregister("master") PROVE ClaimsApart'
  <2>1. inbox' = Delivered(inbox, Reregistered("master"), Lor)
    BY <1>5 DEF TickReregister
  <2>2. ASSUME NEW d \in External, NEW i \in Id PROVE ~Claims(d, i)'
    <3>1. inbox'[d] = Append(inbox[d], Lor)
      BY <1>f, <2>1 DEF Delivered, Reregistered
    <3>2. Lor \in Telegram /\ Lor.type = "lor"
      BY Telegrams DEF Lor
    <3>3. inbox[d] \in Seq(Telegram)
      BY <1>f
    <3>4. PICK m \in Telegram : m = Lor
      BY <3>2
    <3>5. ~NoLor(Append(inbox[d], m)) /\ ~Promised(Append(inbox[d], m), i)
      BY <3>2, <3>3, <3>4, PromisedAppend
    <3>6. QED BY <3>1, <3>4, <3>5 DEF Claims
  <2>3. QED BY <2>2 DEF ClaimsApart
<1>6. ASSUME NEW f \in {"none", "own"}, SetFlarm("master", f) PROVE ClaimsApart'
  <2>1. /\ UNCHANGED <<known, next, id, asks, clock>>
        /\ inbox' = inbox \/ inbox' = Delivered(inbox, {"second"}, Pcap(f # "none"))
    BY <1>6 DEF SetFlarm, registrarVars, externalVars, Announced, Peer
  <2>2. \A d \in External : inbox'[d] = inbox[d]
    BY <1>f, <2>1 DEF Delivered
  <2>3. QED BY <1>2, <1>r, <2>1, <2>2
<1>7. ASSUME NEW d \in External, Ask(d) PROVE ClaimsApart'
  <2>1. UNCHANGED <<known, next, id, asks, clock>> /\ inbox' = Delivered(inbox, {"master"}, Reg(d, FALSE))
    BY <1>7, <1>f DEF Ask, registrarVars, externalVars
  <2>2. \A e \in External : inbox'[e] = inbox[e]
    BY <1>f, <2>1 DEF Delivered
  <2>3. QED BY <1>2, <1>r, <2>1, <2>2
\* d takes or misses a telegram, or is started again.
<1>8. ASSUME NEW d \in External, UNCHANGED <<known, next, clock>>,
             \A e \in External : e # d => inbox'[e] = inbox[e] /\ id'[e] = id[e] /\ (e \in asks' <=> e \in asks),
             \A i \in Id : Claims(d, i)' => Claims(d, i)
      PROVE  ClaimsApart'
  <2>1. \A e \in External, i \in Id : Claims(e, i)' => Claims(e, i)
    BY <1>8, <1>i
  <2>2. QED BY <1>8, <1>n, <1>r, <2>1
<1>9. ASSUME NEW d \in External, Hear(d) PROVE ClaimsApart'
  <2> DEFINE m == Head(inbox[d])
  <2>1. inbox[d] # <<>> /\ inbox' = Taken(d) /\ UNCHANGED <<known, next, clock>>
    BY <1>9 DEF Hear, registrarVars
  <2>2. \/ m.type = "acc" /\ id' = [id EXCEPT ![d] = m.ch] /\ asks' = asks \ {d}
        \/ m.type = "lor" /\ asks' = asks \cup {d} /\ id' = id
        \/ m.type # "lor" /\ UNCHANGED <<id, asks>>
    BY <1>9 DEF Hear, externalVars
  <2>3. id \in [External -> Id \cup {Null}]
    BY DEF RInv, Rest
  <2>4. inbox'[d] = Tail(inbox[d]) /\ \A e \in External : e # d => inbox'[e] = inbox[e]
    BY <1>f, <2>1 DEF Taken
  <2>5. \A e \in External : e # d => id'[e] = id[e] /\ (e \in asks' <=> e \in asks)
    BY <2>2, <2>3
  <2>6. \/ id'[d] = id[d] /\ (d \notin asks' => d \notin asks) /\ (m.type = "lor" => d \in asks')
        \/ m.type = "acc" /\ id'[d] = m.ch
    BY <2>2, <2>3
  <2>7. \A i \in Id : Claims(d, i)' => Claims(d, i)
    BY <2>1, <2>4, <2>6, TakenClaims
  <2>8. QED BY <1>8, <2>1, <2>4, <2>5, <2>7
<1>10. ASSUME NEW d \in External, RestartDevice(d) PROVE ClaimsApart'
  <2>1. /\ id' = [id EXCEPT ![d] = Null] /\ asks' = asks \cup {d} /\ inbox' = [inbox EXCEPT ![d] = <<>>]
        /\ UNCHANGED <<known, next, clock>> /\ id \in [External -> Id \cup {Null}]
    BY <1>10 DEF RestartDevice, registrarVars, RInv, Rest
  <2>2. inbox'[d] = <<>> /\ d \in asks' /\ \A e \in External : e # d => inbox'[e] = inbox[e] /\ id'[e] = id[e]
    BY <1>f, <2>1
  <2>3. \A i \in Id : ~Claims(d, i)'
    BY <2>2, NothingPromised DEF Claims
  <2>4. QED BY <1>8, <2>1, <2>2, <2>3
\* The registrar will ask everybody to register again.
<1>11. ASSUME RestartUnit("master") PROVE ClaimsApart'
  <2>1. clock'["master"] = Booted("master")
    BY <1>11, <1>f DEF RestartUnit, RInv, Clocks
  <2>2. ~Reasked'
    BY <2>1, RegistryBooted DEF Reasked
  <2>3. QED BY <2>2 DEF ClaimsApart
<1>12. ASSUME NEW d \in External, RemoveDevice("master", d) PROVE ClaimsApart'
  <2>1. /\ UNCHANGED <<next, clock, inbox, id, asks>>
        /\ known' = [known EXCEPT !["master"] = [e \in DOMAIN known["master"] \ {d} |-> known["master"][e]]]
    BY <1>12 DEF RemoveDevice, externalVars
  <2>2. known'["master"] = [e \in DOMAIN known["master"] \ {d} |-> known["master"][e]]
    BY <1>f, <2>1 DEF RInv, Registrars
  <2>3. \A e \in External, i \in Id : Claims(e, i)' => Claims(e, i)
    BY <1>i, <2>1
  <2>4. QED BY <1>n, <1>r, <2>1, <2>2, <2>3
<1>13. ASSUME NEW n \in Node, Lose(n) PROVE ClaimsApart'
  <2>1. /\ UNCHANGED <<known, next, id, asks, clock>> /\ inbox' = Taken(n) /\ inbox[n] # <<>>
        /\ Head(inbox[n]) # Lor
    BY <1>13 DEF Lose, registrarVars, externalVars
  <2>2. CASE n \in External
    <3>1. inbox'[n] = Tail(inbox[n]) /\ \A e \in External : e # n => inbox'[e] = inbox[e]
      BY <1>f, <2>1, <2>2 DEF Taken
    <3>2. Head(inbox[n]).type # "lor"
      BY <1>f, <2>1, <2>2, TakenType, OnlyLor DEF RInv
    <3>3. \A i \in Id : Claims(n, i)' => Claims(n, i)
      BY <2>1, <2>2, <3>1, <3>2, TakenClaims
    <3>4. QED BY <1>8, <2>1, <2>2, <3>1, <3>3
  <2>3. CASE n \notin External
    <3>1. \A d \in External : inbox'[d] = inbox[d]
      BY <1>f, <2>1, <2>3 DEF Taken
    <3>2. QED BY <1>2, <1>r, <2>1, <3>1
  <2>4. QED BY <2>2, <2>3
<1>14. CASE CalmDown \/ UNCHANGED vars
  BY <1>14, <1>2, <1>r DEF CalmDown, vars, registrarVars, externalVars
<1>15. ASSUME NEW u \in Unit, UnitReceives(u) \/ Tick(u) PROVE ClaimsApart'
  <2>1. u = "master" /\ u # "second"
    BY <1>f
  <2>2. QED BY <1>15, <2>1, <1>1, <1>3, <1>4, <1>5 DEF UnitReceives, Tick
<1>16. CASE Fault
  BY <1>16, <1>f, <1>10, <1>11, <1>12, <1>13 DEF Fault
<1>17. QED BY <1>f, <1>6, <1>7, <1>9, <1>14, <1>15, <1>16 DEF Next

LEMMA InitClaims == Init => ClaimsApart
<1> SUFFICES ASSUME Init PROVE ClaimsApart
  OBVIOUS
<1>1. clock["master"] = Booted("master")
  BY Numbers DEF Init
<1>2. QED BY <1>1, RegistryBooted DEF ClaimsApart, Reasked

\* With one registrar on the bus two external devices never work with one id,
\* one of them may have been removed, but for the time from a restart of the
\* registrar until both have registered again.
THEOREM ExternalsStayApart ==
  ASSUME OneRegistrar
  PROVE  Spec => []ExternalsApart
<1>1. RInv /\ RInv' /\ ClaimsApart /\ [Next]_vars => ClaimsApart'
  BY ClaimsStep
<1>2. RInv /\ ClaimsApart => ExternalsApart
  <2> SUFFICES ASSUME RInv, ClaimsApart, NEW d \in External, NEW e \in External, d # e, id[d] # Null, id[d] = id[e],
                      ~Outdated(d), ~Outdated(e)
               PROVE  FALSE
    BY DEF ExternalsApart
  <2>1. Reasked
    BY DEF Outdated, Reasked, OneRegistrar
  <2>2. id[d] \in Id
    BY DEF RInv, Rest
  <2>3. ASSUME NEW x \in External, ~Outdated(x) PROVE Claims(x, id[x])
    <3>1. x \notin asks /\ ~Contains(inbox[x], Lor) /\ inbox[x] \in Seq(Telegram)
      BY <2>3 DEF Outdated, RInv, Inboxes, Node
    <3>2. \A j \in DOMAIN inbox[x] : inbox[x][j] # Lor /\ inbox[x][j] \in Telegram
      BY <3>1 DEF Contains
    <3>3. NoLor(inbox[x])
      BY <3>2, OnlyLor DEF NoLor
    <3>4. QED BY <3>1, <3>3 DEF Claims
  <2>4. QED BY <2>1, <2>2, <2>3 DEF ClaimsApart
<1>3. QED BY <1>1, <1>2, InitClaims, Always, PTL DEF Spec
=============================================================================
