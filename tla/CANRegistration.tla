--------------------------- MODULE CANRegistration ---------------------------
(***************************************************************************)
(* How devices and the second unit get their CAN ids                       *)
(* (protocol/nmea/CANMasterRegMsg.cpp and CANClientQueryMsg.cpp), and how  *)
(* the two units tell each other of a Flarm (setup/Capability.cpp).        *)
(*                                                                         *)
(* Both units have a registrar, which answers the queries of the external  *)
(* devices; only the one of the master answers the second unit.  Two       *)
(* seconds after its start a registrar asks everybody to register again.   *)
(* Who has got no answer asks again and again.                             *)
(*                                                                         *)
(* Everybody listens on one CAN id here.  What a node has received and not *)
(* looked at is its inbox, in the order of the bus.                        *)
(***************************************************************************)
EXTENDS Naturals, FiniteSets, Sequences, SequencesExt

CONSTANTS
  Unit,      \* the units on the bus: the master, and the second one if any
  External,  \* devices that register: the jumbo putzi, the magnetic sensor
  Base,      \* [priority -> its first CAN id]
  Chunks,    \* blocks of four ids per priority (15 in the code)
  QueueLen,  \* entries of the request queue of the clock
  MaxInbox,  \* bounds the telegrams on the way when somebody asks
  Null

Peer(u) == IF u = "master" THEN "second" ELSE "master"
Device == External \cup {"xcv"}
Node == Unit \cup External
Prio(d) == IF d = "xcv" THEN 4 ELSE 1   \* of the jumbo and the sensor, too
Id == UNION {{Base[p] + 4 * n : n \in 0..Chunks - 1} : p \in {1, 4}}

C == INSTANCE Clock WITH Callback <- {"reregister", "query"}

ASSUME CANAssumption ==
  /\ Unit \in {{"master"}, {"master", "second"}}
  /\ External \cap {"master", "second", "xcv"} = {}
  /\ Base \in [{1, 4} -> Nat \ {0}] /\ Chunks \in Nat \ {0}
  /\ Base[4] + 4 * Chunks <= Base[1]
  /\ QueueLen \in Nat \ {0, 1} /\ MaxInbox \in Nat \ {0}
  /\ Null \notin Nat

VARIABLES
  known,   \* [Unit -> [registered devices -> the id the unit sends to]]
  next,    \* [Unit -> nxt_free_slot]
  clock,   \* [Unit -> its clock]
  inbox,   \* [Node -> telegrams received]
  link,    \* the ids of the second unit for its link to the master, or Null
  id,      \* [External -> the id an external device was given, or Null]
  asks,    \* external devices that query
  flarm,   \* [Unit -> "none", "own": a Flarm is connected, "peer": the other
           \* unit is taken for one]
  peerCap, \* [Unit -> peer_caps says that the other one has a Flarm]
  missed,  \* units with a change the other one was not told (history)
  removed, \* devices users removed, and units whose Flarm they did (history)
  calm     \* no restart, no loss and no change of devices any more (history)

registrarVars == <<known, next>>
externalVars == <<id, asks>>
capsVars == <<flarm, peerCap, missed>>
historyVars == <<removed, calm>>
vars == <<registrarVars, clock, inbox, link, externalVars, capsVars, historyVars>>

-----------------------------------------------------------------------------
(* Telegrams: $PJPREG, $PJMACC, $PJMNAC, $PJMLOR, and $PJPCAP on the link  *)
(* of the units.  A device stands for its token and its type.              *)
Reg(d, cap) == [type |-> "reg", dev |-> d, cap |-> cap, ch |-> Null]
Acc(d, ch, cap) == [type |-> "acc", dev |-> d, cap |-> cap, ch |-> ch]
Nac(d) == [type |-> "nac", dev |-> d, cap |-> FALSE, ch |-> Null]
Lor == [type |-> "lor", dev |-> "xcv", cap |-> FALSE, ch |-> Null]
Pcap(cap) == [type |-> "cap", dev |-> "xcv", cap |-> cap, ch |-> Null]
Msg ==
  {Reg(d, c) : d \in Device, c \in BOOLEAN} \cup {Acc(d, i, c) : d \in Device, i \in Id, c \in BOOLEAN}
    \cup {Nac(d) : d \in Device} \cup {Lor} \cup {Pcap(c) : c \in BOOLEAN}

NodeOf(d) == IF d = "xcv" THEN "second" ELSE d
\* Nodes that care for an answer to d.
Answered(u, d) == {NodeOf(d), "second"} \ {u}
\* The bus is quick: nobody asks while there is much on the way.
Room == \A n \in Node : Len(inbox[n]) < MaxInbox

\* m arrives in the inboxes of the nodes ns; box is [Node -> inbox].
Delivered(box, ns, m) == [n \in Node |-> IF n \in ns THEN Append(box[n], m) ELSE box[n]]
Taken(n) == [inbox EXCEPT ![n] = Tail(@)]
Got(n, type) == inbox[n] # <<>> /\ Head(inbox[n]).type = type

\* m tells u whether the other unit has a Flarm.
Tells(u, m) ==
  m.type = "cap" \/ (m.dev = "xcv" /\ m.type = IF u = "master" THEN "reg" ELSE "acc")

HasFlarm(u) == flarm[u] # "none"
\* The units' sync plug-ins, which send and take $PJPCAP.
Synced(u) == IF u = "master" THEN "xcv" \in DOMAIN known["master"] ELSE link # Null

-----------------------------------------------------------------------------
(***************************************************************************)
(* Variants of definitions below, each with a bug that would be easy to    *)
(* make in that code.  The specification does not use them.                *)
(***************************************************************************)
\* A known device gets a new id.
GrantAnew(u, d) == next[u][Prio(d)]
\* The id is picked by the number of devices there are.
GrantByCount(u, d) ==
  IF d \in DOMAIN known[u] THEN known[u][d]
  ELSE Base[Prio(d)] + 4 * Cardinality({e \in DOMAIN known[u] : Prio(e) = Prio(d)})
\* A removed device gives its id back, the way a failed registration does.
RemoveDeviceStepsBack(u, d) ==
  /\ ~calm /\ d \in DOMAIN known[u]
  /\ known' = [known EXCEPT ![u] = [e \in DOMAIN known[u] \ {d} |-> known[u][e]]]
  /\ next' = [next EXCEPT ![u][Prio(d)] = @ - 4]
  /\ removed' = removed \cup {d}
  /\ UNCHANGED <<clock, inbox, link, externalVars, capsVars, calm>>
\* A Flarm is taken from the other unit whether one has one or not.
TakesFlarmAlways(u, cap) == cap
\* The query is stopped and not started when somebody tells to ask again.
RestartsQueryStops(c) == C!Stopped(c, "query")
\* Only a new capability is told, not one that is gone.
AnnouncedNew(u, cap, box) == IF cap THEN Delivered(box, {Peer(u)}, Pcap(cap)) ELSE box
\* One block too many is handed out.
ExhaustedLate(u, p) == next[u][p] > Base[p] + 4 * Chunks
\* Only the other unit is asked to register again.
ReregisteredUnit(u) == {"second"} \ {u}

-----------------------------------------------------------------------------
(***************************************************************************)
(* Capabilities.                                                           *)
(***************************************************************************)
\* setupPeerProtos() adds the Flarm of the other unit.
TakesFlarm(u, cap) == cap /\ ~HasFlarm(u)

\* propagate_caps(), sendCAPs().
Announced(u, cap, box) == Delivered(box, {Peer(u)}, Pcap(cap))

\* peer_caps of u becomes cap.  A Flarm taken over is a new capability of
\* this unit, which it tells the other one; box are the inboxes before.
Digest(u, cap, box) ==
  /\ peerCap' = [peerCap EXCEPT ![u] = cap]
  /\ IF TakesFlarm(u, cap)
     THEN /\ flarm' = [flarm EXCEPT ![u] = "peer"]
          /\ inbox' = Announced(u, TRUE, box)
     ELSE flarm' = flarm /\ inbox' = box

\* The user connects or removes a Flarm; the other unit is told, if there
\* is a sync plug-in to do it.
SetFlarm(u, f) ==
  /\ ~calm
  /\ IF f = "own" THEN ~HasFlarm(u) ELSE HasFlarm(u)
  /\ flarm' = [flarm EXCEPT ![u] = f]
  /\ IF Synced(u)
     THEN inbox' = Announced(u, f # "none", inbox) /\ missed' = missed \ {u}
     ELSE inbox' = inbox /\ missed' = missed \cup {u}
  /\ removed' = IF f = "none" THEN removed \cup {u} ELSE removed
  /\ UNCHANGED <<registrarVars, clock, link, externalVars, peerCap, calm>>

\* parse_caps(); without a sync plug-in nobody reads it.
ReceiveCap(u) ==
  /\ Got(u, "cap") /\ inbox' = Taken(u)
  /\ IF Synced(u)
     THEN peerCap' = [peerCap EXCEPT ![u] = Head(inbox[u]).cap] /\ missed' = missed
     ELSE peerCap' = peerCap /\ missed' = missed \cup {Peer(u)}
  /\ UNCHANGED <<registrarVars, clock, link, externalVars, flarm, historyVars>>

-----------------------------------------------------------------------------
(***************************************************************************)
(* The registrar.                                                          *)
(***************************************************************************)
Exhausted(u, p) == next[u][p] = Base[p] + 4 * Chunks

\* getSendPort(), or reserveCANId().
Grant(u, d) == IF d \in DOMAIN known[u] THEN known[u][d] ELSE next[u][Prio(d)]

Added(k, d, ch) == [e \in DOMAIN k \cup {d} |-> IF e = d THEN ch ELSE k[e]]

\* registration_query(): the device is added, and answered.
Register(u) ==
  /\ Got(u, "reg")
  /\ LET m == Head(inbox[u])
         d == m.dev
         ch == Grant(u, d)
     IN IF d \notin DOMAIN known[u] /\ Exhausted(u, Prio(d))
        THEN /\ inbox' = Delivered(Taken(u), Answered(u, d), Nac(d))
             /\ UNCHANGED <<registrarVars, capsVars>>
        ELSE /\ next' = IF ch = next[u][Prio(d)]
                        THEN [next EXCEPT ![u][Prio(d)] = @ + 4] ELSE next
             /\ known' = [known EXCEPT ![u] = Added(@, d, ch)]
             /\ LET box == Delivered(Taken(u), Answered(u, d), Acc(d, ch, d = "xcv" /\ HasFlarm(u)))
                IN IF d = "xcv" THEN Digest(u, m.cap, box) /\ missed' = missed \ {u}
                                ELSE inbox' = box /\ UNCHANGED capsVars
  /\ UNCHANGED <<clock, link, externalVars, historyVars>>

\* The user removes an external device; it is not told.
RemoveDevice(u, d) ==
  /\ ~calm /\ d \in DOMAIN known[u]
  /\ known' = [known EXCEPT ![u] = [e \in DOMAIN known[u] \ {d} |-> known[u][e]]]
  /\ removed' = removed \cup {d}
  /\ UNCHANGED <<next, clock, inbox, link, externalVars, capsVars, calm>>

-----------------------------------------------------------------------------
(***************************************************************************)
(* The second unit.                                                        *)
(***************************************************************************)

\* registration() compares the token.
ForMe(m) == m.dev = "xcv"

\* registration(): the query is stopped, and the device of the master added
\* with its sync plug-in, unless it is there: then its link stays as it is.
Accepted ==
  /\ Got("second", "acc")
  /\ LET m == Head(inbox["second"]) IN
       IF ForMe(m)
       THEN /\ C!MayRequest(clock["second"])
            /\ clock' = [clock EXCEPT !["second"] = C!Stopped(@, "query")]
            /\ link' = IF link = Null THEN [listen |-> m.ch, send |-> m.ch + 1] ELSE link
            /\ Digest("second", m.cap, Taken("second"))
       ELSE inbox' = Taken("second") /\ UNCHANGED <<clock, link, flarm, peerCap>>
  /\ UNCHANGED <<registrarVars, externalVars, missed, historyVars>>

Rejected ==
  /\ Got("second", "nac") /\ inbox' = Taken("second")
  /\ UNCHANGED <<registrarVars, clock, link, externalVars, capsVars, historyVars>>

\* restart_query(): started again, and asked at once.
RestartsQuery(c) == C!Started(c, "query")
RestartQuery ==
  /\ Got("second", "lor") /\ C!MayRequest(clock["second"])
  /\ clock' = [clock EXCEPT !["second"] = RestartsQuery(@)]
  /\ inbox' = Delivered(Taken("second"), {"master"}, Reg("xcv", HasFlarm("second")))
  /\ missed' = missed \ {"second"}
  /\ UNCHANGED <<registrarVars, link, externalVars, flarm, peerCap, historyVars>>

-----------------------------------------------------------------------------
(***************************************************************************)
(* The timer routine.                                                      *)
(***************************************************************************)
Drain(u) ==
  /\ clock[u].due = {}
  /\ \E turn \in SUBSET C!Registry(clock[u]) :
       /\ turn # {} \/ clock[u].requests # <<>>
       /\ "query" \in turn => Room
       /\ clock' = [clock EXCEPT ![u] = C!Drained(@, turn)]
  /\ UNCHANGED <<registrarVars, inbox, link, externalVars, capsVars, historyVars>>

\* Those asked to register again.
Reregistered(u) == (External \cup {"second"}) \ {u}

\* sendLossOfResgitrations(), once.
TickReregister(u) ==
  /\ "reregister" \in clock[u].due
  /\ clock' = [clock EXCEPT ![u] = C!Called(@, "reregister", TRUE)]
  /\ inbox' = Delivered(inbox, Reregistered(u), Lor)
  /\ UNCHANGED <<registrarVars, link, externalVars, capsVars, historyVars>>

\* sendRegistrationQuery(), with my_caps.
TickQuery ==
  /\ "query" \in clock["second"].due
  /\ clock' = [clock EXCEPT !["second"] = C!Called(@, "query", FALSE)]
  /\ inbox' = Delivered(inbox, {"master"}, Reg("xcv", HasFlarm("second")))
  /\ missed' = missed \ {"second"}
  /\ UNCHANGED <<registrarVars, link, externalVars, flarm, peerCap, historyVars>>

-----------------------------------------------------------------------------
(***************************************************************************)
(* External devices, as the comments in the registrar describe them: they  *)
(* ask until they get an answer, take the first one, and ask again when    *)
(* told to.                                                                *)
(***************************************************************************)
Ask(d) ==
  /\ d \in asks /\ Room
  /\ inbox' = Delivered(inbox, Unit, Reg(d, FALSE))
  /\ UNCHANGED <<registrarVars, clock, link, externalVars, capsVars, historyVars>>

Hear(d) ==
  /\ inbox[d] # <<>> /\ inbox' = Taken(d)
  /\ LET m == Head(inbox[d]) IN
       CASE m.type = "acc" /\ d \in asks -> id' = [id EXCEPT ![d] = m.ch] /\ asks' = asks \ {d}
         [] m.type = "lor" -> asks' = asks \cup {d} /\ id' = id
         [] OTHER -> UNCHANGED externalVars
  /\ UNCHANGED <<registrarVars, clock, link, capsVars, historyVars>>

-----------------------------------------------------------------------------
\* The constructors of the plug-ins start the clock.
Booted(u) ==
  LET c == C!Started(C!Fresh, "reregister") IN IF u = "second" THEN C!Started(c, "query") ELSE c

Init ==
  /\ known = [u \in Unit |-> <<>>] /\ next = [u \in Unit |-> Base]
  /\ clock = [u \in Unit |-> Booted(u)]
  /\ inbox = [n \in Node |-> <<>>]
  /\ link = Null
  /\ id = [d \in External |-> Null] /\ asks = External
  /\ flarm \in [Unit -> {"none", "own"}] /\ peerCap = [u \in Unit |-> FALSE]
  /\ missed = {} /\ removed = {} /\ calm = FALSE

\* A Flarm of its own comes back from flash before the registrar is added.
RestartUnit(u) ==
  /\ ~calm
  /\ known' = [known EXCEPT ![u] = <<>>] /\ next' = [next EXCEPT ![u] = Base]
  /\ clock' = [clock EXCEPT ![u] = Booted(u)]
  /\ inbox' = [inbox EXCEPT ![u] = <<>>]
  /\ link' = IF u = "second" THEN Null ELSE link
  /\ flarm' = [flarm EXCEPT ![u] = IF @ = "own" THEN "own" ELSE "none"]
  /\ peerCap' = [peerCap EXCEPT ![u] = FALSE]
  /\ missed' = IF flarm[u] = "peer" THEN missed \cup {u} ELSE missed
  /\ UNCHANGED <<externalVars, historyVars>>

RestartDevice(d) ==
  /\ ~calm
  /\ id' = [id EXCEPT ![d] = Null] /\ asks' = asks \cup {d}
  /\ inbox' = [inbox EXCEPT ![d] = <<>>]
  /\ UNCHANGED <<registrarVars, clock, link, capsVars, historyVars>>

\* A node misses a telegram, but no request to register again: that is sent
\* only once, and a device that misses it keeps an id nobody knows.
Lose(n) ==
  /\ ~calm /\ inbox[n] # <<>> /\ Head(inbox[n]) # Lor
  /\ inbox' = Taken(n)
  /\ missed' = IF n \in Unit /\ Tells(n, Head(inbox[n])) THEN missed \cup {Peer(n)} ELSE missed
  /\ UNCHANGED <<registrarVars, clock, link, externalVars, flarm, peerCap, historyVars>>

CalmDown ==
  /\ ~calm /\ calm' = TRUE
  /\ UNCHANGED <<registrarVars, clock, inbox, link, externalVars, capsVars, removed>>

UnitReceives(u) ==
  Register(u) \/ ReceiveCap(u) \/ (u = "second" /\ (Accepted \/ Rejected \/ RestartQuery))
Tick(u) == Drain(u) \/ TickReregister(u) \/ (u = "second" /\ TickQuery)

Fault ==
  \/ \E u \in Unit : RestartUnit(u) \/ \E d \in External : RemoveDevice(u, d)
  \/ \E d \in External : RestartDevice(d)
  \/ \E n \in Node : Lose(n)

Next ==
  \/ \E u \in Unit : UnitReceives(u) \/ Tick(u) \/ \E f \in {"none", "own"} : SetFlarm(u, f)
  \/ \E d \in External : Ask(d) \/ Hear(d)
  \/ Fault \/ CalmDown

\* The receivers run, the timer routine calls everybody registered again and
\* again, and external devices do their part.
Fairness ==
  /\ \A u \in Unit : /\ WF_vars(UnitReceives(u))
                     /\ WF_vars(TickReregister(u) \/ (u = "second" /\ TickQuery))
                     /\ \A cb \in {"reregister", "query"} : SF_vars(Drain(u) /\ cb \in clock'[u].due)
                     /\ WF_vars(Drain(u))
  /\ \A d \in External : WF_vars(Ask(d)) /\ WF_vars(Hear(d))

Spec == Init /\ [][Next]_vars
FairSpec == Spec /\ Fairness

-----------------------------------------------------------------------------
(***************************************************************************)
(* Properties.                                                             *)
(***************************************************************************)

\* The variables have their types; the clock queue keeps within its array.
TypeOK ==
  /\ DOMAIN known = Unit /\ next \in [Unit -> [{1, 4} -> Nat]]
  /\ \A u \in Unit : /\ DOMAIN known[u] \subseteq Device
                     /\ \A d \in DOMAIN known[u] : known[u][d] \in Id
                     /\ \A p \in {1, 4} : next[u][p] \in Base[p]..Base[p] + 4 * Chunks
  /\ clock \in [Unit -> C!ClockState] /\ \A u \in Unit : Len(clock[u].requests) <= QueueLen
  /\ inbox \in [Node -> Seq(Msg)]
  /\ link = Null \/ (link.listen \in Id /\ link.send = link.listen + 1)
  /\ id \in [External -> Id \cup {Null}] /\ asks \subseteq External
  /\ flarm \in [Unit -> {"none", "own", "peer"}] /\ peerCap \in [Unit -> BOOLEAN]
  /\ missed \subseteq {"master", "second"} /\ removed \subseteq Unit \cup External /\ calm \in BOOLEAN

\* A registrar has never two devices on one id, whoever was removed, asked
\* again or was answered before (reserveCANId, getSendPort).
IdsDistinct ==
  \A u \in Unit : \A d, e \in DOMAIN known[u] : d # e => known[u][d] # known[u][e]

\* Nor do two devices ever work with one id, one of them may have been
\* removed, but for the time from a restart of a registrar until both have
\* registered again.
Outdated(d) ==
  d \in asks \/ Contains(inbox[d], Lor) \/ \E u \in Unit : "reregister" \in C!Registry(clock[u])
ExternalsApart ==
  \A d, e \in External :
    d # e /\ id[d] # Null /\ id[d] = id[e] => Outdated(d) \/ Outdated(e)

\* Whatever was lost, doubled or restarted, the second unit listens where the
\* master sends to and the other way round, although a second answer leaves
\* its link as it is, and no answer to another device gets it a wrong link.
LinkAgrees ==
  link # Null /\ "xcv" \in DOMAIN known["master"] =>
    link = [listen |-> known["master"]["xcv"], send |-> known["master"]["xcv"] + 1]

\* As long as no user removes a Flarm a unit takes the other one for a Flarm
\* only if that one has one of its own, in whatever order their queries,
\* answers and changes cross: never do the two take each other for one
\* (setupPeerProtos, "caps the peer has but not this device").
NoPhantomFlarm ==
  \A u, v \in Unit : u # v /\ flarm[u] = "peer" => flarm[v] = "own" \/ removed \cap Unit # {}

\* Once everything is answered each unit knows whether the other one has a
\* Flarm, but for a change it was not told.
Quiet ==
  /\ Synced("master") /\ Synced("second")
  /\ \A n \in Node : inbox[n] = <<>>
  /\ "query" \notin C!Registry(clock["second"]) /\ "reregister" \notin C!Registry(clock["master"])
CapsAgree ==
  Quiet => \A u, v \in Unit : u # v => peerCap[v] = HasFlarm(u) \/ u \in missed

\* In the end the units are linked, and the second one stops asking.
EventuallyLinked ==
  calm ~> [](Synced("master") /\ Synced("second") /\ "query" \notin C!Registry(clock["second"]))

\* In the end every external device has an id at which some unit knows it,
\* unless a user removed it or a registrar has run out of ids.
EventuallyServed ==
  \A d \in External :
    calm ~> [](\/ \E u \in Unit : d \in DOMAIN known[u] /\ known[u][d] = id[d]
               \/ d \in removed
               \/ \E u \in Unit : Exhausted(u, Prio(d)))
=============================================================================
