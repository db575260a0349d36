---------------------------- MODULE FlarmSession ----------------------------
(***************************************************************************)
(* A binary session of a host, a navigation computer say, with a Flarm     *)
(* through the instrument (comm/DataLink.cpp, protocol/FlarmBin.cpp,       *)
(* nmea/FlarmHostMsg.cpp and FlarmMsg.cpp).  The host asks with $PFLAX;    *)
(* its data link turns to binary at once, to keep NMEA off the line.  When *)
(* the Flarm confirms, its link turns to binary as well, and the parsers   *)
(* of the two links are made peers that send each other what they receive. *)
(* A frame that exits, or one that is damaged, ends the session.           *)
(*                                                                         *)
(* Each link has a receiver task.  A receiver that ends the session turns  *)
(* the link of its peer back first and toggles its own one later.          *)
(***************************************************************************)
EXTENDS Naturals, Sequences

CONSTANT MaxChan   \* bounds the telegrams on a line (buffers, in the code)

ASSUME ChanAssumption == MaxChan \in Nat \ {0}

Link == {"host", "flarm"}
Other(l) == IF l = "host" THEN "flarm" ELSE "host"

\* Telegrams: the request, its answers, other NMEA; frames of the session.
Text == {"request", "ack", "error", "text"}
Frame == {"data", "exit", "odd"}

VARIABLES
  active,     \* [Link -> "nmea" or "bin"]
  peer,       \* links whose binary parser has a _binpeer
  initiator,  \* a host asked for a session (_flarm_bp)
  task,       \* [Link -> where its receiver is]
  in, out,    \* [Link -> telegrams from and to the party on the line]
  mode,       \* [Link -> what that party talks: "text" or "bin"]
  spoiled     \* what kept a session from its normal course (history)

linkVars == <<active, peer, initiator>>
vars == <<linkVars, task, in, out, mode, spoiled>>

\* spoiled: the Flarm refused, a routed telegram was dropped for want of a
\* buffer, the host or the Flarm left without an exit, both receivers ended
\* the session at once.
Spoil == {"refused", "dropped", "vanished", "both"}
Tasks == {"idle", "requested", "confirming", "linking", "bailing", "leaving"}

Init ==
  /\ active = [l \in Link |-> "nmea"] /\ peer = {} /\ initiator = FALSE
  /\ task = [l \in Link |-> "idle"]
  /\ in = [l \in Link |-> <<>>] /\ out = [l \in Link |-> <<>>]
  /\ mode = [l \in Link |-> "text"] /\ spoiled = {}

\* There is a buffer for one more; a variant with a bug sees one too many.
RoomOneMore(line) == Len(line) <= MaxChan
Room(line) == Len(line) < MaxChan

\* The receiver of l is about to work on m, in NMEA or binary.
Gets(l, protocol, m) ==
  task[l] = "idle" /\ active[l] = protocol /\ in[l] # <<>> /\ Head(in[l]) = m
Take(l) == in' = [in EXCEPT ![l] = Tail(@)]

-----------------------------------------------------------------------------
(***************************************************************************)
(* Variants of definitions below, each with a bug that would be easy to    *)
(* make in that code.  The specification does not use them.                *)
(***************************************************************************)
\* The end of a session leaves the link of the peer as it is.
BailedOutAlone(l) == active
\* Any answer of the Flarm is a confirmation.
ConfirmsAny(m) == initiator /\ m \in {"ack", "error"}
\* The protocol is switched one way only.
ToggledToBinary(l) == [active EXCEPT ![l] = "bin"]

-----------------------------------------------------------------------------
\* doForward(): without a free buffer the telegram is dropped.
Route(l, m) ==
  IF Room(out[Other(l)])
  THEN out' = [out EXCEPT ![Other(l)] = Append(@, m)] /\ spoiled' = spoiled
  ELSE out' = out /\ spoiled' = IF m = "text" THEN spoiled ELSE spoiled \cup {"dropped"}

\* FlarmHostMsg::parsePFLAX().
Request ==
  /\ Gets("host", "nmea", "request") /\ Take("host")
  /\ initiator' = TRUE /\ Route("host", "request")
  /\ task' = [task EXCEPT !["host"] = "requested"]
  /\ UNCHANGED <<active, peer, mode>>

\* FlarmMsg::parsePFLAX(): the answer has one word, A, and a host has asked.
Confirms(m) == initiator /\ m = "ack"

Confirm ==
  /\ \E m \in Text : Gets("flarm", "nmea", m) /\ Confirms(m)
  /\ Take("flarm")
  /\ active' = [active EXCEPT !["flarm"] = "bin"]
  /\ task' = [task EXCEPT !["flarm"] = "confirming"]
  /\ UNCHANGED <<peer, initiator, out, mode, spoiled>>

\* setPeer() for the parser of the device, and then for that of the host.
\* The turn to binary has emptied the frame, so the host gets no answer.
LinkDevice ==
  /\ task["flarm"] = "confirming" /\ task' = [task EXCEPT !["flarm"] = "linking"]
  /\ peer' = peer \cup {"flarm"}
  /\ UNCHANGED <<active, initiator, in, out, mode, spoiled>>

LinkHost ==
  /\ task["flarm"] = "linking" /\ task' = [task EXCEPT !["flarm"] = "idle"]
  /\ peer' = peer \cup {"host"}
  /\ UNCHANGED <<active, initiator, in, out, mode, spoiled>>

\* Other telegrams of the Flarm are routed to the host.
RouteText ==
  /\ \E m \in {"ack", "error", "text"} : Gets("flarm", "nmea", m) /\ ~Confirms(m) /\ Route("flarm", m)
  /\ Take("flarm")
  /\ UNCHANGED <<linkVars, task, mode>>

\* A frame in NMEA mode; anything in binary mode without a peer; NMEA in
\* binary mode, in which no frame starts.
Ignore(l) ==
  /\ \/ \E m \in Frame : Gets(l, "nmea", m)
     \/ \E m \in Text \cup Frame : Gets(l, "bin", m) /\ (l \notin peer \/ m \in Text)
  /\ Take(l)
  /\ UNCHANGED <<linkVars, task, out, mode, spoiled>>

\* FlarmBinary::nextBytes(); send_chunk() waits for a buffer.
Forward(l) ==
  /\ l \in peer /\ Room(out[Other(l)])
  /\ \/ Gets(l, "bin", "data") /\ task' = task
     \/ Gets(l, "bin", "exit") /\ task' = [task EXCEPT ![l] = "bailing"]
  /\ Take(l) /\ out' = [out EXCEPT ![Other(l)] = Append(@, Head(in[l]))]
  /\ UNCHANGED <<linkVars, mode, spoiled>>

\* The header of the damaged frame is in the buffer and gets routed as well;
\* that is left out: neither party takes these few bytes for a telegram.
OddLength(l) ==
  /\ l \in peer /\ Gets(l, "bin", "odd") /\ Take(l)
  /\ task' = [task EXCEPT ![l] = "bailing"]
  /\ UNCHANGED <<linkVars, out, mode, spoiled>>

\* bailOut(): goNMEA() for the link of the peer.  What follows in the packet
\* that held the exit or the damaged header is dropped with it; the parties
\* are taken to send each telegram in a packet of its own.
BailedOut(l) == IF l \in peer THEN [active EXCEPT ![Other(l)] = "nmea"] ELSE active

BailOut(l) ==
  /\ task[l] = "bailing" /\ task' = [task EXCEPT ![l] = "leaving"]
  /\ active' = BailedOut(l) /\ peer' = peer \ {l}
  /\ UNCHANGED <<initiator, in, out, mode, spoiled>>

\* switchProtocol().
Toggled(l) == [active EXCEPT ![l] = IF @ = "nmea" THEN "bin" ELSE "nmea"]

Switch(l) ==
  /\ task[l] \in {"requested", "leaving"} /\ task' = [task EXCEPT ![l] = "idle"]
  /\ active' = Toggled(l)
  /\ spoiled' = IF task[l] = "leaving" /\ active[l] = "nmea" THEN spoiled \cup {"both"} ELSE spoiled
  /\ UNCHANGED <<peer, initiator, in, out, mode>>

-----------------------------------------------------------------------------
(***************************************************************************)
(* The parties.  The host does not wait for an answer before it talks      *)
(* binary; the Flarm decides whether it does.                              *)
(***************************************************************************)
Says(l, m, talks) ==
  /\ Room(in[l]) /\ in' = [in EXCEPT ![l] = Append(@, m)]
  /\ mode' = [mode EXCEPT ![l] = talks]

HostSays ==
  /\ \/ mode["host"] = "text" /\ Says("host", "request", "bin")
     \/ mode["host"] = "bin" /\ \E m \in Frame : Says("host", m, IF m = "exit" THEN "text" ELSE "bin")
  /\ UNCHANGED <<linkVars, task, out, spoiled>>

HostReads ==
  /\ out["host"] # <<>> /\ out' = [out EXCEPT !["host"] = Tail(@)]
  /\ mode' = [mode EXCEPT !["host"] = IF Head(out["host"]) = "error" THEN "text" ELSE @]
  /\ UNCHANGED <<linkVars, task, in, spoiled>>

FlarmSays ==
  /\ \/ mode["flarm"] = "text" /\ Says("flarm", "text", "text")
     \/ mode["flarm"] = "bin" /\ \E m \in {"data", "odd"} : Says("flarm", m, "bin")
  /\ UNCHANGED <<linkVars, task, out, spoiled>>

FlarmReads ==
  /\ out["flarm"] # <<>> /\ out' = [out EXCEPT !["flarm"] = Tail(@)]
  /\ LET m == Head(out["flarm"]) IN
       IF m = "request" /\ mode["flarm"] = "text"
       THEN \/ Says("flarm", "ack", "bin") /\ spoiled' = spoiled
            \/ Says("flarm", "error", "text") /\ spoiled' = spoiled \cup {"refused"}
       ELSE /\ mode' = [mode EXCEPT !["flarm"] = IF m = "exit" THEN "text" ELSE @]
            /\ UNCHANGED <<in, spoiled>>
  /\ UNCHANGED <<linkVars, task>>

\* A party starts anew and talks text.
Vanish(l) ==
  /\ mode[l] = "bin" /\ mode' = [mode EXCEPT ![l] = "text"]
  /\ spoiled' = spoiled \cup {"vanished"}
  /\ UNCHANGED <<linkVars, task, in, out>>

-----------------------------------------------------------------------------
Receiver(l) ==
  \/ Ignore(l) \/ Forward(l) \/ OddLength(l) \/ BailOut(l) \/ Switch(l)
  \/ l = "host" /\ Request
  \/ l = "flarm" /\ (Confirm \/ LinkDevice \/ LinkHost \/ RouteText)

Next ==
  \/ \E l \in Link : Receiver(l) \/ Vanish(l)
  \/ HostSays \/ HostReads \/ FlarmSays \/ FlarmReads

\* The receivers run, and the parties take what they are sent.
Fairness == (\A l \in Link : WF_vars(Receiver(l))) /\ WF_vars(HostReads) /\ WF_vars(FlarmReads)
Spec == Init /\ [][Next]_vars
FairSpec == Spec /\ Fairness

-----------------------------------------------------------------------------
(***************************************************************************)
(* Properties.                                                             *)
(***************************************************************************)

\* The variables have their types.
TypeOK ==
  /\ active \in [Link -> {"nmea", "bin"}] /\ peer \subseteq Link /\ initiator \in BOOLEAN
  /\ task \in [Link -> Tasks] /\ mode \in [Link -> {"text", "bin"}]
  /\ in \in [Link -> Seq(Text \cup Frame)] /\ out \in [Link -> Seq(Text \cup Frame)]
  /\ \A l \in Link : Len(in[l]) <= MaxChan /\ Len(out[l]) <= MaxChan
  /\ spoiled \subseteq Spoil

\* The instrument listens to the NMEA of the Flarm whenever the Flarm talks
\* it, but for the moment in which an exit has been sent on and the link is
\* about to follow (FlarmBinary::nextBytes, DataLink::goNMEA), and but for
\* the ways to spoil a session that concern this link.
FlarmHeard ==
  mode["flarm"] = "text" /\ active["flarm"] = "bin" =>
    task["host"] = "bailing" \/ spoiled \cap {"vanished", "both"} # {}

\* When nobody has anything to say any more and both parties talk text, both
\* links are in NMEA mode, so the host gets its data and can ask again: the
\* end of a session leaves nothing behind, whoever ended it.  A refusal, a
\* dropped request, a party that vanishes and two receivers that end the
\* session at once do leave a link in binary mode.
Quiet ==
  \A l \in Link : task[l] = "idle" /\ in[l] = <<>> /\ out[l] = <<>> /\ mode[l] = "text"
TextAgain == Quiet /\ spoiled = {} => \A l \in Link : active[l] = "nmea"

\* Both parties are in session through peers.
Linked == \A l \in Link : active[l] = "bin" /\ l \in peer

\* An exit of the host ends a session: each link turns back, unless both
\* receivers end it at once (the one then toggles its link to binary again).
ExitEnds ==
  \A l \in Link :
    Linked /\ Gets("host", "bin", "exit") ~> (task[l] = "idle" /\ active[l] = "nmea") \/ "both" \in spoiled
=============================================================================
