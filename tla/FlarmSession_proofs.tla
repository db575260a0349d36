------------------------ MODULE FlarmSession_proofs -------------------------
(***************************************************************************)
(* Proofs about binary sessions, for lines of any length.                  *)
(***************************************************************************)
EXTENDS FlarmSession, TLAPS, SequenceTheorems

Telegram == Text \cup Frame

-----------------------------------------------------------------------------
(* Telegrams at the end and at the head of a line.                         *)

LEMMA LineAppend ==
  ASSUME NEW s \in Seq(Telegram), NEW m \in Telegram
  PROVE  /\ Append(s, m) \in Seq(Telegram) /\ Append(s, m) # <<>>
         /\ Len(s) \in Nat /\ Len(Append(s, m)) = Len(s) + 1
         /\ \A i \in 1..Len(s) : Append(s, m)[i] = s[i]
         /\ Append(s, m)[Len(s) + 1] = m
BY AppendProperties, LenProperties

LEMMA LineTail ==
  ASSUME NEW s \in Seq(Telegram), s # <<>>
  PROVE  /\ Tail(s) \in Seq(Telegram) /\ Head(s) \in Telegram /\ Head(s) = s[1]
         /\ Len(s) \in Nat /\ Len(s) >= 1 /\ Len(Tail(s)) = Len(s) - 1
         /\ \A i \in 1..(Len(s) - 1) : Tail(s)[i] = s[i + 1]
BY HeadTailProperties, LenProperties, EmptySeq

-----------------------------------------------------------------------------
(* Type correctness.                                                       *)

LEMMA InitType == Init => TypeOK
<1> SUFFICES ASSUME Init PROVE TypeOK
  OBVIOUS
<1>1. <<>> \in Seq(Text \cup Frame) /\ Len(<<>>) = 0 /\ Len(<<>>) <= MaxChan
  BY EmptySeq, ChanAssumption
<1>2. \A l \in Link : in[l] = <<>> /\ out[l] = <<>>
  BY DEF Init
<1>3. /\ active \in [Link -> {"nmea", "bin"}] /\ peer \subseteq Link /\ initiator \in BOOLEAN
      /\ in \in [Link -> Seq(Text \cup Frame)] /\ out \in [Link -> Seq(Text \cup Frame)]
      /\ task \in [Link -> Tasks] /\ mode \in [Link -> {"text", "bin"}] /\ spoiled \subseteq Spoil
  BY <1>1 DEF Init, Tasks
<1>4. QED BY <1>1, <1>2, <1>3 DEF TypeOK

\* A receiver takes the first telegram off its line.
LEMMA TakeType ==
  ASSUME TypeOK, NEW l \in Link, in[l] # <<>>, Take(l)
  PROVE  in' \in [Link -> Seq(Telegram)] /\ \A k \in Link : Len(in'[k]) <= MaxChan
BY LineTail, ChanAssumption DEF TypeOK, Take, Telegram

\* What is routed or forwarded keeps within the line.
LEMMA OutType ==
  ASSUME TypeOK, NEW l \in Link, NEW m \in Telegram, Room(out[l]),
         out' = [out EXCEPT ![l] = Append(@, m)]
  PROVE  out' \in [Link -> Seq(Telegram)] /\ \A k \in Link : Len(out'[k]) <= MaxChan
BY LineAppend, ChanAssumption DEF TypeOK, Room, Telegram

LEMMA RouteType ==
  ASSUME TypeOK, NEW l \in Link, NEW m \in Telegram, Route(l, m)
  PROVE  /\ out' \in [Link -> Seq(Telegram)] /\ \A k \in Link : Len(out'[k]) <= MaxChan
         /\ spoiled' \subseteq Spoil
<1>1. Other(l) \in Link
  BY DEF Other, Link
<1>2. spoiled' \subseteq Spoil
  BY DEF Route, TypeOK, Spoil
<1>3. CASE Room(out[Other(l)])
  BY <1>1, <1>2, <1>3, OutType DEF Route
<1>4. CASE ~Room(out[Other(l)])
  BY <1>2, <1>4 DEF Route, TypeOK, Telegram
<1>5. QED BY <1>3, <1>4

LEMMA SaysType ==
  ASSUME TypeOK, NEW l \in Link, NEW m \in Telegram, NEW t \in {"text", "bin"}, Says(l, m, t)
  PROVE  /\ in' \in [Link -> Seq(Telegram)] /\ \A k \in Link : Len(in'[k]) <= MaxChan
         /\ mode' \in [Link -> {"text", "bin"}]
<1>1. mode' \in [Link -> {"text", "bin"}]
  BY DEF TypeOK, Says
<1>2. QED BY <1>1, LineAppend, ChanAssumption DEF TypeOK, Says, Room, Telegram

LEMMA ReceiverType ==
  ASSUME TypeOK, NEW l \in Link, Receiver(l)
  PROVE  TypeOK'
<1> USE DEF Tasks
<1>1. CASE Ignore(l)
  BY <1>1, TakeType DEF TypeOK, Ignore, linkVars, Gets, Telegram
<1>2. CASE Forward(l)
  <2>1. in[l] # <<>> /\ Head(in[l]) \in Telegram /\ Other(l) \in Link
    BY <1>2 DEF Forward, Gets, Telegram, Frame, Other, Link
  <2>2. out' \in [Link -> Seq(Telegram)] /\ \A k \in Link : Len(out'[k]) <= MaxChan
    BY <1>2, <2>1, OutType DEF Forward
  <2>3. in' \in [Link -> Seq(Telegram)] /\ \A k \in Link : Len(in'[k]) <= MaxChan
    BY <1>2, <2>1, TakeType DEF Forward
  <2>4. task' \in [Link -> Tasks]
    BY <1>2 DEF Forward, TypeOK
  <2>5. QED BY <1>2, <2>2, <2>3, <2>4 DEF Forward, TypeOK, linkVars, Telegram
<1>3. CASE OddLength(l)
  BY <1>3, TakeType DEF TypeOK, OddLength, linkVars, Gets, Telegram
<1>4. CASE BailOut(l)
  BY <1>4 DEF TypeOK, BailOut, BailedOut
<1>5. CASE Switch(l)
  BY <1>5 DEF TypeOK, Switch, Toggled, Spoil
<1>6. CASE l = "host" /\ Request
  <2>1. in' \in [Link -> Seq(Telegram)] /\ \A k \in Link : Len(in'[k]) <= MaxChan
    BY <1>6, TakeType DEF Request, Gets
  <2>2. /\ out' \in [Link -> Seq(Telegram)] /\ \A k \in Link : Len(out'[k]) <= MaxChan
        /\ spoiled' \subseteq Spoil
    BY <1>6, RouteType DEF Request, Telegram, Text
  <2>3. QED BY <1>6, <2>1, <2>2 DEF Request, TypeOK, Telegram
<1>7. CASE l = "flarm" /\ (Confirm \/ LinkDevice \/ LinkHost)
  <2>1. CASE Confirm
    BY <1>7, <2>1, TakeType DEF TypeOK, Confirm, Gets, Telegram
  <2>2. CASE LinkDevice \/ LinkHost
    BY <2>2 DEF TypeOK, LinkDevice, LinkHost, Link
  <2>3. QED BY <1>7, <2>1, <2>2
<1>8. CASE l = "flarm" /\ RouteText
  <2>1. in' \in [Link -> Seq(Telegram)] /\ \A k \in Link : Len(in'[k]) <= MaxChan
    BY <1>8, TakeType DEF RouteText, Gets
  <2>2. /\ out' \in [Link -> Seq(Telegram)] /\ \A k \in Link : Len(out'[k]) <= MaxChan
        /\ spoiled' \subseteq Spoil
    BY <1>8, RouteType DEF RouteText, Telegram, Text
  <2>3. QED BY <1>8, <2>1, <2>2 DEF RouteText, TypeOK, Telegram, linkVars
<1>9. QED BY <1>1, <1>2, <1>3, <1>4, <1>5, <1>6, <1>7, <1>8 DEF Receiver

LEMMA PartyType ==
  ASSUME TypeOK, HostSays \/ HostReads \/ FlarmSays \/ FlarmReads \/ \E l \in Link : Vanish(l)
  PROVE  TypeOK'
<1>h. "host" \in Link /\ "flarm" \in Link
  BY DEF Link
<1>1. CASE HostSays
  <2>1. PICK m \in Telegram, t \in {"text", "bin"} : Says("host", m, t)
    BY <1>1 DEF HostSays, Telegram, Text, Frame
  <2>2. QED BY <1>1, <1>h, <2>1, SaysType DEF HostSays, TypeOK, Telegram, linkVars
<1>2. CASE FlarmSays
  <2>1. PICK m \in Telegram, t \in {"text", "bin"} : Says("flarm", m, t)
    BY <1>2 DEF FlarmSays, Telegram, Text, Frame
  <2>2. QED BY <1>2, <1>h, <2>1, SaysType DEF FlarmSays, TypeOK, Telegram, linkVars
<1>3. ASSUME NEW l \in Link, out[l] # <<>>, out' = [out EXCEPT ![l] = Tail(@)]
      PROVE  out' \in [Link -> Seq(Telegram)] /\ \A k \in Link : Len(out'[k]) <= MaxChan
  BY <1>3, LineTail, ChanAssumption DEF TypeOK, Telegram
<1>4. CASE HostReads
  <2>1. mode' \in [Link -> {"text", "bin"}]
    BY <1>4 DEF HostReads, TypeOK
  <2>2. QED BY <1>3, <1>4, <1>h, <2>1 DEF HostReads, TypeOK, Telegram, linkVars
<1>5. CASE FlarmReads
  <2>1. out' \in [Link -> Seq(Telegram)] /\ \A k \in Link : Len(out'[k]) <= MaxChan
    BY <1>3, <1>5, <1>h DEF FlarmReads
  <2>2. CASE Head(out["flarm"]) = "request" /\ mode["flarm"] = "text"
    <3>1. PICK m \in Telegram, t \in {"text", "bin"} : Says("flarm", m, t)
      BY <1>5, <2>2 DEF FlarmReads, Telegram, Text
    <3>2. spoiled' \subseteq Spoil
      BY <1>5, <2>2 DEF FlarmReads, TypeOK, Spoil
    <3>3. QED BY <1>5, <1>h, <2>1, <3>1, <3>2, SaysType DEF FlarmReads, TypeOK, Telegram, linkVars
  <2>3. CASE ~(Head(out["flarm"]) = "request" /\ mode["flarm"] = "text")
    BY <1>5, <2>1, <2>3 DEF FlarmReads, TypeOK, Telegram, linkVars
  <2>4. QED BY <2>2, <2>3
<1>6. CASE \E l \in Link : Vanish(l)
  BY <1>6 DEF Vanish, TypeOK, linkVars, Spoil
<1>7. QED BY <1>1, <1>2, <1>4, <1>5, <1>6

LEMMA NextType == TypeOK /\ [Next]_vars => TypeOK'
<1> SUFFICES ASSUME TypeOK, [Next]_vars PROVE TypeOK'
  OBVIOUS
<1>1. CASE UNCHANGED vars
  BY <1>1 DEF vars, linkVars, TypeOK
<1>2. CASE Next
  BY <1>2, ReceiverType, PartyType DEF Next
<1>3. QED BY <1>1, <1>2

\* The variables keep their types, and no line exceeds its bound.
THEOREM TypeCorrect == Spec => []TypeOK
BY InitType, NextType, PTL DEF Spec

-----------------------------------------------------------------------------
(***************************************************************************)
(* The Flarm is heard.  The invariant follows a session: the answer of the *)
(* Flarm is on its line, or its receiver is making the parsers peers, or   *)
(* the parser of the host has its peer.  In each of the three the Flarm    *)
(* talks binary and no exit is on the way to it, until the receiver of the *)
(* host ends the session.                                                  *)
(***************************************************************************)
Has(s, m) == \E i \in 1..Len(s) : s[i] = m
Once(s, m) == \A i, j \in 1..Len(s) : s[i] = m /\ s[j] = m => i = j
AtEnd(s, m) == \A i \in 1..Len(s) : s[i] = m => i = Len(s)

Acked == Has(in["flarm"], "ack")
Linking == task["flarm"] \in {"confirming", "linking"}
Peered == "host" \in peer

Agreed == mode["flarm"] = "bin" /\ ~Has(out["flarm"], "exit")

\* The Flarm stays in the session while it lasts.
Lasts == Acked \/ Linking \/ (Peered /\ task["host"] # "bailing") => Agreed
\* The three do not overlap.
OneStage ==
  /\ ~(Acked /\ Linking) /\ ~(Acked /\ Peered) /\ ~(Linking /\ Peered)
  /\ Once(in["flarm"], "ack")
\* The host has sent its exit last, and the Flarm has read all of it.
Ends ==
  task["host"] = "bailing" =>
    /\ Peered
    /\ mode["flarm"] = "text" => out["flarm"] = <<>>
    /\ AtEnd(out["flarm"], "exit")
\* A Flarm an exit is on the way to still talks binary, and its link has
\* turned back or is about to.
OneExit ==
  /\ Once(out["flarm"], "exit")
  /\ Has(out["flarm"], "exit") =>
       mode["flarm"] = "bin" /\ (active["flarm"] = "nmea" \/ task["host"] = "bailing")
Heard == mode["flarm"] = "text" /\ active["flarm"] = "bin" => task["host"] = "bailing"

Unspoiled == spoiled \cap {"vanished", "both"} = {}
Course == Lasts /\ OneStage /\ Ends /\ OneExit /\ Heard
IInv == TypeOK /\ task["flarm"] # "requested" /\ (Unspoiled => Course)

LEMMA HasNothing ==
  ASSUME NEW x
  PROVE  ~Has(<<>>, x) /\ Once(<<>>, x)
BY EmptySeq DEF Has, Once

LEMMA HasAppend ==
  ASSUME NEW s \in Seq(Telegram), NEW m \in Telegram, NEW x
  PROVE  /\ Has(Append(s, m), x) <=> Has(s, x) \/ m = x
         /\ Once(s, x) /\ (m # x \/ ~Has(s, x)) => Once(Append(s, m), x)
         /\ ~Has(s, x) => AtEnd(Append(s, m), x)
<1> DEFINE t == Append(s, m)
<1>1. /\ Len(s) \in Nat /\ Len(t) = Len(s) + 1
      /\ \A i \in 1..Len(s) : t[i] = s[i]
      /\ t[Len(s) + 1] = m
  BY LineAppend
<1> HIDE DEF t
<1>2. Has(t, x) <=> Has(s, x) \/ m = x
  <2>1. ASSUME Has(t, x) PROVE Has(s, x) \/ m = x
    BY <1>1, <2>1 DEF Has
  <2>2. ASSUME Has(s, x) PROVE Has(t, x)
    BY <1>1, <2>2 DEF Has
  <2>3. ASSUME m = x PROVE Has(t, x)
    BY <1>1, <2>3 DEF Has
  <2>4. QED BY <2>1, <2>2, <2>3
<1>3. Once(s, x) /\ (m # x \/ ~Has(s, x)) => Once(t, x)
  BY <1>1 DEF Once, Has
<1>4. ~Has(s, x) => AtEnd(t, x)
  BY <1>1 DEF AtEnd, Has
<1>5. QED BY <1>2, <1>3, <1>4 DEF t

LEMMA HasTail ==
  ASSUME NEW s \in Seq(Telegram), s # <<>>, NEW x
  PROVE  /\ Has(Tail(s), x) => Has(s, x)
         /\ Head(s) = x => Has(s, x)
         /\ Once(s, x) => Once(Tail(s), x)
         /\ Once(s, x) /\ Head(s) = x => ~Has(Tail(s), x)
         /\ AtEnd(s, x) => AtEnd(Tail(s), x)
         /\ AtEnd(s, x) /\ Head(s) = x => Tail(s) = <<>>
<1> DEFINE t == Tail(s)
<1>1. /\ Len(s) \in Nat /\ Len(s) >= 1 /\ Len(t) = Len(s) - 1
      /\ \A i \in 1..(Len(s) - 1) : t[i] = s[i + 1]
      /\ Head(s) = s[1] /\ t \in Seq(Telegram)
  BY LineTail
<1>2. Len(t) = 0 => t = <<>>
  BY <1>1, EmptySeq
<1> HIDE DEF t
<1>3. Has(t, x) => Has(s, x)
  BY <1>1 DEF Has
<1>4. Head(s) = x => Has(s, x)
  BY <1>1 DEF Has
<1>5. Once(s, x) => Once(t, x)
  BY <1>1 DEF Once
<1>6. Once(s, x) /\ Head(s) = x => ~Has(t, x)
  BY <1>1 DEF Once, Has
<1>7. AtEnd(s, x) => AtEnd(t, x)
  BY <1>1 DEF AtEnd
<1>8. AtEnd(s, x) /\ Head(s) = x => t = <<>>
  BY <1>1, <1>2 DEF AtEnd
<1>9. QED BY <1>3, <1>4, <1>5, <1>6, <1>7, <1>8 DEF t

-----------------------------------------------------------------------------
(* The steps of the receivers.                                             *)

\* Taking a telegram off the line of the Flarm leaves no new answer there.
LEMMA TakeCourse ==
  ASSUME TypeOK, NEW l \in Link, in[l] # <<>>, Take(l)
  PROVE  /\ Acked' => Acked
         /\ Once(in["flarm"], "ack") => Once(in'["flarm"], "ack")
         /\ l = "flarm" /\ Head(in[l]) = "ack" /\ Once(in["flarm"], "ack") => ~Acked'
<1>1. CASE l = "flarm"
  <2>1. in'["flarm"] = Tail(in["flarm"]) /\ in["flarm"] \in Seq(Telegram)
    BY <1>1 DEF Take, TypeOK, Telegram, Link
  <2>2. QED BY <1>1, <2>1, HasTail DEF Acked
<1>2. CASE l # "flarm"
  BY <1>2 DEF Take, TypeOK, Acked, Link
<1>3. QED BY <1>1, <1>2

\* Steps that only take telegrams off the line of the Flarm.
LEMMA QuietCourse ==
  ASSUME TypeOK, Course, Acked' => Acked, Once(in'["flarm"], "ack"),
         out'["flarm"] = out["flarm"], mode'["flarm"] = mode["flarm"],
         peer' = peer, active'["flarm"] = active["flarm"], task'["host"] = task["host"],
         Linking' => Linking
  PROVE  Course'
BY DEF Course, Lasts, OneStage, Ends, OneExit, Heard, Agreed, Peered

\* What the lines of the Flarm hold.
LEMMA Lines ==
  ASSUME TypeOK
  PROVE  /\ in["flarm"] \in Seq(Telegram) /\ out["flarm"] \in Seq(Telegram)
         /\ "host" \in Link /\ "flarm" \in Link /\ Other("host") = "flarm" /\ Other("flarm") = "host"
BY DEF TypeOK, Telegram, Link, Other

LEMMA HostReceives ==
  ASSUME TypeOK, Course, task["flarm"] # "requested",
         Ignore("host") \/ Forward("host") \/ OddLength("host") \/ BailOut("host") \/ Switch("host") \/ Request
  PROVE  Course'
<1>h. /\ in["flarm"] \in Seq(Telegram) /\ out["flarm"] \in Seq(Telegram)
      /\ "host" \in Link /\ "flarm" \in Link /\ Other("host") = "flarm"
  BY Lines
<1>d. /\ Lasts /\ OneStage /\ Ends /\ OneExit /\ Heard
      /\ in \in [Link -> Seq(Telegram)] /\ out \in [Link -> Seq(Telegram)]
      /\ task \in [Link -> Tasks] /\ active \in [Link -> {"nmea", "bin"}]
  BY DEF Course, TypeOK, Telegram
<1> USE <1>h, <1>d
<1>1. CASE Ignore("host")
  <2>1. in'["flarm"] = in["flarm"] /\ out' = out /\ task' = task /\ peer' = peer /\ mode' = mode /\ active' = active
    BY <1>1 DEF Ignore, Take, linkVars, Link
  <2>2. QED BY <2>1, QuietCourse DEF Acked, OneStage, Linking
<1>2. CASE Forward("host")
  <2>1. PICK m \in Telegram :
          /\ m \in {"data", "exit"} /\ out'["flarm"] = Append(out["flarm"], m)
          /\ task'["host"] = IF m = "exit" THEN "bailing" ELSE "idle"
    BY <1>2 DEF Forward, Gets, Telegram, Frame
  <2>2. /\ in'["flarm"] = in["flarm"] /\ task'["flarm"] = task["flarm"] /\ task["host"] = "idle"
        /\ "host" \in peer /\ peer' = peer /\ mode' = mode /\ active' = active
    BY <1>2 DEF Forward, Take, Gets, linkVars, Link
  <2>3. Agreed /\ ~Acked /\ ~Linking
    BY <2>2 DEF Lasts, OneStage, Peered
  <2>4. /\ Has(out'["flarm"], "exit") => m = "exit"
        /\ Once(out'["flarm"], "exit") /\ AtEnd(out'["flarm"], "exit")
    BY <2>1, <2>3, HasAppend DEF OneExit, Agreed
  <2>5. mode'["flarm"] = "bin" /\ ~Acked' /\ ~Linking'
    BY <2>2, <2>3 DEF Agreed, Acked, Linking
  <2>6. Lasts' /\ OneStage'
    BY <2>1, <2>2, <2>4, <2>5 DEF Lasts, OneStage, Agreed, Peered
  <2>7. Ends' /\ OneExit' /\ Heard'
    BY <2>1, <2>2, <2>4, <2>5 DEF Ends, OneExit, Heard, Peered
  <2>8. QED BY <2>6, <2>7 DEF Course
<1>3. CASE OddLength("host")
  <2>1. /\ in'["flarm"] = in["flarm"] /\ task'["flarm"] = task["flarm"] /\ task["host"] = "idle"
        /\ task'["host"] = "bailing" /\ out' = out
        /\ "host" \in peer /\ peer' = peer /\ mode' = mode /\ active' = active
    BY <1>3 DEF OddLength, Take, Gets, linkVars, Link
  <2>2. Agreed /\ ~Acked /\ ~Linking
    BY <2>1 DEF Lasts, OneStage, Peered
  <2>3. AtEnd(out["flarm"], "exit")
    BY <2>2 DEF Agreed, Has, AtEnd
  <2>4. QED BY <2>1, <2>2, <2>3
              DEF Course, Lasts, OneStage, Ends, OneExit, Heard, Agreed, Peered, Acked, Linking
<1>4. CASE BailOut("host")
  <2>1. /\ in' = in /\ task'["flarm"] = task["flarm"] /\ task["host"] = "bailing"
        /\ task'["host"] = "leaving" /\ out' = out /\ peer' = peer \ {"host"} /\ mode' = mode
    BY <1>4 DEF BailOut, Link
  <2>2. Peered /\ ~Acked /\ ~Linking
    BY <2>1 DEF Ends, OneStage
  <2>3. active'["flarm"] = "nmea"
    BY <1>4, <2>2 DEF BailOut, BailedOut, Peered
  <2>4. QED BY <2>1, <2>2, <2>3
              DEF Course, Lasts, OneStage, Ends, OneExit, Heard, Peered, Acked, Linking
<1>5. CASE Switch("host")
  <2>1. /\ in' = in /\ task'["flarm"] = task["flarm"] /\ task["host"] # "bailing"
        /\ task'["host"] = "idle" /\ out' = out /\ peer' = peer /\ mode' = mode
        /\ active'["flarm"] = active["flarm"]
    BY <1>5 DEF Switch, Toggled, Link
  <2>2. QED BY <2>1 DEF Course, Lasts, OneStage, Ends, OneExit, Heard, Agreed, Peered, Acked, Linking
<1>6. CASE Request
  <2>1. /\ in'["flarm"] = in["flarm"] /\ task'["flarm"] = task["flarm"] /\ task["host"] = "idle"
        /\ task'["host"] = "requested" /\ peer' = peer /\ mode' = mode /\ active' = active
    BY <1>6 DEF Request, Gets, Take, Link
  <2>2. /\ Has(out'["flarm"], "exit") => Has(out["flarm"], "exit")
        /\ Once(out'["flarm"], "exit")
    <3>1. out'["flarm"] = out["flarm"] \/ out'["flarm"] = Append(out["flarm"], "request")
      BY <1>6 DEF Request, Route
    <3>2. "request" \in Telegram
      BY DEF Telegram, Text
    <3>3. /\ Has(Append(out["flarm"], "request"), "exit") <=> Has(out["flarm"], "exit") \/ "request" = "exit"
          /\ Once(out["flarm"], "exit") => Once(Append(out["flarm"], "request"), "exit")
      BY <3>2, HasAppend
    <3>4. Once(out["flarm"], "exit")
      BY DEF OneExit
    <3>5. QED BY <3>1, <3>3, <3>4
  <2>3. QED BY <2>1, <2>2 DEF Course, Lasts, OneStage, Ends, OneExit, Heard, Agreed, Peered, Acked, Linking
<1>7. QED BY <1>1, <1>2, <1>3, <1>4, <1>5, <1>6

LEMMA FlarmReceives ==
  ASSUME TypeOK, Course, task["flarm"] # "requested",
         \/ Ignore("flarm") \/ Forward("flarm") \/ OddLength("flarm") \/ BailOut("flarm") \/ Switch("flarm")
         \/ Confirm \/ LinkDevice \/ LinkHost \/ RouteText,
         Unspoiled'
  PROVE  Course'
<1>h. /\ in["flarm"] \in Seq(Telegram) /\ out["flarm"] \in Seq(Telegram)
      /\ "host" \in Link /\ "flarm" \in Link /\ Other("flarm") = "host"
  BY Lines
<1>d. /\ Lasts /\ OneStage /\ Ends /\ OneExit /\ Heard
      /\ in \in [Link -> Seq(Telegram)] /\ out \in [Link -> Seq(Telegram)]
      /\ task \in [Link -> Tasks] /\ active \in [Link -> {"nmea", "bin"}]
      /\ Once(in["flarm"], "ack")
  BY DEF Course, TypeOK, Telegram, OneStage
<1> USE <1>h, <1>d
<1>1. CASE Ignore("flarm") \/ Forward("flarm") \/ OddLength("flarm") \/ RouteText
  <2>1. in["flarm"] # <<>> /\ Take("flarm") /\ task["flarm"] = "idle"
    BY <1>1 DEF Ignore, Forward, OddLength, RouteText, Gets
  <2>2. (Acked' => Acked) /\ Once(in'["flarm"], "ack")
    BY <2>1, TakeCourse
  <2>3. out'["flarm"] = out["flarm"]
    BY <1>1 DEF Ignore, Forward, OddLength, RouteText, Route
  <2>4. /\ mode' = mode /\ peer' = peer /\ active' = active /\ task'["host"] = task["host"]
        /\ task'["flarm"] \in {"idle", "bailing"}
    BY <1>1, <2>1 DEF Ignore, Forward, OddLength, RouteText, linkVars, Link
  <2>5. ~Linking'
    BY <2>4 DEF Linking
  <2>6. QED BY <2>2, <2>3, <2>4, <2>5, QuietCourse
<1>2. CASE BailOut("flarm")
  <2>1. /\ in' = in /\ out' = out /\ mode' = mode /\ task'["host"] = task["host"]
        /\ task'["flarm"] = "leaving" /\ active'["flarm"] = active["flarm"]
        /\ ("host" \in peer' <=> "host" \in peer)
    BY <1>2 DEF BailOut, BailedOut, Link
  <2>2. QED BY <2>1 DEF Course, Lasts, OneStage, Ends, OneExit, Heard, Agreed, Peered, Acked, Linking
<1>3. CASE Switch("flarm")
  <2>1. task["flarm"] = "leaving" /\ active["flarm"] # "nmea"
    BY <1>3 DEF Switch, Unspoiled
  <2>2. /\ in' = in /\ out' = out /\ mode' = mode /\ peer' = peer /\ task'["host"] = task["host"]
        /\ task'["flarm"] = "idle" /\ active'["flarm"] = "nmea"
    BY <1>3, <2>1 DEF Switch, Toggled, Link
  <2>3. QED BY <2>2 DEF Course, Lasts, OneStage, Ends, OneExit, Heard, Agreed, Peered, Acked, Linking
<1>4. CASE Confirm
  <2>1. in["flarm"] # <<>> /\ Take("flarm") /\ Head(in["flarm"]) = "ack" /\ task["flarm"] = "idle"
    BY <1>4 DEF Confirm, Confirms, Gets
  <2>2. Acked /\ ~Acked' /\ Once(in'["flarm"], "ack")
    BY <2>1, TakeCourse, HasTail DEF Acked
  <2>3. Agreed /\ ~Peered /\ task["host"] # "bailing"
    BY <2>2 DEF Lasts, OneStage, Ends
  <2>4. out' = out /\ mode' = mode /\ peer' = peer /\ task'["host"] = task["host"]
    BY <1>4 DEF Confirm, Link
  <2>5. QED BY <2>2, <2>3, <2>4 DEF Course, Lasts, OneStage, Ends, OneExit, Heard, Agreed, Peered
<1>5. CASE LinkDevice
  <2>1. /\ in' = in /\ out' = out /\ mode' = mode /\ active' = active /\ task'["host"] = task["host"]
        /\ ("host" \in peer' <=> "host" \in peer) /\ Linking
    BY <1>5 DEF LinkDevice, Link, Linking
  <2>2. QED BY <2>1 DEF Course, Lasts, OneStage, Ends, OneExit, Heard, Agreed, Peered, Acked
<1>6. CASE LinkHost
  <2>1. /\ in' = in /\ out' = out /\ mode' = mode /\ active' = active /\ task'["host"] = task["host"]
        /\ task'["flarm"] = "idle" /\ Linking
    BY <1>6 DEF LinkHost, Link, Linking
  <2>2. Agreed /\ ~Acked /\ task["host"] # "bailing"
    BY <2>1 DEF Lasts, OneStage, Ends
  <2>3. QED BY <2>1, <2>2 DEF Course, Lasts, OneStage, Ends, OneExit, Heard, Agreed, Acked, Linking
<1>7. QED BY <1>1, <1>2, <1>3, <1>4, <1>5, <1>6

-----------------------------------------------------------------------------
(* The steps of the parties.                                               *)

LEMMA FlarmSaysCourse ==
  ASSUME TypeOK, Course, FlarmSays
  PROVE  Course'
<1>1. PICK m \in {"text", "data", "odd"}, t \in {"text", "bin"} :
        Says("flarm", m, t) /\ t = mode["flarm"]
  BY DEF FlarmSays
<1>2. /\ in'["flarm"] = Append(in["flarm"], m) /\ mode'["flarm"] = mode["flarm"]
      /\ out' = out /\ task' = task /\ peer' = peer /\ active' = active
      /\ m \in Telegram /\ m # "ack" /\ in["flarm"] \in Seq(Telegram)
  BY <1>1 DEF FlarmSays, Says, linkVars, TypeOK, Telegram, Text, Frame, Link
<1>3. (Acked' <=> Acked) /\ (Once(in["flarm"], "ack") => Once(in'["flarm"], "ack"))
  BY <1>2, HasAppend DEF Acked
<1>4. QED BY <1>2, <1>3, QuietCourse DEF Course, OneStage, Linking

LEMMA FlarmReadsCourse ==
  ASSUME TypeOK, Course, FlarmReads
  PROVE  Course'
<1>h. /\ in["flarm"] \in Seq(Telegram) /\ out["flarm"] \in Seq(Telegram) /\ "flarm" \in Link
      /\ out["flarm"] # <<>>
  BY Lines DEF FlarmReads
<1>d. /\ Lasts /\ OneStage /\ Ends /\ OneExit /\ Heard
      /\ Once(in["flarm"], "ack") /\ Once(out["flarm"], "exit")
      /\ mode \in [Link -> {"text", "bin"}] /\ in \in [Link -> Seq(Telegram)] /\ out \in [Link -> Seq(Telegram)]
  BY DEF Course, OneStage, OneExit, TypeOK, Telegram
<1> USE <1>h, <1>d
<1> DEFINE m == Head(out["flarm"])
<1>t. task' = task /\ peer' = peer /\ active' = active /\ out'["flarm"] = Tail(out["flarm"])
  BY DEF FlarmReads, linkVars
<1>e. /\ Has(out'["flarm"], "exit") => Has(out["flarm"], "exit")
      /\ m = "exit" => Has(out["flarm"], "exit") /\ ~Has(out'["flarm"], "exit")
      /\ Once(out'["flarm"], "exit")
      /\ AtEnd(out["flarm"], "exit") => AtEnd(out'["flarm"], "exit")
      /\ AtEnd(out["flarm"], "exit") /\ m = "exit" => out'["flarm"] = <<>>
  BY <1>t, HasTail
<1>1. CASE m = "request" /\ mode["flarm"] = "text"
  <2>1. ~Acked /\ ~Linking /\ task["host"] # "bailing" /\ ~Peered /\ ~Has(out["flarm"], "exit")
    BY <1>1 DEF Lasts, Agreed, Ends, OneExit
  <2>2. PICK a \in {"ack", "error"} :
          Says("flarm", a, IF a = "ack" THEN "bin" ELSE "text")
    BY <1>1 DEF FlarmReads
  <2>3. /\ in'["flarm"] = Append(in["flarm"], a) /\ a \in Telegram
        /\ mode'["flarm"] = IF a = "ack" THEN "bin" ELSE "text"
    BY <2>2 DEF Says, Telegram, Text
  <2>4. Once(in'["flarm"], "ack") /\ (Acked' <=> a = "ack")
    BY <2>1, <2>3, HasAppend DEF Acked
  <2>5. Agreed' <=> a = "ack"
    BY <2>1, <2>3, <1>e DEF Agreed
  <2>6. ~Linking' /\ ~Peered' /\ task'["host"] # "bailing" /\ ~Has(out'["flarm"], "exit")
    BY <2>1, <1>t, <1>e DEF Linking, Peered
  <2>7. Lasts' /\ OneStage'
    BY <2>4, <2>5, <2>6 DEF Lasts, OneStage
  <2>8. Ends' /\ OneExit'
    BY <2>6, <1>e DEF Ends, OneExit
  <2>9. Heard'
    BY <2>1, <1>1, <1>t DEF Heard
  <2>10. QED BY <2>7, <2>8, <2>9 DEF Course
<1>2. CASE ~(m = "request" /\ mode["flarm"] = "text")
  <2>1. in' = in /\ mode'["flarm"] = IF m = "exit" THEN "text" ELSE mode["flarm"]
    BY <1>2 DEF FlarmReads
  <2>2. CASE m = "exit"
    <3>1. ~Agreed /\ (active["flarm"] = "nmea" \/ task["host"] = "bailing")
      BY <2>2, <1>e DEF Agreed, OneExit
    <3>2. ~Acked /\ ~Linking /\ (Peered => task["host"] = "bailing")
      BY <3>1 DEF Lasts
    <3>3. QED BY <2>1, <2>2, <3>1, <3>2, <1>t, <1>e
                DEF Course, Lasts, OneStage, Ends, OneExit, Heard, Peered, Linking, Acked
  <2>3. CASE m # "exit"
    BY <2>1, <2>3, <1>t, <1>e DEF Course, Lasts, OneStage, Ends, OneExit, Heard, Agreed, Peered, Linking, Acked
  <2>4. QED BY <2>2, <2>3
<1>3. QED BY <1>1, <1>2

LEMMA OthersCourse ==
  ASSUME TypeOK, Course, HostSays \/ HostReads \/ UNCHANGED vars
  PROVE  Course'
<1>1. /\ in'["flarm"] = in["flarm"] /\ out'["flarm"] = out["flarm"] /\ mode'["flarm"] = mode["flarm"]
      /\ task' = task /\ peer' = peer /\ active' = active
  BY DEF HostSays, Says, HostReads, vars, linkVars, TypeOK, Link
<1>2. QED BY <1>1, QuietCourse DEF Course, OneStage, Acked, Linking

-----------------------------------------------------------------------------
LEMMA InitInvariant == Init => IInv
<1> SUFFICES ASSUME Init PROVE IInv
  OBVIOUS
<1>1. /\ in["flarm"] = <<>> /\ out["flarm"] = <<>> /\ mode["flarm"] = "text"
      /\ task["host"] = "idle" /\ task["flarm"] = "idle" /\ peer = {} /\ active["flarm"] = "nmea"
  BY DEF Init, Link
<1>2. Course
  BY <1>1, HasNothing DEF Course, Lasts, OneStage, Ends, OneExit, Heard, Acked, Linking, Peered
<1>3. QED BY <1>1, <1>2, InitType DEF IInv

\* What has spoiled a session is remembered.
LEMMA SpoiledStays ==
  ASSUME [Next]_vars
  PROVE  spoiled \subseteq spoiled'
<1>1. CASE \E l \in Link : Receiver(l)
  BY <1>1 DEF Receiver, Ignore, Forward, OddLength, BailOut, Switch, Request, Confirm, LinkDevice,
              LinkHost, RouteText, Route
<1>2. CASE HostSays \/ HostReads \/ FlarmSays \/ FlarmReads \/ \E l \in Link : Vanish(l)
  BY <1>2 DEF HostSays, HostReads, FlarmSays, FlarmReads, Vanish
<1>3. QED BY <1>1, <1>2 DEF Next, vars

\* The receiver of the Flarm never turns its link on account of a request.
LEMMA Remembered ==
  ASSUME TypeOK, task["flarm"] # "requested", [Next]_vars
  PROVE  (Unspoiled' => Unspoiled) /\ task'["flarm"] # "requested"
<1>1. spoiled \subseteq spoiled'
  BY SpoiledStays
<1>2. task'["flarm"] # "requested"
  BY DEF Next, vars, Receiver, Ignore, Forward, OddLength, BailOut, Switch, Request, Confirm, LinkDevice,
         LinkHost, RouteText, HostSays, HostReads, FlarmSays, FlarmReads, Vanish, linkVars, TypeOK, Link
<1>3. QED BY <1>1, <1>2 DEF Unspoiled

LEMMA NextInvariant == IInv /\ [Next]_vars => IInv'
<1> SUFFICES ASSUME IInv, [Next]_vars PROVE IInv'
  OBVIOUS
<1>1. TypeOK /\ TypeOK' /\ task["flarm"] # "requested"
  BY NextType DEF IInv
<1>2. (Unspoiled' => Unspoiled) /\ task'["flarm"] # "requested"
  BY <1>1, Remembered
<1>3. ASSUME Unspoiled' PROVE Course'
  <2>1. Course
    BY <1>2, <1>3 DEF IInv
  <2>2. CASE \E l \in Link : Receiver(l)
    BY <1>1, <1>3, <2>1, <2>2, HostReceives, FlarmReceives DEF Receiver, Link
  <2>3. ASSUME NEW l \in Link, Vanish(l) PROVE FALSE
    BY <1>3, <2>3 DEF Vanish, Unspoiled
  <2>4. CASE HostSays \/ HostReads \/ UNCHANGED vars
    BY <1>1, <2>1, <2>4, OthersCourse
  <2>5. CASE FlarmSays \/ FlarmReads
    BY <1>1, <2>1, <2>5, FlarmSaysCourse, FlarmReadsCourse
  <2>6. QED BY <2>2, <2>3, <2>4, <2>5 DEF Next
<1>4. QED BY <1>1, <1>2, <1>3 DEF IInv

\* The instrument listens to the NMEA of the Flarm whenever it talks that,
\* but for the moments and the mishaps FlarmHeard names.
THEOREM FlarmAlwaysHeard == Spec => []FlarmHeard
<1>1. IInv => FlarmHeard
  BY DEF IInv, Course, Heard, Unspoiled, FlarmHeard
<1>2. QED BY <1>1, InitInvariant, NextInvariant, PTL DEF Spec

-----------------------------------------------------------------------------
(***************************************************************************)
(* The end of a session leaves nothing behind.  The link of the host is in *)
(* binary mode, or about to be, only while there is more to come: its      *)
(* receiver ends the session, the last request is on its way to the Flarm, *)
(* no exit behind it, or the Flarm is in the session, no exit on its way.  *)
(***************************************************************************)
\* A request on the line s with no exit behind it.
Calls(s) ==
  \E i \in 1..Len(s) : s[i] = "request" /\ \A j \in 1..Len(s) : i < j => s[j] # "exit"

HostBusy == active["host"] = "bin" \/ task["host"] = "requested"
HostEnds == task["host"] \in {"bailing", "leaving"}
MoreToCome == HostEnds \/ Calls(out["flarm"]) \/ Agreed
Attended == spoiled = {} /\ HostBusy => MoreToCome

LEMMA CallsAppend ==
  ASSUME NEW s \in Seq(Telegram), NEW m \in Telegram, m # "exit"
  PROVE  Calls(s) \/ m = "request" => Calls(Append(s, m))
<1>1. PICK t \in Seq(Telegram) :
        /\ t = Append(s, m) /\ Len(s) \in Nat /\ Len(t) = Len(s) + 1
        /\ \A i \in 1..Len(s) : t[i] = s[i]
        /\ t[Len(s) + 1] = m
  BY LineAppend
<1>2. ASSUME Calls(s) PROVE Calls(t)
  <2>1. PICK i \in 1..Len(s) : s[i] = "request" /\ \A j \in 1..Len(s) : i < j => s[j] # "exit"
    BY <1>2 DEF Calls
  <2>2. i \in 1..Len(t) /\ t[i] = "request"
    BY <1>1, <2>1
  <2>3. \A j \in 1..Len(t) : i < j => t[j] # "exit"
    BY <1>1, <2>1
  <2>4. QED BY <2>2, <2>3 DEF Calls
<1>3. ASSUME m = "request" PROVE Calls(t)
  <2>1. Len(t) \in 1..Len(t) /\ t[Len(t)] = "request" /\ \A j \in 1..Len(t) : ~(Len(t) < j)
    BY <1>1, <1>3
  <2>2. QED BY <2>1 DEF Calls
<1>4. QED BY <1>1, <1>2, <1>3

\* The Flarm reads on: the last request is behind, or it is the one it reads.
LEMMA CallsTail ==
  ASSUME NEW s \in Seq(Telegram), s # <<>>, Calls(s)
  PROVE  Calls(Tail(s)) \/ (Head(s) = "request" /\ ~Has(Tail(s), "exit"))
<1>1. PICK t \in Seq(Telegram), h \in Telegram :
        /\ t = Tail(s) /\ h = Head(s) /\ h = s[1]
        /\ Len(s) \in Nat /\ Len(t) = Len(s) - 1
        /\ \A i \in 1..(Len(s) - 1) : t[i] = s[i + 1]
  BY LineTail
<1>2. PICK i \in 1..Len(s) : s[i] = "request" /\ \A j \in 1..Len(s) : i < j => s[j] # "exit"
  BY DEF Calls
<1>3. CASE i = 1
  <2>1. \A j \in 1..Len(t) : j + 1 \in 1..Len(s) /\ 1 < j + 1 /\ t[j] = s[j + 1]
    BY <1>1
  <2>2. ~Has(t, "exit")
    BY <1>2, <1>3, <2>1 DEF Has
  <2>3. QED BY <1>1, <1>2, <1>3, <2>2
<1>4. CASE i # 1
  <2>1. i - 1 \in 1..Len(t) /\ t[i - 1] = "request"
    BY <1>1, <1>2, <1>4
  <2>2. ASSUME NEW j \in 1..Len(t), i - 1 < j PROVE t[j] # "exit"
    <3>1. j + 1 \in 1..Len(s) /\ i < j + 1 /\ t[j] = s[j + 1]
      BY <1>1, <2>2
    <3>2. QED BY <1>2, <3>1
  <2>3. Calls(t)
    BY <2>1, <2>2 DEF Calls
  <2>4. QED BY <1>1, <2>3
<1>5. QED BY <1>3, <1>4

LEMMA AttendedStep ==
  ASSUME TypeOK, Attended, [Next]_vars, spoiled' = {}
  PROVE  HostBusy' => MoreToCome'
<1>h. /\ in["flarm"] \in Seq(Telegram) /\ out["flarm"] \in Seq(Telegram)
      /\ "host" \in Link /\ "flarm" \in Link /\ Other("host") = "flarm" /\ Other("flarm") = "host"
      /\ in \in [Link -> Seq(Telegram)] /\ out \in [Link -> Seq(Telegram)]
      /\ task \in [Link -> Tasks] /\ active \in [Link -> {"nmea", "bin"}]
      /\ mode \in [Link -> {"text", "bin"}]
  BY Lines DEF TypeOK, Telegram
<1>a. spoiled = {} /\ (HostBusy => MoreToCome)
  BY SpoiledStays DEF Attended
<1> USE <1>h
\* Steps that neither speak to the Flarm nor change what it talks.
<1>1. ASSUME out'["flarm"] = out["flarm"], mode'["flarm"] = mode["flarm"],
             task'["host"] = task["host"], active'["host"] = "bin" => active["host"] = "bin"
      PROVE  HostBusy' => MoreToCome'
  BY <1>1, <1>a DEF HostBusy, MoreToCome, HostEnds, Agreed
<1>2. CASE \E l \in Link : Ignore(l)
  <2>1. out' = out /\ mode' = mode /\ task' = task /\ active' = active
    BY <1>2 DEF Ignore, linkVars
  <2>2. QED BY <1>1, <2>1
<1>3. CASE Forward("host")
  <2>1. PICK m \in Telegram :
          /\ m \in {"data", "exit"} /\ out'["flarm"] = Append(out["flarm"], m)
          /\ task'["host"] = IF m = "exit" THEN "bailing" ELSE task["host"]
    BY <1>3 DEF Forward, Gets, Telegram, Frame
  <2>2. mode' = mode /\ active' = active
    BY <1>3 DEF Forward, linkVars
  <2>3. CASE m = "exit"
    BY <2>1, <2>3 DEF MoreToCome, HostEnds
  <2>4. CASE m # "exit"
    <3>1. /\ Calls(out["flarm"]) => Calls(out'["flarm"])
          /\ Has(out'["flarm"], "exit") <=> Has(out["flarm"], "exit")
      BY <2>1, <2>4, CallsAppend, HasAppend
    <3>2. QED BY <1>a, <2>1, <2>2, <2>4, <3>1 DEF HostBusy, MoreToCome, HostEnds, Agreed
  <2>5. QED BY <2>3, <2>4
<1>4. CASE Forward("flarm")
  <2>1. out'["flarm"] = out["flarm"] /\ mode' = mode /\ task'["host"] = task["host"] /\ active' = active
    BY <1>4 DEF Forward, linkVars, Link
  <2>2. QED BY <1>1, <2>1
<1>5. CASE OddLength("host")
  <2>1. task'["host"] = "bailing"
    BY <1>5 DEF OddLength
  <2>2. QED BY <2>1 DEF MoreToCome, HostEnds
<1>6. CASE OddLength("flarm")
  <2>1. out' = out /\ mode' = mode /\ task'["host"] = task["host"] /\ active' = active
    BY <1>6 DEF OddLength, linkVars, Link
  <2>2. QED BY <1>1, <2>1
<1>7. CASE BailOut("host")
  <2>1. task'["host"] = "leaving"
    BY <1>7 DEF BailOut
  <2>2. QED BY <2>1 DEF MoreToCome, HostEnds
<1>8. CASE BailOut("flarm")
  <2>1. /\ out' = out /\ mode' = mode /\ task'["host"] = task["host"]
        /\ active'["host"] = "bin" => active["host"] = "bin"
    BY <1>8 DEF BailOut, BailedOut, Link
  <2>2. QED BY <1>1, <2>1
<1>9. CASE Switch("host")
  <2>1. /\ out' = out /\ mode' = mode /\ task'["host"] = "idle"
        /\ task["host"] \in {"requested", "leaving"}
        /\ active'["host"] = IF active["host"] = "nmea" THEN "bin" ELSE "nmea"
        /\ task["host"] = "leaving" => active["host"] # "nmea"
    BY <1>9 DEF Switch, Toggled
  <2>2. CASE task["host"] = "leaving"
    BY <2>1, <2>2 DEF HostBusy
  <2>3. CASE task["host"] = "requested"
    BY <1>a, <2>1, <2>3 DEF HostBusy, MoreToCome, HostEnds, Agreed
  <2>4. QED BY <2>1, <2>2, <2>3
<1>10. CASE Switch("flarm")
  <2>1. out' = out /\ mode' = mode /\ task'["host"] = task["host"] /\ active'["host"] = active["host"]
    BY <1>10 DEF Switch, Toggled, Link
  <2>2. QED BY <1>1, <2>1
<1>11. CASE Request
  <2>1. Route("host", "request") /\ "request" \in Telegram
    BY <1>11 DEF Request, Telegram, Text
  <2>2. out'["flarm"] = Append(out["flarm"], "request")
    BY <2>1 DEF Route
  <2>3. QED BY <2>1, <2>2, CallsAppend DEF MoreToCome
<1>12. CASE Confirm \/ LinkDevice \/ LinkHost \/ RouteText
  <2>1. /\ out'["flarm"] = out["flarm"] /\ mode' = mode /\ task'["host"] = task["host"]
        /\ active'["host"] = active["host"]
    BY <1>12 DEF Confirm, LinkDevice, LinkHost, RouteText, Route, linkVars, Link
  <2>2. QED BY <1>1, <2>1
<1>13. ASSUME NEW l \in Link, Vanish(l) PROVE FALSE
  BY <1>13 DEF Vanish
<1>14. CASE HostSays \/ HostReads \/ FlarmSays \/ UNCHANGED vars
  <2>1. out'["flarm"] = out["flarm"] /\ mode'["flarm"] = mode["flarm"] /\ task' = task /\ active' = active
    BY <1>14 DEF HostSays, HostReads, FlarmSays, Says, vars, linkVars, Link
  <2>2. QED BY <1>1, <2>1
<1>15. CASE FlarmReads
  <2>1. PICK s \in Seq(Telegram) : s = out["flarm"] /\ s # <<>> /\ out'["flarm"] = Tail(s)
    BY <1>15 DEF FlarmReads
  <2>2. task' = task /\ active' = active
    BY <1>15 DEF FlarmReads, linkVars
  <2>3. CASE Head(s) = "request"
    <3>1. mode'["flarm"] = "bin"
      BY <1>15, <2>1, <2>3 DEF FlarmReads, Says
    <3>2. CASE Agreed
      BY <2>1, <3>1, <3>2, HasTail DEF MoreToCome, Agreed
    <3>3. CASE Calls(s)
      BY <2>1, <3>1, <3>3, CallsTail DEF MoreToCome, Agreed
    <3>4. QED BY <1>a, <2>1, <2>2, <3>2, <3>3 DEF HostBusy, MoreToCome, HostEnds
  <2>4. CASE Head(s) # "request"
    <3>1. mode'["flarm"] = IF Head(s) = "exit" THEN "text" ELSE mode["flarm"]
      BY <1>15, <2>1, <2>4 DEF FlarmReads
    <3>2. CASE Agreed
      <4>1. ~Has(s, "exit")
        BY <2>1, <3>2 DEF Agreed
      <4>2. Head(s) # "exit" /\ ~Has(Tail(s), "exit")
        BY <2>1, <4>1, HasTail
      <4>3. QED BY <2>1, <3>1, <3>2, <4>2 DEF MoreToCome, Agreed
    <3>3. CASE Calls(s)
      BY <2>1, <2>4, <3>3, CallsTail DEF MoreToCome
    <3>4. QED BY <1>a, <2>1, <2>2, <3>2, <3>3 DEF HostBusy, MoreToCome, HostEnds
  <2>5. QED BY <2>3, <2>4
<1>16. QED
  BY <1>2, <1>3, <1>4, <1>5, <1>6, <1>7, <1>8, <1>9, <1>10, <1>11, <1>12, <1>13, <1>14, <1>15
     DEF Next, Receiver, Link

\* When all has been said and both parties talk text, both links do as well:
\* the end of a session leaves no link in binary mode, whoever ended it.
THEOREM NothingLeftBehind == Spec => []TextAgain
<1>1. Init => IInv /\ Attended
  <2>1. Init => Attended
    BY DEF Init, Attended, HostBusy, Link
  <2>2. QED BY <2>1, InitInvariant
<1>2. IInv /\ Attended /\ [Next]_vars => IInv' /\ Attended'
  BY NextInvariant, AttendedStep DEF IInv, Attended
<1>3. IInv /\ Attended => TextAgain
  <2> SUFFICES ASSUME IInv, Attended, Quiet, spoiled = {}, NEW l \in Link
               PROVE  active[l] = "nmea"
    BY DEF TextAgain
  <2>1. \A k \in Link : active[k] \in {"nmea", "bin"} /\ task[k] = "idle" /\ out[k] = <<>> /\ mode[k] = "text"
    BY DEF IInv, TypeOK, Quiet
  <2>2. CASE l = "flarm"
    <3>1. Heard
      BY DEF IInv, Course, Unspoiled
    <3>2. "host" \in Link /\ task["host"] # "bailing" /\ mode["flarm"] = "text"
      BY <2>1 DEF Link
    <3>3. QED BY <2>1, <2>2, <3>1, <3>2 DEF Heard
  <2>3. CASE l = "host"
    <3>1. /\ task["host"] = "idle" /\ out["flarm"] = <<>> /\ mode["flarm"] = "text"
      BY <2>1 DEF Link
    <3>2. ~Calls(out["flarm"])
      BY <3>1, EmptySeq DEF Calls
    <3>3. ~MoreToCome
      BY <3>1, <3>2 DEF MoreToCome, HostEnds, Agreed
    <3>4. QED BY <2>1, <2>3, <3>3 DEF Attended, HostBusy
  <2>4. QED BY <2>2, <2>3 DEF Link
<1>4. QED BY <1>1, <1>2, <1>3, PTL DEF Spec
=============================================================================
