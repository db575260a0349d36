------------------------------ MODULE SetupSync ------------------------------
(***************************************************************************)
(* The setup items two units share (setup/SetupCommon.cpp, SetupNG.cpp,    *)
(* protocol/nmea/XCVSyncMsg.cpp, and the sensor loop in sensor.cpp).  An   *)
(* item set on one unit is sent to the other one at once.  When the second *)
(* unit comes up, the first item it gets makes it ask for all of them, and *)
(* the sensor loop of the master sends one item per cycle.                 *)
(*                                                                         *)
(* A telegram is built from the value first and queued afterwards, by the  *)
(* task that sets the item or by the sensor loop.  The way from the queue  *)
(* to the other unit keeps the order (module Transmitter).                 *)
(*                                                                         *)
(* set() sends an item only if it finds it flagged dirty, after it has     *)
(* flagged it itself: the flag is also the one that commit() clears, in a  *)
(* word that every set() of the item rewrites.                             *)
(***************************************************************************)
EXTENDS Naturals, Sequences, SequencesExt

CONSTANTS
  Order,     \* the items in the order of SetupCommon::instances
  Both,      \* items with SYNC_BIDIR
  Measured,  \* items with SYNC_FROM_MASTER the sensor loop of the master sets
  Stored,    \* items with a copy in flash; the others are VOLATILE
  User,      \* tasks of a unit that set items and want them sent: the menu,
             \* the receiver of a navigation device
  Value,     \* values of items
  Reading,   \* values the sensors give
  Default,   \* the value without a stored one
  MaxChan,   \* bounds the telegrams on the way to a unit
  Null

Unit == {"master", "second"}
Peer(u) == IF u = "master" THEN "second" ELSE "master"
Item == Range(Order)
N == Len(Order)

\* Telegrams: an item, and the request for all of them.
ItemMsg == [item : Item, value : Value]
InitReq == [item |-> Null, value |-> Null]   \* "!xcvR,Init"
Msg == ItemMsg \cup {InitReq}

\* A call of set(): where it is, its argument, the dirty bit of the flags word
\* it loaded, and whether it has changed the value.
Call == [pc : {"valid", "value", "sync"}, item : Item, new : Value,
         word : BOOLEAN, changed : BOOLEAN]

ASSUME SyncAssumption ==
  /\ Order \in Seq(Item) /\ \A i, j \in 1..N : Order[i] = Order[j] => i = j
  /\ Both \subseteq Item /\ Measured \subseteq Item \ Both /\ Stored \subseteq Both
  /\ User \cap {"loop", "sync"} = {}
  /\ Default \in Value /\ Reading \subseteq Value
  /\ Null \notin Value /\ Null \notin Item /\ Null \notin Nat
  /\ Null \notin ItemMsg \cup Call
  /\ MaxChan \in Nat \ {0}

VARIABLES
  value,    \* [Unit -> [Item -> Value]]
  dirty,    \* [Unit -> [Item -> flags._dirty]]
  stored,   \* the values in flash; Null for what is not stored
  call,     \* [Unit -> [Setter -> call of set(), Null]]
  clearing, \* [Unit -> [Task -> the item its commit() has written and not yet
            \*  cleared, Null]]
  linked,   \* units whose XCVSyncMsg exists
  kick,     \* _kick_sync of the second unit
  built,    \* [Unit -> [Task -> telegram built and not queued, Null]]
  chan,     \* [Unit -> telegrams on the way to it]
  idx,      \* client_sync_dataIdx, N: nothing to send
  phase,    \* where the sensor loop of the master is
  at,       \* the index it read and has not written back
  calm,     \* nobody sets items any more and no unit restarts (history)
  apart     \* items the units may disagree on, for a known reason (history)

Setter == User \cup {"sync"}   \* "sync": the receiver of the items
Task == User \cup {"loop"}      \* the tasks that send items

itemVars == <<value, dirty>>
callVars == <<call, clearing>>
unitVars == <<stored, linked, kick>>
wireVars == <<built, chan>>
loopVars == <<idx, phase, at>>
historyVars == <<calm, apart>>
vars == <<itemVars, callVars, unitVars, wireVars, loopVars, historyVars>>

-----------------------------------------------------------------------------
(***************************************************************************)
(* Variants of definitions below, each with a bug that would be easy to    *)
(* make in that code.  The specification does not use them.                *)
(***************************************************************************)

\* What is not in flash is read from it as well.
ReloadedRaw(u) == stored[u]
\* set() changes the value and does not flag it.
ChangeUnflagged(u, t) ==
  LET c == call[u][t] IN
  /\ call[u][t] # Null /\ c.pc = "value"
  /\ value' = [value EXCEPT ![u][c.item] = c.new]
  /\ call' = [call EXCEPT ![u][t] = [c EXCEPT !.pc = "sync",
                                              !.changed = value[u][c.item] # c.new]]
  /\ UNCHANGED <<dirty, clearing, unitVars, wireVars, loopVars, historyVars>>
\* The second unit takes itself for synchronised when its link comes up.
LinkedKickLost(u) == kick /\ u # "second"

-----------------------------------------------------------------------------
\* The items sync() sends from unit u.  SYNC_FROM_CLIENT is left out: no item
\* is declared so.
Shared(u) == IF u = "master" THEN Both \cup Measured ELSE Both

\* Telegrams about an item that have not reached unit u.
Coming(u, i) ==
  {m \in Range(chan[u]) \cup Range(built[Peer(u)]) : m # Null /\ m.item = i}

\* A telegram of task t about item i leaves the units apart if another one
\* is on its way in the opposite direction, or may be overtaken by this one.
Conflict(u, t, i) ==
  \/ Coming(u, i) # {}
  \/ \E r \in Task \ {t} : built[u][r] # Null /\ built[u][r].item = i

\* Task t has neither a telegram to queue nor an item to clear.
Idle(u, t) == built[u][t] = Null /\ clearing[u][t] = Null

At(u, t, pc) == call[u][t] # Null /\ call[u][t].pc = pc

\* A call of set() has changed item i of a linked unit and flagged it dirty,
\* and is about to find it so.
Unsent(u, i) ==
  /\ u \in linked /\ dirty[u][i]
  /\ \E t \in User : At(u, t, "sync") /\ call[u][t].item = i /\ call[u][t].changed

\* A dirty flag that is taken away before set() has looked at it leaves the
\* item unsent.
Unflag(u, i) == IF Unsent(u, i) THEN apart \cup {i} ELSE apart

-----------------------------------------------------------------------------
(***************************************************************************)
(* Sending.                                                                *)
(***************************************************************************)

\* newMessage() waits for a free buffer.
Room(u) == Len(chan[Peer(u)]) < MaxChan

\* sync(): the telegram of task t of unit u about item i is built from its
\* value.  Without a sync protocol there is none.
Build(u, t, i, v) ==
  IF u \in linked /\ i \in Shared(u)
  THEN /\ Room(u)
       /\ built' = [built EXCEPT ![u][t] = [item |-> i, value |-> v]]
       /\ apart' = IF Conflict(u, t, i) THEN apart \cup {i} ELSE apart \ {i}
  ELSE UNCHANGED <<built, apart>>

\* DEV::Send(): queued, and lost if the other unit does not listen.  A lost
\* request is not repeated.
Queue(u, t) ==
  /\ built[u][t] # Null
  /\ built' = [built EXCEPT ![u][t] = Null]
  /\ IF Peer(u) \in linked
     THEN chan' = [chan EXCEPT ![Peer(u)] = Append(@, built[u][t])] /\ apart' = apart
     ELSE /\ chan' = chan
          /\ apart' = IF u = "second" THEN apart \cup {built[u][t].item} ELSE apart
  /\ UNCHANGED <<itemVars, callVars, unitVars, loopVars, calm>>

-----------------------------------------------------------------------------
(***************************************************************************)
(* The tasks.                                                              *)
(***************************************************************************)
\* What a unit starts with.
Reloaded(u) == [i \in Item |-> IF stored[u][i] = Null THEN Default ELSE stored[u][i]]

Init ==
  /\ stored = [u \in Unit |-> [i \in Item |-> IF i \in Stored THEN Default ELSE Null]]
  /\ value = [u \in Unit |-> [i \in Item |-> Default]]
  /\ dirty = [u \in Unit |-> [i \in Item |-> FALSE]]
  /\ call = [u \in Unit |-> [t \in Setter |-> Null]]
  /\ clearing = [u \in Unit |-> [t \in Task |-> Null]]
  /\ linked = {} /\ kick = TRUE
  /\ built = [u \in Unit |-> [t \in Task |-> Null]]
  /\ chan = [u \in Unit |-> <<>>]
  /\ idx = N /\ phase = "measure" /\ at = Null
  /\ calm = FALSE /\ apart = {}

\* set() begins with flags._valid: the word with the dirty bit is loaded.
Load(u, t, i, v) ==
  /\ call[u][t] = Null
  /\ call' = [call EXCEPT ![u][t] = [pc |-> "valid", item |-> i, new |-> v,
                                    word |-> dirty[u][i], changed |-> FALSE]]
  /\ UNCHANGED <<itemVars, clearing, unitVars, wireVars, loopVars, historyVars>>

Set(u, t, i, v) == ~calm /\ Idle(u, t) /\ i \in Both /\ Load(u, t, i, v)

\* parseExcl_xcvX() sets the item of the next telegram.
Take(u) ==
  /\ chan[u] # <<>> /\ Head(chan[u]) # InitReq
  /\ Load(u, "sync", Head(chan[u]).item, Head(chan[u]).value)

\* The word is stored, with the dirty bit as it was.  What the receiver sets
\* comes from the other unit: nothing has to be sent then.
Valid(u, t) ==
  /\ At(u, t, "valid")
  /\ dirty' = [dirty EXCEPT ![u][call[u][t].item] = call[u][t].word]
  /\ call' = [call EXCEPT ![u][t].pc = "value"]
  /\ apart' = IF call[u][t].word \/ t = "sync" THEN apart ELSE Unflag(u, call[u][t].item)
  /\ UNCHANGED <<value, clearing, unitVars, wireVars, loopVars, calm>>

\* _value = v and setDirty(), if it is another value.
Assign(u, i, v) ==
  /\ value' = [value EXCEPT ![u][i] = v]
  /\ dirty' = [dirty EXCEPT ![u][i] = @ \/ value[u][i] # v]

Change(u, t) ==
  LET c == call[u][t] IN
  /\ At(u, t, "value")
  /\ Assign(u, c.item, c.new)
  /\ call' = [call EXCEPT ![u][t] = [c EXCEPT !.pc = "sync",
                                              !.changed = value[u][c.item] # c.new]]
  /\ UNCHANGED <<clearing, unitVars, wireVars, loopVars, historyVars>>

\* if (dosync && getDirty()) sync()
SendIfDirty(u, t) ==
  LET i == call[u][t].item IN
  /\ At(u, t, "sync")
  /\ IF dirty[u][i] THEN Build(u, t, i, value[u][i]) ELSE UNCHANGED <<built, apart>>
  /\ call' = [call EXCEPT ![u][t] = Null]
  /\ UNCHANGED <<itemVars, clearing, unitVars, chan, loopVars, calm>>

\* commit() of a dirty item, by the menu or by the sensor loop between two
\* cycles: written to flash first, and the dirty flag cleared then, whatever
\* has happened to the item.  A commit that fails leaves it dirty, that of a
\* volatile item does nothing.
Commit(u, t, i) ==
  /\ Idle(u, t)
  /\ t \in User => call[u][t] = Null
  /\ u = "master" /\ t = "loop" => phase = "measure"
  /\ i \in Stored /\ dirty[u][i]
  /\ stored' = [stored EXCEPT ![u][i] = value[u][i]]
  /\ clearing' = [clearing EXCEPT ![u][t] = i]
  /\ UNCHANGED <<itemVars, call, linked, kick, wireVars, loopVars, historyVars>>

Clear(u, t) ==
  /\ clearing[u][t] # Null
  /\ dirty' = [dirty EXCEPT ![u][clearing[u][t]] = FALSE]
  /\ clearing' = [clearing EXCEPT ![u][t] = Null]
  /\ apart' = Unflag(u, clearing[u][t])
  /\ UNCHANGED <<value, call, unitVars, wireVars, loopVars, calm>>

\* A sensor of the master sets its item; no other task of the master does,
\* and no commit clears its flag.
Measure(i, v) ==
  /\ phase = "measure" /\ Idle("master", "loop")
  /\ i \in Measured
  /\ Assign("master", i, v)
  /\ phase' = "sync"
  /\ IF dirty'["master"][i] THEN Build("master", "loop", i, v) ELSE UNCHANGED <<built, apart>>
  /\ UNCHANGED <<callVars, unitVars, chan, idx, at, calm>>

\* The sensor loop looks whether a sync is under way, and reads the index.
TakeIndex ==
  /\ phase = "sync" /\ built["master"]["loop"] = Null
  /\ IF idx < N THEN at' = idx /\ phase' = "entry"
                ELSE at' = at /\ phase' = "measure"
  /\ UNCHANGED <<itemVars, callVars, unitVars, wireVars, idx, historyVars>>

\* syncEntry(client_sync_dataIdx++): the index is written back and the item
\* sent.  An item that is not shared does not end the turn.
SyncEntry ==
  /\ phase = "entry"
  /\ LET i == Order[at + 1] IN
       /\ Build("master", "loop", i, value["master"][i])
       /\ phase' = IF "master" \in linked /\ i \in Shared("master") THEN "measure" ELSE "sync"
  /\ idx' = at + 1 /\ at' = Null
  /\ UNCHANGED <<itemVars, callVars, unitVars, chan, calm>>

\* The item of the telegram has its value, and is not sent back.
ReceiveItem(u) ==
  LET c == call[u]["sync"] IN
  /\ At(u, "sync", "value")
  /\ Assign(u, c.item, c.new)
  /\ chan' = [chan EXCEPT ![u] = Tail(@)]
  /\ call' = [call EXCEPT ![u]["sync"] = IF u = "second" /\ kick
                                         THEN [c EXCEPT !.pc = "sync"] ELSE Null]
  /\ UNCHANGED <<clearing, unitVars, built, loopVars, historyVars>>

\* sendInitSyncRequest(): after the first item the second unit asks for all.
Ask ==
  /\ At("second", "sync", "sync")
  /\ kick' = FALSE
  /\ IF "master" \in linked
     THEN Room("second") /\ chan' = [chan EXCEPT !["master"] = Append(@, InitReq)] /\ apart' = apart
     ELSE chan' = chan /\ apart' = Both
  /\ call' = [call EXCEPT !["second"]["sync"] = Null]
  /\ UNCHANGED <<itemVars, clearing, stored, linked, built, loopVars, calm>>

\* parseExcl_xcvRequest() and startClientSync().  If the sensor loop is just
\* about to write the index back, the items before it are not sent again.
ReceiveInit ==
  /\ chan["master"] # <<>> /\ Head(chan["master"]) = InitReq
  /\ chan' = [chan EXCEPT !["master"] = Tail(@)]
  /\ idx' = 0
  /\ apart' = IF at = Null THEN apart
              ELSE apart \cup {Order[j] : j \in {k \in 1..at : Order[k] \in Both}}
  /\ UNCHANGED <<itemVars, callVars, unitVars, built, phase, at, calm>>

\* The registration has created the plug-in of the master, then the one of
\* the second unit (module CANRegistration).
LinkedKick(u) == kick \/ u = "second"
Link(u) ==
  /\ u \notin linked /\ u = "second" => "master" \in linked
  /\ linked' = linked \cup {u}
  /\ kick' = LinkedKick(u)
  /\ UNCHANGED <<itemVars, callVars, stored, wireVars, loopVars, historyVars>>

\* A unit restarts; what is on the way to it and what it has not queued is
\* lost.  A master that restarts alone knows nothing of what differs.
Restart(u) ==
  /\ ~calm
  /\ value' = [value EXCEPT ![u] = Reloaded(u)]
  /\ dirty' = [dirty EXCEPT ![u] = [i \in Item |-> FALSE]]
  /\ call' = [call EXCEPT ![u] = [t \in Setter |-> Null]]
  /\ clearing' = [clearing EXCEPT ![u] = [t \in Task |-> Null]]
  /\ linked' = linked \ {u}
  /\ kick' = (kick \/ u = "second")
  /\ built' = [built EXCEPT ![u] = [t \in Task |-> Null]]
  /\ chan' = [chan EXCEPT ![u] = <<>>]
  /\ IF u = "master"
     THEN /\ idx' = N /\ phase' = "measure" /\ at' = Null
          /\ apart' = IF "second" \in linked /\ ~kick THEN Both ELSE apart
     ELSE UNCHANGED <<loopVars, apart>>
  /\ UNCHANGED <<stored, calm>>

CalmDown ==
  /\ ~calm /\ calm' = TRUE
  /\ UNCHANGED <<itemVars, callVars, unitVars, wireVars, loopVars, apart>>

LoopStep ==
  \/ \E i \in Measured, v \in Reading : Measure(i, v)
  \/ TakeIndex \/ SyncEntry \/ Queue("master", "loop") \/ Clear("master", "loop")
Receive(u) ==
  \/ Take(u) \/ Valid(u, "sync") \/ ReceiveItem(u)
  \/ u = "second" /\ Ask
  \/ u = "master" /\ ReceiveInit

\* A call of set() goes on, or a commit().
Proceed(u, t) ==
  Valid(u, t) \/ Change(u, t) \/ SendIfDirty(u, t) \/ Queue(u, t) \/ Clear(u, t)

Next ==
  \/ \E u \in Unit : Receive(u) \/ Link(u) \/ Restart(u)
  \/ \E u \in Unit, t \in User : Proceed(u, t)
  \/ \E u \in Unit, t \in Task, i \in Item : Commit(u, t, i)
  \/ \E u \in Unit, t \in User, i \in Item, v \in Value : Set(u, t, i, v)
  \/ LoopStep \/ Clear("second", "loop") \/ CalmDown

Fairness ==
  /\ WF_vars(LoopStep)
  /\ \A u \in Unit : WF_vars(Receive(u)) /\ WF_vars(Link(u))
  /\ \A u \in Unit, t \in User : WF_vars(Proceed(u, t))

Spec == Init /\ [][Next]_vars
FairSpec == Spec /\ Fairness

-----------------------------------------------------------------------------
(***************************************************************************)
(* Properties.                                                             *)
(***************************************************************************)

\* The variables have their types; only stored items are in flash.
TypeOK ==
  /\ value \in [Unit -> [Item -> Value]]
  /\ dirty \in [Unit -> [Item -> BOOLEAN]]
  /\ stored \in [Unit -> [Item -> Value \cup {Null}]]
  /\ call \in [Unit -> [Setter -> Call \cup {Null}]]
  /\ clearing \in [Unit -> [Task -> Stored \cup {Null}]]
  /\ linked \subseteq Unit /\ kick \in BOOLEAN
  /\ built \in [Unit -> [Task -> ItemMsg \cup {Null}]]
  /\ chan \in [Unit -> Seq(Msg)]
  /\ idx \in 0..N /\ phase \in {"measure", "sync", "entry"}
  /\ at \in 0..N - 1 \cup {Null}
  /\ calm \in BOOLEAN /\ apart \subseteq Item

\* Nothing is on its way, and the second unit has got all it asked for.
Quiet ==
  /\ linked = Unit /\ ~kick /\ idx = N /\ at = Null
  /\ \A u \in Unit : chan[u] = <<>> /\ \A t \in Task : built[u][t] = Null
  /\ \A u \in Unit, t \in Setter : call[u][t] = Null

Agree(i) == value["master"][i] = value["second"][i]

\* Once the traffic has died down the units agree on the items both of them
\* may set, but for edits that crossed or overtook each other, an edit whose
\* dirty flag another task took away before set() looked at it, a request
\* that came while the index was written, a telegram that a restarted master
\* missed, and a master that restarted alone.
AgreeWhenQuiet == Quiet => \A i \in Both \ apart : Agree(i)

\* However a unit came up, and whatever was set before, the units get to
\* agree when nobody interferes any more (sendInitSyncRequest, syncEntry).
EventuallyAgree == calm ~> \A i \in Both \ apart : Agree(i)

=============================================================================
