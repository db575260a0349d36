------------------------- MODULE SetupStore_proofs --------------------------
(***************************************************************************)
(* OnlyRacesLose for any number of items, values and tasks.  What makes it *)
(* inductive is what a commit under way knows: undisturbed, it has staged  *)
(* the present value, and once nvs_commit succeeded it has flashed it; and *)
(* that a settled item is staged as well as flashed, so that the commit of *)
(* another item, which flashes everything staged, leaves it alone.         *)
(***************************************************************************)
EXTENDS SetupStore, TLAPS

\* The entry f of the flash stands for the present value of item k.
Holds(f, k) == f = value[k] \/ (f = Null /\ value[k] = Default[k])

SettledStored ==
  \A k \in Persistent :
    \/ dirty[k]
    \/ Holds(flash[k], k) /\ Holds(staged[k], k)
    \/ MarkPending(k)
    \/ k \in lost

CommitKnows ==
  \A t \in Task : clean[t] =>
    /\ At(t, "nvs") => staged[task[t].at] = value[task[t].at]
    /\ At(t, "clear") => /\ staged[task[t].at] = value[task[t].at]
                         /\ flash[task[t].at] = value[task[t].at]

StoreInv == TypeOK /\ SettledStored /\ CommitKnows

TaskState == [pc : Points, job : Calls, at : 1..(NumItems + 1),
              new : Value \cup {Null}, snap : BOOLEAN, ok : BOOLEAN]

-----------------------------------------------------------------------------
\* A call record is well typed.
LEMMA CallType ==
  ASSUME NEW call \in Calls, NEW point \in Points, NEW k \in 1..(NumItems + 1),
         NEW v \in Value \cup {Null}, NEW bit \in BOOLEAN
  PROVE  In(call, point, k, v, bit) \in TaskState
BY DEF In, TaskState

LEMMA IdleType == Idle \in TaskState /\ Idle.pc = "idle"
<1>1. 1 \in 1..(NumItems + 1)
  BY StoreAssumption
<1> QED BY <1>1, CallType DEF Idle, Calls, Points, In

\* Every task is well typed when the instrument has just been started.
LEMMA BootedType ==
  Booted \in [Task -> TaskState] /\ \A t \in Task : Booted[t].pc \in {"idle", "scan"}
<1> DEFINE scanning == In("commit", "scan", 1, Null, FALSE)
<1>1. scanning \in TaskState /\ scanning.pc = "scan"
  <2>1. 1 \in 1..(NumItems + 1)
    BY StoreAssumption
  <2> QED BY <2>1, CallType DEF Calls, Points, In
<1> HIDE DEF scanning
<1>2. Booted = [t \in Task |-> IF t = LoopTask THEN scanning ELSE Idle]
  BY DEF Booted, scanning
<1> QED BY <1>1, <1>2, IdleType

\* An item that init() does not flag dirty has the value of its entry, or,
\* without one, its default.
LEMMA NotReplaced ==
  ASSUME NEW k \in Persistent, NEW f \in Value \cup {Null}, ~Replaced(k, f)
  PROVE  f = Loaded(k, f) \/ (f = Null /\ Loaded(k, f) = Default[k])
BY StoreAssumption DEF Replaced, Loaded

LEMMA InitInv == Init => StoreInv
<1> SUFFICES ASSUME Init PROVE StoreInv
  OBVIOUS
<1>1. Default \in [Item -> Value]
  BY StoreAssumption
<1>2. dirty \in [Item -> BOOLEAN]
  BY DEF Init, Replaced
<1>3. TypeOK
  BY <1>1, <1>2, BootedType DEF Init, TypeOK, TaskState, Item
<1>4. \A k \in Persistent : Holds(flash[k], k) /\ Holds(staged[k], k)
  BY StoreAssumption DEF Init, Holds
<1>5. SettledStored /\ CommitKnows
  BY <1>4, BootedType DEF Init, SettledStored, CommitKnows, At
<1> QED BY <1>3, <1>5 DEF StoreInv
-----------------------------------------------------------------------------
(* How a step of one task changes `task'.                                  *)

LEMMA BecomeFacts ==
  ASSUME TypeOK, NEW t \in Task, NEW r \in TaskState, Become(t, r)
  PROVE  /\ task' \in [Task -> TaskState] /\ task'[t] = r
         /\ \A u \in Task \ {t} : task'[u] = task[u]
BY DEF TypeOK, Become, TaskState

LEMMA GotoFacts ==
  ASSUME TypeOK, NEW t \in Task, NEW point \in Points, Goto(t, point)
  PROVE  /\ task' \in [Task -> TaskState]
         /\ task'[t].pc = point /\ task'[t].at = task[t].at /\ task'[t].new = task[t].new
         /\ \A u \in Task \ {t} : task'[u] = task[u]
<1> DEFINE r == [task[t] EXCEPT !.pc = point]
<1>1. task[t] \in TaskState
  BY DEF TypeOK, TaskState
<1>2. r \in TaskState /\ r.pc = point /\ r.at = task[t].at /\ r.new = task[t].new
  BY <1>1 DEF TaskState
<1>3. Become(t, r)
  BY DEF Goto
<1> HIDE DEF r
<1> QED BY <1>2, <1>3, BecomeFacts

\* A task moves on to the next index, or to index 1; both are within range.
LEMMA MoveFacts ==
  ASSUME TypeOK, NEW t \in Task, NEW point \in Points, NEW i \in 1..(NumItems + 1),
         NEW b \in BOOLEAN,
         Become(t, [task[t] EXCEPT !.pc = point, !.at = i, !.ok = b])
  PROVE  /\ task' \in [Task -> TaskState]
         /\ task'[t].pc = point
         /\ \A u \in Task \ {t} : task'[u] = task[u]
<1> DEFINE r == [task[t] EXCEPT !.pc = point, !.at = i, !.ok = b]
<1>1. task[t] \in TaskState
  BY DEF TypeOK, TaskState
<1>2. r \in TaskState /\ r.pc = point
  BY <1>1 DEF TaskState
<1> HIDE DEF r
<1>3. Become(t, r)
  BY DEF r
<1> QED BY <1>2, <1>3, BecomeFacts

LEMMA SkipFacts ==
  ASSUME TypeOK, NEW t \in Task, NEW point \in Points, Skip(t, point), task[t].at \in Item
  PROVE  /\ task' \in [Task -> TaskState]
         /\ task'[t].pc = point
         /\ \A u \in Task \ {t} : task'[u] = task[u]
<1>1. task[t] \in TaskState /\ task[t].at + 1 \in 1..(NumItems + 1)
  BY StoreAssumption DEF TypeOK, TaskState, Item
<1>2. [task[t] EXCEPT !.pc = point, !.at = @ + 1]
        = [task[t] EXCEPT !.pc = point, !.at = task[t].at + 1, !.ok = task[t].ok]
  BY <1>1 DEF TaskState
<1>3. task[t].ok \in BOOLEAN
  BY <1>1 DEF TaskState
<1>4. Become(t, [task[t] EXCEPT !.pc = point, !.at = task[t].at + 1, !.ok = task[t].ok])
  BY <1>2 DEF Skip, Become
<1> QED BY <1>1, <1>3, <1>4, MoveFacts

-----------------------------------------------------------------------------
(* Steps of task t that leave the items alone, and steps that assign one.  *)

OthersStay(t) == /\ task' \in [Task -> TaskState]
                 /\ \A u \in Task \ {t} : task'[u] = task[u]

\* Task t is at a point, and has arguments, that TypeOK allows.
Placed(t) ==
  /\ task'[t].pc \in {"valid", "mark", "write", "nvs", "clear"} => task'[t].at \in Item
  /\ task'[t].pc = "valid" => task'[t].new \in Value

LEMMA QuietStep ==
  ASSUME StoreInv, NEW t \in Task, OthersStay(t), Placed(t),
         ~At(t, "mark"), task'[t].pc \notin {"nvs", "clear"},
         UNCHANGED <<value, dirty, staged, flash, lost>>, booting' \in BOOLEAN,
         clean' \in [Task -> BOOLEAN], \A u \in Task \ {t} : clean'[u] = clean[u]
  PROVE  StoreInv'
<1>1. TypeOK'
  BY DEF StoreInv, TypeOK, OthersStay, Placed, TaskState
<1>2. \A k \in Item : MarkPending(k) => MarkPending(k)'
  BY DEF MarkPending, At, OthersStay
<1>3. SettledStored'
  BY <1>2, StoreAssumption DEF StoreInv, SettledStored, Holds
<1>4. CommitKnows'
  BY DEF StoreInv, CommitKnows, At, OthersStay
<1> QED BY <1>1, <1>3, <1>4 DEF StoreInv

LEMMA AssignStep ==
  ASSUME StoreInv, NEW t \in Task, NEW k \in Item, NEW v \in Value, Assign(k, v),
         OthersStay(t), Placed(t), ~At(t, "mark"), task'[t].pc \notin {"nvs", "clear"},
         k \in Persistent => task'[t].pc = "mark" /\ task'[t].at = k,
         dirty' \in [Item -> BOOLEAN], lost' \subseteq Item, lost \subseteq lost',
         \A j \in Item \ {k} : dirty'[j] = dirty[j],
         UNCHANGED <<staged, flash, booting>>
  PROVE  StoreInv'
<1>1. value' \in [Item -> Value] /\ \A j \in Item \ {k} : value'[j] = value[j]
  BY DEF Assign, StoreInv, TypeOK
<1>2. clean' \in [Task -> BOOLEAN]
      /\ \A u \in Task : clean'[u] => clean[u] /\ u \notin Committing(k)
  BY DEF Assign, StoreInv, TypeOK
<1>3. TypeOK'
  BY <1>1, <1>2 DEF StoreInv, TypeOK, OthersStay, Placed, TaskState
<1>4. \A j \in Item : MarkPending(j) => MarkPending(j)'
  BY DEF MarkPending, At, OthersStay
<1>5. k \in Persistent => MarkPending(k)'
  BY DEF MarkPending, At
<1>6. SettledStored'
  BY <1>1, <1>4, <1>5, StoreAssumption DEF StoreInv, SettledStored, Holds
<1>7. CommitKnows'
  <2> SUFFICES ASSUME NEW u \in Task, clean'[u], task'[u].pc \in {"nvs", "clear"}
               PROVE  /\ staged'[task'[u].at] = value'[task'[u].at]
                      /\ task'[u].pc = "clear" => flash'[task'[u].at] = value'[task'[u].at]
    BY DEF CommitKnows, At
  <2>1. u # t /\ task'[u] = task[u]
    BY DEF OthersStay
  <2>2. task[u].at \in Item \ {k}
    BY <1>2, <2>1 DEF Committing, StoreInv, TypeOK
  <2> QED BY <1>1, <1>2, <2>1, <2>2 DEF StoreInv, CommitKnows, At
<1> QED BY <1>3, <1>6, <1>7 DEF StoreInv

-----------------------------------------------------------------------------
(* The actions.                                                            *)

LEMMA StartSteps ==
  ASSUME StoreInv, NEW t \in Task,
         \/ CommitDirty(t) \/ FactoryReset(t)
         \/ \E k \in Item, v \in Value : Set(t, k, v)
  PROVE  StoreInv'
<1>0. TypeOK /\ 1 \in 1..(NumItems + 1) /\ ~At(t, "mark") /\ Item \subseteq 1..(NumItems + 1)
  <2>1. task[t].pc = "idle"
    BY DEF CommitDirty, FactoryReset, Set, Start, Free
  <2> QED BY <2>1, StoreAssumption DEF At, StoreInv, Item
<1>1. CASE CommitDirty(t)
  <2> DEFINE r == In("commit", "scan", 1, Null, FALSE)
  <2>1. r \in TaskState /\ r.pc = "scan"
    BY <1>0, CallType DEF Calls, Points, In
  <2>2. Become(t, r)
    BY <1>1 DEF CommitDirty, Start
  <2> HIDE DEF r
  <2>3. OthersStay(t) /\ task'[t] = r
    BY <1>0, <2>1, <2>2, BecomeFacts DEF OthersStay
  <2>4. Placed(t) /\ task'[t].pc \notin {"nvs", "clear"}
    BY <2>1, <2>3 DEF Placed
  <2> QED BY <1>0, <1>1, <2>3, <2>4, QuietStep
          DEF CommitDirty, itemVars, nvsVars, historyVars, StoreInv, TypeOK
<1>2. CASE FactoryReset(t)
  <2> DEFINE r == In("reset", "reset", 1, Null, FALSE)
  <2>1. r \in TaskState /\ r.pc = "reset"
    BY <1>0, CallType DEF Calls, Points, In
  <2>2. Become(t, r)
    BY <1>2 DEF FactoryReset, Start
  <2> HIDE DEF r
  <2>3. OthersStay(t) /\ task'[t] = r
    BY <1>0, <2>1, <2>2, BecomeFacts DEF OthersStay
  <2>4. Placed(t) /\ task'[t].pc \notin {"nvs", "clear"}
    BY <2>1, <2>3 DEF Placed
  <2> QED BY <1>0, <1>2, <2>3, <2>4, QuietStep
          DEF FactoryReset, itemVars, nvsVars, historyVars, StoreInv, TypeOK
<1>3. CASE \E k \in Item, v \in Value : Set(t, k, v)
  <2> PICK k \in Item, v \in Value : Set(t, k, v)
    BY <1>3
  <2> DEFINE r == In("set", "valid", k, v, dirty[k])
  <2>1. r \in TaskState /\ r.pc = "valid" /\ r.at = k /\ r.new = v
    <3>1. dirty[k] \in BOOLEAN /\ k \in 1..(NumItems + 1)
      BY <1>0 DEF TypeOK
    <3> QED BY <3>1, CallType DEF Calls, Points, In
  <2>2. Become(t, r)
    BY DEF Set, Start
  <2> HIDE DEF r
  <2>3. OthersStay(t) /\ task'[t] = r
    BY <1>0, <2>1, <2>2, BecomeFacts DEF OthersStay
  <2>4. Placed(t) /\ task'[t].pc \notin {"nvs", "clear"}
    BY <2>1, <2>3 DEF Placed
  <2> QED BY <1>0, <2>3, <2>4, QuietStep
          DEF Set, itemVars, nvsVars, historyVars, StoreInv, TypeOK
<1> QED BY <1>1, <1>2, <1>3

LEMMA IdleStep ==
  ASSUME TypeOK, NEW t \in Task, Become(t, Idle)
  PROVE  OthersStay(t) /\ Placed(t) /\ task'[t].pc = "idle"
BY IdleType, BecomeFacts DEF OthersStay, Placed

LEMMA SetStoreStep == ASSUME StoreInv, NEW t \in Task, SetStore(t) PROVE StoreInv'
<1> DEFINE k == task[t].at
<1>1. /\ TypeOK /\ k \in Item /\ task[t].new \in Value /\ task[t].snap \in BOOLEAN
      /\ ~At(t, "mark")
  BY DEF StoreInv, TypeOK, SetStore, At
<1>2. /\ dirty' = [dirty EXCEPT ![k] = task[t].snap]
      /\ lost' = IF dirty[k] /\ ~task[t].snap THEN lost \cup {k} ELSE lost
      /\ UNCHANGED <<staged, flash, booting>>
  BY DEF SetStore, nvsVars
<1>3. dirty' \in [Item -> BOOLEAN] /\ \A j \in Item \ {k} : dirty'[j] = dirty[j]
  BY <1>1, <1>2 DEF TypeOK
<1>4. lost' \subseteq Item /\ lost \subseteq lost'
  BY <1>1, <1>2 DEF TypeOK
<1>5. CASE value[k] # task[t].new
  <2>1. Assign(k, task[t].new) /\ Goto(t, "mark")
    BY <1>5 DEF SetStore
  <2>2. OthersStay(t) /\ Placed(t) /\ task'[t].pc = "mark" /\ task'[t].at = k
    BY <1>1, <2>1, GotoFacts DEF OthersStay, Placed, Points
  <2> HIDE DEF k
  <2> QED BY <1>1, <1>2, <1>3, <1>4, <2>1, <2>2, AssignStep
<1>6. CASE value[k] = task[t].new
  <2>1. UNCHANGED <<value, clean>> /\ Become(t, Idle)
    BY <1>6 DEF SetStore
  <2>2. OthersStay(t) /\ Placed(t) /\ task'[t].pc = "idle"
    BY <1>1, <2>1, IdleStep
  <2>3. TypeOK'
    BY <1>1, <1>2, <1>3, <1>4, <2>1, <2>2 DEF TypeOK, OthersStay, Placed, TaskState
  <2>4. \A j \in Item : MarkPending(j) => MarkPending(j)'
    BY <1>1, <2>2 DEF MarkPending, At, OthersStay
  <2>5. dirty[k] => dirty'[k] \/ k \in lost'
    BY <1>1, <1>2 DEF TypeOK
  <2>6. SettledStored'
    BY <1>2, <1>3, <1>4, <2>1, <2>4, <2>5, StoreAssumption
       DEF StoreInv, SettledStored, Holds
  <2>7. CommitKnows'
    BY <1>2, <2>1, <2>2 DEF StoreInv, CommitKnows, At, OthersStay
  <2> QED BY <2>3, <2>6, <2>7 DEF StoreInv
<1> QED BY <1>5, <1>6

LEMMA RestoreStep ==
  ASSUME StoreInv, NEW t \in Task, NEW k \in Item, NEW v \in Value, Restore(t, k, v)
  PROVE  StoreInv'
<1> DEFINE r == In("restore", "mark", k, v, FALSE)
<1>1. TypeOK /\ k \in 1..(NumItems + 1) /\ ~At(t, "mark")
  BY StoreAssumption DEF StoreInv, Restore, Start, Free, At, Item
<1>2. r \in TaskState /\ r.pc = "mark" /\ r.at = k
  BY <1>1, CallType DEF Calls, Points, In
<1>3. Become(t, r) /\ Assign(k, v) /\ UNCHANGED <<dirty, staged, flash, booting, lost>>
  BY DEF Restore, Start, nvsVars
<1> HIDE DEF r
<1>4. OthersStay(t) /\ task'[t] = r
  BY <1>1, <1>2, <1>3, BecomeFacts DEF OthersStay
<1>5. Placed(t) /\ task'[t].pc = "mark" /\ task'[t].at = k
  BY <1>2, <1>4 DEF Placed
<1>6. dirty' \in [Item -> BOOLEAN] /\ lost' \subseteq Item /\ lost \subseteq lost'
      /\ \A j \in Item \ {k} : dirty'[j] = dirty[j]
  BY <1>1, <1>3 DEF TypeOK
<1> QED BY <1>1, <1>3, <1>4, <1>5, <1>6, AssignStep

LEMMA ResetItemStep == ASSUME StoreInv, NEW t \in Task, ResetItem(t) PROVE StoreInv'
<1> DEFINE k == task[t].at
<1>1. TypeOK /\ k \in Item /\ Default[k] \in Value /\ ~At(t, "mark")
  BY StoreAssumption DEF StoreInv, ResetItem, At
<1>2. UNCHANGED <<dirty, staged, flash, booting, lost>>
  BY DEF ResetItem, nvsVars
<1>3. dirty' \in [Item -> BOOLEAN] /\ lost' \subseteq Item /\ lost \subseteq lost'
      /\ \A j \in Item \ {k} : dirty'[j] = dirty[j]
  BY <1>1, <1>2 DEF TypeOK
<1>4. CASE k \in Resettable \cap Persistent /\ value[k] # Default[k]
  <2>1. Assign(k, Default[k]) /\ Goto(t, "mark")
    BY <1>4 DEF ResetItem
  <2>2. OthersStay(t) /\ Placed(t) /\ task'[t].pc = "mark" /\ task'[t].at = k
    BY <1>1, <2>1, GotoFacts DEF OthersStay, Placed, Points
  <2> HIDE DEF k
  <2> QED BY <1>1, <1>2, <1>3, <2>1, <2>2, AssignStep
<1>5. CASE ~(k \in Resettable \cap Persistent /\ value[k] # Default[k])
  <2>1. Skip(t, "reset")
    BY <1>5 DEF ResetItem
  <2>2. OthersStay(t) /\ Placed(t) /\ task'[t].pc = "reset"
    BY <1>1, <2>1, SkipFacts DEF OthersStay, Placed, Points
  <2>3. CASE k \in Resettable /\ value[k] # Default[k]
    <3>1. Assign(k, Default[k]) /\ k \notin Persistent
      BY <1>5, <2>3 DEF ResetItem
    <3> HIDE DEF k
    <3> QED BY <1>1, <1>2, <1>3, <2>2, <3>1, AssignStep
  <2>4. CASE ~(k \in Resettable /\ value[k] # Default[k])
    <3>1. UNCHANGED <<value, clean>>
      BY <2>4 DEF ResetItem
    <3>2. clean' \in [Task -> BOOLEAN] /\ booting' \in BOOLEAN
      BY <1>1, <1>2, <3>1 DEF TypeOK
    <3> QED BY <1>1, <1>2, <2>2, <3>1, <3>2, QuietStep
  <2> QED BY <2>3, <2>4
<1> QED BY <1>4, <1>5

LEMMA MarkStep == ASSUME StoreInv, NEW t \in Task, Mark(t) PROVE StoreInv'
<1> DEFINE k == task[t].at
<1>1. TypeOK /\ k \in Item /\ dirty' = [dirty EXCEPT ![k] = TRUE]
      /\ UNCHANGED <<value, staged, flash, booting, clean, lost>>
  BY DEF StoreInv, TypeOK, Mark, At, nvsVars, historyVars
<1>2. OthersStay(t) /\ Placed(t) /\ task'[t].pc \in {"idle", "write", "reset"}
  <2>1. CASE Become(t, Idle)
    BY <1>1, <2>1, IdleStep
  <2>2. CASE Goto(t, "write")
    BY <1>1, <2>2, GotoFacts DEF OthersStay, Placed, Points
  <2>3. CASE Skip(t, "reset")
    BY <1>1, <2>3, SkipFacts DEF OthersStay, Placed, Points
  <2> QED BY <2>1, <2>2, <2>3 DEF Mark
<1>3. TypeOK'
  BY <1>1, <1>2 DEF TypeOK, OthersStay, Placed, TaskState
<1>4. \A j \in Item \ {k} : MarkPending(j) => MarkPending(j)'
  BY <1>2 DEF MarkPending, At, OthersStay
<1>5. dirty'[k] /\ \A j \in Item \ {k} : dirty'[j] = dirty[j]
  BY <1>1 DEF TypeOK
<1>6. SettledStored'
  BY <1>1, <1>4, <1>5, StoreAssumption DEF StoreInv, SettledStored, Holds
<1>7. CommitKnows'
  BY <1>1, <1>2 DEF StoreInv, CommitKnows, At, OthersStay
<1> QED BY <1>3, <1>6, <1>7 DEF StoreInv

\* The loops' steps, which change no item.
LEMMA LoopSteps ==
  ASSUME StoreInv, NEW t \in Task, ResetDone(t) \/ Scan(t) \/ ScanDone(t)
  PROVE  StoreInv'
<1>1. TypeOK /\ ~At(t, "mark")
  BY DEF StoreInv, ResetDone, Scan, ScanDone, At
<1>2. UNCHANGED <<value, dirty, staged, flash, clean, lost>> /\ booting' \in BOOLEAN
  BY <1>1 DEF ResetDone, Scan, ScanDone, itemVars, nvsVars, historyVars, TypeOK
<1>3. OthersStay(t) /\ Placed(t) /\ task'[t].pc \notin {"nvs", "clear"}
  <2>1. CASE ResetDone(t)
    <3>1. task[t] \in TaskState /\ 1 \in 1..(NumItems + 1)
      BY <1>1, StoreAssumption DEF TypeOK, TaskState
    <3>2. [task[t] EXCEPT !.pc = "scan", !.at = 1]
            = [task[t] EXCEPT !.pc = "scan", !.at = 1, !.ok = task[t].ok]
      BY <3>1 DEF TaskState
    <3>3. Become(t, [task[t] EXCEPT !.pc = "scan", !.at = 1, !.ok = task[t].ok])
      BY <2>1, <3>2 DEF ResetDone, Become
    <3>4. "scan" \in Points /\ task[t].ok \in BOOLEAN
      BY <3>1 DEF Points, TaskState
    <3> QED BY <1>1, <3>1, <3>3, <3>4, MoveFacts DEF OthersStay, Placed
  <2>2. CASE Scan(t) /\ Goto(t, "write")
    BY <1>1, <2>2, GotoFacts DEF Scan, OthersStay, Placed, Points
  <2>3. CASE Scan(t) /\ Skip(t, "scan")
    BY <1>1, <2>3, SkipFacts DEF Scan, OthersStay, Placed, Points
  <2>4. CASE ScanDone(t)
    BY <1>1, <2>4, IdleStep DEF ScanDone
  <2> QED BY <2>1, <2>2, <2>3, <2>4 DEF Scan
<1>4. clean' \in [Task -> BOOLEAN]
  BY <1>1, <1>2 DEF TypeOK
<1> QED BY <1>1, <1>2, <1>3, <1>4, QuietStep

LEMMA WriteStep == ASSUME StoreInv, NEW t \in Task, Write(t) PROVE StoreInv'
<1> DEFINE k == task[t].at
<1>1. TypeOK /\ k \in Item /\ ~At(t, "mark")
      /\ UNCHANGED <<value, dirty, flash, booting, lost>>
  BY DEF StoreInv, TypeOK, Write, At, itemVars
<1>2. OthersStay(t) /\ Placed(t) /\ task'[t].pc = "nvs" /\ task'[t].at = k
  BY <1>1, GotoFacts DEF Write, OthersStay, Placed, Points
<1>3. clean' \in [Task -> BOOLEAN] /\ \A u \in Task \ {t} : clean'[u] = clean[u]
  BY <1>1 DEF Write, TypeOK
<1>4. /\ staged' \in [Item -> Value \cup {Null}]
      /\ \A j \in Item \ {k} : staged'[j] = staged[j]
      /\ staged'[k] \in {value[k], staged[k]}
  BY <1>1 DEF Write, TypeOK
<1>5. clean'[t] => staged'[k] = value[k]
  BY <1>1 DEF Write, TypeOK
<1>6. TypeOK'
  BY <1>1, <1>2, <1>3, <1>4 DEF TypeOK, OthersStay, Placed, TaskState
<1>7. \A j \in Item : MarkPending(j) => MarkPending(j)'
  BY <1>1, <1>2 DEF MarkPending, At, OthersStay
<1>8. SettledStored'
  BY <1>1, <1>4, <1>7, StoreAssumption DEF StoreInv, SettledStored, Holds
<1>9. CommitKnows'
  <2>1. ASSUME NEW u \in Task, u # t, clean'[u], task'[u].pc \in {"nvs", "clear"}
        PROVE  /\ staged'[task'[u].at] = value'[task'[u].at]
               /\ task'[u].pc = "clear" => flash'[task'[u].at] = value'[task'[u].at]
    <3>1. task'[u] = task[u] /\ clean[u] /\ task[u].at \in Item
      BY <1>1, <1>2, <1>3, <2>1 DEF OthersStay, TypeOK
    <3> QED BY <1>1, <1>4, <2>1, <3>1 DEF StoreInv, CommitKnows, At
  <2> QED BY <1>1, <1>2, <1>5, <2>1 DEF CommitKnows, At
<1> QED BY <1>6, <1>8, <1>9 DEF StoreInv

LEMMA NvsCommitStep == ASSUME StoreInv, NEW t \in Task, NvsCommit(t) PROVE StoreInv'
<1> DEFINE k == task[t].at
<1>1. TypeOK /\ k \in Item /\ ~At(t, "mark") /\ At(t, "nvs") /\ flash' = staged
      /\ UNCHANGED <<value, dirty, staged, booting, clean, lost>>
  BY DEF StoreInv, TypeOK, NvsCommit, At, itemVars, historyVars
<1>2. OthersStay(t) /\ Placed(t) /\ task'[t].pc = "clear" /\ task'[t].at = k
  BY <1>1, GotoFacts DEF NvsCommit, OthersStay, Placed, Points
<1>3. TypeOK'
  BY <1>1, <1>2 DEF TypeOK, OthersStay, Placed, TaskState
<1>4. \A j \in Item : MarkPending(j) => MarkPending(j)'
  BY <1>1, <1>2 DEF MarkPending, At, OthersStay
<1>5. SettledStored'
  BY <1>1, <1>4, StoreAssumption DEF StoreInv, SettledStored, Holds
<1>6. CommitKnows'
  BY <1>1, <1>2 DEF StoreInv, CommitKnows, At, OthersStay
<1> QED BY <1>3, <1>5, <1>6 DEF StoreInv

\* commit() returns to its caller.
LEMMA ReturnFacts ==
  ASSUME TypeOK, NEW t \in Task, NEW b \in BOOLEAN, task[t].at \in Item,
         Return(t, [task[t] EXCEPT !.ok = b])
  PROVE  OthersStay(t) /\ Placed(t) /\ task'[t].pc \in {"idle", "scan"}
<1>1. task[t] \in TaskState /\ task[t].at + 1 \in 1..(NumItems + 1)
  BY StoreAssumption DEF TypeOK, TaskState, Item
<1> DEFINE r == [task[t] EXCEPT !.ok = b]
<1>2. [r EXCEPT !.pc = "scan", !.at = @ + 1]
        = [task[t] EXCEPT !.pc = "scan", !.at = task[t].at + 1, !.ok = b]
  BY <1>1 DEF TaskState
<1>3. CASE Become(t, Idle)
  BY <1>3, IdleStep
<1>4. CASE Become(t, [r EXCEPT !.pc = "scan", !.at = @ + 1])
  <2>1. Become(t, [task[t] EXCEPT !.pc = "scan", !.at = task[t].at + 1, !.ok = b])
    BY <1>2, <1>4 DEF Become
  <2>2. "scan" \in Points
    BY DEF Points
  <2> QED BY <1>1, <2>1, <2>2, MoveFacts DEF OthersStay, Placed
<1> QED BY <1>3, <1>4 DEF Return

LEMMA NvsCommitFailsStep ==
  ASSUME StoreInv, NEW t \in Task, NvsCommitFails(t) PROVE StoreInv'
<1>1. TypeOK /\ task[t].at \in Item /\ ~At(t, "mark")
      /\ UNCHANGED <<value, dirty, staged, flash, booting, lost>>
  BY DEF StoreInv, TypeOK, NvsCommitFails, At, itemVars, nvsVars
<1>2. OthersStay(t) /\ Placed(t) /\ task'[t].pc \in {"idle", "scan"}
  BY <1>1, ReturnFacts DEF NvsCommitFails
<1>3. clean' \in [Task -> BOOLEAN] /\ \A u \in Task \ {t} : clean'[u] = clean[u]
  BY <1>1 DEF NvsCommitFails, TypeOK
<1>4. booting' \in BOOLEAN
  BY <1>1 DEF TypeOK
<1> QED BY <1>1, <1>2, <1>3, <1>4, QuietStep

LEMMA ClearStep == ASSUME StoreInv, NEW t \in Task, Clear(t) PROVE StoreInv'
<1> DEFINE k == task[t].at
<1>1. TypeOK /\ k \in Item /\ ~At(t, "mark") /\ At(t, "clear")
      /\ dirty' = [dirty EXCEPT ![k] = FALSE]
      /\ lost' = (IF clean[t] THEN lost \ {k} ELSE lost \cup {k})
      /\ clean' = [clean EXCEPT ![t] = TRUE]
      /\ UNCHANGED <<value, staged, flash, booting>>
  BY DEF StoreInv, TypeOK, Clear, At, nvsVars
<1>2. OthersStay(t) /\ Placed(t) /\ task'[t].pc \in {"idle", "scan"}
  <2>1. task[t] \in TaskState /\ task[t].ok \in BOOLEAN
    BY <1>1 DEF TypeOK, TaskState
  <2>2. task[t] = [task[t] EXCEPT !.ok = task[t].ok]
    BY <2>1 DEF TaskState
  <2>3. Return(t, [task[t] EXCEPT !.ok = task[t].ok])
    BY <2>2 DEF Clear
  <2> QED BY <1>1, <2>1, <2>3, ReturnFacts
<1>3. TypeOK'
  BY <1>1, <1>2 DEF TypeOK, OthersStay, Placed, TaskState
<1>4. \A j \in Item : MarkPending(j) => MarkPending(j)'
  BY <1>1, <1>2 DEF MarkPending, At, OthersStay
<1>5. ASSUME NEW j \in Persistent
      PROVE  dirty'[j] \/ (Holds(flash[j], j) /\ Holds(staged[j], j))
               \/ MarkPending(j)' \/ j \in lost'
  <2>1. CASE j # k
    BY <1>1, <1>4, <2>1, StoreAssumption DEF StoreInv, SettledStored, TypeOK
  <2>2. CASE j = k /\ clean[t]
    BY <1>1, <2>2 DEF StoreInv, CommitKnows, Holds
  <2>3. CASE j = k /\ ~clean[t]
    BY <1>1, <2>3
  <2> QED BY <2>1, <2>2, <2>3
<1>6. SettledStored'
  BY <1>1, <1>5 DEF SettledStored, Holds
<1>7. CommitKnows'
  BY <1>1, <1>2 DEF StoreInv, CommitKnows, At, OthersStay, TypeOK
<1> QED BY <1>3, <1>6, <1>7 DEF StoreInv

LEMMA RestartStep == ASSUME StoreInv, Restart PROVE StoreInv'
<1>1. \A k \in Item, f \in Value \cup {Null} : Loaded(k, f) \in Value
  BY StoreAssumption DEF Loaded
<1>2. value' \in [Item -> Value]
  BY <1>1, StoreAssumption DEF Restart
<1>3. dirty' \in [Item -> BOOLEAN]
  BY DEF Restart, Replaced
<1>4. task' \in [Task -> TaskState] /\ \A t \in Task : task'[t].pc \in {"idle", "scan"}
  BY BootedType DEF Restart
<1>5. TypeOK'
  BY <1>2, <1>3, <1>4 DEF Restart, TypeOK, TaskState
<1>6. ASSUME NEW k \in Persistent, ~dirty'[k]
      PROVE  flash'[k] = value'[k] \/ (flash'[k] = Null /\ value'[k] = Default[k])
  <2>1. k \in Item /\ flash'[k] \in Value \cup {Null}
    BY StoreAssumption DEF Restart
  <2>2. value'[k] = Loaded(k, flash'[k]) /\ ~Replaced(k, flash'[k])
    BY <1>6, <2>1 DEF Restart
  <2> QED BY <2>1, <2>2, NotReplaced
<1>7. SettledStored'
  BY <1>6 DEF SettledStored, Holds, Restart
<1>8. CommitKnows'
  BY <1>4 DEF CommitKnows, At
<1> QED BY <1>5, <1>7, <1>8 DEF StoreInv

-----------------------------------------------------------------------------
LEMMA NextInv == StoreInv /\ [Next]_vars => StoreInv'
<1> SUFFICES ASSUME StoreInv, [Next]_vars PROVE StoreInv'
  OBVIOUS
<1>1. CASE Restart
  BY <1>1, RestartStep
<1>2. ASSUME NEW t \in Task, Proceed(t) PROVE StoreInv'
  BY <1>2, SetStoreStep, MarkStep, ResetItemStep, LoopSteps, WriteStep,
     NvsCommitStep, NvsCommitFailsStep, ClearStep DEF Proceed
<1>3. ASSUME NEW t \in Task, NEW k \in Item, NEW v \in Value, Restore(t, k, v)
      PROVE  StoreInv'
  BY <1>3, RestoreStep
<1>4. ASSUME NEW t \in Task,
             CommitDirty(t) \/ FactoryReset(t) \/ \E k \in Item, v \in Value : Set(t, k, v)
      PROVE  StoreInv'
  BY <1>4, StartSteps
<1>5. CASE UNCHANGED vars
  BY <1>5 DEF vars, itemVars, nvsVars, historyVars, StoreInv, TypeOK, SettledStored,
              CommitKnows, Holds, MarkPending, At
<1> QED BY <1>1, <1>2, <1>3, <1>4, <1>5 DEF Next

\* Every state of the store is well typed, and a task in the middle of a call
\* deals with an item there is (SetupCommon, SetupNG, ESP32NVS).
THEOREM StoreTypeCorrect == Spec => []TypeOK
<1>1. StoreInv => TypeOK
  BY DEF StoreInv
<1> QED BY <1>1, InitInv, NextInv, PTL DEF Spec

\* A change of a persistent setup item that is not flagged dirty any more is
\* in flash, unless a failing write or one of two races hit it (SetupCommon's
\* commit and the flags word of SetupNG's set).
THEOREM NoSilentLoss == Spec => []OnlyRacesLose
<1>1. Init => StoreInv
  BY InitInv
<1>2. StoreInv /\ [Next]_vars => StoreInv'
  BY NextInv
<1>3. StoreInv => OnlyRacesLose
  BY DEF StoreInv, SettledStored, OnlyRacesLose, Stored, Holds
<1> QED BY <1>1, <1>2, <1>3, PTL DEF Spec

=============================================================================
