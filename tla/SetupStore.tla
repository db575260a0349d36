----------------------------- MODULE SetupStore -----------------------------
(***************************************************************************)
(* The setup items of one instrument and their copies in flash             *)
(* (setup/SetupCommon.cpp, setup/SetupNG.h, ESP32NVS.cpp).  An item is     *)
(* changed in RAM and flagged dirty; commitDirty writes the dirty ones     *)
(* later.  The sensor loop commits every five seconds, the menu when it is *)
(* left, the web server after a restore or a reset: nothing keeps these    *)
(* tasks apart but the mutex around each single NVS call.                  *)
(***************************************************************************)
EXTENDS Naturals

CONSTANTS
  NumItems,    \* entries of SetupCommon::instances, in its order
  Value,       \* values of an item
  InLimits,    \* those that pass inLimits()
  Default,     \* [items -> default value]
  Fresh,       \* the value of an item before init(), zero
  Persistent,  \* items with a copy in flash; the others are VOLATILE
  Resettable,  \* items a factory reset puts back
  Task,        \* tasks that change or commit items
  LoopTask,    \* start-up with initSetup, and then the sensor loop
  Null         \* no entry in flash

Item == 1..NumItems

ASSUME StoreAssumption ==
  /\ NumItems \in Nat
  /\ InLimits \subseteq Value
  /\ Default \in [Item -> InLimits]
  /\ Persistent \subseteq Item /\ Resettable \subseteq Item
  /\ LoopTask \in Task /\ Fresh \in Value
  /\ Null \notin Value

VARIABLES
  value,    \* SetupNG::_value
  dirty,    \* flags._dirty
  staged,   \* what nvs_set_blob was given last
  flash,    \* what is sure to survive: staged as of the last nvs_commit
  task,     \* where each task is in the code below, and its locals there
  booting,  \* initSetup is running
  clean,    \* per task: its commit is undisturbed so far (history)
  lost      \* items that a disturbed commit or flag update hit (history)

itemVars == <<value, dirty>>
nvsVars == <<staged, flash>>
historyVars == <<clean, lost>>
vars == <<itemVars, nvsVars, task, booting, historyVars>>

Points == {"idle", "valid", "mark", "reset", "scan", "write", "nvs", "clear"}
Calls == {"set", "restore", "reset", "commit"}

\* The call a task is in, the index of the item it deals with, the argument
\* of set, the dirty bit of the flags word it loaded, commitDirty's result.
In(call, point, k, v, bit) ==
  [pc |-> point, job |-> call, at |-> k, new |-> v, snap |-> bit, ok |-> TRUE]
Idle == In("set", "idle", 1, Null, FALSE)

Free(t) == task[t].pc = "idle" /\ ~booting
At(t, point) == task[t].pc = point
Become(t, r) == task' = [task EXCEPT ![t] = r]
Goto(t, point) == Become(t, [task[t] EXCEPT !.pc = point])
Skip(t, point) == Become(t, [task[t] EXCEPT !.pc = point, !.at = @ + 1])
Start(t, r) == Free(t) /\ Become(t, r)

-----------------------------------------------------------------------------
(***************************************************************************)
(* Variants of definitions below, each with a bug that would be easy to    *)
(* make in that code.  The specification does not use them.                *)
(***************************************************************************)

\* The entry is taken as it is, without a look at the limits.
LoadedUnchecked(k, f) == f

\* A failing nvs_commit goes unnoticed too.
NvsCommitFailsUnnoticed(t) ==
  /\ At(t, "nvs")
  /\ Become(t, Idle)
  /\ dirty' = [dirty EXCEPT ![task[t].at] = FALSE]
  /\ UNCHANGED <<value, nvsVars, booting, historyVars>>

\* The loop over the instances starts with the second one.
CommitDirtySkipsFirst(t) ==
  /\ Start(t, In("commit", "scan", 2, Null, FALSE))
  /\ UNCHANGED <<itemVars, nvsVars, booting, historyVars>>

-----------------------------------------------------------------------------
(* What init() makes of an entry in flash, or of none.                     *)
Loaded(k, f) == IF f \in InLimits THEN f ELSE Default[k]

\* setDefault() flags an item dirty that had another value, the one from
\* flash or none yet.
Replaced(k, f) == k \in Persistent /\ Loaded(k, f) # (IF f = Null THEN Fresh ELSE f)

\* initSetup commits before any other task is started.
Booted == [t \in Task |-> IF t = LoopTask THEN In("commit", "scan", 1, Null, FALSE) ELSE Idle]

\* The first start, with an empty flash.
Init ==
  /\ value = Default /\ dirty = [k \in Item |-> Replaced(k, Null)]
  /\ staged = [k \in Item |-> Null] /\ flash = staged
  /\ task = Booted /\ booting = TRUE
  /\ clean = [t \in Task |-> TRUE] /\ lost = {}

\* Commits of item k that are between nvs_set_blob and the end.
Committing(k) == {t \in Task : task[t].pc \in {"nvs", "clear"} /\ task[t].at = k}

\* _value = v; a commit of the item under way no longer covers it.
Assign(k, v) ==
  /\ value' = [value EXCEPT ![k] = v]
  /\ clean' = [t \in Task |-> clean[t] /\ t \notin Committing(k)]

-----------------------------------------------------------------------------
(* set(): flags._valid is written first, which rewrites the word that also *)
(* holds _dirty; then the value, if it is another one, and the dirty flag. *)

Set(t, k, v) ==
  /\ Start(t, In("set", "valid", k, v, dirty[k]))
  /\ UNCHANGED <<itemVars, nvsVars, booting, historyVars>>

SetStore(t) ==
  LET k == task[t].at IN
  /\ At(t, "valid")
  /\ dirty' = [dirty EXCEPT ![k] = task[t].snap]
  /\ lost' = IF dirty[k] /\ ~task[t].snap THEN lost \cup {k} ELSE lost
  /\ IF value[k] # task[t].new
     THEN Assign(k, task[t].new) /\ Goto(t, "mark")
     ELSE UNCHANGED <<value, clean>> /\ Become(t, Idle)
  /\ UNCHANGED <<nvsVars, booting>>

\* setDirty()
Mark(t) ==
  /\ At(t, "mark")
  /\ dirty' = [dirty EXCEPT ![task[t].at] = TRUE]
  /\ \/ task[t].job = "set" /\ Become(t, Idle)
     \/ task[t].job = "restore" /\ Goto(t, "write")
     \/ task[t].job = "reset" /\ Skip(t, "reset")
  /\ UNCHANGED <<value, nvsVars, booting, historyVars>>

\* restoreConfigChanges, one line of the file: setValueFromStr looks neither
\* at the limits nor at the old value; commit() of the item follows.
Restore(t, k, v) ==
  /\ k \in Persistent
  /\ Start(t, In("restore", "mark", k, v, FALSE))
  /\ Assign(k, v)
  /\ UNCHANGED <<dirty, nvsVars, booting, lost>>

-----------------------------------------------------------------------------
(* commitDirty() and factoryReset().                                       *)

CommitDirty(t) ==
  /\ Start(t, In("commit", "scan", 1, Null, FALSE))
  /\ UNCHANGED <<itemVars, nvsVars, booting, historyVars>>

FactoryReset(t) ==
  /\ Start(t, In("reset", "reset", 1, Null, FALSE))
  /\ UNCHANGED <<itemVars, nvsVars, booting, historyVars>>

\* setDefault() of the next item; after the last one, commitDirty().
ResetItem(t) ==
  LET k == task[t].at IN
  /\ At(t, "reset") /\ k \in Item
  /\ IF k \in Resettable /\ value[k] # Default[k]
     THEN Assign(k, Default[k])
     ELSE UNCHANGED <<value, clean>>
  /\ IF k \in Resettable \cap Persistent /\ value[k] # Default[k]
     THEN Goto(t, "mark")
     ELSE Skip(t, "reset")
  /\ UNCHANGED <<dirty, nvsVars, booting, lost>>

ResetDone(t) ==
  /\ At(t, "reset") /\ task[t].at \notin Item
  /\ Become(t, [task[t] EXCEPT !.pc = "scan", !.at = 1])
  /\ UNCHANGED <<itemVars, nvsVars, booting, historyVars>>

\* commit() of a volatile item returns at once and leaves it dirty.
Scan(t) ==
  LET k == task[t].at IN
  /\ At(t, "scan") /\ k \in Item
  /\ IF dirty[k] /\ k \in Persistent THEN Goto(t, "write") ELSE Skip(t, "scan")
  /\ UNCHANGED <<itemVars, nvsVars, booting, historyVars>>

ScanDone(t) ==
  /\ At(t, "scan") /\ task[t].at \notin Item
  /\ Become(t, Idle)
  /\ booting' = FALSE
  /\ UNCHANGED <<itemVars, nvsVars, historyVars>>

\* write(): a failing nvs_set_blob goes unnoticed.
Write(t) ==
  LET k == task[t].at IN
  /\ At(t, "write")
  /\ \/ staged' = [staged EXCEPT ![k] = value[k]] /\ clean' = [clean EXCEPT ![t] = TRUE]
     \/ UNCHANGED staged /\ clean' = [clean EXCEPT ![t] = FALSE]
  /\ Goto(t, "nvs")
  /\ UNCHANGED <<itemVars, flash, booting, lost>>

\* Back from commit().
Return(t, r) == IF r.job = "restore" THEN Become(t, Idle)
                ELSE Become(t, [r EXCEPT !.pc = "scan", !.at = @ + 1])

NvsCommit(t) ==
  /\ At(t, "nvs")
  /\ flash' = staged
  /\ Goto(t, "clear")
  /\ UNCHANGED <<itemVars, staged, booting, historyVars>>

NvsCommitFails(t) ==
  /\ At(t, "nvs")
  /\ Return(t, [task[t] EXCEPT !.ok = FALSE])
  /\ clean' = [clean EXCEPT ![t] = TRUE]
  /\ UNCHANGED <<itemVars, nvsVars, booting, lost>>

\* flags._dirty = false
Clear(t) ==
  LET k == task[t].at IN
  /\ At(t, "clear")
  /\ dirty' = [dirty EXCEPT ![k] = FALSE]
  /\ lost' = IF clean[t] THEN lost \ {k} ELSE lost \cup {k}
  /\ Return(t, task[t])
  /\ clean' = [clean EXCEPT ![t] = TRUE]
  /\ UNCHANGED <<value, nvsVars, booting>>

-----------------------------------------------------------------------------
(* A power cycle at any time.  What was not committed may have made it to  *)
(* the flash or not.  initSetup loads or replaces every item.              *)
Restart ==
  /\ flash' \in [Item -> Value \cup {Null}]
  /\ \A k \in Item : flash'[k] \in {flash[k], staged[k]}
  /\ staged' = flash'
  /\ value' = [k \in Item |-> IF k \in Persistent THEN Loaded(k, flash'[k])
                                                  ELSE Default[k]]
  /\ dirty' = [k \in Item |-> Replaced(k, flash'[k])]
  /\ task' = Booted /\ booting' = TRUE
  /\ clean' = [t \in Task |-> TRUE] /\ lost' = {}

-----------------------------------------------------------------------------
Proceed(t) ==
  \/ SetStore(t) \/ Mark(t) \/ ResetItem(t) \/ ResetDone(t) \/ Scan(t)
  \/ ScanDone(t) \/ Write(t) \/ NvsCommit(t) \/ NvsCommitFails(t) \/ Clear(t)

Next ==
  \/ \E t \in Task : \/ \E k \in Item, v \in Value : Set(t, k, v)
                      \/ CommitDirty(t)
                      \/ Proceed(t)
  \/ \E t \in Task \ {LoopTask} : \/ \E k \in Item, v \in Value : Restore(t, k, v)
                                   \/ FactoryReset(t)
  \/ Restart

Spec == Init /\ [][Next]_vars

\* A task in one of these calls carries on, the sensor loop commits again and
\* again, and the flash does not fail the same item for ever.
Fairness ==
  /\ \A t \in Task : WF_vars(Proceed(t))
  /\ SF_vars(CommitDirty(LoopTask))
  /\ \A k \in Item : SF_vars(task[LoopTask].at = k /\ NvsCommit(LoopTask))

FairSpec == Spec /\ Fairness

-----------------------------------------------------------------------------
(***************************************************************************)
(* Properties                                                              *)
(***************************************************************************)

TypeOK ==
  /\ value \in [Item -> Value] /\ dirty \in [Item -> BOOLEAN]
  /\ staged \in [Item -> Value \cup {Null}] /\ flash \in [Item -> Value \cup {Null}]
  /\ task \in [Task -> [pc : Points, job : Calls, at : 1..(NumItems + 1),
                       new : Value \cup {Null}, snap : BOOLEAN, ok : BOOLEAN]]
  /\ \A t \in Task :
       /\ task[t].pc \in {"valid", "mark", "write", "nvs", "clear"} => task[t].at \in Item
       /\ task[t].pc = "valid" => task[t].new \in Value
  /\ booting \in BOOLEAN
  /\ clean \in [Task -> BOOLEAN] /\ lost \subseteq Item

\* The next start of the instrument would find the value of the item.
Stored(k) == flash[k] = value[k] \/ (flash[k] = Null /\ value[k] = Default[k])

\* A task is about to flag the item dirty.
MarkPending(k) == \E t \in Task : At(t, "mark") /\ task[t].at = k

\* "flash NVS settings permanently": a change of a persistent item that is
\* not flagged dirty any more is in flash, whatever the tasks interleave,
\* unless one of three things hit it: nvs_set_blob failed, the item was
\* changed while it was being committed, or the flags word was.
OnlyRacesLose ==
  \A k \in Persistent : dirty[k] \/ Stored(k) \/ MarkPending(k) \/ k \in lost

\* "Factory reset SUCCESS": every item of the reset that still has its default
\* value, with no change pending and no task at work on it, has it in flash.
ResetSucceeds(t) ==
  ScanDone(t) /\ task[t].job = "reset" /\ task[t].ok

Settled(k) ==
  /\ ~dirty[k]
  /\ \A t \in Task : task[t].pc \in {"valid", "mark", "write", "nvs", "clear"}
                       => task[t].at # k

ResetTakesHold ==
  [][\A t \in Task : ResetSucceeds(t) =>
       \A k \in Resettable \cap Persistent :
         Settled(k) /\ value[k] = Default[k] => Stored(k)]_vars

\* No change stays in RAM for ever: a dirty persistent item is committed, or
\* the power is cycled before.
EventuallyCommitted == \A k \in Persistent : dirty[k] ~> ~dirty[k] \/ booting
=============================================================================
