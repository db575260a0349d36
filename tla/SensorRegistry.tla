--------------------------- MODULE SensorRegistry ---------------------------
(***************************************************************************)
(* The table of sensors the sensor loop works off, in the order of their   *)
(* priority (sensor/SensorMgr.cpp), and the sensors the device manager     *)
(* creates and gives up with their devices (comm/DeviceMgr.cpp).  Before   *)
(* the loop runs, changes of the table are direct; from then on they go    *)
(* through a queue, and the loop applies them between two cycles.  The     *)
(* registry deletes a sensor when it removes it.  The users of a sensor    *)
(* find it through one global pointer per type of sensor.  How often the   *)
(* loop reads an entry is left out.                                        *)
(***************************************************************************)
EXTENDS Naturals, SequencesExt

CONSTANTS
  Type,        \* sensor types that occur
  Prio,        \* [Type -> priority of its sensors, 0 first]
  OwnType,     \* types of the sensors registered once at start-up
  Probed,      \* types whose sensor is looked for on a bus; the sensors of
               \* the other ones are created once and then found again
  Local,       \* types the loop reads itself
  Essential,   \* types that are read in simulation mode as well
  Device,      \* devices that come with a sensor
  TypeOf,      \* [Device -> type of its sensor]
  NumObjects,  \* addresses of sensor objects: bounds what may be leaked
  MaxSensors,  \* entries of the table
  QueueLen,    \* entries of sensChangeQueue
  Null

Object == 1..NumObjects

ASSUME RegistryAssumption ==
  /\ Prio \in [Type -> Nat]
  /\ OwnType \subseteq Type /\ Probed \subseteq Type
  /\ Local \subseteq Type /\ Essential \subseteq Type
  /\ TypeOf \in [Device -> Type \ OwnType]
  /\ NumObjects \in Nat /\ MaxSensors \in Nat /\ QueueLen \in Nat
  /\ Null \notin Object /\ Null \notin Type

VARIABLES
  table,    \* all_sensors[0..numSensors-1]
  changes,  \* sensChangeQueue
  running,  \* the queue exists: the sensor loop runs
  kind,     \* [Object -> type of the sensor there, Null: no object]
  global,   \* [Type -> magSensor, gpsSensor, flapSensor, oatSensor ..., Null]
  sensor,   \* [devices of _device_map -> Device::_sensor]
  inSim,    \* gflags.inSimulationMode
  late,     \* sensors found after their device was set up (history)
  stopped   \* sensors that were there when the simulation began (history)

heapVars == <<kind, global>>
registryVars == <<table, changes, running>>
historyVars == <<late, stopped>>
vars == <<registryVars, heapVars, sensor, inSim, historyVars>>

\* An entry of the table; what an entry of the queue asks for.
Entry == [type : Type, obj : Object, local : BOOLEAN]
EntryFor(o, ty) == [type |-> ty, obj |-> o, local |-> ty \in Local]
Adding(o) == [op |-> "add", obj |-> o]
Removing(o) == [op |-> "remove", obj |-> o]
Simulating == [op |-> "sim", obj |-> Null]
Change == {Adding(o) : o \in Object} \cup {Removing(o) : o \in Object} \cup {Simulating}

Pending(c) == c \in Range(changes)
Registered(o) == \E i \in DOMAIN table : table[i].obj = o

-----------------------------------------------------------------------------
(***************************************************************************)
(* The heap.  A new object gets the lowest free address, so that addresses *)
(* come back as soon as they can.  The constructor sets the global pointer *)
(* of the type, the destructor clears it, whatever it points to.           *)
(***************************************************************************)

Free == {o \in Object : kind[o] = Null}
Created(o, ty) == [kind EXCEPT ![o] = ty]
Freed(k, objs) == [o \in Object |-> IF o \in objs THEN Null ELSE k[o]]
Unset(g, k, objs) == [ty \in Type |-> IF \E o \in objs : k[o] = ty THEN Null ELSE g[ty]]

\* What getId() returns for the sensor at o: of a deleted one, anything.
IdOf(o, k) == IF k[o] = Null THEN Type ELSE {k[o]}

-----------------------------------------------------------------------------
(***************************************************************************)
(* The registry.  The priority belongs to the type here, as in the code,   *)
(* so two sensors of a type never have different ones.                     *)
(***************************************************************************)

\* find()
Places(ty) == {i \in DOMAIN table : table[i].type = ty}
\* The sensor of this type that addSensor of o deletes.
Displaced(o, ty) ==
  {table[i].obj : i \in {j \in Places(ty) : j = Min(Places(ty))}} \ {o}
\* Where a new entry goes (this one is a variant with a bug): at the end.
PlaceForLast(ty) == Len(table) + 1
\* Where a new entry goes: before the first one with a lower priority.
PlaceFor(ty) ==
  Min({i \in DOMAIN table : Prio[table[i].type] > Prio[ty]} \cup {Len(table) + 1})

\* xQueueSend() to the queue, without waiting.
Queued(c) == IF Len(changes) < QueueLen THEN Append(changes, c) ELSE changes

-----------------------------------------------------------------------------
(***************************************************************************)
(* Variants of definitions below, each with a bug that would be easy to    *)
(* make in that code.  The specification does not use them.                *)
(***************************************************************************)

\* The last place of the table is never used, or never promised.
AddedOneShort(o, ty) ==
  IF Len(table) < MaxSensors - 1 THEN InsertAt(table, PlaceFor(ty), EntryFor(o, ty))
  ELSE table
AcceptsOneShort == Len(table) < MaxSensors - 1

\* The entry goes, the object stays.
RemoveSensorOnly(o) ==
  /\ table' = SelectSeq(table, LAMBDA e : e.obj # o)
  /\ UNCHANGED heapVars

\* The device deletes its sensor, and the registry learns of it later.
DeregisterAtOnce(o) ==
  /\ changes' = Queued(Removing(o))
  /\ kind' = Freed(kind, {o}) /\ global' = Unset(global, kind, {o})
  /\ UNCHANGED table

\* xQueueSendToFront
EnterSimFirst ==
  /\ ~inSim /\ inSim' = TRUE
  /\ changes' = IF running THEN <<Simulating>> \o changes ELSE changes
  /\ stopped' = IF changes' = changes THEN {}
                ELSE {o \in Object : Registered(o) \/ Pending(Adding(o))}
  /\ UNCHANGED <<table, running, heapVars, sensor, late>>

\* The whole id is overwritten, not only its flags.
SimulatedWipesId ==
  [i \in DOMAIN table |->
     IF table[i].type \in Essential THEN table[i]
     ELSE [table[i] EXCEPT !.local = FALSE, !.type = Null]]

-----------------------------------------------------------------------------
(* addSensor(): the table afterwards.                                      *)
Added(o, ty) ==
  IF Displaced(o, ty) # {} THEN [table EXCEPT ![Min(Places(ty))] = EntryFor(o, ty)]
  ELSE IF Len(table) < MaxSensors THEN InsertAt(table, PlaceFor(ty), EntryFor(o, ty))
  ELSE table

\* addSensor() of o, in the heap k with the global pointers g.
AddSensor(o, ty, k, g) ==
  /\ table' = Added(o, ty)
  /\ kind' = Freed(k, Displaced(o, ty))
  /\ global' = Unset(g, k, Displaced(o, ty))

\* removeSensor(): a sensor that is not in the table is not deleted either.
RemoveSensor(o) ==
  IF Registered(o)
  THEN /\ table' = RemoveAt(table, Min({i \in DOMAIN table : table[i].obj = o}))
       /\ kind' = Freed(kind, {o})
       /\ global' = Unset(global, kind, {o})
  ELSE UNCHANGED <<table, heapVars>>

\* What registerSensor looks at before it asks for a place.
Accepts == Len(table) < MaxSensors

\* registerSensor(), in the heap k with the global pointers g.
RegisterSensor(o, ty, k, g) ==
  IF running
  THEN /\ changes' = IF Accepts THEN Queued(Adding(o)) ELSE changes
       /\ kind' = k /\ global' = g
       /\ UNCHANGED table
  ELSE AddSensor(o, ty, k, g) /\ UNCHANGED changes

DeregisterSensor(o) ==
  IF running
  THEN changes' = Queued(Removing(o)) /\ UNCHANGED <<table, heapVars>>
  ELSE RemoveSensor(o) /\ UNCHANGED changes

-----------------------------------------------------------------------------
Init ==
  /\ table = <<>> /\ changes = <<>> /\ running = FALSE
  /\ kind = [o \in Object |-> Null] /\ global = [ty \in Type |-> Null]
  /\ sensor = <<>>
  /\ inSim = FALSE
  /\ late = {} /\ stopped = {}

\* A sensor of the instrument itself is created and registered at start-up.
RegisterOwn(ty) ==
  /\ ~running /\ ty \in OwnType /\ global[ty] = Null /\ Free # {}
  /\ RegisterSensor(Min(Free), ty, Created(Min(Free), ty), [global EXCEPT ![ty] = Min(Free)])
  /\ UNCHANGED <<running, sensor, inSim, historyVars>>

\* The sensor loop starts and creates the queue.
Start ==
  /\ ~running /\ running' = TRUE
  /\ UNCHANGED <<table, changes, heapVars, sensor, inSim, historyVars>>

\* The sensor addDevice gets hold of: of most types there is one object.
SensorFor(ty) == IF ty \notin Probed /\ global[ty] # Null THEN {global[ty]}
                 ELSE {o \in Free : o = Min(Free)}

\* Nobody adds a device again before the loop has dropped its old sensor,
\* which takes one cycle of 50 ms: an assumption on the environment.
Settled(ty) == \A o \in Object : kind[o] = ty => ~Pending(Removing(o))

\* The device map with d, which has sensor o or none.
WithSensor(d, o) == [e \in DOMAIN sensor \cup {d} |-> IF e = d THEN o ELSE sensor[e]]

\* addDevice() of a new device.
AddDevice(d) ==
  /\ d \notin DOMAIN sensor /\ Settled(TypeOf[d])
  /\ \E o \in SensorFor(TypeOf[d]) :
       /\ sensor' = WithSensor(d, o)
       /\ RegisterSensor(o, TypeOf[d], Created(o, TypeOf[d]), [global EXCEPT ![TypeOf[d]] = o])
       /\ stopped' = IF kind[o] = Null THEN stopped \ {o} ELSE stopped
  /\ UNCHANGED <<running, inSim, late>>

\* The same when there is nothing on the bus.
AddWithoutSensor(d) ==
  /\ d \notin DOMAIN sensor /\ Settled(TypeOf[d]) /\ TypeOf[d] \in Probed
  /\ sensor' = WithSensor(d, Null)
  /\ UNCHANGED <<registryVars, heapVars, inSim, historyVars>>

\* removeDevice() and ~Device().
RemoveDevice(d) ==
  /\ d \in DOMAIN sensor
  /\ sensor' = [e \in DOMAIN sensor \ {d} |-> sensor[e]]
  /\ IF sensor[d] # Null THEN DeregisterSensor(sensor[d])
                         ELSE UNCHANGED <<table, changes, heapVars>>
  /\ UNCHANGED <<running, inSim, historyVars>>

\* groupUpdate() finds the sensor that was not there at first.  Its look-up of
\* the device, the probe and the assignment are one step: a device removed
\* in between is left out.
ProbeLate(d) ==
  /\ running /\ d \in DOMAIN sensor /\ TypeOf[d] \in Probed /\ sensor[d] = Null
  /\ Free # {}
  /\ sensor' = [sensor EXCEPT ![d] = Min(Free)]
  /\ kind' = Created(Min(Free), TypeOf[d])
  /\ global' = [global EXCEPT ![TypeOf[d]] = Min(Free)]
  /\ late' = late \cup {Min(Free)} /\ stopped' = stopped \ {Min(Free)}
  /\ UNCHANGED <<registryVars, inSim>>

\* The Flarm simulation command; before the loop runs it stops no sensor.
EnterSim ==
  /\ ~inSim /\ inSim' = TRUE
  /\ changes' = IF running THEN Queued(Simulating) ELSE changes
  /\ stopped' = IF changes' = changes THEN {}
                ELSE {o \in Object : Registered(o) \/ Pending(Adding(o))}
  /\ UNCHANGED <<table, running, heapVars, sensor, late>>

\* goSimMode(): the table afterwards.
Simulated ==
  [i \in DOMAIN table |-> [table[i] EXCEPT !.local = @ /\ table[i].type \in Essential]]

\* applyChange(), one change of the queue.
ApplyChange ==
  /\ changes # <<>>
  /\ changes' = Tail(changes)
  /\ LET c == Head(changes) IN
       CASE c.op = "add" -> \E ty \in IdOf(c.obj, kind) : AddSensor(c.obj, ty, kind, global)
         [] c.op = "remove" -> RemoveSensor(c.obj)
         [] c.op = "sim" -> table' = Simulated /\ UNCHANGED heapVars
  /\ UNCHANGED <<running, sensor, inSim, historyVars>>

Next ==
  \/ \E ty \in OwnType : RegisterOwn(ty)
  \/ \E d \in Device : AddDevice(d) \/ AddWithoutSensor(d) \/ RemoveDevice(d) \/ ProbeLate(d)
  \/ Start \/ EnterSim \/ ApplyChange

Spec == Init /\ [][Next]_vars
FairSpec == Spec /\ WF_vars(Start) /\ WF_vars(ApplyChange)

-----------------------------------------------------------------------------
(***************************************************************************)
(* Properties.                                                             *)
(***************************************************************************)

\* The variables have their types, and table and queue fit their arrays.
TypeOK ==
  /\ table \in Seq(Entry) /\ Len(table) <= MaxSensors
  /\ changes \in Seq(Change) /\ Len(changes) <= QueueLen
  /\ running \in BOOLEAN /\ inSim \in BOOLEAN
  /\ kind \in [Object -> Type \cup {Null}]
  /\ global \in [Type -> Object \cup {Null}]
  /\ DOMAIN sensor \subseteq Device
  /\ \A d \in DOMAIN sensor : sensor[d] \in Object \cup {Null}
  /\ late \subseteq Object /\ stopped \subseteq Object

\* No sensor is destructed while the table has it (SensorBase.cpp, comment
\* on the destructor): the loop works off existing sensors only, each under
\* its own type.
EntriesAlive == \A i \in DOMAIN table : kind[table[i].obj] = table[i].type

\* The loop works off the sensors in the order of their priorities, and
\* there is one sensor of a type at most, the one the global pointer of its
\* users leads to (addSensor, the constructors and destructors).
TableSound ==
  /\ \A i, j \in DOMAIN table : i < j =>
       /\ Prio[table[i].type] <= Prio[table[j].type]
       /\ table[i].type # table[j].type
  /\ \A i \in DOMAIN table : global[table[i].type] = table[i].obj

\* The sensor of a device is in the table or will be: neither a full table
\* nor a full queue turns it away, and no change that is still pending takes
\* it out again (registerSensor's result is ignored by addDevice).
DeviceSensorsServed ==
  \A d \in DOMAIN sensor : sensor[d] \notin late \cup {Null} =>
    /\ Registered(sensor[d]) \/ Pending(Adding(sensor[d]))
    /\ ~Pending(Removing(sensor[d]))

\* No sensor is forgotten: it is in the table, about to get there, or was
\* found late, the one case deregisterSensor does not delete.
NoneLeaked ==
  \A o \in Object : kind[o] # Null => Registered(o) \/ Pending(Adding(o)) \/ o \in late

\* Once the loop has gone to simulation mode it reads none of the sensors
\* that were there when the mode was entered, but the essential ones: a
\* pending registration cannot overtake (enterSimMode, goSimMode).
SimulationStopsReads ==
  ~Pending(Simulating) =>
    \A i \in DOMAIN table :
      table[i].obj \in stopped /\ table[i].local => table[i].type \in Essential

\* The loop takes up the sensor of a device that stays, and drops and deletes
\* the sensor of one that has gone, where no other device uses it.
EventuallyFollows ==
  \A d \in Device :
    LET there == d \in DOMAIN sensor IN
    /\ there ~> (there => sensor[d] \in late \cup {Null} \/ Registered(sensor[d]))
    /\ ~there ~> (there \/ \A o \in Object \ late : kind[o] # TypeOf[d])
=============================================================================
