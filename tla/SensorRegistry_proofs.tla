------------------------ MODULE SensorRegistry_proofs -------------------------
(***************************************************************************)
(* Proofs about the sensor registry, for any sensors, priorities, devices  *)
(* and sizes of the heap.                                                  *)
(***************************************************************************)
EXTENDS SensorRegistry, TLAPS, FiniteSetTheorems, SequenceTheorems, WellFoundedInduction

-----------------------------------------------------------------------------
(* Numbers and sequences.                                                  *)

LEMMA MinOf ==
  ASSUME NEW S \in SUBSET Nat, S # {}
  PROVE  Min(S) \in S /\ \A y \in S : Min(S) <= y
<1> DEFINE less == {p \in Nat \X Nat : p[1] < p[2]}
<1>1. IsWellFoundedOn(less, Nat)
  BY NatLessThanWellFounded DEF OpToRel
<1> HIDE DEF less
<1>2. \E x \in S : \A y \in S : ~(<<y, x>> \in less)
  BY <1>1, WFMin
<1>3. \A x, y \in Nat : <<y, x>> \in less <=> y < x
  BY DEF less
<1>4. \E x \in S : \A y \in S : x <= y
  <2>1. PICK x \in S : \A y \in S : ~(<<y, x>> \in less)
    BY <1>2
  <2>2. \A y \in S : ~(y < x)
    BY <1>3, <2>1
  <2>3. \A y \in S : x <= y
    BY <2>2
  <2>4. QED BY <2>3
<1>5. Min(S) \in S /\ \A y \in S : Min(S) <= y
  BY <1>4, Zenon DEF Min
<1>6. QED BY <1>5

LEMMA IntervalSize ==
  ASSUME NEW n \in Nat
  PROVE  Cardinality(1..n) = n
<1>1. Cardinality(1..n) = IF 1 > n THEN 0 ELSE n - 1 + 1
  BY FS_Interval
<1>2. IF 1 > n THEN 0 = n ELSE n - 1 + 1 = n
  OBVIOUS
<1>3. QED BY <1>1, <1>2

LEMMA Elements ==
  ASSUME NEW S, NEW s \in Seq(S)
  PROVE  /\ Len(s) \in Nat /\ DOMAIN s = 1..Len(s)
         /\ \A i \in DOMAIN s : s[i] \in S /\ s[i] \in Range(s)
         /\ \A e \in Range(s) : \E i \in DOMAIN s : e = s[i]
BY LenProperties, ElementOfSeq DEF Range

LEMMA Appended ==
  ASSUME NEW S, NEW s \in Seq(S), NEW e \in S
  PROVE  /\ Append(s, e) \in Seq(S) /\ Len(Append(s, e)) = Len(s) + 1
         /\ \A i \in 1..Len(s) : Append(s, e)[i] = s[i]
         /\ Append(s, e)[Len(s) + 1] = e
         /\ Range(Append(s, e)) = Range(s) \cup {e}
<1>1. /\ Append(s, e) \in Seq(S) /\ Len(Append(s, e)) = Len(s) + 1
      /\ \A i \in 1..Len(s) : Append(s, e)[i] = s[i]
      /\ Append(s, e)[Len(s) + 1] = e
      /\ Len(s) \in Nat /\ DOMAIN s = 1..Len(s)
      /\ DOMAIN Append(s, e) = 1..(Len(s) + 1)
  BY AppendProperties, LenProperties
<1>2. QED BY <1>1 DEF Range

\* InsertAt and RemoveAt, element by element.
LEMMA Inserted ==
  ASSUME NEW S, NEW s \in Seq(S), NEW e \in S, NEW i \in 1..(Len(s) + 1)
  PROVE  /\ InsertAt(s, i, e) \in Seq(S) /\ Len(InsertAt(s, i, e)) = Len(s) + 1
         /\ \A j \in 1..(i - 1) : InsertAt(s, i, e)[j] = s[j]
         /\ InsertAt(s, i, e)[i] = e
         /\ \A j \in (i + 1)..(Len(s) + 1) : InsertAt(s, i, e)[j] = s[j - 1]
<1> DEFINE p == SubSeq(s, 1, i - 1)  q == SubSeq(s, i, Len(s))
<1>1. Len(s) \in Nat /\ i \in Nat /\ i - 1 \in Nat /\ \A j \in 1..Len(s) : s[j] \in S
  BY LenProperties, ElementOfSeq
<1>2. p \in Seq(S) /\ Len(p) = i - 1 /\ \A j \in 1..(i - 1) : p[j] = s[j]
  BY <1>1, SubSeqProperties
<1>3. q \in Seq(S) /\ Len(q) = Len(s) + 1 - i /\ \A j \in 1..Len(q) : q[j] = s[i + j - 1]
  BY <1>1, SubSeqProperties
<1>4. <<e>> \in Seq(S) /\ Len(<<e>>) = 1 /\ <<e>>[1] = e
  OBVIOUS
<1> HIDE DEF p, q
<1>5. /\ p \o <<e>> \in Seq(S) /\ Len(p \o <<e>>) = i
      /\ \A j \in 1..(i - 1) : (p \o <<e>>)[j] = s[j]
      /\ (p \o <<e>>)[i] = e
  BY <1>1, <1>2, <1>4, ConcatProperties
<1> DEFINE r == p \o <<e>>
<1> HIDE DEF r
<1>6. /\ r \in Seq(S) /\ Len(r) = i
      /\ \A j \in 1..(i - 1) : r[j] = s[j]
      /\ r[i] = e
  BY <1>5 DEF r
<1>7. /\ r \o q \in Seq(S) /\ Len(r \o q) = Len(s) + 1
      /\ \A j \in 1..(i - 1) : (r \o q)[j] = s[j]
      /\ (r \o q)[i] = e
      /\ \A j \in (i + 1)..(Len(s) + 1) : (r \o q)[j] = q[j - i]
  BY <1>1, <1>3, <1>6, ConcatProperties
<1>8. \A j \in (i + 1)..(Len(s) + 1) : (r \o q)[j] = s[j - 1]
  <2> SUFFICES ASSUME NEW j \in (i + 1)..(Len(s) + 1) PROVE (r \o q)[j] = s[j - 1]
    OBVIOUS
  <2>1. j - i \in 1..Len(q) /\ i + (j - i) - 1 = j - 1
    BY <1>1, <1>3
  <2>2. q[j - i] = s[i + (j - i) - 1]
    BY <1>3, <2>1
  <2>3. QED BY <1>7, <2>1, <2>2
<1>9. InsertAt(s, i, e) = r \o q
  BY DEF InsertAt, r, p, q
<1>10. QED BY <1>7, <1>8, <1>9

LEMMA Removed ==
  ASSUME NEW S, NEW s \in Seq(S), NEW i \in 1..Len(s)
  PROVE  /\ RemoveAt(s, i) \in Seq(S) /\ Len(RemoveAt(s, i)) = Len(s) - 1
         /\ \A j \in 1..(i - 1) : RemoveAt(s, i)[j] = s[j]
         /\ \A j \in i..(Len(s) - 1) : RemoveAt(s, i)[j] = s[j + 1]
<1> DEFINE p == SubSeq(s, 1, i - 1)  q == SubSeq(s, i + 1, Len(s))
<1>1. Len(s) \in Nat /\ i \in Nat /\ i - 1 \in Nat /\ \A j \in 1..Len(s) : s[j] \in S
  BY LenProperties, ElementOfSeq
<1>2. p \in Seq(S) /\ Len(p) = i - 1 /\ \A j \in 1..(i - 1) : p[j] = s[j]
  BY <1>1, SubSeqProperties
<1>3. q \in Seq(S) /\ Len(q) = Len(s) - i /\ \A j \in 1..Len(q) : q[j] = s[i + j]
  BY <1>1, SubSeqProperties
<1> HIDE DEF p, q
<1>4. /\ p \o q \in Seq(S) /\ Len(p \o q) = Len(s) - 1
      /\ \A j \in 1..(i - 1) : (p \o q)[j] = s[j]
      /\ \A j \in i..(Len(s) - 1) : (p \o q)[j] = q[j - (i - 1)]
  BY <1>1, <1>2, <1>3, ConcatProperties
<1>5. \A j \in i..(Len(s) - 1) : (p \o q)[j] = s[j + 1]
  <2> SUFFICES ASSUME NEW j \in i..(Len(s) - 1) PROVE (p \o q)[j] = s[j + 1]
    OBVIOUS
  <2>1. j - (i - 1) \in 1..Len(q) /\ i + (j - (i - 1)) = j + 1
    BY <1>1, <1>3
  <2>2. q[j - (i - 1)] = s[i + (j - (i - 1))]
    BY <1>3, <2>1
  <2>3. QED BY <1>4, <2>1, <2>2
<1>6. RemoveAt(s, i) = p \o q
  BY DEF RemoveAt, p, q
<1>7. QED BY <1>4, <1>5, <1>6

-----------------------------------------------------------------------------
(***************************************************************************)
(* What the properties need of an instrument.  The runs show what happens  *)
(* without: two devices of one type share a sensor, and the removal of one *)
(* takes it from the other.  The firmware has 14 types and as many places  *)
(* in the table, and a queue of 10 for the 4 devices with a sensor it has  *)
(* as long as at most one of the two magnetic sensors is connected.        *)
(***************************************************************************)

OneDevicePerType == \A d, e \in Device : TypeOf[d] = TypeOf[e] => d = e

EnoughRoom ==
  /\ IsFiniteSet(Type) /\ Cardinality(Type) <= MaxSensors
  /\ IsFiniteSet(Device) /\ 2 * Cardinality(Device) + 1 <= QueueLen

-----------------------------------------------------------------------------
(***************************************************************************)
(* The inductive invariant.  A sensor the registry answers for, one that   *)
(* was not found late, is Kept.                                            *)
(***************************************************************************)

Kept(o) == kind[o] # Null /\ o \notin late
InTable(o) == \E e \in Range(table) : e.obj = o

\* By priority, and at most one entry for a type.
Sorted(t) ==
  \A i, j \in DOMAIN t : i < j =>
    Prio[t[i].type] <= Prio[t[j].type] /\ t[i].type # t[j].type

\* No change is asked for twice, none is asked for out of its order, and what
\* is added of the sensors st comes before the change that silences it.
InOrder(s, st) ==
  /\ \A i, j \in DOMAIN s : s[i] = s[j] => i = j
  /\ \A o \in Object : \A i, j \in DOMAIN s :
       s[i] = Adding(o) /\ s[j] = Removing(o) => i < j
  /\ \A o \in st : \A i \in DOMAIN s :
       s[i] = Adding(o) => \E j \in DOMAIN s : i < j /\ s[j] = Simulating

\* The table has sensors that exist and are kept.
TableKept == \A e \in Range(table) : kind[e.obj] = e.type /\ e.obj \notin late

\* There is one kept sensor of a type, and global leads to it.
GlobalLeads ==
  /\ \A o \in Object : Kept(o) => global[kind[o]] = o
  /\ \A ty \in Type : global[ty] # Null => kind[global[ty]] = ty

\* A kept sensor is in the table or about to get there, not both.
Placed ==
  /\ \A o \in Object : Kept(o) => (InTable(o) <=> ~Pending(Adding(o)))
  /\ \A o \in Object : Pending(Adding(o)) => Kept(o) /\ kind[o] \notin OwnType

\* A removal is about a device that has gone, one for each.
Leaving ==
  /\ \A o \in Object : Pending(Removing(o)) =>
       /\ \E d \in Device : kind[o] = TypeOf[d]
       /\ \A d \in DOMAIN sensor : TypeOf[d] # kind[o]
  /\ \A o, p \in Object :
       Pending(Removing(o)) /\ Pending(Removing(p)) /\ kind[o] = kind[p] => o = p

\* A device has a sensor of its type, and a kept one that is not of the
\* instrument itself belongs to a device or is about to go.
Owned ==
  /\ \A d \in DOMAIN sensor : sensor[d] # Null => kind[sensor[d]] = TypeOf[d]
  /\ \A o \in Object : Kept(o) /\ kind[o] \notin OwnType =>
       (\E d \in DOMAIN sensor : sensor[d] = o) \/ Pending(Removing(o))

FoundLate == \A o \in late : kind[o] \in Probed

BeforeStart == ~running => changes = <<>> /\ late = {} /\ stopped = {}

Announced == InOrder(changes, stopped) /\ (Pending(Simulating) => inSim)

Silenced ==
  ~Pending(Simulating) =>
    \A e \in Range(table) : e.obj \in stopped /\ e.local => e.type \in Essential

Core ==
  /\ Sorted(table) /\ TableKept /\ GlobalLeads /\ Placed /\ Leaving
  /\ Owned /\ FoundLate /\ BeforeStart /\ Announced /\ Silenced

IInv == TypeOK /\ Core

-----------------------------------------------------------------------------
(* The table.                                                              *)

LEMMA EntryTyped ==
  ASSUME NEW o \in Object, NEW ty \in Type
  PROVE  /\ EntryFor(o, ty) \in Entry
         /\ EntryFor(o, ty).obj = o /\ EntryFor(o, ty).type = ty
BY DEF EntryFor, Entry

LEMMA EntryFields ==
  ASSUME NEW e \in Entry
  PROVE  /\ e.type \in Type /\ e.obj \in Object /\ e.local \in BOOLEAN
         /\ Prio[e.type] \in Nat
BY RegistryAssumption DEF Entry

LEMMA PlaceForSound ==
  ASSUME table \in Seq(Entry), NEW ty \in Type
  PROVE  /\ PlaceFor(ty) \in 1..(Len(table) + 1)
         /\ \A i \in 1..(PlaceFor(ty) - 1) : Prio[table[i].type] <= Prio[ty]
         /\ \/ PlaceFor(ty) = Len(table) + 1
            \/ PlaceFor(ty) \in DOMAIN table /\ Prio[ty] < Prio[table[PlaceFor(ty)].type]
<1> DEFINE S == {i \in DOMAIN table : Prio[table[i].type] > Prio[ty]} \cup {Len(table) + 1}
<1>1. Len(table) \in Nat /\ DOMAIN table = 1..Len(table) /\ \A i \in DOMAIN table : table[i] \in Entry
  BY Elements
<1>2. Prio[ty] \in Nat /\ \A i \in DOMAIN table : Prio[table[i].type] \in Nat
  BY <1>1, EntryFields, RegistryAssumption
<1>3. S \in SUBSET Nat /\ S # {}
  BY <1>1
<1>4. PlaceFor(ty) = Min(S)
  BY DEF PlaceFor
<1>5. PlaceFor(ty) \in S /\ \A y \in S : PlaceFor(ty) <= y
  BY <1>3, <1>4, MinOf
<1>6. PlaceFor(ty) \in 1..(Len(table) + 1)
  BY <1>1, <1>5
<1>7. ASSUME NEW i \in 1..(PlaceFor(ty) - 1)
      PROVE  Prio[table[i].type] <= Prio[ty]
  <2>1. i \in DOMAIN table /\ ~(PlaceFor(ty) <= i)
    BY <1>1, <1>6
  <2>2. i \notin S
    BY <1>5, <2>1
  <2>3. ~(Prio[table[i].type] > Prio[ty])
    BY <2>1, <2>2
  <2>4. QED BY <1>2, <2>1, <2>3
<1>8. QED BY <1>2, <1>5, <1>6, <1>7

\* The place of a type in the table is one of it.
LEMMA DisplacedPlace ==
  ASSUME table \in Seq(Entry), NEW ty \in Type, NEW o, Displaced(o, ty) # {}
  PROVE  /\ Min(Places(ty)) \in DOMAIN table /\ table[Min(Places(ty))].type = ty
         /\ Displaced(o, ty) = {table[Min(Places(ty))].obj}
<1>1. Places(ty) # {} /\ Places(ty) \in SUBSET Nat
  <2>1. DOMAIN table \subseteq Nat
    BY Elements
  <2>2. QED BY <2>1 DEF Displaced, Places
<1>2. Min(Places(ty)) \in Places(ty)
  BY <1>1, MinOf
<1> DEFINE m == Min(Places(ty))
<1>3. m \in Places(ty)
  BY <1>2
<1> HIDE DEF m
<1>4. Displaced(o, ty) = {table[i].obj : i \in {j \in Places(ty) : j = m}} \ {o}
  BY DEF Displaced, m
<1>5. {j \in Places(ty) : j = m} = {m}
  BY <1>3
<1>6. Displaced(o, ty) = {table[m].obj}
  BY <1>4, <1>5
<1>7. m \in DOMAIN table /\ table[m].type = ty
  BY <1>3 DEF Places
<1>8. QED BY <1>6, <1>7 DEF m

LEMMA AddedTyped ==
  ASSUME table \in Seq(Entry), Len(table) <= MaxSensors,
         NEW o \in Object, NEW ty \in Type
  PROVE  Added(o, ty) \in Seq(Entry) /\ Len(Added(o, ty)) <= MaxSensors
<1>1. EntryFor(o, ty) \in Entry
  BY EntryTyped
<1>2. Len(table) \in Nat /\ MaxSensors \in Nat
  BY Elements, RegistryAssumption
<1>3. CASE Displaced(o, ty) # {}
  <2>1. PICK m \in DOMAIN table : m = Min(Places(ty))
    BY <1>3, DisplacedPlace
  <2>2. Added(o, ty) = [table EXCEPT ![m] = EntryFor(o, ty)]
    BY <1>3, <2>1 DEF Added
  <2>3. /\ [table EXCEPT ![m] = EntryFor(o, ty)] \in Seq(Entry)
        /\ Len([table EXCEPT ![m] = EntryFor(o, ty)]) = Len(table)
    <3>1. m \in 1..Len(table)
      BY Elements
    <3>2. QED BY <1>1, <3>1, ExceptSeq
  <2>4. QED BY <2>2, <2>3
<1>4. CASE Displaced(o, ty) = {} /\ Len(table) < MaxSensors
  <2>1. PICK p \in 1..(Len(table) + 1) : p = PlaceFor(ty)
    BY PlaceForSound
  <2>2. Added(o, ty) = InsertAt(table, p, EntryFor(o, ty))
    BY <1>4, <2>1 DEF Added
  <2>3. QED BY <1>1, <1>2, <1>4, <2>1, <2>2, Inserted
<1>5. CASE Displaced(o, ty) = {} /\ ~(Len(table) < MaxSensors)
  <2>1. Added(o, ty) = table
    BY <1>5 DEF Added
  <2>2. QED BY <2>1
<1>6. QED BY <1>3, <1>4, <1>5

-----------------------------------------------------------------------------
(* Types.                                                                  *)

TableOK == table \in Seq(Entry) /\ Len(table) <= MaxSensors
QueueOK == changes \in Seq(Change) /\ Len(changes) <= QueueLen
HeapOK == kind \in [Object -> Type \cup {Null}] /\ global \in [Type -> Object \cup {Null}]
DevicesOK ==
  /\ DOMAIN sensor \subseteq Device
  /\ \A d \in DOMAIN sensor : sensor[d] \in Object \cup {Null}

LEMMA TypeParts ==
  TypeOK <=> /\ TableOK /\ QueueOK /\ HeapOK /\ DevicesOK
             /\ running \in BOOLEAN /\ inSim \in BOOLEAN
             /\ late \subseteq Object /\ stopped \subseteq Object
BY Zenon DEF TypeOK, TableOK, QueueOK, HeapOK, DevicesOK

LEMMA TypePartsNext ==
  TypeOK' <=> /\ TableOK' /\ QueueOK' /\ HeapOK' /\ DevicesOK'
              /\ running' \in BOOLEAN /\ inSim' \in BOOLEAN
              /\ late' \subseteq Object /\ stopped' \subseteq Object
BY Zenon DEF TypeOK, TableOK, QueueOK, HeapOK, DevicesOK

LEMMA ChangeTyped ==
  /\ Simulating \in Change
  /\ \A o \in Object : Adding(o) \in Change /\ Removing(o) \in Change
BY DEF Change

LEMMA QueuedTyped ==
  ASSUME QueueOK, NEW c \in Change
  PROVE  Queued(c) \in Seq(Change) /\ Len(Queued(c)) <= QueueLen
<1>1. /\ Append(changes, c) \in Seq(Change) /\ Len(Append(changes, c)) = Len(changes) + 1
      /\ Len(changes) \in Nat /\ QueueLen \in Nat
  BY Appended, Elements, RegistryAssumption DEF QueueOK
<1>2. QED BY <1>1 DEF Queued, QueueOK

LEMMA FreeIsFree ==
  ASSUME Free # {}
  PROVE  Min(Free) \in Object /\ kind[Min(Free)] = Null
<1>1. Free \in SUBSET Nat
  BY RegistryAssumption DEF Free, Object
<1>2. Min(Free) \in Free
  BY <1>1, MinOf
<1>3. QED BY <1>2 DEF Free

\* A sensor is created and found again in an address that is typed.
LEMMA CreatedTyped ==
  ASSUME HeapOK, NEW o \in Object, NEW ty \in Type
  PROVE  /\ Created(o, ty) \in [Object -> Type \cup {Null}]
         /\ [global EXCEPT ![ty] = o] \in [Type -> Object \cup {Null}]
BY DEF HeapOK, Created

LEMMA FreedTyped ==
  ASSUME NEW k \in [Object -> Type \cup {Null}], NEW g \in [Type -> Object \cup {Null}],
         NEW objs
  PROVE  /\ Freed(k, objs) \in [Object -> Type \cup {Null}]
         /\ Unset(g, k, objs) \in [Type -> Object \cup {Null}]
BY DEF Freed, Unset

LEMMA AddSensorTyped ==
  ASSUME TableOK, NEW o \in Object, NEW ty \in Type,
         NEW k \in [Object -> Type \cup {Null}], NEW g \in [Type -> Object \cup {Null}],
         AddSensor(o, ty, k, g)
  PROVE  TableOK' /\ HeapOK'
<1>1. TableOK'
  BY AddedTyped DEF TableOK, AddSensor
<1>2. HeapOK'
  BY FreedTyped DEF HeapOK, AddSensor
<1>3. QED BY <1>1, <1>2

\* The place removeSensor takes out.
LEMMA RemovalPlace ==
  ASSUME table \in Seq(Entry), NEW o, Registered(o)
  PROVE  /\ Min({i \in DOMAIN table : table[i].obj = o}) \in 1..Len(table)
         /\ table[Min({i \in DOMAIN table : table[i].obj = o})].obj = o
<1> DEFINE S == {i \in DOMAIN table : table[i].obj = o}
<1>1. DOMAIN table \subseteq Nat /\ DOMAIN table = 1..Len(table)
  BY Elements
<1>2. S \in SUBSET Nat /\ S # {}
  BY <1>1 DEF Registered
<1>3. Min(S) \in S
  BY <1>2, MinOf
<1>4. QED BY <1>1, <1>3

LEMMA RemoveSensorTyped ==
  ASSUME TableOK, HeapOK, NEW o, RemoveSensor(o)
  PROVE  TableOK' /\ HeapOK'
<1>1. CASE ~Registered(o)
  BY <1>1 DEF RemoveSensor, heapVars, TableOK, HeapOK
<1>2. CASE Registered(o)
  <2>1. PICK m \in 1..Len(table) : m = Min({i \in DOMAIN table : table[i].obj = o})
    BY <1>2, RemovalPlace DEF TableOK
  <2>2. table' = RemoveAt(table, m)
    BY <1>2, <2>1 DEF RemoveSensor
  <2>3. RemoveAt(table, m) \in Seq(Entry) /\ Len(RemoveAt(table, m)) = Len(table) - 1
    BY <2>1, Removed DEF TableOK
  <2>4. Len(table) \in Nat /\ MaxSensors \in Nat
    BY Elements, RegistryAssumption DEF TableOK
  <2>5. TableOK'
    BY <2>2, <2>3, <2>4 DEF TableOK
  <2>6. kind' = Freed(kind, {o}) /\ global' = Unset(global, kind, {o})
    BY <1>2 DEF RemoveSensor
  <2>7. HeapOK'
    BY <2>6, FreedTyped DEF HeapOK
  <2>8. QED BY <2>5, <2>7
<1>3. QED BY <1>1, <1>2

LEMMA RegisterTyped ==
  ASSUME TableOK, QueueOK, NEW o \in Object, NEW ty \in Type,
         NEW k \in [Object -> Type \cup {Null}], NEW g \in [Type -> Object \cup {Null}],
         RegisterSensor(o, ty, k, g)
  PROVE  TableOK' /\ QueueOK' /\ HeapOK'
<1>1. CASE running
  <2>1. changes' = changes \/ changes' = Queued(Adding(o))
    BY <1>1 DEF RegisterSensor
  <2>2. QueueOK'
    BY <2>1, QueuedTyped, ChangeTyped DEF QueueOK
  <2>3. TableOK' /\ HeapOK'
    BY <1>1 DEF RegisterSensor, TableOK, HeapOK
  <2>4. QED BY <2>2, <2>3
<1>2. CASE ~running
  <2>1. AddSensor(o, ty, k, g) /\ UNCHANGED changes
    BY <1>2 DEF RegisterSensor
  <2>2. QED BY <2>1, AddSensorTyped DEF QueueOK
<1>3. QED BY <1>1, <1>2

LEMMA DeregisterTyped ==
  ASSUME TableOK, QueueOK, HeapOK, NEW o \in Object, DeregisterSensor(o)
  PROVE  TableOK' /\ QueueOK' /\ HeapOK'
<1>1. CASE running
  <2>1. changes' = Queued(Removing(o)) /\ UNCHANGED <<table, heapVars>>
    BY <1>1 DEF DeregisterSensor
  <2>2. QED BY <2>1, QueuedTyped, ChangeTyped DEF QueueOK, TableOK, HeapOK, heapVars
<1>2. CASE ~running
  <2>1. RemoveSensor(o) /\ UNCHANGED changes
    BY <1>2 DEF DeregisterSensor
  <2>2. QED BY <2>1, RemoveSensorTyped DEF QueueOK
<1>3. QED BY <1>1, <1>2

LEMMA SimulatedTyped ==
  ASSUME table \in Seq(Entry)
  PROVE  /\ Simulated \in Seq(Entry) /\ Len(Simulated) = Len(table)
         /\ \A i \in DOMAIN table :
              /\ Simulated[i].obj = table[i].obj /\ Simulated[i].type = table[i].type
              /\ Simulated[i].local => table[i].local /\ table[i].type \in Essential
<1>1. Len(table) \in Nat /\ DOMAIN table = 1..Len(table) /\ \A i \in DOMAIN table : table[i] \in Entry
  BY Elements
<1>2. \A i \in DOMAIN table :
         Simulated[i] = [table[i] EXCEPT !.local = @ /\ table[i].type \in Essential]
  BY DEF Simulated
<1>3. \A i \in DOMAIN table :
        /\ Simulated[i] \in Entry
        /\ Simulated[i].obj = table[i].obj /\ Simulated[i].type = table[i].type
        /\ Simulated[i].local = (table[i].local /\ table[i].type \in Essential)
  BY <1>1, <1>2 DEF Entry
<1>4. Simulated \in [1..Len(table) -> Entry]
  BY <1>1, <1>3 DEF Simulated
<1>5. Simulated \in Seq(Entry) /\ Len(Simulated) = Len(table)
  BY <1>1, <1>4, SeqDef
<1>6. QED BY <1>3, <1>5

\* The kinds of change there are.
LEMMA ChangeCases ==
  ASSUME NEW c \in Change
  PROVE  \/ \E o \in Object : c = Adding(o) /\ c.op = "add" /\ c.obj = o
         \/ \E o \in Object : c = Removing(o) /\ c.op = "remove" /\ c.obj = o
         \/ c = Simulating /\ c.op = "sim"
BY DEF Change, Adding, Removing, Simulating

LEMMA ChangesApart ==
  /\ \A o, p : Adding(o) # Removing(p)
  /\ \A o : Adding(o) # Simulating /\ Removing(o) # Simulating
  /\ \A o, p : (Adding(o) = Adding(p) => o = p) /\ (Removing(o) = Removing(p) => o = p)
<1>1. /\ \A o : Adding(o).op = "add" /\ Adding(o).obj = o
      /\ \A o : Removing(o).op = "remove" /\ Removing(o).obj = o
      /\ Simulating.op = "sim"
  BY DEF Adding, Removing, Simulating
<1>2. "add" # "remove" /\ "add" # "sim" /\ "remove" # "sim"
  OBVIOUS
<1>3. QED BY <1>1, <1>2

\* What applyChange does, one kind of change at a time.
LEMMA Applied ==
  ASSUME changes \in Seq(Change), ApplyChange
  PROVE  \/ \E o \in Object : \E ty \in IdOf(o, kind) :
              Head(changes) = Adding(o) /\ AddSensor(o, ty, kind, global)
         \/ \E o \in Object : Head(changes) = Removing(o) /\ RemoveSensor(o)
         \/ Head(changes) = Simulating /\ table' = Simulated /\ UNCHANGED heapVars
<1>1. changes # <<>> /\ Head(changes) \in Change
  BY HeadTailProperties DEF ApplyChange
<1>2. PICK c \in Change : c = Head(changes)
  BY <1>1
<1>4. CASE \E o \in Object : c = Adding(o) /\ c.op = "add" /\ c.obj = o
  BY <1>2, <1>4 DEF ApplyChange
<1>5. CASE \E o \in Object : c = Removing(o) /\ c.op = "remove" /\ c.obj = o
  BY <1>2, <1>5 DEF ApplyChange
<1>6. CASE c = Simulating /\ c.op = "sim"
  BY <1>2, <1>6 DEF ApplyChange
<1>7. QED BY <1>4, <1>5, <1>6, ChangeCases

LEMMA TypeInit == Init => TypeOK
<1> SUFFICES ASSUME Init PROVE TypeOK
  OBVIOUS
<1>1. TableOK
  BY RegistryAssumption DEF Init, TableOK
<1>2. QueueOK
  BY RegistryAssumption DEF Init, QueueOK
<1>3. HeapOK
  BY DEF Init, HeapOK
<1>4. DevicesOK
  BY DEF Init, DevicesOK
<1>5. QED BY <1>1, <1>2, <1>3, <1>4, TypeParts DEF Init

LEMMA TypeStep ==
  ASSUME TypeOK, [Next]_vars
  PROVE  TypeOK'
<1> USE DEF historyVars, registryVars, heapVars
<1>1. /\ TableOK /\ QueueOK /\ HeapOK /\ DevicesOK
      /\ running \in BOOLEAN /\ inSim \in BOOLEAN
      /\ late \subseteq Object /\ stopped \subseteq Object
  BY TypeParts
<1>2. CASE UNCHANGED vars
  BY <1>1, <1>2, TypePartsNext DEF vars, TableOK, QueueOK, HeapOK, DevicesOK
<1>3. ASSUME NEW ty \in OwnType, RegisterOwn(ty)
      PROVE  TypeOK'
  <2>1. PICK o \in Object : o = Min(Free)
    BY <1>3, FreeIsFree DEF RegisterOwn
  <2>2. ty \in Type
    BY RegistryAssumption
  <2>3. RegisterSensor(o, ty, Created(o, ty), [global EXCEPT ![ty] = o])
    BY <1>3, <2>1 DEF RegisterOwn
  <2>4. TableOK' /\ QueueOK' /\ HeapOK'
    BY <1>1, <2>2, <2>3, CreatedTyped, RegisterTyped
  <2>5. QED BY <1>1, <1>3, <2>4, TypePartsNext DEF RegisterOwn, DevicesOK
<1>4. ASSUME NEW d \in Device, AddDevice(d)
      PROVE  TypeOK'
  <2>1. PICK o \in SensorFor(TypeOf[d]) :
          /\ sensor' = WithSensor(d, o)
          /\ RegisterSensor(o, TypeOf[d], Created(o, TypeOf[d]), [global EXCEPT ![TypeOf[d]] = o])
          /\ stopped' = IF kind[o] = Null THEN stopped \ {o} ELSE stopped
    BY <1>4 DEF AddDevice
  <2>2. TypeOf[d] \in Type
    BY RegistryAssumption
  <2>3. o \in Object
    BY <1>1, <2>1, <2>2 DEF SensorFor, Free, HeapOK
  <2>4. TableOK' /\ QueueOK' /\ HeapOK'
    BY <1>1, <2>1, <2>2, <2>3, CreatedTyped, RegisterTyped
  <2>5. DevicesOK'
    BY <1>1, <2>1, <2>3 DEF DevicesOK, WithSensor
  <2>6. stopped' \subseteq Object
    BY <1>1, <2>1
  <2>7. UNCHANGED <<running, inSim, late>>
    BY <1>4 DEF AddDevice
  <2>8. QED BY <1>1, <2>4, <2>5, <2>6, <2>7, TypePartsNext
<1>5. ASSUME NEW d \in Device, AddWithoutSensor(d)
      PROVE  TypeOK'
  <2>1. DevicesOK'
    BY <1>1, <1>5 DEF AddWithoutSensor, DevicesOK, WithSensor
  <2>2. QED BY <1>1, <1>5, <2>1, TypePartsNext DEF AddWithoutSensor, TableOK, QueueOK, HeapOK
<1>6. ASSUME NEW d \in Device, RemoveDevice(d)
      PROVE  TypeOK'
  <2>1. DevicesOK'
    BY <1>1, <1>6 DEF RemoveDevice, DevicesOK
  <2>2. TableOK' /\ QueueOK' /\ HeapOK'
    <3>1. CASE sensor[d] # Null
      <4>1. sensor[d] \in Object /\ DeregisterSensor(sensor[d])
        BY <1>1, <1>6, <3>1 DEF RemoveDevice, DevicesOK
      <4>2. QED BY <1>1, <4>1, DeregisterTyped
    <3>2. CASE sensor[d] = Null
      BY <1>1, <1>6, <3>2 DEF RemoveDevice, TableOK, QueueOK, HeapOK
    <3>3. QED BY <3>1, <3>2
  <2>3. QED BY <1>1, <1>6, <2>1, <2>2, TypePartsNext DEF RemoveDevice
<1>7. ASSUME NEW d \in Device, ProbeLate(d)
      PROVE  TypeOK'
  <2>1. PICK o \in Object : o = Min(Free)
    BY <1>7, FreeIsFree DEF ProbeLate
  <2>2. /\ sensor' = [sensor EXCEPT ![d] = o] /\ kind' = Created(o, TypeOf[d])
        /\ global' = [global EXCEPT ![TypeOf[d]] = o]
        /\ late' = late \cup {o} /\ stopped' = stopped \ {o}
        /\ UNCHANGED <<table, changes, running, inSim>>
    BY <1>7, <2>1 DEF ProbeLate
  <2>3. TypeOf[d] \in Type
    BY RegistryAssumption
  <2>4. HeapOK'
    BY <1>1, <2>2, <2>3, CreatedTyped DEF HeapOK
  <2>5. DevicesOK'
    BY <1>1, <2>2 DEF DevicesOK
  <2>6. late' \subseteq Object /\ stopped' \subseteq Object
    BY <1>1, <2>2
  <2>7. TableOK' /\ QueueOK'
    BY <1>1, <2>2 DEF TableOK, QueueOK
  <2>8. QED BY <1>1, <2>2, <2>4, <2>5, <2>6, <2>7, TypePartsNext
<1>8. CASE Start
  BY <1>1, <1>8, TypePartsNext DEF Start, TableOK, QueueOK, HeapOK, DevicesOK
<1>9. CASE EnterSim
  <2>1. QueueOK'
    BY <1>1, <1>9, QueuedTyped, ChangeTyped DEF EnterSim, QueueOK
  <2>2. stopped' \subseteq Object
    BY <1>9 DEF EnterSim
  <2>3. QED BY <1>1, <1>9, <2>1, <2>2, TypePartsNext DEF EnterSim, TableOK, HeapOK, DevicesOK
<1>10. CASE ApplyChange
  <2>1. QueueOK'
    <3>1. changes # <<>> /\ changes' = Tail(changes)
      BY <1>10 DEF ApplyChange
    <3>2. Tail(changes) \in Seq(Change) /\ Len(Tail(changes)) = Len(changes) - 1
      BY <1>1, <3>1, HeadTailProperties DEF QueueOK
    <3>3. Len(changes) \in Nat /\ QueueLen \in Nat
      BY <1>1, Elements, RegistryAssumption DEF QueueOK
    <3>4. QED BY <1>1, <3>1, <3>2, <3>3 DEF QueueOK
  <2>2. TableOK' /\ HeapOK'
    <3>1. ASSUME NEW o \in Object, NEW ty \in IdOf(o, kind), AddSensor(o, ty, kind, global)
          PROVE  TableOK' /\ HeapOK'
      <4>1. ty \in Type
        BY <1>1 DEF IdOf, HeapOK
      <4>2. QED BY <1>1, <3>1, <4>1, AddSensorTyped DEF HeapOK
    <3>2. ASSUME NEW o \in Object, RemoveSensor(o)
          PROVE  TableOK' /\ HeapOK'
      BY <1>1, <3>2, RemoveSensorTyped
    <3>3. ASSUME table' = Simulated, UNCHANGED heapVars
          PROVE  TableOK' /\ HeapOK'
      BY <1>1, <3>3, SimulatedTyped DEF TableOK, HeapOK
    <3>4. QED BY <1>1, <1>10, <3>1, <3>2, <3>3, Applied DEF QueueOK
  <2>3. QED BY <1>1, <1>10, <2>1, <2>2, TypePartsNext DEF ApplyChange, DevicesOK
<1>11. QED
  BY <1>2, <1>3, <1>4, <1>5, <1>6, <1>7, <1>8, <1>9, <1>10 DEF Next

\* Table and queue keep within their arrays and hold what they should, and
\* every object is of a type, for any devices and sizes (SensorMgr.cpp's
\* all_sensors and sensChangeQueue).
THEOREM TypeCorrect == Spec => []TypeOK
<1>1. Init => TypeOK
  BY TypeInit
<1>2. TypeOK /\ [Next]_vars => TypeOK'
  BY TypeStep
<1>3. QED BY <1>1, <1>2, PTL DEF Spec

-----------------------------------------------------------------------------
(* The order of the table.                                                 *)

LEMMA RegisteredInTable ==
  ASSUME table \in Seq(Entry), NEW o
  PROVE  Registered(o) <=> InTable(o)
<1>1. /\ \A i \in DOMAIN table : table[i] \in Range(table)
      /\ \A e \in Range(table) : \E i \in DOMAIN table : e = table[i]
  BY Elements
<1>2. QED BY <1>1 DEF Registered, InTable

\* A new entry between those that may precede and those that may follow it.
LEMMA InsertSorted ==
  ASSUME NEW t \in Seq(Entry), Sorted(t), NEW e \in Entry, NEW p \in 1..(Len(t) + 1),
         \A i \in DOMAIN t : t[i].type # e.type,
         \A i \in 1..(p - 1) : Prio[t[i].type] <= Prio[e.type],
         \A i \in p..Len(t) : Prio[e.type] <= Prio[t[i].type]
  PROVE  Sorted(InsertAt(t, p, e)) /\ Range(InsertAt(t, p, e)) = Range(t) \cup {e}
<1> DEFINE u == InsertAt(t, p, e)
<1>1. /\ u \in Seq(Entry) /\ Len(u) = Len(t) + 1
      /\ \A j \in 1..(p - 1) : u[j] = t[j]
      /\ u[p] = e
      /\ \A j \in (p + 1)..(Len(t) + 1) : u[j] = t[j - 1]
  BY Inserted
<1> HIDE DEF u
<1>2. /\ Len(t) \in Nat /\ DOMAIN t = 1..Len(t) /\ DOMAIN u = 1..(Len(t) + 1)
      /\ \A i \in DOMAIN t : t[i] \in Entry
  BY <1>1, Elements
<1>3. Sorted(u)
  <2> SUFFICES ASSUME NEW i \in DOMAIN u, NEW j \in DOMAIN u, i < j
               PROVE  Prio[u[i].type] <= Prio[u[j].type] /\ u[i].type # u[j].type
    BY DEF Sorted
  <2> DEFINE Before(x, y) == Prio[x.type] <= Prio[y.type] /\ x.type # y.type
  <2>1. \A k, l \in DOMAIN t : k < l => Before(t[k], t[l])
    BY DEF Sorted
  <2>2. \A k \in 1..(p - 1) : k \in DOMAIN t /\ Before(t[k], e)
    BY <1>2
  <2>3. \A k \in p..Len(t) : k \in DOMAIN t /\ Before(e, t[k])
    BY <1>2
  <2> HIDE DEF Before
  <2>4. CASE j < p
    <3>1. u[i] = t[i] /\ u[j] = t[j] /\ i \in DOMAIN t /\ j \in DOMAIN t
      BY <1>1, <1>2, <2>4
    <3>2. QED BY <2>1, <3>1 DEF Before
  <2>5. CASE j = p
    <3>1. u[i] = t[i] /\ u[j] = e /\ i \in 1..(p - 1)
      BY <1>1, <1>2, <2>5
    <3>2. QED BY <2>2, <3>1 DEF Before
  <2>6. CASE j > p /\ i < p
    <3>1. /\ u[i] = t[i] /\ u[j] = t[j - 1] /\ i \in DOMAIN t /\ j - 1 \in DOMAIN t
          /\ i < j - 1
      BY <1>1, <1>2, <2>6
    <3>2. QED BY <2>1, <3>1 DEF Before
  <2>7. CASE i = p
    <3>1. u[i] = e /\ u[j] = t[j - 1] /\ j - 1 \in p..Len(t)
      BY <1>1, <1>2, <2>7
    <3>2. QED BY <2>3, <3>1 DEF Before
  <2>8. CASE i > p
    <3>1. /\ u[i] = t[i - 1] /\ u[j] = t[j - 1] /\ i - 1 \in DOMAIN t /\ j - 1 \in DOMAIN t
          /\ i - 1 < j - 1
      BY <1>1, <1>2, <2>8
    <3>2. QED BY <2>1, <3>1 DEF Before
  <2>9. QED BY <1>2, <2>4, <2>5, <2>6, <2>7, <2>8
<1>4. \A x \in Range(u) : x \in Range(t) \cup {e}
  <2> SUFFICES ASSUME NEW j \in DOMAIN u PROVE u[j] \in Range(t) \cup {e}
    <3>1. \A x \in Range(u) : \E j \in DOMAIN u : x = u[j]
      BY <1>1, Elements
    <3>2. QED BY <3>1
  <2>1. CASE j < p
    <3>1. u[j] = t[j] /\ j \in DOMAIN t
      BY <1>1, <1>2, <2>1
    <3>2. QED BY <3>1, Elements
  <2>2. CASE j > p
    <3>1. u[j] = t[j - 1] /\ j - 1 \in DOMAIN t
      BY <1>1, <1>2, <2>2
    <3>2. QED BY <3>1, Elements
  <2>3. QED BY <1>1, <1>2, <2>1, <2>2
<1>5. e \in Range(u)
  <2>1. p \in DOMAIN u
    BY <1>2
  <2>2. QED BY <1>1, <2>1, Elements
<1>6. \A x \in Range(t) : x \in Range(u)
  <2> SUFFICES ASSUME NEW k \in DOMAIN t PROVE t[k] \in Range(u)
    BY Elements
  <2>1. CASE k < p
    <3>1. u[k] = t[k] /\ k \in DOMAIN u
      BY <1>1, <1>2, <2>1
    <3>2. QED BY <1>1, <3>1, Elements
  <2>2. CASE k >= p
    <3>1. k + 1 \in (p + 1)..(Len(t) + 1) /\ (k + 1) - 1 = k /\ k + 1 \in DOMAIN u
      BY <1>2, <2>2
    <3>2. u[k + 1] = t[k]
      BY <1>1, <3>1
    <3>3. QED BY <1>1, <3>1, <3>2, Elements
  <2>3. QED BY <1>2, <2>1, <2>2
<1>7. QED BY <1>3, <1>4, <1>5, <1>6 DEF u

LEMMA RemoveSorted ==
  ASSUME NEW t \in Seq(Entry), Sorted(t), NEW p \in 1..Len(t)
  PROVE  /\ Sorted(RemoveAt(t, p))
         /\ Range(RemoveAt(t, p)) = {e \in Range(t) : e.type # t[p].type}
<1> DEFINE u == RemoveAt(t, p)
<1>1. /\ u \in Seq(Entry) /\ Len(u) = Len(t) - 1
      /\ \A j \in 1..(p - 1) : u[j] = t[j]
      /\ \A j \in p..(Len(t) - 1) : u[j] = t[j + 1]
  BY Removed
<1> HIDE DEF u
<1>2. /\ Len(t) \in Nat /\ DOMAIN t = 1..Len(t) /\ DOMAIN u = 1..(Len(t) - 1)
  BY <1>1, Elements
<1> DEFINE From(j) == IF j < p THEN j ELSE j + 1
<1>3. \A j \in DOMAIN u : From(j) \in DOMAIN t /\ From(j) # p /\ u[j] = t[From(j)]
  BY <1>1, <1>2
<1>4. \A i, j \in DOMAIN u : i < j => From(i) < From(j)
  BY <1>2
<1>5. \A k \in DOMAIN t : k # p => \E j \in DOMAIN u : From(j) = k
  <2> SUFFICES ASSUME NEW k \in DOMAIN t, k # p PROVE \E j \in DOMAIN u : From(j) = k
    OBVIOUS
  <2>1. CASE k < p
    <3>1. k \in DOMAIN u /\ From(k) = k
      BY <1>2, <2>1
    <3>2. QED BY <3>1
  <2>2. CASE k > p
    <3>1. k - 1 \in DOMAIN u /\ From(k - 1) = k
      BY <1>2, <2>2
    <3>2. QED BY <3>1
  <2>3. QED BY <1>2, <2>1, <2>2
<1> HIDE DEF From
<1>6. \A k \in DOMAIN t : k # p => t[k].type # t[p].type
  <2> SUFFICES ASSUME NEW k \in DOMAIN t, k # p PROVE t[k].type # t[p].type
    OBVIOUS
  <2>1. k < p \/ p < k
    BY <1>2
  <2>2. QED BY <1>2, <2>1 DEF Sorted
<1>7. Sorted(u)
  BY <1>3, <1>4 DEF Sorted
<1>8. Range(u) = {e \in Range(t) : e.type # t[p].type}
  <2>1. /\ \A k \in DOMAIN t : t[k] \in Range(t)
        /\ \A e \in Range(t) : \E k \in DOMAIN t : e = t[k]
    BY Elements
  <2>2. /\ \A j \in DOMAIN u : u[j] \in Range(u)
        /\ \A e \in Range(u) : \E j \in DOMAIN u : e = u[j]
    BY <1>1, Elements
  <2>3. \A e \in Range(u) : e \in Range(t) /\ e.type # t[p].type
    BY <1>3, <1>6, <2>1, <2>2
  <2>4. \A e \in Range(t) : e.type # t[p].type => e \in Range(u)
    BY <1>3, <1>5, <2>1, <2>2
  <2>5. QED BY <2>3, <2>4
<1>9. QED BY <1>7, <1>8 DEF u

\* A table sorted by types has room for one more type.
LEMMA TableFits ==
  ASSUME EnoughRoom, NEW t \in Seq(Entry), Sorted(t), NEW ty \in Type,
         \A i \in DOMAIN t : t[i].type # ty
  PROVE  Len(t) < MaxSensors
<1>1. /\ Len(t) \in Nat /\ DOMAIN t = 1..Len(t)
      /\ \A i \in DOMAIN t : t[i].type \in Type \ {ty}
  BY Elements, EntryFields
<1> DEFINE f == [i \in 1..Len(t) |-> t[i].type]
<1>2. \A i, j \in 1..Len(t) : f[i] = f[j] => i = j
  <2> SUFFICES ASSUME NEW i \in 1..Len(t), NEW j \in 1..Len(t), i < j
               PROVE  f[i] # f[j]
    <3>1. \A i, j \in 1..Len(t) : i = j \/ i < j \/ j < i
      BY <1>1
    <3>2. QED BY <3>1
  <2>1. QED BY <1>1 DEF Sorted
<1>3. f \in [1..Len(t) -> Type \ {ty}]
  BY <1>1
<1> HIDE DEF f
<1>4. f \in Injection(1..Len(t), Type \ {ty})
  BY <1>2, <1>3 DEF Injection, IsInjective
<1>5. /\ IsFiniteSet(Type) /\ IsFiniteSet(Type \ {ty})
      /\ Cardinality(Type \ {ty}) = Cardinality(Type) - 1
      /\ Cardinality(Type) \in Nat
  BY FS_RemoveElement, FS_CardinalityType DEF EnoughRoom
<1>6. Cardinality(1..Len(t)) <= Cardinality(Type \ {ty})
  BY <1>4, <1>5, FS_Injection
<1>7. Cardinality(1..Len(t)) = Len(t)
  BY <1>1, IntervalSize
<1>8. QED BY <1>1, <1>5, <1>6, <1>7, RegistryAssumption DEF EnoughRoom

\* addSensor of the first sensor of a type, in a heap that is typed.
LEMMA AddSensorNew ==
  ASSUME EnoughRoom, TableOK, Sorted(table), NEW o \in Object, NEW ty \in Type,
         \A e \in Range(table) : e.type # ty,
         NEW k \in [Object -> Type \cup {Null}], NEW g \in [Type -> Object \cup {Null}],
         AddSensor(o, ty, k, g)
  PROVE  /\ Sorted(table)' /\ Range(table') = Range(table) \cup {EntryFor(o, ty)}
         /\ kind' = k /\ global' = g
<1>1. table \in Seq(Entry) /\ \A i \in DOMAIN table : table[i] \in Entry /\ table[i].type # ty
  BY Elements DEF TableOK
<1>2. Displaced(o, ty) = {}
  BY <1>1, DisplacedPlace
<1>3. Len(table) < MaxSensors
  BY <1>1, TableFits
<1>4. PICK p \in 1..(Len(table) + 1) : p = PlaceFor(ty)
  BY <1>1, PlaceForSound
<1>5. table' = InsertAt(table, p, EntryFor(o, ty))
  BY <1>2, <1>3, <1>4 DEF AddSensor, Added
<1>6. \A i \in 1..(p - 1) : Prio[table[i].type] <= Prio[ty]
  BY <1>1, <1>4, PlaceForSound
<1>7. \A i \in p..Len(table) : Prio[ty] <= Prio[table[i].type]
  <2> SUFFICES ASSUME NEW i \in p..Len(table) PROVE Prio[ty] <= Prio[table[i].type]
    OBVIOUS
  <2>1. Len(table) \in Nat /\ DOMAIN table = 1..Len(table)
    BY <1>1, Elements
  <2>2. p \in DOMAIN table /\ i \in DOMAIN table /\ (i = p \/ p < i)
    BY <2>1
  <2>3. Prio[ty] \in Nat /\ Prio[table[p].type] \in Nat /\ Prio[table[i].type] \in Nat
    BY <1>1, <2>2, EntryFields, RegistryAssumption
  <2>4. p # Len(table) + 1
    BY <2>1, <2>2
  <2>5. Prio[ty] < Prio[table[p].type]
    BY <1>1, <1>4, <2>4, PlaceForSound
  <2>6. i = p \/ Prio[table[p].type] <= Prio[table[i].type]
    BY <2>2 DEF Sorted
  <2>7. QED BY <2>3, <2>5, <2>6
<1>8. EntryFor(o, ty) \in Entry /\ EntryFor(o, ty).type = ty
  BY EntryTyped
<1>9. /\ Sorted(InsertAt(table, p, EntryFor(o, ty)))
      /\ Range(InsertAt(table, p, EntryFor(o, ty))) = Range(table) \cup {EntryFor(o, ty)}
  BY <1>1, <1>6, <1>7, <1>8, InsertSorted
<1>10. Sorted(table')
  BY <1>5, <1>9
<1>11. Sorted(table)'
  BY <1>10 DEF Sorted
<1>12. kind' = k /\ global' = g
  BY <1>2 DEF AddSensor, Freed, Unset
<1>13. QED BY <1>5, <1>9, <1>11, <1>12

\* removeSensor of a sensor in the table.
LEMMA RemoveSensorKept ==
  ASSUME TableOK, HeapOK, Sorted(table), TableKept,
         NEW o \in Object, InTable(o), RemoveSensor(o)
  PROVE  /\ Sorted(table)' /\ Range(table') = {e \in Range(table) : e.obj # o}
         /\ kind[o] \in Type
         /\ kind' = [kind EXCEPT ![o] = Null]
         /\ global' = [global EXCEPT ![kind[o]] = Null]
<1>1. table \in Seq(Entry) /\ Registered(o)
  BY RegisteredInTable DEF TableOK
<1>2. PICK m \in 1..Len(table) :
        m = Min({i \in DOMAIN table : table[i].obj = o}) /\ table[m].obj = o
  BY <1>1, RemovalPlace
<1>3. /\ table' = RemoveAt(table, m)
      /\ kind' = Freed(kind, {o}) /\ global' = Unset(global, kind, {o})
  BY <1>1, <1>2 DEF RemoveSensor
<1>4. Sorted(RemoveAt(table, m)) /\ Range(RemoveAt(table, m)) = {e \in Range(table) : e.type # table[m].type}
  BY <1>1, RemoveSorted
<1>5. /\ m \in DOMAIN table /\ table[m] \in Range(table) /\ table[m] \in Entry
      /\ \A e \in Range(table) : \E i \in DOMAIN table : e = table[i]
  BY <1>1, Elements
<1>6. kind[o] = table[m].type /\ kind[o] \in Type
  BY <1>2, <1>5, EntryFields DEF TableKept
<1>7. \A e \in Range(table) : e.type = table[m].type <=> e.obj = o
  <2>1. \A e \in Range(table) : e.obj = o => e.type = table[m].type
    BY <1>6 DEF TableKept
  <2>2. ASSUME NEW i \in DOMAIN table, table[i].type = table[m].type
        PROVE  i = m
    <3>1. i = m \/ i < m \/ m < i
      BY <1>1, <1>5, Elements
    <3>2. QED BY <1>5, <2>2, <3>1 DEF Sorted
  <2>3. QED BY <1>2, <1>5, <2>1, <2>2
<1>8. Sorted(table)'
  <2>1. Sorted(table')
    BY <1>3, <1>4
  <2>2. QED BY <2>1 DEF Sorted
<1>9. kind' = [kind EXCEPT ![o] = Null] /\ global' = [global EXCEPT ![kind[o]] = Null]
  BY <1>3, <1>6 DEF HeapOK, Freed, Unset
<1>10. QED BY <1>3, <1>4, <1>6, <1>7, <1>8, <1>9

LEMMA SimulatedSorted ==
  ASSUME TableOK, Sorted(table)
  PROVE  /\ Sorted(Simulated)
         /\ \A e \in Range(Simulated) :
              /\ \E f \in Range(table) : f.obj = e.obj /\ f.type = e.type
              /\ e.local => e.type \in Essential
         /\ \A f \in Range(table) : \E e \in Range(Simulated) : f.obj = e.obj
<1>1. /\ table \in Seq(Entry) /\ DOMAIN table = 1..Len(table)
      /\ \A i \in DOMAIN table : table[i] \in Range(table)
      /\ \A e \in Range(table) : \E i \in DOMAIN table : e = table[i]
  BY Elements DEF TableOK
<1>2. /\ Simulated \in Seq(Entry) /\ Len(Simulated) = Len(table)
      /\ \A i \in DOMAIN table :
           /\ Simulated[i].obj = table[i].obj /\ Simulated[i].type = table[i].type
           /\ Simulated[i].local => table[i].type \in Essential
  BY <1>1, SimulatedTyped
<1>3. PICK s \in Seq(Entry) : s = Simulated
  BY <1>2
<1>4. /\ DOMAIN s = DOMAIN table
      /\ \A i \in DOMAIN s : s[i] \in Range(s)
      /\ \A e \in Range(s) : \E i \in DOMAIN s : e = s[i]
  BY <1>1, <1>2, <1>3, Elements
<1>5. \A i \in DOMAIN table :
        /\ s[i].obj = table[i].obj /\ s[i].type = table[i].type
        /\ s[i].local => table[i].type \in Essential
  BY <1>2, <1>3
<1>6. Sorted(s)
  BY <1>4, <1>5 DEF Sorted
<1>7. \A e \in Range(s) :
        /\ \E f \in Range(table) : f.obj = e.obj /\ f.type = e.type
        /\ e.local => e.type \in Essential
  BY <1>1, <1>4, <1>5
<1>8. \A f \in Range(table) : \E e \in Range(s) : f.obj = e.obj
  BY <1>1, <1>4, <1>5
<1>9. QED BY <1>3, <1>6, <1>7, <1>8

-----------------------------------------------------------------------------
(* The order of the queue.                                                 *)

LEMMA FewerStopped ==
  ASSUME NEW s, NEW st, NEW new \in SUBSET st, InOrder(s, st)
  PROVE  InOrder(s, new)
BY DEF InOrder

\* A new change at the end of the queue.
LEMMA AppendInOrder ==
  ASSUME NEW s \in Seq(Change), NEW c \in Change, c \notin Range(s),
         NEW st, NEW new, InOrder(s, st),
         c # Simulating => new \subseteq st,
         \A o \in Object : c = Adding(o) => Removing(o) \notin Range(s) /\ o \notin new
  PROVE  InOrder(Append(s, c), new)
<1> DEFINE n == Len(s) + 1
<1>1. PICK t \in Seq(Change) : t = Append(s, c)
  BY Appended
<1>2. /\ Len(s) \in Nat /\ DOMAIN s = 1..Len(s) /\ DOMAIN t = 1..n /\ n \in DOMAIN t
      /\ \A i \in DOMAIN s : t[i] = s[i] /\ s[i] \in Range(s) /\ i < n /\ i \in DOMAIN t
      /\ t[n] = c
      /\ \A i \in DOMAIN t : i \in DOMAIN s \/ i = n
  <2>1. Len(t) = Len(s) + 1 /\ t[n] = c /\ \A i \in 1..Len(s) : t[i] = s[i]
    BY <1>1, Appended
  <2>2. /\ Len(s) \in Nat /\ DOMAIN s = 1..Len(s) /\ DOMAIN t = 1..Len(t)
        /\ \A i \in DOMAIN s : s[i] \in Range(s)
    BY Elements
  <2>3. QED BY <2>1, <2>2
<1> HIDE DEF n
<1>3. ASSUME NEW i \in DOMAIN t, NEW j \in DOMAIN t, t[i] = t[j] PROVE i = j
  BY <1>2, <1>3 DEF InOrder
<1>4. ASSUME NEW o \in Object, NEW i \in DOMAIN t, NEW j \in DOMAIN t,
             t[i] = Adding(o), t[j] = Removing(o)
      PROVE  i < j
  <2>1. CASE i \in DOMAIN s /\ j \in DOMAIN s
    BY <1>2, <1>4, <2>1 DEF InOrder
  <2>2. CASE i \in DOMAIN s /\ j = n
    BY <1>2, <2>2
  <2>3. CASE i = n
    BY <1>2, <1>4, <2>3, ChangesApart
  <2>4. QED BY <1>2, <2>1, <2>2, <2>3
<1>5. ASSUME NEW o \in new, NEW i \in DOMAIN t, t[i] = Adding(o), o \in Object
      PROVE  \E j \in DOMAIN t : i < j /\ t[j] = Simulating
  <2>1. i \in DOMAIN s
    BY <1>2, <1>5
  <2>2. CASE c = Simulating
    BY <1>2, <2>1, <2>2
  <2>3. CASE c # Simulating
    <3>1. PICK j \in DOMAIN s : i < j /\ s[j] = Simulating
      BY <1>2, <1>5, <2>1, <2>3 DEF InOrder
    <3>2. QED BY <1>2, <3>1
  <2>4. QED BY <2>2, <2>3
<1>6. \A o : \A i \in DOMAIN t : t[i] = Adding(o) => o \in Object
  <2>1. \A i \in DOMAIN t : t[i] \in Change
    BY Elements
  <2>2. QED BY <2>1, ChangesApart DEF Change
<1>7. InOrder(t, new)
  BY <1>3, <1>4, <1>5, <1>6 DEF InOrder
<1>8. QED BY <1>1, <1>7

\* The loop takes the first change out: what that says of the others.
LEMMA TailInOrder ==
  ASSUME NEW s \in Seq(Change), s # <<>>, NEW st \in SUBSET Object, InOrder(s, st)
  PROVE  /\ InOrder(Tail(s), st)
         /\ Head(s) \in Range(s) /\ Range(Tail(s)) = Range(s) \ {Head(s)}
         /\ \A o \in Object : Head(s) = Removing(o) => Adding(o) \notin Range(s)
         /\ \A o \in st : Head(s) = Simulating => Adding(o) \notin Range(s)
         /\ \A o \in st : Head(s) = Adding(o) => Simulating \in Range(Tail(s))
<1> DEFINE h == Head(s)
<1>1. PICK t \in Seq(Change) : t = Tail(s)
  BY HeadTailProperties
<1>2. /\ Len(s) \in Nat /\ Len(s) # 0 /\ DOMAIN s = 1..Len(s)
      /\ \A i \in DOMAIN s : s[i] \in Range(s)
      /\ \A e \in Range(s) : \E i \in DOMAIN s : e = s[i]
  BY Elements, EmptySeq
<1>3. /\ DOMAIN t = 1..Len(t)
      /\ \A i \in DOMAIN t : t[i] \in Range(t)
      /\ \A e \in Range(t) : \E i \in DOMAIN t : e = t[i]
  BY Elements
<1>4. h = s[1] /\ 1 \in DOMAIN s
  BY <1>2
<1>5. Len(t) = Len(s) - 1 /\ \A i \in 1..Len(t) : t[i] = s[i + 1]
  BY <1>1, HeadTailProperties
<1>6. \A i \in DOMAIN t : t[i] = s[i + 1] /\ i + 1 \in DOMAIN s /\ 1 < i + 1
  BY <1>2, <1>3, <1>5
<1>7. \A i \in DOMAIN s : i # 1 => i - 1 \in DOMAIN t /\ t[i - 1] = s[i] /\ 1 < i
  BY <1>2, <1>3, <1>5
<1>8. ASSUME NEW i \in DOMAIN t, NEW j \in DOMAIN t
      PROVE  /\ i \in Nat /\ j \in Nat
             /\ (i + 1 = j + 1 => i = j) /\ (i + 1 < j + 1 => i < j)
  BY <1>3, <1>5, <1>2
<1> HIDE DEF h
<1>9. Range(t) = Range(s) \ {h}
  <2>1. \A i \in DOMAIN t : s[i + 1] # s[1]
    BY <1>4, <1>6 DEF InOrder
  <2>2. \A e \in Range(t) : e \in Range(s) /\ e # h
    BY <1>2, <1>3, <1>4, <1>6, <2>1
  <2>3. ASSUME NEW e \in Range(s), e # h PROVE e \in Range(t)
    <3>1. PICK i \in DOMAIN s : e = s[i]
      BY <1>2
    <3>2. i # 1
      BY <1>4, <2>3, <3>1
    <3>3. i - 1 \in DOMAIN t /\ t[i - 1] = e
      BY <1>7, <3>1, <3>2
    <3>4. QED BY <1>3, <3>3
  <2>4. QED BY <2>2, <2>3
<1>10. InOrder(t, st)
  <2>1. \A i, j \in DOMAIN t : t[i] = t[j] => i = j
    BY <1>6, <1>8 DEF InOrder
  <2>2. \A o \in Object : \A i, j \in DOMAIN t : t[i] = Adding(o) /\ t[j] = Removing(o) => i < j
    BY <1>6, <1>8 DEF InOrder
  <2>3. ASSUME NEW o \in st, NEW i \in DOMAIN t, t[i] = Adding(o)
        PROVE  \E j \in DOMAIN t : i < j /\ t[j] = Simulating
    <3>1. PICK j \in DOMAIN s : i + 1 < j /\ s[j] = Simulating
      BY <1>6, <2>3 DEF InOrder
    <3>2. j # 1
      BY <1>2, <1>8, <3>1
    <3>3. j - 1 \in DOMAIN t /\ t[j - 1] = Simulating
      BY <1>7, <3>1, <3>2
    <3>4. i < j - 1
      BY <1>2, <1>8, <3>1
    <3>5. QED BY <3>3, <3>4
  <2>4. QED BY <2>1, <2>2, <2>3 DEF InOrder
<1>11. ASSUME NEW o \in Object, h = Removing(o) PROVE Adding(o) \notin Range(s)
  <2> SUFFICES ASSUME NEW i \in DOMAIN s, s[i] = Adding(o) PROVE FALSE
    BY <1>2
  <2>1. i < 1
    BY <1>4, <1>11 DEF InOrder
  <2>2. QED BY <1>2, <2>1
<1>12. ASSUME NEW o \in st, h = Simulating PROVE Adding(o) \notin Range(s)
  <2> SUFFICES ASSUME NEW i \in DOMAIN s, s[i] = Adding(o) PROVE FALSE
    BY <1>2
  <2>1. PICK j \in DOMAIN s : i < j /\ s[j] = Simulating
    BY DEF InOrder
  <2>2. j = 1
    BY <1>4, <1>12, <2>1 DEF InOrder
  <2>3. QED BY <1>2, <2>1, <2>2
<1>13. ASSUME NEW o \in st, h = Adding(o) PROVE Simulating \in Range(t)
  <2>1. PICK j \in DOMAIN s : 1 < j /\ s[j] = Simulating
    BY <1>4, <1>13 DEF InOrder
  <2>2. QED BY <1>2, <1>9, <1>13, <2>1, ChangesApart
<1>14. h \in Range(s)
  BY <1>2, <1>4
<1>15. QED BY <1>1, <1>9, <1>10, <1>11, <1>12, <1>13, <1>14 DEF h

\* The change c is about device d, or the one that starts the simulation.
About(c, k, y) ==
  \/ c = Simulating /\ y = <<c, "sim">>
  \/ \E o \in Object, d \in Device :
       /\ k[o] = TypeOf[d]
       /\ \/ c = Adding(o) /\ y = <<d, "add">>
          \/ c = Removing(o) /\ y = <<d, "remove">>

\* The queue never holds more than one change of each kind for a device.
LEMMA QueueFits ==
  ASSUME EnoughRoom, NEW s \in Seq(Change), NEW k,
         \A i, j \in DOMAIN s : s[i] = s[j] => i = j,
         \A o \in Object : Adding(o) \in Range(s) \/ Removing(o) \in Range(s) =>
           \E d \in Device : k[o] = TypeOf[d],
         \A o, p \in Object :
           /\ Adding(o) \in Range(s) /\ Adding(p) \in Range(s) /\ k[o] = k[p] => o = p
           /\ Removing(o) \in Range(s) /\ Removing(p) \in Range(s) /\ k[o] = k[p] => o = p
  PROVE  Len(s) <= QueueLen
<1> DEFINE T == (Device \X {"add", "remove"}) \cup {<<Simulating, "sim">>}
           f == [i \in 1..Len(s) |-> CHOOSE y \in T : About(s[i], k, y)]
<1>1. /\ Len(s) \in Nat /\ DOMAIN s = 1..Len(s)
      /\ \A i \in DOMAIN s : s[i] \in Range(s) /\ s[i] \in Change
  BY Elements
<1>2. ASSUME NEW i \in DOMAIN s PROVE \E y \in T : About(s[i], k, y)
  <2>1. PICK c \in Range(s) : c = s[i] /\ c \in Change
    BY <1>1
  <2>2. ASSUME NEW o \in Object, c = Adding(o) PROVE \E y \in T : About(c, k, y)
    <3>1. PICK d \in Device : k[o] = TypeOf[d]
      BY <2>1, <2>2
    <3>2. About(c, k, <<d, "add">>) /\ <<d, "add">> \in T
      BY <2>2, <3>1 DEF About
    <3>3. QED BY <3>2
  <2>3. ASSUME NEW o \in Object, c = Removing(o) PROVE \E y \in T : About(c, k, y)
    <3>1. PICK d \in Device : k[o] = TypeOf[d]
      BY <2>1, <2>3
    <3>2. About(c, k, <<d, "remove">>) /\ <<d, "remove">> \in T
      BY <2>3, <3>1 DEF About
    <3>3. QED BY <3>2
  <2>4. ASSUME c = Simulating PROVE \E y \in T : About(c, k, y)
    <3>1. About(c, k, <<c, "sim">>) /\ <<c, "sim">> \in T
      BY <2>4 DEF About
    <3>2. QED BY <3>1
  <2>5. QED BY <2>1, <2>2, <2>3, <2>4 DEF Change
<1>3. ASSUME NEW i \in DOMAIN s, NEW j \in DOMAIN s, NEW y \in T,
             About(s[i], k, y), About(s[j], k, y)
      PROVE  i = j
  <2>1. \A d, c : <<d, "add">> # <<c, "sim">> /\ <<d, "remove">> # <<c, "sim">>
    OBVIOUS
  <2>2. \A d, e : <<d, "add">> # <<e, "remove">>
    OBVIOUS
  <2>3. \A d, e : /\ <<d, "add">> = <<e, "add">> => d = e
                  /\ <<d, "remove">> = <<e, "remove">> => d = e
    OBVIOUS
  <2>4. PICK a \in Range(s), b \in Range(s) : a = s[i] /\ b = s[j]
    BY <1>1
  <2>5. CASE y = <<Simulating, "sim">>
    <3>1. a = Simulating /\ b = Simulating
      BY <1>3, <2>1, <2>4, <2>5 DEF About
    <3>2. QED BY <2>4, <3>1
  <2>6. CASE \E d \in Device : y = <<d, "add">>
    <3>1. PICK o \in Object, d \in Device : k[o] = TypeOf[d] /\ a = Adding(o) /\ y = <<d, "add">>
      BY <1>3, <2>1, <2>2, <2>4, <2>6 DEF About
    <3>2. PICK p \in Object, e \in Device : k[p] = TypeOf[e] /\ b = Adding(p) /\ y = <<e, "add">>
      BY <1>3, <2>1, <2>2, <2>4, <2>6 DEF About
    <3>3. o = p
      BY <2>3, <2>4, <3>1, <3>2
    <3>4. s[i] = s[j]
      BY <2>4, <3>1, <3>2, <3>3
    <3>5. QED BY <3>4
  <2>7. CASE \E d \in Device : y = <<d, "remove">>
    <3>1. PICK o \in Object, d \in Device : k[o] = TypeOf[d] /\ a = Removing(o) /\ y = <<d, "remove">>
      BY <1>3, <2>1, <2>2, <2>4, <2>7 DEF About
    <3>2. PICK p \in Object, e \in Device : k[p] = TypeOf[e] /\ b = Removing(p) /\ y = <<e, "remove">>
      BY <1>3, <2>1, <2>2, <2>4, <2>7 DEF About
    <3>3. o = p
      BY <2>3, <2>4, <3>1, <3>2
    <3>4. s[i] = s[j]
      BY <2>4, <3>1, <3>2, <3>3
    <3>5. QED BY <3>4
  <2>8. QED BY <2>5, <2>6, <2>7
<1>4. \A i \in 1..Len(s) : f[i] \in T /\ About(s[i], k, f[i])
  BY <1>1, <1>2
<1>5. f \in [1..Len(s) -> T]
  BY <1>4
<1>6. IsFiniteSet(T) /\ Cardinality(T) <= QueueLen
  <2>1. IsFiniteSet({"add", "remove"}) /\ Cardinality({"add", "remove"}) = 2
    <3>1. IsFiniteSet({"add"}) /\ Cardinality({"add"}) = 1
      BY FS_Singleton
    <3>2. "remove" \notin {"add"}
      OBVIOUS
    <3>3. /\ IsFiniteSet({"add"} \cup {"remove"})
          /\ Cardinality({"add"} \cup {"remove"}) = Cardinality({"add"}) + 1
      BY <3>1, <3>2, FS_AddElement
    <3>4. {"add"} \cup {"remove"} = {"add", "remove"}
      OBVIOUS
    <3>5. QED BY <3>1, <3>3, <3>4
  <2>2. IsFiniteSet(Device) /\ Cardinality(Device) \in Nat
    BY FS_CardinalityType DEF EnoughRoom
  <2> DEFINE pairs == Device \X {"add", "remove"}
  <2>3. IsFiniteSet(pairs) /\ Cardinality(pairs) = Cardinality(Device) * 2
    BY <2>1, <2>2, FS_Product
  <2>4. /\ IsFiniteSet(T)
        /\ Cardinality(T) = IF <<Simulating, "sim">> \in pairs THEN Cardinality(pairs) ELSE Cardinality(pairs) + 1
    BY <2>3, FS_AddElement
  <2> HIDE DEF pairs, T
  <2>5. Cardinality(T) <= 2 * Cardinality(Device) + 1
    BY <2>2, <2>3, <2>4
  <2>6. QED BY <2>2, <2>4, <2>5, RegistryAssumption, FS_CardinalityType DEF EnoughRoom
<1> HIDE DEF f, T
<1>7. f \in Injection(1..Len(s), T)
  BY <1>1, <1>3, <1>4, <1>5 DEF Injection, IsInjective
<1>8. Cardinality(1..Len(s)) <= Cardinality(T)
  BY <1>6, <1>7, FS_Injection
<1>9. Cardinality(1..Len(s)) = Len(s)
  BY <1>1, IntervalSize
<1>10. Cardinality(T) \in Nat /\ QueueLen \in Nat
  BY <1>6, FS_CardinalityType, RegistryAssumption
<1>11. QED BY <1>1, <1>6, <1>8, <1>9, <1>10

-----------------------------------------------------------------------------
(* A new sensor.                                                           *)

LEMMA Facts ==
  ASSUME IInv
  PROVE  /\ TableOK /\ QueueOK /\ HeapOK /\ DevicesOK
         /\ late \subseteq Object /\ stopped \subseteq Object
         /\ running \in BOOLEAN /\ inSim \in BOOLEAN
         /\ Sorted(table) /\ TableKept /\ GlobalLeads /\ Placed /\ Leaving
         /\ Owned /\ FoundLate /\ BeforeStart /\ Announced /\ Silenced
BY TypeParts, Zenon DEF IInv, Core

LEMMA DeviceTypes ==
  \A d \in Device : TypeOf[d] \in Type /\ TypeOf[d] \notin OwnType /\ TypeOf[d] # Null
BY RegistryAssumption

\* What of a sensor in the table is known without its place.
LEMMA TableEntries ==
  ASSUME TableOK
  PROVE  \A e \in Range(table) : e \in Entry /\ e.type \in Type /\ e.obj \in Object
BY Elements, EntryFields DEF TableOK

\* A type of which there is no kept sensor has none in the table.
LEMMA NoEntry ==
  ASSUME IInv, NEW ty \in Type, \A p \in Object : Kept(p) => kind[p] # ty
  PROVE  \A e \in Range(table) : e.type # ty
<1>1. \A e \in Range(table) : e.type \in Type /\ e.obj \in Object /\ Kept(e.obj) /\ kind[e.obj] = e.type
  BY Facts, TableEntries, RegistryAssumption DEF Kept, TableKept
<1>2. QED BY <1>1

\* The object o becomes a sensor of a type that has no kept one.
LEMMA Grows ==
  ASSUME HeapOK, GlobalLeads, NEW o \in Object, NEW ty \in Type, kind[o] = Null,
         \A p \in Object : Kept(p) => kind[p] # ty,
         kind' = Created(o, ty), global' = [global EXCEPT ![ty] = o],
         late' = late \/ late' = late \cup {o}
  PROVE  /\ GlobalLeads'
         /\ \A p \in Object : kind'[p] = IF p = o THEN ty ELSE kind[p]
<1>1. \A p \in Object : kind'[p] = IF p = o THEN ty ELSE kind[p]
  BY DEF Created, HeapOK
<1>2. \A t \in Type : global'[t] = IF t = ty THEN o ELSE global[t]
  BY DEF HeapOK
<1>3. ASSUME NEW p \in Object, kind'[p] # Null, p \notin late'
      PROVE  global'[kind'[p]] = p
  <2>1. CASE p = o
    BY <1>1, <1>2, <2>1
  <2>2. CASE p # o
    <3>1. Kept(p) /\ kind'[p] = kind[p] /\ kind[p] \in Type
      BY <1>1, <1>3, <2>2 DEF Kept, HeapOK
    <3>2. kind[p] # ty /\ global[kind[p]] = p
      BY <3>1 DEF GlobalLeads
    <3>3. QED BY <1>2, <3>1, <3>2
  <2>3. QED BY <2>1, <2>2
<1>4. ASSUME NEW t \in Type, global'[t] # Null
      PROVE  kind'[global'[t]] = t
  <2>1. CASE t = ty
    BY <1>1, <1>2, <2>1
  <2>2. CASE t # ty
    <3>1. global'[t] = global[t] /\ global[t] \in Object /\ kind[global[t]] = t
      BY <1>2, <1>4, <2>2 DEF HeapOK, GlobalLeads
    <3>2. t # Null
      BY RegistryAssumption
    <3>3. QED BY <1>1, <3>1, <3>2
  <2>3. QED BY <2>1, <2>2
<1>5. QED BY <1>1, <1>3, <1>4 DEF GlobalLeads, Kept

\* The device map has o for the new device d, nothing else changes in it.
LEMMA DeviceSensors ==
  ASSUME NEW d, NEW o, sensor' = WithSensor(d, o)
  PROVE  /\ DOMAIN sensor' = DOMAIN sensor \cup {d}
         /\ \A e \in DOMAIN sensor' : sensor'[e] = IF e = d THEN o ELSE sensor[e]
BY DEF WithSensor

\* A new sensor before the loop runs: it is in the table at once.
LEMMA GrowsBeforeStart ==
  ASSUME EnoughRoom, IInv, ~running, NEW o \in Object, NEW ty \in Type, kind[o] = Null,
         \A p \in Object : Kept(p) => kind[p] # ty,
         RegisterSensor(o, ty, Created(o, ty), [global EXCEPT ![ty] = o]),
         \/ sensor' = sensor /\ ty \in OwnType
         \/ \E d \in Device \ DOMAIN sensor : TypeOf[d] = ty /\ sensor' = WithSensor(d, o),
         late' = late, stopped' \subseteq stopped, inSim' = inSim, running' = running
  PROVE  Core'
<1> USE Facts
<1>1. changes = <<>> /\ late = {} /\ stopped = {}
  BY DEF BeforeStart
<1>2. \A c : ~Pending(c)
  BY <1>1 DEF Pending, Range
<1>3. changes' = <<>> /\ late' = {} /\ stopped' = {}
  BY <1>1 DEF RegisterSensor
<1>4. \A c : c \notin Range(changes')
  BY <1>3 DEF Range
<1>5. AddSensor(o, ty, Created(o, ty), [global EXCEPT ![ty] = o])
  BY DEF RegisterSensor
<1>6. /\ Created(o, ty) \in [Object -> Type \cup {Null}]
      /\ [global EXCEPT ![ty] = o] \in [Type -> Object \cup {Null}]
  BY CreatedTyped
<1>7. \A e \in Range(table) : e.type # ty
  BY NoEntry
<1>8. /\ Sorted(table)' /\ Range(table') = Range(table) \cup {EntryFor(o, ty)}
      /\ kind' = Created(o, ty) /\ global' = [global EXCEPT ![ty] = o]
  BY <1>5, <1>6, <1>7, AddSensorNew
<1>9. GlobalLeads' /\ \A p \in Object : kind'[p] = IF p = o THEN ty ELSE kind[p]
  BY <1>8, Grows
<1>10. EntryFor(o, ty).obj = o /\ EntryFor(o, ty).type = ty /\ ty # Null
  BY EntryTyped, RegistryAssumption
<1>11. \A e \in Range(table) : e.type \in Type /\ e.type # Null /\ e.obj \in Object
  BY TableEntries, RegistryAssumption
<1>12. TableKept'
  BY <1>3, <1>8, <1>9, <1>10, <1>11 DEF TableKept
<1>13. Placed'
  <2>1. ASSUME NEW p \in Object, kind'[p] # Null
        PROVE  \E e \in Range(table') : e.obj = p
    <3>1. CASE p = o
      BY <1>8, <1>10, <3>1
    <3>2. CASE p # o
      BY <1>1, <1>2, <1>8, <1>9, <2>1, <3>2 DEF Placed, Kept, InTable
    <3>3. QED BY <3>1, <3>2
  <2>2. QED BY <1>4, <2>1 DEF Placed, Kept, InTable, Pending
<1>14. Leaving'
  BY <1>4 DEF Leaving, Pending
<1>15. Owned'
  <2>1. CASE sensor' = sensor /\ ty \in OwnType
    <3>1. ASSUME NEW d \in DOMAIN sensor', sensor'[d] # Null
          PROVE  kind'[sensor'[d]] = TypeOf[d]
      BY <1>9, <2>1, <3>1, DeviceTypes DEF Owned, DevicesOK
    <3>2. ASSUME NEW p \in Object, kind'[p] # Null, kind'[p] \notin OwnType
          PROVE  \E d \in DOMAIN sensor' : sensor'[d] = p
      BY <1>1, <1>2, <1>9, <2>1, <3>2 DEF Owned, Kept
    <3>3. QED BY <3>1, <3>2 DEF Owned, Kept
  <2>2. CASE \E d \in Device \ DOMAIN sensor : TypeOf[d] = ty /\ sensor' = WithSensor(d, o)
    <3>1. PICK d \in Device \ DOMAIN sensor : TypeOf[d] = ty /\ sensor' = WithSensor(d, o)
      BY <2>2
    <3>2. /\ DOMAIN sensor' = DOMAIN sensor \cup {d}
          /\ \A e \in DOMAIN sensor' : sensor'[e] = IF e = d THEN o ELSE sensor[e]
      BY <3>1, DeviceSensors
    <3>3. ASSUME NEW e \in DOMAIN sensor', sensor'[e] # Null
          PROVE  kind'[sensor'[e]] = TypeOf[e]
      <4>1. CASE e = d
        BY <1>9, <3>1, <3>2, <4>1
      <4>2. CASE e # d
        BY <1>9, <3>2, <3>3, <4>2, DeviceTypes DEF Owned, DevicesOK
      <4>3. QED BY <4>1, <4>2
    <3>4. ASSUME NEW p \in Object, kind'[p] # Null, kind'[p] \notin OwnType
          PROVE  \E e \in DOMAIN sensor' : sensor'[e] = p
      <4>1. CASE p = o
        BY <3>2, <4>1
      <4>2. CASE p # o
        <5>1. PICK e \in DOMAIN sensor : sensor[e] = p
          BY <1>1, <1>2, <1>9, <3>4, <4>2 DEF Owned, Kept
        <5>2. QED BY <3>1, <3>2, <5>1
      <4>3. QED BY <4>1, <4>2
    <3>5. QED BY <3>3, <3>4 DEF Owned, Kept
  <2>3. QED BY <2>1, <2>2
<1>16. FoundLate'
  BY <1>3 DEF FoundLate
<1>17. BeforeStart'
  BY <1>3 DEF BeforeStart
<1>18. Announced'
  BY <1>3, <1>4 DEF Announced, Pending, InOrder
<1>19. Silenced'
  BY <1>3 DEF Silenced
<1>20. QED
  BY <1>8, <1>9, <1>12, <1>13, <1>14, <1>15, <1>16, <1>17, <1>18, <1>19 DEF Core

\* A change that is not asked for yet fits in the queue, after the heap has
\* become k.
LEMMA RoomForChange ==
  ASSUME EnoughRoom, QueueOK, NEW c \in Change, NEW k,
         NEW st, InOrder(Append(changes, c), st),
         \A o \in Object :
           Pending(Adding(o)) \/ Pending(Removing(o)) \/ c = Adding(o) \/ c = Removing(o) =>
             \E d \in Device : k[o] = TypeOf[d],
         \A o, p \in Object :
           /\ /\ Pending(Adding(o)) \/ c = Adding(o)
              /\ Pending(Adding(p)) \/ c = Adding(p)
              /\ k[o] = k[p]
              => o = p
           /\ /\ Pending(Removing(o)) \/ c = Removing(o)
              /\ Pending(Removing(p)) \/ c = Removing(p)
              /\ k[o] = k[p]
              => o = p
  PROVE  Queued(c) = Append(changes, c)
<1>1. PICK s \in Seq(Change) :
        /\ s = Append(changes, c) /\ Len(s) = Len(changes) + 1
        /\ Range(s) = Range(changes) \cup {c}
  <2>1. /\ Append(changes, c) \in Seq(Change)
        /\ Len(Append(changes, c)) = Len(changes) + 1
        /\ Range(Append(changes, c)) = Range(changes) \cup {c}
    BY Appended DEF QueueOK
  <2>2. QED BY <2>1
<1>2. \A x : x \in Range(s) <=> Pending(x) \/ x = c
  BY <1>1 DEF Pending
<1>3. \A i, j \in DOMAIN s : s[i] = s[j] => i = j
  BY <1>1 DEF InOrder
<1>4. Len(s) <= QueueLen
  BY <1>2, <1>3, QueueFits
<1>5. Len(changes) \in Nat /\ QueueLen \in Nat
  BY Elements, RegistryAssumption DEF QueueOK
<1>6. QED BY <1>1, <1>4, <1>5 DEF Queued

\* A new sensor of a device while the loop runs: it is about to get there.
LEMMA GrowsRunning ==
  ASSUME OneDevicePerType, EnoughRoom, IInv, running, NEW o \in Object, kind[o] = Null,
         NEW d \in Device \ DOMAIN sensor, Settled(TypeOf[d]),
         \A p \in Object : Kept(p) => kind[p] # TypeOf[d],
         RegisterSensor(o, TypeOf[d], Created(o, TypeOf[d]), [global EXCEPT ![TypeOf[d]] = o]),
         sensor' = WithSensor(d, o),
         late' = late, stopped' = stopped \ {o}, inSim' = inSim, running' = running
  PROVE  Core'
<1> USE Facts
<1> DEFINE ty == TypeOf[d]
<1>1. ty \in Type /\ ty \notin OwnType /\ ty # Null
  BY DeviceTypes
<1> HIDE DEF ty
<1>2. /\ table' = table /\ kind' = Created(o, ty) /\ global' = [global EXCEPT ![ty] = o]
      /\ changes' = IF Accepts THEN Queued(Adding(o)) ELSE changes
  BY DEF RegisterSensor, ty
<1>3. GlobalLeads' /\ \A p \in Object : kind'[p] = IF p = o THEN ty ELSE kind[p]
  BY <1>1, <1>2, Grows DEF ty
<1>4. Accepts
  <2>1. \A e \in Range(table) : e.type # ty
    BY <1>1, NoEntry DEF ty
  <2>2. table \in Seq(Entry) /\ \A i \in DOMAIN table : table[i].type # ty
    BY <2>1, Elements DEF TableOK
  <2>3. QED BY <1>1, <2>2, TableFits DEF Accepts
<1>5. ~Pending(Adding(o)) /\ ~Pending(Removing(o))
  BY DeviceTypes DEF Placed, Kept, Leaving
<1>6. Adding(o) \in Change
  BY ChangeTyped
<1>7. InOrder(Append(changes, Adding(o)), stopped \ {o})
  <2>1. \A p \in Object : Adding(o) = Adding(p) => Removing(p) \notin Range(changes) /\ p \notin stopped \ {o}
    BY <1>5, ChangesApart DEF Pending
  <2>2. QED BY <1>5, <1>6, <2>1, AppendInOrder DEF QueueOK, Announced, Pending
<1>8. \A p \in Object : Pending(Adding(p)) =>
        /\ p # o /\ kind'[p] = kind[p] /\ Kept(p) /\ kind[p] # ty
        /\ \E e \in Device : kind[p] = TypeOf[e]
  <2> SUFFICES ASSUME NEW p \in Object, Pending(Adding(p))
               PROVE  /\ p # o /\ kind'[p] = kind[p] /\ Kept(p) /\ kind[p] # ty
                      /\ \E e \in Device : kind[p] = TypeOf[e]
    OBVIOUS
  <2>1. Kept(p) /\ kind[p] \notin OwnType /\ p # o
    BY DEF Placed, Kept
  <2>2. kind[p] # ty /\ kind'[p] = kind[p]
    BY <1>3, <2>1 DEF ty
  <2>3. CASE Pending(Removing(p))
    BY <2>1, <2>2, <2>3 DEF Leaving
  <2>4. CASE \E e \in DOMAIN sensor : sensor[e] = p
    <3>1. PICK e \in DOMAIN sensor : sensor[e] = p
      BY <2>4
    <3>2. e \in Device /\ sensor[e] # Null
      BY <3>1, RegistryAssumption DEF DevicesOK
    <3>3. QED BY <2>1, <2>2, <3>1, <3>2 DEF Owned
  <2>5. QED BY <2>1, <2>3, <2>4 DEF Owned
<1>9. \A p \in Object : Pending(Removing(p)) =>
        /\ p # o /\ kind'[p] = kind[p] /\ kind[p] # ty
        /\ \E e \in Device : kind[p] = TypeOf[e]
  BY <1>3, <1>5 DEF Leaving, Settled, ty
<1>10. changes' = Append(changes, Adding(o))
  <2>1. \A p \in Object :
          Pending(Adding(p)) \/ Pending(Removing(p)) \/ Adding(o) = Adding(p) \/ Adding(o) = Removing(p) =>
            \E e \in Device : kind'[p] = TypeOf[e]
    BY <1>3, <1>8, <1>9, ChangesApart DEF ty
  <2>2. ASSUME NEW p \in Object, NEW q \in Object, kind'[p] = kind'[q],
               Pending(Adding(p)) \/ Adding(o) = Adding(p),
               Pending(Adding(q)) \/ Adding(o) = Adding(q)
        PROVE  p = q
    <3>1. CASE p = o \/ q = o
      BY <1>3, <1>8, <2>2, <3>1, ChangesApart
    <3>2. CASE p # o /\ q # o
      <4>1. Kept(p) /\ Kept(q) /\ kind[p] = kind[q]
        BY <1>8, <2>2, <3>2, ChangesApart
      <4>2. QED BY <4>1 DEF GlobalLeads
    <3>3. QED BY <3>1, <3>2
  <2>3. ASSUME NEW p \in Object, NEW q \in Object, kind'[p] = kind'[q],
               Pending(Removing(p)) \/ Adding(o) = Removing(p),
               Pending(Removing(q)) \/ Adding(o) = Removing(q)
        PROVE  p = q
    BY <1>9, <2>3, ChangesApart DEF Leaving
  <2>4. Queued(Adding(o)) = Append(changes, Adding(o))
    BY <1>6, <1>7, <2>1, <2>2, <2>3, RoomForChange
  <2>5. QED BY <1>2, <1>4, <2>4
<1>11. Range(changes') = Range(changes) \cup {Adding(o)}
  BY <1>6, <1>10, Appended DEF QueueOK
<1>12. \A c : c \in Range(changes') <=> Pending(c) \/ c = Adding(o)
  BY <1>11 DEF Pending
<1>13. Sorted(table)'
  BY <1>2 DEF Sorted
<1>14. TableKept'
  BY <1>2, <1>3, TableEntries, RegistryAssumption DEF TableKept
<1>15. \A e \in Range(table) : e.obj # o
  BY TableEntries, RegistryAssumption DEF TableKept
<1>16. Placed'
  <2>1. o \notin late
    BY RegistryAssumption DEF FoundLate
  <2>2. ASSUME NEW p \in Object, kind'[p] # Null, p \notin late'
        PROVE  (\E e \in Range(table') : e.obj = p) <=> Adding(p) \notin Range(changes')
    <3>1. CASE p = o
      BY <1>2, <1>12, <1>15, <3>1
    <3>2. CASE p # o
      BY <1>2, <1>3, <1>12, <2>2, <3>2, ChangesApart DEF Placed, Kept, InTable
    <3>3. QED BY <3>1, <3>2
  <2>3. ASSUME NEW p \in Object, Adding(p) \in Range(changes')
        PROVE  kind'[p] # Null /\ p \notin late' /\ kind'[p] \notin OwnType
    <3>1. CASE p = o
      BY <1>1, <1>3, <2>1, <3>1
    <3>2. CASE p # o
      BY <1>3, <1>12, <2>3, <3>2, ChangesApart DEF Placed, Kept
    <3>3. QED BY <3>1, <3>2
  <2>4. QED BY <2>2, <2>3 DEF Placed, Kept, InTable, Pending
<1>17. /\ DOMAIN sensor' = DOMAIN sensor \cup {d}
       /\ \A e \in DOMAIN sensor' : sensor'[e] = IF e = d THEN o ELSE sensor[e]
  BY DeviceSensors
<1>18. Leaving'
  <2>1. \A p : Removing(p) \in Range(changes') <=> Pending(Removing(p))
    BY <1>12, ChangesApart
  <2>2. ASSUME NEW p \in Object, Pending(Removing(p))
        PROVE  /\ \E e \in Device : kind'[p] = TypeOf[e]
               /\ \A e \in DOMAIN sensor' : TypeOf[e] # kind'[p]
    BY <1>9, <1>17, <2>2 DEF Leaving, ty
  <2>3. ASSUME NEW p \in Object, NEW q \in Object, Pending(Removing(p)), Pending(Removing(q)),
               kind'[p] = kind'[q]
        PROVE  p = q
    BY <1>9, <2>3 DEF Leaving
  <2>4. QED BY <2>1, <2>2, <2>3 DEF Leaving, Pending
<1>19. Owned'
  <2>1. ASSUME NEW e \in DOMAIN sensor', sensor'[e] # Null
        PROVE  kind'[sensor'[e]] = TypeOf[e]
    <3>1. CASE e = d
      BY <1>3, <1>17, <3>1 DEF ty
    <3>2. CASE e # d
      BY <1>3, <1>17, <2>1, <3>2, DeviceTypes DEF Owned, DevicesOK
    <3>3. QED BY <3>1, <3>2
  <2>2. ASSUME NEW p \in Object, kind'[p] # Null, p \notin late', kind'[p] \notin OwnType
        PROVE  (\E e \in DOMAIN sensor' : sensor'[e] = p) \/ Removing(p) \in Range(changes')
    <3>1. CASE p = o
      BY <1>17, <3>1
    <3>2. CASE p # o
      <4>1. (\E e \in DOMAIN sensor : sensor[e] = p) \/ Pending(Removing(p))
        BY <1>3, <2>2, <3>2 DEF Owned, Kept
      <4>2. QED BY <1>12, <1>17, <4>1
    <3>3. QED BY <3>1, <3>2
  <2>3. QED BY <2>1, <2>2 DEF Owned, Kept, Pending
<1>20. FoundLate'
  BY <1>3, RegistryAssumption DEF FoundLate
<1>21. BeforeStart'
  BY DEF BeforeStart
<1>22. Announced'
  <2>1. InOrder(changes', stopped')
    BY <1>7, <1>10
  <2>2. Simulating \in Range(changes') <=> Pending(Simulating)
    BY <1>12, ChangesApart
  <2>3. InOrder(changes, stopped)'
    BY <2>1 DEF InOrder
  <2>4. QED BY <2>2, <2>3 DEF Announced, Pending
<1>23. Silenced'
  <2>1. Simulating \in Range(changes') <=> Pending(Simulating)
    BY <1>12, ChangesApart
  <2>2. QED BY <1>2, <2>1 DEF Silenced, Pending
<1>24. QED
  BY <1>3, <1>13, <1>14, <1>16, <1>18, <1>19, <1>20, <1>21, <1>22, <1>23 DEF Core

-----------------------------------------------------------------------------
(* The invariant, action by action.                                        *)

\* A device that is not there has no kept sensor, once things have settled.
LEMMA NoneKept ==
  ASSUME OneDevicePerType, IInv, NEW d \in Device,
         \/ d \notin DOMAIN sensor /\ Settled(TypeOf[d])
         \/ d \in DOMAIN sensor /\ sensor[d] = Null
  PROVE  \A p \in Object : Kept(p) => kind[p] # TypeOf[d]
<1> USE Facts
<1> SUFFICES ASSUME NEW p \in Object, Kept(p), kind[p] = TypeOf[d] PROVE FALSE
  OBVIOUS
<1>1. kind[p] \notin OwnType /\ p # Null
  BY DeviceTypes, RegistryAssumption
<1>2. CASE \E e \in DOMAIN sensor : sensor[e] = p
  <2>1. PICK e \in DOMAIN sensor : sensor[e] = p
    BY <1>2
  <2>2. TypeOf[e] = TypeOf[d] /\ e \in Device
    BY <1>1, <2>1 DEF Owned, DevicesOK
  <2>3. e = d
    BY <2>2 DEF OneDevicePerType
  <2>4. QED BY <1>1, <2>1, <2>3
<1>3. CASE Pending(Removing(p))
  BY <1>3 DEF Leaving, Settled
<1>4. QED BY <1>1, <1>2, <1>3 DEF Owned

LEMMA InitCore == Init => Core
<1> SUFFICES ASSUME Init PROVE Core
  OBVIOUS
<1>1. /\ table = <<>> /\ changes = <<>> /\ sensor = <<>> /\ late = {} /\ stopped = {}
      /\ \A o \in Object : kind[o] = Null
      /\ \A ty \in Type : global[ty] = Null
  BY DEF Init
<1>2. Range(table) = {} /\ Range(changes) = {} /\ DOMAIN sensor = {}
  BY <1>1 DEF Range
<1>3. Sorted(table) /\ TableKept /\ GlobalLeads
  BY <1>1, <1>2 DEF Sorted, TableKept, GlobalLeads, Kept
<1>4. Placed /\ Leaving /\ Owned
  BY <1>1, <1>2 DEF Placed, Leaving, Owned, Kept, Pending
<1>5. FoundLate /\ BeforeStart /\ Announced /\ Silenced
  BY <1>1, <1>2 DEF FoundLate, BeforeStart, Announced, Silenced, InOrder, Pending
<1>6. QED BY <1>3, <1>4, <1>5 DEF Core

LEMMA RegisterOwnKeeps ==
  ASSUME EnoughRoom, IInv, NEW ty \in OwnType, RegisterOwn(ty)
  PROVE  Core'
<1> USE Facts
<1>1. PICK o \in Object : o = Min(Free) /\ kind[o] = Null
  BY FreeIsFree DEF RegisterOwn
<1>2. ty \in Type
  BY RegistryAssumption
<1>3. \A p \in Object : Kept(p) => kind[p] # ty
  BY RegistryAssumption DEF RegisterOwn, GlobalLeads
<1>4. RegisterSensor(o, ty, Created(o, ty), [global EXCEPT ![ty] = o])
  BY <1>1 DEF RegisterOwn
<1>5. /\ ~running /\ sensor' = sensor /\ late' = late /\ stopped' = stopped
      /\ inSim' = inSim /\ running' = running
  BY DEF RegisterOwn, historyVars
<1>6. QED BY <1>1, <1>2, <1>3, <1>4, <1>5, GrowsBeforeStart

LEMMA AddDeviceKeeps ==
  ASSUME OneDevicePerType, EnoughRoom, IInv, NEW d \in Device, AddDevice(d)
  PROVE  Core'
<1> USE Facts
<1>1. d \notin DOMAIN sensor /\ Settled(TypeOf[d])
  BY DEF AddDevice
<1>2. \A p \in Object : Kept(p) => kind[p] # TypeOf[d]
  BY <1>1, NoneKept
<1>3. PICK o \in SensorFor(TypeOf[d]) :
        /\ sensor' = WithSensor(d, o)
        /\ RegisterSensor(o, TypeOf[d], Created(o, TypeOf[d]), [global EXCEPT ![TypeOf[d]] = o])
        /\ stopped' = IF kind[o] = Null THEN stopped \ {o} ELSE stopped
  BY DEF AddDevice
<1>4. o \in Object /\ kind[o] = Null
  <2>1. CASE TypeOf[d] \notin Probed /\ global[TypeOf[d]] # Null
    <3>1. global[TypeOf[d]] \in Object /\ kind[global[TypeOf[d]]] = TypeOf[d]
      BY <2>1, DeviceTypes DEF GlobalLeads, HeapOK
    <3>2. Kept(global[TypeOf[d]])
      BY <2>1, <3>1, DeviceTypes DEF Kept, FoundLate
    <3>3. QED BY <1>2, <3>1, <3>2
  <2>2. QED BY <1>3, <2>1 DEF SensorFor, Free
<1>5. /\ TypeOf[d] \in Type /\ stopped' = stopped \ {o}
      /\ late' = late /\ inSim' = inSim /\ running' = running
  BY <1>3, <1>4, DeviceTypes DEF AddDevice
<1>6. CASE running
  BY <1>1, <1>2, <1>3, <1>4, <1>5, <1>6, GrowsRunning
<1>7. CASE ~running
  <2>1. d \in Device \ DOMAIN sensor /\ stopped' \subseteq stopped
    BY <1>1, <1>5
  <2>2. QED BY <1>2, <1>3, <1>4, <1>5, <1>7, <2>1, GrowsBeforeStart
<1>8. QED BY <1>6, <1>7

\* What only the device map can disturb, when that one changes alone.
LEMMA HeapUntouched ==
  ASSUME IInv, UNCHANGED <<registryVars, heapVars, inSim, historyVars>>, Leaving', Owned'
  PROVE  Core'
<1> USE Facts
<1>1. /\ table' = table /\ changes' = changes /\ running' = running /\ kind' = kind
      /\ global' = global /\ inSim' = inSim /\ late' = late /\ stopped' = stopped
  BY DEF registryVars, heapVars, historyVars
<1>2. Sorted(table)' /\ TableKept' /\ GlobalLeads' /\ Placed'
  BY <1>1 DEF Sorted, TableKept, GlobalLeads, Placed, Kept, InTable, Pending
<1>3. FoundLate' /\ BeforeStart' /\ Announced' /\ Silenced'
  BY <1>1 DEF FoundLate, BeforeStart, Announced, Silenced, InOrder, Pending
<1>4. QED BY <1>2, <1>3 DEF Core

LEMMA AddWithoutSensorKeeps ==
  ASSUME IInv, NEW d \in Device, AddWithoutSensor(d)
  PROVE  Core'
<1> USE Facts
<1>1. /\ sensor' = WithSensor(d, Null) /\ d \notin DOMAIN sensor /\ Settled(TypeOf[d])
      /\ UNCHANGED <<registryVars, heapVars, inSim, historyVars>>
  BY DEF AddWithoutSensor
<1>2. kind' = kind /\ changes' = changes /\ late' = late
  BY <1>1 DEF registryVars, heapVars, historyVars
<1>3. /\ DOMAIN sensor' = DOMAIN sensor \cup {d}
      /\ \A e \in DOMAIN sensor' : sensor'[e] = IF e = d THEN Null ELSE sensor[e]
  BY <1>1, DeviceSensors
<1>4. Leaving'
  <2>1. \A p \in Object : Pending(Removing(p)) => kind[p] # TypeOf[d]
    BY <1>1 DEF Settled
  <2>2. QED BY <1>2, <1>3, <2>1 DEF Leaving, Pending
<1>5. Owned'
  <2>1. ASSUME NEW p \in Object, Kept(p), kind[p] \notin OwnType
        PROVE  (\E e \in DOMAIN sensor' : sensor'[e] = p) \/ Pending(Removing(p))
    BY <1>1, <1>3, <2>1 DEF Owned
  <2>2. ASSUME NEW e \in DOMAIN sensor', sensor'[e] # Null
        PROVE  kind[sensor'[e]] = TypeOf[e]
    BY <1>3, <2>2 DEF Owned
  <2>3. QED BY <1>2, <2>1, <2>2 DEF Owned, Kept, Pending
<1>6. QED BY <1>1, <1>4, <1>5, HeapUntouched

LEMMA ProbeLateKeeps ==
  ASSUME OneDevicePerType, IInv, NEW d \in Device, ProbeLate(d)
  PROVE  Core'
<1> USE Facts
<1>1. PICK o \in Object : o = Min(Free) /\ kind[o] = Null
  BY FreeIsFree DEF ProbeLate
<1>2. /\ running /\ d \in DOMAIN sensor /\ TypeOf[d] \in Probed /\ sensor[d] = Null
      /\ sensor' = [sensor EXCEPT ![d] = o] /\ kind' = Created(o, TypeOf[d])
      /\ global' = [global EXCEPT ![TypeOf[d]] = o]
      /\ late' = late \cup {o} /\ stopped' = stopped \ {o}
      /\ table' = table /\ changes' = changes /\ running' = running /\ inSim' = inSim
  BY <1>1 DEF ProbeLate, registryVars
<1>3. TypeOf[d] \in Type /\ TypeOf[d] # Null
  BY DeviceTypes
<1>4. GlobalLeads' /\ \A p \in Object : kind'[p] = IF p = o THEN TypeOf[d] ELSE kind[p]
  BY <1>1, <1>2, <1>3, NoneKept, Grows
<1>5. \A p \in Object : kind'[p] # Null /\ p \notin late' <=> Kept(p)
  BY <1>1, <1>2, <1>4 DEF Kept
<1>6. Sorted(table)'
  BY <1>2 DEF Sorted
<1>7. \A e \in Range(table) : e.obj \in Object /\ e.obj # o
  BY <1>1, TableEntries, RegistryAssumption DEF TableKept
<1>8. TableKept'
  BY <1>2, <1>4, <1>7 DEF TableKept
<1>9. \A p \in Object : Kept(p) \/ Pending(Removing(p)) => p # o /\ kind'[p] = kind[p]
  BY <1>1, <1>4, DeviceTypes DEF Kept, Leaving
<1>10. Placed'
  <2>1. \A p \in Object : kind'[p] # Null /\ p \notin late' =>
          ((\E e \in Range(table') : e.obj = p) <=> Adding(p) \notin Range(changes'))
    BY <1>2, <1>5 DEF Placed, InTable, Pending
  <2>2. \A p \in Object : Adding(p) \in Range(changes') =>
          kind'[p] # Null /\ p \notin late' /\ kind'[p] \notin OwnType
    BY <1>2, <1>5, <1>9 DEF Placed, Pending
  <2>3. QED BY <2>1, <2>2 DEF Placed, Kept, InTable, Pending
<1>11. DOMAIN sensor' = DOMAIN sensor /\ \A e \in DOMAIN sensor : sensor'[e] = IF e = d THEN o ELSE sensor[e]
  BY <1>2
<1>12. Leaving'
  <2>1. \A p \in Object : Pending(Removing(p)) =>
          /\ \E e \in Device : kind'[p] = TypeOf[e]
          /\ \A e \in DOMAIN sensor' : TypeOf[e] # kind'[p]
    BY <1>9, <1>11 DEF Leaving
  <2>2. \A p, q \in Object :
          Pending(Removing(p)) /\ Pending(Removing(q)) /\ kind'[p] = kind'[q] => p = q
    BY <1>9 DEF Leaving
  <2>3. QED BY <1>2, <2>1, <2>2 DEF Leaving, Pending
<1>13. Owned'
  <2>1. ASSUME NEW e \in DOMAIN sensor', sensor'[e] # Null
        PROVE  kind'[sensor'[e]] = TypeOf[e]
    <3>1. CASE e = d
      BY <1>4, <1>11, <3>1
    <3>2. CASE e # d
      BY <1>1, <1>4, <1>11, <2>1, <3>2, DeviceTypes DEF Owned, DevicesOK
    <3>3. QED BY <3>1, <3>2
  <2>2. ASSUME NEW p \in Object, kind'[p] # Null, p \notin late', kind'[p] \notin OwnType
        PROVE  (\E e \in DOMAIN sensor' : sensor'[e] = p) \/ Removing(p) \in Range(changes')
    <3>1. Kept(p) /\ kind[p] \notin OwnType
      BY <1>5, <1>9, <2>2
    <3>2. CASE Pending(Removing(p))
      BY <1>2, <3>2 DEF Pending
    <3>3. CASE \E e \in DOMAIN sensor : sensor[e] = p
      <4>1. PICK e \in DOMAIN sensor : sensor[e] = p
        BY <3>3
      <4>2. e # d
        BY <1>2, <4>1, RegistryAssumption
      <4>3. QED BY <1>11, <4>1, <4>2
    <3>4. QED BY <3>1, <3>2, <3>3 DEF Owned
  <2>3. QED BY <2>1, <2>2 DEF Owned, Kept, Pending
<1>14. FoundLate'
  BY <1>2, <1>4 DEF FoundLate
<1>15. BeforeStart'
  BY <1>2 DEF BeforeStart
<1>16. Announced'
  <2>1. InOrder(changes, stopped')
    BY <1>2, FewerStopped DEF Announced
  <2>2. InOrder(changes, stopped)'
    BY <1>2, <2>1 DEF InOrder
  <2>3. QED BY <1>2, <2>2 DEF Announced, Pending
<1>17. Silenced'
  BY <1>2 DEF Silenced, Pending
<1>18. QED
  BY <1>4, <1>6, <1>8, <1>10, <1>12, <1>13, <1>14, <1>15, <1>16, <1>17 DEF Core

LEMMA StartKeeps ==
  ASSUME IInv, Start
  PROVE  Core'
<1> USE Facts
<1>1. /\ table' = table /\ changes' = changes /\ running' = TRUE /\ kind' = kind
      /\ global' = global /\ sensor' = sensor /\ inSim' = inSim /\ late' = late
      /\ stopped' = stopped
  BY DEF Start, heapVars, historyVars
<1>2. Sorted(table)' /\ TableKept' /\ GlobalLeads' /\ Placed' /\ Leaving' /\ Owned'
  BY <1>1 DEF Sorted, TableKept, GlobalLeads, Placed, Leaving, Owned, Kept, InTable, Pending
<1>3. FoundLate' /\ BeforeStart' /\ Announced' /\ Silenced'
  BY <1>1 DEF FoundLate, BeforeStart, Announced, Silenced, InOrder, Pending
<1>4. QED BY <1>2, <1>3 DEF Core

\* The registry drops and deletes a kept sensor.
LEMMA Dropped ==
  ASSUME IInv, NEW o \in Object, InTable(o), RemoveSensor(o), late' = late
  PROVE  /\ Sorted(table)' /\ TableKept' /\ GlobalLeads' /\ FoundLate'
         /\ Kept(o) /\ Range(table') = {e \in Range(table) : e.obj # o}
         /\ \A p \in Object : kind'[p] = IF p = o THEN Null ELSE kind[p]
<1> USE Facts
<1>1. /\ Sorted(table)' /\ Range(table') = {e \in Range(table) : e.obj # o}
      /\ kind[o] \in Type
      /\ kind' = [kind EXCEPT ![o] = Null] /\ global' = [global EXCEPT ![kind[o]] = Null]
  BY RemoveSensorKept
<1>2. \A p \in Object : kind'[p] = IF p = o THEN Null ELSE kind[p]
  BY <1>1 DEF HeapOK
<1>3. \A t \in Type : global'[t] = IF t = kind[o] THEN Null ELSE global[t]
  BY <1>1 DEF HeapOK
<1>4. Kept(o)
  BY <1>1, TableEntries, RegistryAssumption DEF Kept, InTable, TableKept
<1>5. TableKept'
  BY <1>1, <1>2, TableEntries DEF TableKept
<1>6. GlobalLeads'
  <2>1. ASSUME NEW p \in Object, kind'[p] # Null, p \notin late'
        PROVE  global'[kind'[p]] = p
    <3>1. p # o /\ Kept(p) /\ kind'[p] = kind[p] /\ kind[p] \in Type
      BY <1>2, <2>1 DEF Kept, HeapOK
    <3>2. kind[p] # kind[o] /\ global[kind[p]] = p
      BY <1>4, <3>1 DEF GlobalLeads
    <3>3. QED BY <1>3, <3>1, <3>2
  <2>2. ASSUME NEW t \in Type, global'[t] # Null
        PROVE  kind'[global'[t]] = t
    <3>1. t # kind[o] /\ global'[t] = global[t] /\ global[t] \in Object /\ kind[global[t]] = t
      BY <1>3, <2>2 DEF HeapOK, GlobalLeads
    <3>2. QED BY <1>2, <3>1
  <2>3. QED BY <2>1, <2>2 DEF GlobalLeads, Kept
<1>7. FoundLate'
  BY <1>2, <1>4 DEF FoundLate, Kept
<1>8. QED BY <1>1, <1>2, <1>4, <1>5, <1>6, <1>7

LEMMA RemoveDeviceKeeps ==
  ASSUME OneDevicePerType, EnoughRoom, IInv, NEW d \in Device, RemoveDevice(d)
  PROVE  Core'
<1> USE Facts
<1>1. /\ d \in DOMAIN sensor /\ sensor' = [e \in DOMAIN sensor \ {d} |-> sensor[e]]
      /\ running' = running /\ inSim' = inSim /\ late' = late /\ stopped' = stopped
  BY DEF RemoveDevice, historyVars
<1>2. /\ DOMAIN sensor' = DOMAIN sensor \ {d}
      /\ \A e \in DOMAIN sensor' : sensor'[e] = sensor[e] /\ e \in DOMAIN sensor /\ e \in Device
  BY <1>1 DEF DevicesOK
<1>3. CASE sensor[d] = Null
  <2>1. UNCHANGED <<table, changes, heapVars>>
    BY <1>3 DEF RemoveDevice
  <2>2. UNCHANGED <<registryVars, heapVars, inSim, historyVars>>
    BY <1>1, <2>1 DEF registryVars, historyVars
  <2>3. kind' = kind /\ changes' = changes /\ late' = late
    BY <1>1, <2>1 DEF heapVars
  <2>4. Leaving'
    BY <1>2, <2>3 DEF Leaving, Pending
  <2>5. Owned'
    <3>1. ASSUME NEW p \in Object, Kept(p), kind[p] \notin OwnType
          PROVE  (\E e \in DOMAIN sensor' : sensor'[e] = p) \/ Pending(Removing(p))
      BY <1>2, <1>3, <3>1, RegistryAssumption DEF Owned
    <3>2. QED BY <1>2, <2>3, <3>1 DEF Owned, Kept, Pending
  <2>6. QED BY <2>2, <2>4, <2>5, HeapUntouched
<1>4. CASE sensor[d] # Null
  <2>1. PICK o \in Object : o = sensor[d] /\ DeregisterSensor(o)
    BY <1>1, <1>4 DEF RemoveDevice, DevicesOK
  <2>2. kind[o] = TypeOf[d] /\ d \in Device
    BY <1>1, <1>4, <2>1 DEF Owned
  <2>3. \A e \in DOMAIN sensor' : TypeOf[e] # kind[o]
    BY <1>2, <2>2 DEF OneDevicePerType
  <2>4. \A e \in DOMAIN sensor' : sensor'[e] # Null => sensor'[e] \in Object /\ sensor'[e] # o
    BY <1>2, <2>3 DEF DevicesOK, Owned
  <2>5. ASSUME NEW p \in Object, Kept(p), kind[p] \notin OwnType, p # o
        PROVE  (\E e \in DOMAIN sensor' : sensor'[e] = p) \/ Pending(Removing(p))
    BY <1>2, <2>1, <2>5 DEF Owned
  <2>6. CASE running
    <3>1. changes' = Queued(Removing(o)) /\ table' = table /\ kind' = kind /\ global' = global
      BY <2>1, <2>6 DEF DeregisterSensor, heapVars
    <3>2. Removing(o) \in Change
      BY ChangeTyped
    <3>3. \A p \in Object : Pending(Removing(p)) => kind[p] # kind[o]
      BY <1>1, <2>2 DEF Leaving
    <3>4. ~Pending(Removing(o))
      BY <3>3
    <3>5. InOrder(Append(changes, Removing(o)), stopped)
      <4>1. Removing(o) # Simulating /\ \A p \in Object : Removing(o) # Adding(p)
        BY ChangesApart
      <4>2. QED BY <3>2, <3>4, <4>1, AppendInOrder DEF QueueOK, Announced, Pending
    <3>6. changes' = Append(changes, Removing(o))
      <4>1. ASSUME NEW p \in Object, Pending(Adding(p))
            PROVE  \E e \in Device : kind[p] = TypeOf[e]
        <5>1. Kept(p) /\ kind[p] \notin OwnType
          BY <4>1 DEF Placed
        <5>2. CASE Pending(Removing(p))
          BY <5>2 DEF Leaving
        <5>3. CASE \E e \in DOMAIN sensor : sensor[e] = p
          BY <5>3, RegistryAssumption DEF Owned, DevicesOK
        <5>4. QED BY <5>1, <5>2, <5>3 DEF Owned
      <4>2. \A p \in Object :
              Pending(Adding(p)) \/ Pending(Removing(p)) \/ Removing(o) = Adding(p) \/ Removing(o) = Removing(p) =>
                \E e \in Device : kind[p] = TypeOf[e]
        BY <2>2, <4>1, ChangesApart DEF Leaving
      <4>3. ASSUME NEW p \in Object, NEW q \in Object, kind[p] = kind[q],
                   Pending(Adding(p)) \/ Removing(o) = Adding(p),
                   Pending(Adding(q)) \/ Removing(o) = Adding(q)
            PROVE  p = q
        <5>1. Kept(p) /\ Kept(q)
          BY <4>3, ChangesApart DEF Placed
        <5>2. QED BY <4>3, <5>1 DEF GlobalLeads
      <4>4. ASSUME NEW p \in Object, NEW q \in Object, kind[p] = kind[q],
                   Pending(Removing(p)) \/ Removing(o) = Removing(p),
                   Pending(Removing(q)) \/ Removing(o) = Removing(q)
            PROVE  p = q
        BY <3>3, <4>4, ChangesApart DEF Leaving
      <4>5. Queued(Removing(o)) = Append(changes, Removing(o))
        BY <3>2, <3>5, <4>2, <4>3, <4>4, RoomForChange
      <4>6. QED BY <3>1, <4>5
    <3>7. \A c : c \in Range(changes') <=> Pending(c) \/ c = Removing(o)
      BY <3>2, <3>6, Appended DEF QueueOK, Pending
    <3>8. Sorted(table)' /\ TableKept' /\ GlobalLeads' /\ FoundLate'
      BY <1>1, <3>1 DEF Sorted, TableKept, GlobalLeads, FoundLate, Kept
    <3>9. Placed'
      <4>1. \A p : Adding(p) \in Range(changes') <=> Pending(Adding(p))
        BY <3>7, ChangesApart
      <4>2. QED BY <1>1, <3>1, <4>1 DEF Placed, Kept, InTable, Pending
    <3>10. \A p \in Object : Removing(p) \in Range(changes') <=> Pending(Removing(p)) \/ p = o
      BY <3>7, ChangesApart
    <3>11. Leaving'
      <4>1. \A p \in Object : Pending(Removing(p)) \/ p = o =>
              /\ \E e \in Device : kind[p] = TypeOf[e]
              /\ \A e \in DOMAIN sensor' : TypeOf[e] # kind[p]
        BY <1>2, <2>2, <2>3 DEF Leaving
      <4>2. \A p, q \in Object :
              /\ Pending(Removing(p)) \/ p = o
              /\ Pending(Removing(q)) \/ q = o
              /\ kind[p] = kind[q]
              => p = q
        BY <3>3 DEF Leaving
      <4>3. QED BY <3>1, <3>10, <4>1, <4>2 DEF Leaving, Pending
    <3>12. Owned'
      <4>1. \A e \in DOMAIN sensor' : sensor'[e] # Null => kind[sensor'[e]] = TypeOf[e]
        BY <1>2 DEF Owned
      <4>2. \A p \in Object : Kept(p) /\ kind[p] \notin OwnType =>
              (\E e \in DOMAIN sensor' : sensor'[e] = p) \/ Removing(p) \in Range(changes')
        BY <2>5, <3>10
      <4>3. QED BY <1>1, <3>1, <4>1, <4>2 DEF Owned, Kept, Pending
    <3>13. BeforeStart'
      BY <1>1, <2>6 DEF BeforeStart
    <3>14. Simulating \in Range(changes') <=> Pending(Simulating)
      BY <3>7, ChangesApart
    <3>15. Announced'
      <4>1. InOrder(changes', stopped')
        BY <1>1, <3>5, <3>6
      <4>2. InOrder(changes, stopped)'
        BY <4>1 DEF InOrder
      <4>3. QED BY <1>1, <3>14, <4>2 DEF Announced, Pending
    <3>16. Silenced'
      BY <1>1, <3>1, <3>14 DEF Silenced, Pending
    <3>17. QED BY <3>8, <3>9, <3>11, <3>12, <3>13, <3>15, <3>16 DEF Core
  <2>7. CASE ~running
    <3>1. changes = <<>> /\ late = {} /\ stopped = {}
      BY <2>7 DEF BeforeStart
    <3>2. RemoveSensor(o) /\ changes' = changes
      BY <2>1, <2>7 DEF DeregisterSensor
    <3>3. \A c : ~Pending(c) /\ c \notin Range(changes')
      BY <3>1, <3>2 DEF Pending, Range
    <3>4. Kept(o) /\ InTable(o)
      BY <2>2, <3>1, <3>3, DeviceTypes DEF Kept, Placed
    <3>5. /\ Sorted(table)' /\ TableKept' /\ GlobalLeads' /\ FoundLate'
          /\ Range(table') = {e \in Range(table) : e.obj # o}
          /\ \A p \in Object : kind'[p] = IF p = o THEN Null ELSE kind[p]
      BY <1>1, <3>2, <3>4, Dropped
    <3>6. Placed'
      <4>1. ASSUME NEW p \in Object, kind'[p] # Null, p \notin late'
            PROVE  \E e \in Range(table') : e.obj = p
        BY <1>1, <3>3, <3>5, <4>1 DEF Placed, Kept, InTable
      <4>2. QED BY <3>3, <4>1 DEF Placed, Kept, InTable, Pending
    <3>7. Leaving'
      BY <3>3 DEF Leaving, Pending
    <3>8. Owned'
      <4>1. \A e \in DOMAIN sensor' : sensor'[e] # Null => kind'[sensor'[e]] = TypeOf[e]
        BY <1>2, <2>4, <3>5 DEF Owned
      <4>2. \A p \in Object : kind'[p] # Null /\ p \notin late' /\ kind'[p] \notin OwnType =>
              \E e \in DOMAIN sensor' : sensor'[e] = p
        BY <1>1, <2>5, <3>3, <3>5 DEF Kept
      <4>3. QED BY <4>1, <4>2 DEF Owned, Kept
    <3>9. BeforeStart' /\ Announced' /\ Silenced'
      BY <1>1, <3>1, <3>2, <3>3 DEF BeforeStart, Announced, Silenced, InOrder, Pending
    <3>10. QED BY <3>5, <3>6, <3>7, <3>8, <3>9 DEF Core
  <2>8. QED BY <2>6, <2>7
<1>5. QED BY <1>3, <1>4

LEMMA EnterSimKeeps ==
  ASSUME EnoughRoom, IInv, EnterSim
  PROVE  Core'
<1> USE Facts
<1>1. /\ ~inSim /\ inSim' = TRUE /\ table' = table /\ running' = running /\ kind' = kind
      /\ global' = global /\ sensor' = sensor /\ late' = late
      /\ changes' = IF running THEN Queued(Simulating) ELSE changes
      /\ changes' = changes => stopped' = {}
  BY DEF EnterSim, heapVars
<1>2. Sorted(table)' /\ TableKept' /\ GlobalLeads' /\ FoundLate'
  BY <1>1 DEF Sorted, TableKept, GlobalLeads, FoundLate, Kept
<1>3. CASE ~running
  <2>1. changes' = changes /\ changes = <<>> /\ late' = {} /\ stopped' = {}
    BY <1>1, <1>3 DEF BeforeStart
  <2>2. Placed' /\ Leaving' /\ Owned'
    BY <1>1, <2>1 DEF Placed, Leaving, Owned, Kept, InTable, Pending
  <2>3. \A c : c \notin Range(changes')
    BY <2>1 DEF Range
  <2>4. BeforeStart' /\ Announced' /\ Silenced'
    BY <1>1, <2>1, <2>3 DEF BeforeStart, Announced, Silenced, InOrder, Pending
  <2>5. QED BY <1>2, <2>2, <2>4 DEF Core
<1>4. CASE running
  <2>1. Simulating \in Change /\ ~Pending(Simulating)
    BY <1>1, ChangeTyped DEF Announced
  <2>2. InOrder(Append(changes, Simulating), stopped')
    <3>1. \A p \in Object : Simulating # Adding(p)
      BY ChangesApart
    <3>2. QED BY <2>1, <3>1, AppendInOrder DEF QueueOK, Announced, Pending
  <2>3. changes' = Append(changes, Simulating)
    <3>1. ASSUME NEW p \in Object, Pending(Adding(p))
          PROVE  \E e \in Device : kind[p] = TypeOf[e]
      <4>1. Kept(p) /\ kind[p] \notin OwnType
        BY <3>1 DEF Placed
      <4>2. CASE Pending(Removing(p))
        BY <4>2 DEF Leaving
      <4>3. CASE \E e \in DOMAIN sensor : sensor[e] = p
        BY <4>3, RegistryAssumption DEF Owned, DevicesOK
      <4>4. QED BY <4>1, <4>2, <4>3 DEF Owned
    <3>2. \A p \in Object :
            Pending(Adding(p)) \/ Pending(Removing(p)) \/ Simulating = Adding(p) \/ Simulating = Removing(p) =>
              \E e \in Device : kind[p] = TypeOf[e]
      BY <3>1, ChangesApart DEF Leaving
    <3>3. ASSUME NEW p \in Object, NEW q \in Object, kind[p] = kind[q],
                 Pending(Adding(p)) \/ Simulating = Adding(p),
                 Pending(Adding(q)) \/ Simulating = Adding(q)
          PROVE  p = q
      <4>1. Kept(p) /\ Kept(q)
        BY <3>3, ChangesApart DEF Placed
      <4>2. QED BY <3>3, <4>1 DEF GlobalLeads
    <3>4. ASSUME NEW p \in Object, NEW q \in Object, kind[p] = kind[q],
                 Pending(Removing(p)) \/ Simulating = Removing(p),
                 Pending(Removing(q)) \/ Simulating = Removing(q)
          PROVE  p = q
      BY <3>4, ChangesApart DEF Leaving
    <3>5. Queued(Simulating) = Append(changes, Simulating)
      BY <2>1, <2>2, <3>2, <3>3, <3>4, RoomForChange
    <3>6. QED BY <1>1, <1>4, <3>5
  <2>4. \A c : c \in Range(changes') <=> Pending(c) \/ c = Simulating
    BY <2>1, <2>3, Appended DEF QueueOK, Pending
  <2>5. \A p : /\ Adding(p) \in Range(changes') <=> Pending(Adding(p))
               /\ Removing(p) \in Range(changes') <=> Pending(Removing(p))
    BY <2>4, ChangesApart
  <2>6. Placed' /\ Leaving' /\ Owned'
    <3>1. Placed'
      BY <1>1, <2>5 DEF Placed, Kept, InTable, Pending
    <3>2. Leaving'
      BY <1>1, <2>5 DEF Leaving, Pending
    <3>3. Owned'
      BY <1>1, <2>5 DEF Owned, Kept, Pending
    <3>4. QED BY <3>1, <3>2, <3>3
  <2>7. BeforeStart' /\ Silenced'
    BY <1>1, <1>4, <2>4 DEF BeforeStart, Silenced, Pending
  <2>8. Announced'
    <3>1. InOrder(changes', stopped')
      BY <2>2, <2>3
    <3>2. InOrder(changes, stopped)'
      BY <3>1 DEF InOrder
    <3>3. QED BY <1>1, <3>2 DEF Announced
  <2>9. QED BY <1>2, <2>6, <2>7, <2>8 DEF Core
<1>5. QED BY <1>3, <1>4

LEMMA ApplyChangeKeeps ==
  ASSUME EnoughRoom, IInv, ApplyChange
  PROVE  Core'
<1> USE Facts
<1>1. /\ changes # <<>> /\ changes' = Tail(changes) /\ running' = running /\ sensor' = sensor
      /\ inSim' = inSim /\ late' = late /\ stopped' = stopped
  BY DEF ApplyChange, historyVars
<1>2. running /\ BeforeStart'
  BY <1>1 DEF BeforeStart
<1> DEFINE h == Head(changes)
<1>3. /\ InOrder(changes', stopped)
      /\ Pending(h) /\ Range(changes') = Range(changes) \ {h}
      /\ \A o \in Object : h = Removing(o) => ~Pending(Adding(o))
      /\ \A o \in stopped : h = Simulating => ~Pending(Adding(o))
      /\ \A o \in stopped : h = Adding(o) => Simulating \in Range(changes')
  BY <1>1, TailInOrder DEF QueueOK, Announced, Pending
<1>4. \/ \E o \in Object : \E ty \in IdOf(o, kind) :
           h = Adding(o) /\ AddSensor(o, ty, kind, global)
      \/ \E o \in Object : h = Removing(o) /\ RemoveSensor(o)
      \/ h = Simulating /\ table' = Simulated /\ UNCHANGED heapVars
  BY Applied DEF QueueOK
<1> HIDE DEF h
<1>5. \A c : c \in Range(changes') <=> Pending(c) /\ c # h
  BY <1>3 DEF Pending
<1>6. InOrder(changes, stopped)'
  BY <1>1, <1>3 DEF InOrder
<1>7. Announced'
  BY <1>1, <1>5, <1>6 DEF Announced, Pending
<1>8. ASSUME NEW o \in Object, NEW ty \in IdOf(o, kind), h = Adding(o),
             AddSensor(o, ty, kind, global)
      PROVE  Core'
  <2>1. Kept(o) /\ ~InTable(o) /\ ty = kind[o] /\ ty \in Type
    BY <1>3, <1>8 DEF Placed, Kept, IdOf, HeapOK
  <2>2. \A e \in Range(table) : e.type # ty
    <3>1. \A e \in Range(table) : e.obj \in Object /\ Kept(e.obj) /\ kind[e.obj] = e.type
      BY TableEntries, RegistryAssumption DEF Kept, TableKept
    <3>2. QED BY <2>1, <3>1 DEF InTable, GlobalLeads
  <2>3. /\ Sorted(table)' /\ Range(table') = Range(table) \cup {EntryFor(o, ty)}
        /\ kind' = kind /\ global' = global
    BY <1>8, <2>1, <2>2, AddSensorNew DEF HeapOK
  <2>4. EntryFor(o, ty).obj = o /\ EntryFor(o, ty).type = ty
    BY <2>1, EntryTyped
  <2>5. TableKept' /\ GlobalLeads' /\ FoundLate'
    BY <1>1, <2>1, <2>3, <2>4 DEF TableKept, GlobalLeads, FoundLate, Kept
  <2>6. \A p : /\ Adding(p) \in Range(changes') <=> Pending(Adding(p)) /\ p # o
               /\ Removing(p) \in Range(changes') <=> Pending(Removing(p))
    BY <1>5, <1>8, ChangesApart
  <2>7. Placed'
    <3>1. ASSUME NEW p \in Object, Kept(p)
          PROVE  (\E e \in Range(table') : e.obj = p) <=> Adding(p) \notin Range(changes')
      BY <2>3, <2>4, <2>6, <3>1 DEF Placed, InTable
    <3>2. QED BY <1>1, <2>3, <2>6, <3>1 DEF Placed, Kept, InTable, Pending
  <2>8. Leaving'
    BY <1>1, <2>3, <2>6 DEF Leaving, Pending
  <2>9. Owned'
    BY <1>1, <2>3, <2>6 DEF Owned, Kept, Pending
  <2>10. Silenced'
    <3>1. Simulating \in Range(changes') <=> Pending(Simulating)
      BY <1>5, <1>8, ChangesApart
    <3>2. o \in stopped => Simulating \in Range(changes')
      BY <1>3, <1>8
    <3>3. QED BY <1>1, <2>3, <2>4, <3>1, <3>2 DEF Silenced, Pending
  <2>11. QED BY <1>2, <1>7, <2>3, <2>5, <2>7, <2>8, <2>9, <2>10 DEF Core
<1>9. ASSUME NEW o \in Object, h = Removing(o), RemoveSensor(o)
      PROVE  Core'
  <2>1. \A p : /\ Adding(p) \in Range(changes') <=> Pending(Adding(p))
               /\ Removing(p) \in Range(changes') <=> Pending(Removing(p)) /\ p # o
    BY <1>5, <1>9, ChangesApart
  <2>2. Simulating \in Range(changes') <=> Pending(Simulating)
    BY <1>5, <1>9, ChangesApart
  <2>3. Pending(Removing(o)) /\ ~Pending(Adding(o))
    BY <1>3, <1>9
  <2>4. CASE InTable(o)
    <3>1. /\ Sorted(table)' /\ TableKept' /\ GlobalLeads' /\ FoundLate'
          /\ Kept(o) /\ Range(table') = {e \in Range(table) : e.obj # o}
          /\ \A p \in Object : kind'[p] = IF p = o THEN Null ELSE kind[p]
      BY <1>1, <1>9, <2>4, Dropped
    <3>2. Placed'
      <4>1. ASSUME NEW p \in Object, kind'[p] # Null, p \notin late'
            PROVE  (\E e \in Range(table') : e.obj = p) <=> Adding(p) \notin Range(changes')
        BY <1>1, <2>1, <3>1, <4>1 DEF Placed, Kept, InTable
      <4>2. ASSUME NEW p \in Object, Adding(p) \in Range(changes')
            PROVE  kind'[p] # Null /\ p \notin late' /\ kind'[p] \notin OwnType
        BY <1>1, <2>1, <2>3, <3>1, <4>2 DEF Placed, Kept
      <4>3. QED BY <4>1, <4>2 DEF Placed, Kept, InTable, Pending
    <3>3. Leaving'
      <4>1. \A p \in Object : Removing(p) \in Range(changes') => Pending(Removing(p)) /\ kind'[p] = kind[p]
        BY <2>1, <3>1
      <4>2. QED BY <1>1, <4>1 DEF Leaving, Pending
    <3>4. Owned'
      <4>1. \A d \in DOMAIN sensor : sensor[d] # Null => sensor[d] \in Object /\ sensor[d] # o
        BY <2>3 DEF Owned, Leaving, DevicesOK
      <4>2. \A d \in DOMAIN sensor' : sensor'[d] # Null => kind'[sensor'[d]] = TypeOf[d]
        BY <1>1, <3>1, <4>1 DEF Owned
      <4>3. \A p \in Object : kind'[p] # Null /\ p \notin late' /\ kind'[p] \notin OwnType =>
              (\E d \in DOMAIN sensor' : sensor'[d] = p) \/ Removing(p) \in Range(changes')
        BY <1>1, <2>1, <3>1 DEF Owned, Kept
      <4>4. QED BY <4>2, <4>3 DEF Owned, Kept, Pending
    <3>5. Silenced'
      BY <1>1, <2>2, <3>1 DEF Silenced, Pending
    <3>6. QED BY <1>2, <1>7, <3>1, <3>2, <3>3, <3>4, <3>5 DEF Core
  <2>5. CASE ~InTable(o)
    <3>1. table' = table /\ kind' = kind /\ global' = global
      BY <1>9, <2>5, RegisteredInTable DEF RemoveSensor, heapVars, TableOK
    <3>2. ~Kept(o)
      BY <2>3, <2>5 DEF Placed
    <3>3. Sorted(table)' /\ TableKept' /\ GlobalLeads' /\ FoundLate'
      BY <1>1, <3>1 DEF Sorted, TableKept, GlobalLeads, FoundLate, Kept
    <3>4. Placed'
      BY <1>1, <2>1, <3>1 DEF Placed, Kept, InTable, Pending
    <3>5. Leaving'
      BY <1>1, <2>1, <3>1 DEF Leaving, Pending
    <3>6. Owned'
      BY <1>1, <2>1, <3>1, <3>2 DEF Owned, Kept, Pending
    <3>7. Silenced'
      BY <1>1, <2>2, <3>1 DEF Silenced, Pending
    <3>8. QED BY <1>2, <1>7, <3>3, <3>4, <3>5, <3>6, <3>7 DEF Core
  <2>6. QED BY <2>4, <2>5
<1>10. ASSUME h = Simulating, table' = Simulated, UNCHANGED heapVars
       PROVE  Core'
  <2>1. kind' = kind /\ global' = global
    BY <1>10 DEF heapVars
  <2>2. /\ Sorted(table')
        /\ \A e \in Range(table') :
             /\ \E f \in Range(table) : f.obj = e.obj /\ f.type = e.type
             /\ e.local => e.type \in Essential
        /\ \A f \in Range(table) : \E e \in Range(table') : f.obj = e.obj
    BY <1>10, SimulatedSorted
  <2>3. Sorted(table)'
    BY <2>2 DEF Sorted
  <2>4. TableKept' /\ GlobalLeads' /\ FoundLate'
    BY <1>1, <2>1, <2>2 DEF TableKept, GlobalLeads, FoundLate, Kept
  <2>5. \A p : /\ Adding(p) \in Range(changes') <=> Pending(Adding(p))
               /\ Removing(p) \in Range(changes') <=> Pending(Removing(p))
    BY <1>5, <1>10, ChangesApart
  <2>6. \A p : (\E e \in Range(table') : e.obj = p) <=> InTable(p)
    BY <2>2 DEF InTable
  <2>7. Placed'
    BY <1>1, <2>1, <2>5, <2>6 DEF Placed, Kept, InTable, Pending
  <2>8. Leaving'
    BY <1>1, <2>1, <2>5 DEF Leaving, Pending
  <2>9. Owned'
    BY <1>1, <2>1, <2>5 DEF Owned, Kept, Pending
  <2>10. Silenced'
    BY <2>2 DEF Silenced
  <2>11. QED BY <1>2, <1>7, <2>3, <2>4, <2>7, <2>8, <2>9, <2>10 DEF Core
<1>11. QED BY <1>4, <1>8, <1>9, <1>10

-----------------------------------------------------------------------------
(* The properties.                                                         *)

LEMMA CoreStep ==
  ASSUME OneDevicePerType, EnoughRoom, IInv, [Next]_vars
  PROVE  Core'
<1>1. CASE UNCHANGED vars
  <2>1. UNCHANGED <<registryVars, heapVars, inSim, historyVars>> /\ sensor' = sensor
    BY <1>1 DEF vars
  <2>2. Leaving' /\ Owned'
    BY <2>1, Facts DEF Leaving, Owned, Kept, Pending, registryVars, heapVars, historyVars
  <2>3. QED BY <2>1, <2>2, HeapUntouched
<1>2. ASSUME NEW ty \in OwnType, RegisterOwn(ty) PROVE Core'
  BY <1>2, RegisterOwnKeeps
<1>3. ASSUME NEW d \in Device, AddDevice(d) PROVE Core'
  BY <1>3, AddDeviceKeeps
<1>4. ASSUME NEW d \in Device, AddWithoutSensor(d) PROVE Core'
  BY <1>4, AddWithoutSensorKeeps
<1>5. ASSUME NEW d \in Device, RemoveDevice(d) PROVE Core'
  BY <1>5, RemoveDeviceKeeps
<1>6. ASSUME NEW d \in Device, ProbeLate(d) PROVE Core'
  BY <1>6, ProbeLateKeeps
<1>7. CASE Start
  BY <1>7, StartKeeps
<1>8. CASE EnterSim
  BY <1>8, EnterSimKeeps
<1>9. CASE ApplyChange
  BY <1>9, ApplyChangeKeeps
<1>10. QED
  BY <1>1, <1>2, <1>3, <1>4, <1>5, <1>6, <1>7, <1>8, <1>9 DEF Next

LEMMA Invariant ==
  ASSUME OneDevicePerType, EnoughRoom
  PROVE  Spec => []IInv
<1>1. Init => IInv
  BY TypeInit, InitCore DEF IInv
<1>2. IInv /\ [Next]_vars => IInv'
  <2> SUFFICES ASSUME IInv, [Next]_vars PROVE TypeOK' /\ Core'
    BY DEF IInv
  <2>1. TypeOK'
    BY TypeStep DEF IInv
  <2>2. QED BY <2>1, CoreStep
<1>3. QED BY <1>1, <1>2, PTL DEF Spec

\* The loop never reads a deleted sensor, nor one under another type, however
\* devices come and go: each type has one device (SensorBase.cpp).
THEOREM NoDeletedSensorRead ==
  ASSUME OneDevicePerType, EnoughRoom
  PROVE  Spec => []EntriesAlive
<1>1. IInv => EntriesAlive
  BY Facts, Elements DEF EntriesAlive, TableKept, TableOK
<1>2. QED BY <1>1, Invariant, PTL

\* The loop reads by priority, one sensor of a type, and that is the one the
\* users of the type find (SensorMgr.cpp's addSensor).
THEOREM TableIsSound ==
  ASSUME OneDevicePerType, EnoughRoom
  PROVE  Spec => []TableSound
<1>1. ASSUME IInv PROVE TableSound
  <2>1. \A e \in Range(table) : e.type \in Type /\ e.obj \in Object /\ Kept(e.obj) /\ kind[e.obj] = e.type
    BY <1>1, Facts, TableEntries, RegistryAssumption DEF Kept, TableKept
  <2>2. \A e \in Range(table) : global[e.type] = e.obj
    BY <1>1, <2>1, Facts DEF GlobalLeads
  <2>3. \A i \in DOMAIN table : global[table[i].type] = table[i].obj
    BY <1>1, <2>2, Facts, Elements DEF TableOK
  <2>4. QED BY <1>1, <2>3, Facts DEF TableSound, Sorted
<1>2. QED BY <1>1, Invariant, PTL

\* No device's sensor is turned away by a full table or queue, or taken out
\* under the device by a change still pending (registerSensor, whose result
\* addDevice ignores).
THEOREM DevicesAreServed ==
  ASSUME OneDevicePerType, EnoughRoom
  PROVE  Spec => []DeviceSensorsServed
<1>1. ASSUME IInv, NEW d \in DOMAIN sensor, sensor[d] \notin late \cup {Null}
      PROVE  /\ Registered(sensor[d]) \/ Pending(Adding(sensor[d]))
             /\ ~Pending(Removing(sensor[d]))
  <2>1. d \in Device /\ sensor[d] \in Object /\ kind[sensor[d]] = TypeOf[d]
    BY <1>1, Facts DEF DevicesOK, Owned
  <2>2. Kept(sensor[d])
    BY <1>1, <2>1, DeviceTypes DEF Kept
  <2>3. InTable(sensor[d]) \/ Pending(Adding(sensor[d]))
    BY <1>1, <2>1, <2>2, Facts DEF Placed
  <2>4. ~Pending(Removing(sensor[d]))
    BY <1>1, <2>1, Facts DEF Leaving
  <2>5. QED BY <1>1, <2>3, <2>4, Facts, RegisteredInTable DEF TableOK
<1>2. IInv => DeviceSensorsServed
  BY <1>1 DEF DeviceSensorsServed
<1>3. QED BY <1>2, Invariant, PTL

\* Every object is in the table, about to get there, or was found late: the
\* registry forgets none (removeSensor, removeDevice).
THEOREM NothingLeaked ==
  ASSUME OneDevicePerType, EnoughRoom
  PROVE  Spec => []NoneLeaked
<1>1. ASSUME IInv, NEW o \in Object, kind[o] # Null
      PROVE  Registered(o) \/ Pending(Adding(o)) \/ o \in late
  BY <1>1, Facts, RegisteredInTable DEF Placed, Kept, TableOK
<1>2. IInv => NoneLeaked
  BY <1>1 DEF NoneLeaked
<1>3. QED BY <1>2, Invariant, PTL

\* Once the loop has taken up the change to simulation it reads no sensor that
\* was there before, the essential ones excepted (goSimMode).
THEOREM SimulationIsQuiet ==
  ASSUME OneDevicePerType, EnoughRoom
  PROVE  Spec => []SimulationStopsReads
<1>1. IInv => SimulationStopsReads
  BY Facts, Elements DEF SimulationStopsReads, Silenced, TableOK
<1>2. QED BY <1>1, Invariant, PTL
=============================================================================
