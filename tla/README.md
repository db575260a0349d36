# XCVario Pure: specifications, model checking and proofs

This directory holds TLA+ specifications of the concurrent core of the XCVario
Pure firmware (`src/main`), small instances of them for TLC, and theorems about
them checked by TLAPS. The firmware runs FreeRTOS tasks on an ESP32: a sensor
loop, one receiver task per interface, a single transmit task, a timer
call-back, the display/menu task, the web server. They share objects, talk
through queues, and are protected by mutexes in places only. That sharing, and
what survives a power cycle, is what the specifications are about; signal
processing, drawing and drivers are not.

`PROJECT.json` lists the runs, the definitions with the source lines they
model, the hazards, the findings, and for each checked property a variant of a
definition with a plausible bug that the property detects.

    tlc -workers 2 -config Tx_pieces.cfg MCTransmitter
    tlapm Transmitter_proofs.tla

## 1. Inventory of the system

| Component (source) | State | Operations | Interacts with | Correct when |
|---|---|---|---|---|
| Message pool and transmit task (`comm/Messages`, `comm/DeviceMgr.cpp` 261-351, 1116-1152) | six buffers and a free list, `ItfSendQueue`, the task's deque `later` and `pls_retry` | acquire, send, recycle; receive, send, postpone, retry, give up | every sender; device map; `InterfaceCtrl::Send` | each buffer has one owner; senders never block for ever; a postponed telegram is retried; the telegrams of a target stay whole and in order |
| Interfaces (`SerialLine`, `CanBus`, `BTspp`, `BTnus`, `WifiApSta`) | driver handles, clients, port configuration | `Send`, reception, start/stop, recovery | transmit task (answers), data links (received bytes) | the reported length is what went out |
| Setup items and flash (`setup/SetupCommon`, `setup/SetupNG`, `ESP32NVS`) | value, flags word with `_valid` and `_dirty`, the NVS blob | `set`, `setDefault`, restore, `commit`, `commitDirty`, `factoryReset`, `initSetup` | sensor loop, menu, web server, sync | a change reaches the flash, or is still flagged dirty; the start finds legal values |
| Device manager (`comm/DeviceMgr`) | device map, interface map, route cache, CAN id slots | `addDevice`, `removeDevice`, `getIntf`, `getRouting`, `reserveCANId` | data links, registration, menu, web server | no data link without a device; ids unique |
| Data links (`comm/DataLink`, `comm/InterfaceCtrl`) | protocols of a port, the active one, routes, a table of five links per interface | add/remove protocol, `process`, `goBIN`/`goNMEA`, `doForward` | receiver tasks, removal from the menu | the active protocol is one of the link's; a removed one is not used |
| Setup sync (`protocol/nmea/XCVSyncMsg`, `SetupCommon::sync`, `sensor.cpp` 264-274) | index of the initial pass, "kick" flag | send an item, receive an item, initial request | two instruments over CAN or WiFi | both units end with the same value |
| CAN registration (`CANMasterRegMsg`, `CANClientQueryMsg`, `Capability`) | token, id slots, capability words | query, accept, refuse, restart request | device manager, clock | both ends use the same id pair; no two clients share one |
| Sensor registry (`sensor/SensorMgr`) | table of 14 entries in priority order, change queue of 10 | register, deregister, apply, disable, simulate | sensor loop; device manager | one entry per type; entries own their sensors |
| Clock and monitors (`driver/time`) | set of call-backs, request queue of 10, watch-dog times | start, stop, tick, pet, bark | all timed parts | a stopped call-back is not called again; an alive peer is shown alive |
| Framing (`protocol/NMEA`, `protocol/FlarmBin`) | receive state machine | next bytes | data link | every frame in a stream is found; the buffer is bounded |
| Message box, screens, menus (`screen`, `setup/primitive`) | queue of messages, stack of screens | push, pop, events of the knob | display task | the most important message is shown |
| Flight computation, audio, drivers | numeric state | periodic updates | sensor registry | numeric; outside the method |

Hard behaviours, by kind. *Interleaving without a lock*: items' flags word and
value, `commit` against `set`, the receiver's use of `_active` against removal,
the sync index. *Blocking calls under a lock*: `doForward` sends with the route
mutex taken. *Partial results and retries*: `Send` of each interface.
*Lost or reordered telegrams*: registration, sync. *Restarts*: either unit of a
pair, and power loss during a flash commit. *Limits*: six buffers, queue of
seven, five links, 15 id chunks, 14 sensors, queues of ten. The full list with
source lines is in `PROJECT.json` under `hazards`.

## 2. Modules

The order is by how much of the system depends on a part.

| # | Module | Models | Abstract specification or composition | State |
|---|---|---|---|---|
| 1 | `Transmitter` | buffers, queue and transmit task | implements `TargetFifo` | checked, proved |
| 2 | `SetupStore` | items between RAM and flash | | checked, proved |
| 3 | `SensorRegistry` | sensors of the loop and of devices | | checked, proved |
| 4 | `SetupSync` | the items two units share | uses the order of lines that 1 promises, and the links of 5 | checked, proved |
| 5 | `CANRegistration` | ids, links and capabilities on the CAN bus | composes the clocks of the units, module `Clock` | checked, proved |
| 6 | `FlarmSession` | two data links, their binary parsers and receivers | | checked, proved |

A module `X` has an `MCX` that bounds what users and faults do and gives the
larger constants their values, and one `.cfg` per run. `X_proofs` holds the
theorems. What the life of a data link, the framing and the watch-dogs would
need is said in section 11.

## 3. The transmit path

`Transmitter.tla` follows a telegram from `MessagePool::getOne` (`GetOne`)
through `DEV::Send` (`Send`) and `transmit_task` (`Receive`, `Timeout`, `Drain`,
`Lookup`, `Transmit`, `Pop`) back to the pool.

* A telegram is a number of bytes: `rem` is what the buffer still holds, the
  history variable `sent` what went out. Its content is left out.
* `pc` tells where `transmit_task` is between two calls that other tasks can
  observe: before `xQueueReceive`, at the head of the loop over `later`, before
  and after `getIntf`, and between `relMessage` and `pop_front`, when a buffer
  is in the pool and in the deque at the same time. `fresh` says whether the
  telegram came from the queue or from the deque.
* `retry` abstracts `pls_retry`: 0, positive, negative. `blocked` holds the
  telegrams whose waiting time has not elapsed; `Elapse` is the passing of time.
* `SerialSend`, `CanSend`, `SppSend`, `BleSend`, `WifiSend` give every answer the
  `Send` of that interface can give for `n` bytes: result, reported length and
  bytes that really went out. A chunk of the CAN bus is one byte here.
* `AddDevice` and `RemoveDevice` change the map `getIntf` reads at any time,
  also between the parts of a telegram. Interfaces are not deleted (see 11).
* `acqMessage` polls, `plsMessage` gives up: both are `GetOne` when a buffer is
  there.

`TargetFifo.tla` is what the path promises to a device: its telegrams leave in
the order of submission, each once, and to the address they were submitted with.
`pending` is one sequence of telegrams, and only the oldest of a target may be
retired. The refinement mapping `Pipe` is the telegrams in `later`, in the hands
of the task and in the queue, one behind the other.

| Run | Instance | Shows |
|---|---|---|
| `tx_pieces` | 3 buffers, 2 senders, 2 devices, serial + BT LE, length up to 2 | `OneOwner`, `SendNeverBlocks`, `NoSleepWithPostponed`, `NoGarbledTarget`, `TargetFifoSpec` hold |
| `tx_live` | 2 buffers, 1 sender, CAN + WiFi | `EventuallyRecycled`, `PoolRecovers` hold under `FairSpec` |
| `tx_garbled` | 2 buffers, 2 devices, one BT LE link | `NoGarbledInterface` is violated (finding) |
| `tx_spp` | 2 buffers, one SPP link | `ChoppedIsSent` is violated (finding) |

Bounds. Two bytes with an MTU of one give a telegram a first and a last part,
which is all the retry logic distinguishes. Three buffers allow one partly sent,
one waiting behind it and one for the other target, in every order; two devices
can share one interface or have one each. The queue is as long as the pool plus
one, as in the code. Nothing else is bounded. Symmetry of buffers and senders is
used in the safety runs only: no definition distinguishes them.

Fairness. The transmit task runs when it can (it has priority 21, above the
tasks that send), a sender that acquired a buffer sends it (every caller does so
in straight-line code), and time passes. No sender has to send and no device has
to exist; interfaces may answer anything for ever.

## 4. Setup items and flash

`SetupStore.tla` has a value and a dirty bit per item, and the flash twice: what
`nvs_set_blob` was given (`staged`) and what the last `nvs_commit` made sure
(`flash`). Each task is at a point of one call (`task[t].pc`), with the locals
that matter: the item index, the argument of `set`, the flags word it loaded.

* `set` is three steps (`Set` loads the flags word, `SetStore` writes it back
  with `_valid` and assigns the value, `Mark` sets `_dirty`), because `_valid`
  and `_dirty` are bit-fields of one word.
* `commit` is `Write` (nvs_set_blob, whose failure is ignored), `NvsCommit` or
  `NvsCommitFails`, and `Clear`.
* `commitDirty` scans the items one by one (`Scan`, `ScanDone`), `factoryReset`
  first sets the defaults (`ResetItem`, `ResetDone`), `restoreConfigChanges` sets
  and commits (`Restore`).
* `Init` is the first start, with an empty flash, and `Restart` a power cycle at
  any point: entries that were set and not committed may or may not be in the
  flash. `initSetup` loads what is in the limits and replaces the rest. A default
  that differs from what the item had before (the entry out of the limits, or
  zero, `Fresh`, without one) is flagged (`Replaced`), and all that are flagged
  are committed before any other task runs (`booting`).

`clean` and `lost` are history variables. A commit is clean while `nvs_set_blob`
succeeded and nobody changed the item since; an item is lost when a commit that
is not clean clears its flag, or a stale flags word does. `OnlyRacesLose` says
that these are the only ways to lose a change. What it excludes is as
important as what it admits: a failing `nvs_commit`, interleaved commits of the
same item by two tasks, a reset during a commit and a power cycle lose nothing.

| Run | Instance | Shows |
|---|---|---|
| `store_races` | 2 tasks, one persistent and one volatile item, a legal and an illegal value | `OnlyRacesLose`; under `FairSpec`, `EventuallyCommitted` |
| `store_reset` | the same, two legal values | `ResetTakesHold` is violated (finding) |

Bounds. Two tasks are enough for every race of a pair, and the code has no step
with three parties; one persistent item suffices because items share nothing but
the scan index, and the second, volatile one is never committed, so it stays
dirty and the scans must pass over it.

Fairness. A task in a call goes on; the sensor loop calls `commitDirty` again
and again (every five seconds); `nvs_commit` does not fail the same item for
ever, without which nothing could be promised.

Left out: reading an entry fails (a read error at start takes the default, as a
missing entry does); an entry that is too large is erased; `eraseAll` before a
reboot; the import of items under old keys; the effects of item actions, which
run other components' code.

## 5. Sensors and their registry

`SensorRegistry.tla` has the table the sensor loop iterates over (`table`), the
queue of changes (`changes`, which exists when `running`), the heap of sensor
objects (`kind`), the global pointers `magSensor`, `gpsSensor`, `flapSensor`,
`oatSensor` and so on (`global`), and the devices with their `_sensor`
(`sensor`).

* `AddSensor` and `RemoveSensor` are the private functions of the registry: find
  by type, replace and delete, or insert in the order of priorities; remove and
  delete. `RegisterSensor` and `DeregisterSensor` call them directly until the
  loop has made its queue (`Start`), and queue a change from then on, which
  `ApplyChange` carries out at the end of a cycle, while no entry is read.
* `AddDevice` creates the sensor with the device or finds the one object there is
  (`SensorFor`); `RemoveDevice` includes `~Device`. `AddWithoutSensor` and
  `ProbeLate` are the temperature probe that answers later, or never.
* `ProbeLate` is one step: the look-up of the device in `groupUpdate`, the probe
  and the assignment. A device that is removed in between is left out.
* `EnterSim` is the Flarm simulation command, `Simulated` the cleared flags.
* A deleted sensor's address is used again for the next one created, and the id
  read from a deleted object is any type.

The branch of `addSensor` for a different priority is left out: each type has
one class, with one priority. `late` and `stopped` are history variables.

| Run | Instance | Shows |
|---|---|---|
| `registry_devices` | vario filter, battery, one probed and one permanent device sensor; five objects | `EntriesAlive`, `TableSound`, `DeviceSensorsServed`, `NoneLeaked`, `SimulationStopsReads`; under `FairSpec`, `EventuallyFollows` |
| `registry_shared` | two magnetic sensor devices with one object | `EntriesAlive` is violated (finding) |

Bounds. The table has exactly one place per type, as the firmware's 14 places are
one per `SensorType`, so it is full when everything is there; the queue has two
places per device (a registration and a removal) and one for the simulation,
which the firmware's ten cover for the four devices that bring a sensor today.
Five objects leave room for one leaked temperature sensor. Three different
priorities, with two types sharing one, reach the front, the middle and the end
of the table.

Assumptions. A device is added again only after the loop has dropped its old
sensor (`Settled`, at most 50 ms); otherwise the registration finds the object
that is about to be deleted, which is listed as a hazard. In `registry_devices`
each device has a sensor type of its own.

Fairness. The sensor loop starts, and it applies changes: it runs every 50 ms
and calls `applyChange` in each cycle. Nobody has to add or remove a device.

Left out: how often an entry is read and post-processed, `updateCycleTimes`,
and `disable`, which nothing calls. The readers of the global pointers are
not modelled; `TableSound` says what they find.

## 6. Setup items of two units

`SetupSync.tla` has two units, `master` and `second`. An item set on one is sent
to the other (`Shared`: items for both directions from either, measured ones
from the master). When the second unit comes up, the first item it gets makes it
ask for all (`kick` is `_kick_sync`), and the sensor loop of the master sends
one item per cycle from `idx` (`client_sync_dataIdx`).

`set` sends an item if it finds it flagged dirty, after it has flagged it itself.
The flag is the one `commit` clears, and it shares a word with `_valid`, which
each `set` of the item rewrites. So a call of `set` is four steps, and `call` says
where each is:

* `Load` and `Valid` read and write the word around the change of `_valid`;
  `Change` assigns another value and flags the item; `SendIfDirty` is
  `if ( dosync && getDirty() ) sync()`. Setting an item to the value it has does
  send it, if it is still dirty.
* `Take`, `Valid`, `ReceiveItem` are the same call by the receiver (`"sync"`), for
  the item of a telegram, without sending it back; after the first one the second
  unit asks (`Ask`).
* `Commit` has written the item and `Clear` clears the flag. The menu commits, and
  the sensor loop between its cycles. A volatile item (not in `Stored`) keeps its
  flag for ever.
* `Measure` is the `set` of a measured item by the sensor loop, in one step: no
  other task of the master sets these items, and none is committed.
* `Build` and `Queue` are `sendItem` before and after the point at which the
  telegram is fixed: users send in their own tasks, the sensor loop in its own, so
  two telegrams about one item can be queued in the other order.
* `TakeIndex` and `SyncEntry` are the read and the write of
  `client_sync_dataIdx++`; `ReceiveInit` sets it to 0 in between, in another
  task.
* A unit that restarts (`Restart`) has the stored values, not those it was sent
  last. `Link` is the creation of the sync plug-in, by the registration. A lost
  telegram is one to a unit without its plug-in; the bus and the queue keep the
  order.

`apart` is a history variable: the items for which a named reason lets the units
disagree. The reasons are

1. edits that cross or overtake each other (`Conflict`);
2. an edit whose dirty flag another task takes away before `set` looks at it: a
   commit that is past its write, or a second `set` with the flags word of before
   (`Unflag`). Nothing is sent then, and nothing will be until the item is set to
   another value;
3. a request that arrives while the index is being written back;
4. a telegram of the second unit, an edit or the request, that a restarted master
   misses;
5. a master that restarts alone, because the second unit does not ask again.

An item leaves the set when it is sent once more. `AgreeWhenQuiet` says there is no
other reason. The hazards behind the five reasons are real, and as the property
makes an exception for them, `PROJECT.json` lists them without it.

| Run | Instance | Shows |
|---|---|---|
| `sync_units` | one item of both directions in flash, one measured item, two values, one user per unit, one telegram per direction, 2 edits or commits, 1 restart | `AgreeWhenQuiet`; `EventuallyAgree` under fairness |

Bounds. Two edits (`MaxChanges`) are one on each side or two on one: every crossing
and overtaking of a pair; an edit and a commit meet in every order of their steps.
An edit of a clean item that leaves it as it is does nothing and is left out of
the run. One restart (`MaxRestarts`) of either unit comes at any point of the
initial pass and of an edit. The measured item is needed for the index, and for
telegrams between those of the first one; one value for it (`Reading`) is enough,
since the properties do not speak of it. A line with room for one telegram, with one
more built by each task, orders and delays them in every way the tasks can; the
restart makes the second unit ask a second time. One user per unit sets items
while the receiver does; the theorem has any number of users.

Fairness. The sensor loop runs, the receivers work off their lines, a call of `set`
goes on, a task that has built a telegram queues it, and the links come up.
Nobody has to set or commit anything; `EventuallyAgree` starts when users and
restarts stop (`calm`).

Left out: `sendSensors`, a block of live values with no state behind it;
items' actions; a telegram with an unknown key or a wrong length, which is
ignored; `SYNC_FROM_CLIENT`, which no item has; the limit of the side slip, the one
item sent from the master only that is in flash and set by the menu.

## 7. Registration on the CAN bus

`CANRegistration.tla` has the registrars of one or two units
(`CANMasterRegMsg`), the query of the second unit (`CANClientQueryMsg`), the
external devices, and the capability words as far as a Flarm goes.

* `known` is the device map with the send ports, `next` is `nxt_free_slot` per
  priority. `Register` is `registration_query`: a known device keeps its port
  (`Grant`), a new one gets the next free slot, until the block of the priority
  is used up (`Exhausted`); slots do not come back when a device is removed.
* `Accepted`, `Rejected` and `RestartQuery` are the second unit's three
  call-backs. An answer is for it when the token is its own (`ForMe`); an
  existing link is left as it is.
* `clock` is the `Clock` of each unit (module `Clock`, one record per unit).
  Tasks put requests in its queue; `Drain` is the timer routine when it has
  worked off the queue and chosen whose turn it is; `TickReregister` (once, two
  seconds after the start) and `TickQuery` are the call-backs. A query that was
  stopped may be asked once more in the pass that is under way.
* `flarm` and `peerCap` are the Flarm bits of `my_caps`, with where the Flarm is,
  and of `peer_caps`. `Digest` is `setupPeerProtos`: a Flarm of the other unit
  becomes one of this unit, which tells the other one of its new capability.
* `inbox` holds the telegrams a node has received, in the order of the bus.
  `Lose` drops any telegram but the request to register again, which is sent
  once: an external device that misses it keeps an id nobody knows, and no
  property could say otherwise.
* `RestartUnit`, `RestartDevice` and `RemoveDevice` happen at any time. A Flarm of
  a unit's own comes back from flash, one taken over from the peer does not.

External devices are not part of the source: they ask until they get an answer,
take the first one, and ask again when told to, as the comments in the
registrar describe.

| Run | Instance | Shows |
|---|---|---|
| `can_link` | both units, 1 fault, 1 Flarm connected or removed | `LinkAgrees`, `NoPhantomFlarm`, `CapsAgree`; `EventuallyLinked` under fairness |
| `can_devices` | the master, 2 external devices, 3 ids per priority, 3 faults | `IdsDistinct`, `ExternalsApart`; `EventuallyServed` under fairness |

Bounds. In `can_link` the queries repeat until the answer stops them, so a
single fault already meets every stage of a registration: lost query, lost
answer, restart of either side with answers under way. In `can_devices` three
ids are one more than the devices, so a removal and a new registration use them
up, and three faults reach the refusal. `MaxInbox` delays a new query while a
telegram is on the way to somebody, and keeps the bus from filling up with
queries; the code's clock does so by asking once a second. The queue of the clock has
two entries instead of ten: what waits on a full queue waits in the model as well.

Fairness. Receivers run, the timer routine runs and calls everyone registered
again and again (strong fairness of a turn for each), external devices ask and
listen. Nothing is lost and nobody restarts for ever (`calm`).

What does not hold, and is left out of the runs: with two units on the bus both
registrars answer an external device, each from its own slots. Once one of them
has missed a query the two hand out different ids, and a second device can be
given an id by one unit that the first has from the other. `ExternalsApart` is
violated then, which TLC shows with `Unit = {"master", "second"}`, two external
devices and one fault. A comment in `sensor.cpp:597` has the registrar created
"just always" on both units. A unit that restarts may also be linked to a Flarm by
an old answer that was on its way, before it asks itself (`missed` covers it).

Left out: `undoReserveCANId`, the way back when `addDevice` fails for want of an
interface; the other capabilities, which have no effect on the peer's protocols;
the host's `$PJPCAP` on other links.

## 8. A binary session with a Flarm

`FlarmSession.tla` has the data links of a host and of a Flarm with what
`_active` is, the `_binpeer` of their binary parsers, and a receiver task each
(`task`).

* `Request` is `$PFLAX` from the host: its link toggles to binary at once
  (`Switch`), to keep NMEA away from it, and the request is routed, if there is a
  buffer (`plsMessage`).
* `Confirm`, `LinkDevice`, `LinkHost` are the answer `$PFLAX,A`: link to binary,
  then the two peers. `goBIN` has emptied the frame by then, so the host is not
  sent the confirmation and starts after a time-out.
* `Forward`, `OddLength` and `BailOut` are `FlarmBinary::nextBytes`: a frame goes
  to the peer; an exit also, and then the session ends; a damaged one ends it.
  The receiver turns the peer's link back (`goNMEA`) and later toggles its own.
* `Route` drops text for want of a buffer, `send_chunk` waits for one.
* After an exit or a damaged header the rest of the packet is dropped
  (`NXT_PROTO` ends the loop of `DataLink::process`); the parties of the model
  send each telegram in a packet of its own. The few header bytes of a damaged
  frame, which are routed as well, are left out: no party takes them for a telegram.

The host and the Flarm are parties outside the code: either may start anew at
any time (`Vanish`), the Flarm may refuse, frames may be damaged. `spoiled` records
what kept a session from its normal course.

| Run | Instance | Shows |
|---|---|---|
| `flarm_session` | 2 telegrams per line, 2 sessions, 1 damaged frame | `FlarmHeard`, `TextAgain`; `ExitEnds` under fairness |

Bounds. The second session starts in whatever the first one left behind, and a
third would find no other state of links and peers. Two telegrams on a line are
a frame and the exit after it, or a request and the frame after it.

Fairness. The receivers run and both parties read what they are sent.

What does not hold is written in the exceptions. After a refusal, or a request
that was dropped, the host's link stays in binary mode and mute. A host
that vanishes leaves both links in binary mode. When both receivers end a session at the
same time, each has its own link turned back by the other and then toggles it to
binary again.

Left out: how a frame is found in the bytes; more than one host (the
code keeps one initiator); removal of a link during a session, after which the
peer's pointer dangles.

## 9. Proofs

TLC checks the instances above, TLAPS the following for all values of the
constants that satisfy the assumption of the module: `ConstAssumption`,
`StoreAssumption`, `SyncAssumption`, `CANAssumption`, `ChanAssumption`,
`RegistryAssumption`. Every safety property of a passing run is among them. A
hypothesis beyond the assumption is part of the theorem.

| Theorem | States |
|---|---|
| `TypeCorrect` | `Spec => []TypeOK` (transmitter) |
| `OwnershipKept` | `Spec => []OneOwner` |
| `SendersNeverBlock` | `Spec => []SendNeverBlocks` |
| `NoStuckTelegram` | `Spec => []NoSleepWithPostponed` |
| `TargetsNotGarbled` | `Spec => NoGarbledTarget` |
| `ImplementsTargetFifo` | `Spec => TargetFifoSpec` |
| `StoreTypeCorrect` | `Spec => []TypeOK` (store) |
| `NoSilentLoss` | `Spec => []OnlyRacesLose` |
| `TypeCorrect` | `Spec => []TypeOK` (registration) |
| `IdsAlwaysDistinct` | `Spec => []IdsDistinct` |
| `LinkAlwaysAgrees` | `Spec => []LinkAgrees` |
| `PhantomNever` | `Spec => []NoPhantomFlarm` |
| `CapsAlwaysAgree` | `Spec => []CapsAgree` |
| `ExternalsStayApart` | `Spec => []ExternalsApart`, if `OneRegistrar` |
| `TypeCorrect` | `Spec => []TypeOK` (sensor registry) |
| `NoDeletedSensorRead` | `Spec => []EntriesAlive`, if `OneDevicePerType` and `EnoughRoom` |
| `TableIsSound` | `Spec => []TableSound`, likewise |
| `DevicesAreServed` | `Spec => []DeviceSensorsServed`, likewise |
| `NothingLeaked` | `Spec => []NoneLeaked`, likewise |
| `SimulationIsQuiet` | `Spec => []SimulationStopsReads`, likewise |
| `TypeCorrect` | `Spec => []TypeOK` (Flarm session) |
| `FlarmAlwaysHeard` | `Spec => []FlarmHeard` |
| `NothingLeftBehind` | `Spec => []TextAgain` |
| `TypeCorrect` | `Spec => []TypeOK` (two units) |
| `AgreesWhenQuiet` | `Spec => []AgreeWhenQuiet` |

*Transmitter.* `TypeInv` strengthens the type invariant with what the control
points imply (while `pc` is past `Drain` and the telegram is not fresh, `msg` is
the head of `later`). `OneOwner` is inductive together with it: each action moves
one buffer from one owner to another. `SendersNeverBlock` is then counting:
the queue holds distinct buffers, so it is never longer than the pool, and its
length is the pool plus one. For the order, `OnlyOldestBegun` says that among the
postponed telegrams of one target only the first may be partly out; with it,
`Transmit` either works on the head of `later` or on a telegram with no
postponed one for its target. The induction is over
`OrderInv == TypeInv /\ OneOwner /\ OnlyOldestBegun`. The refinement of
`TargetFifo` rests on it as well: receiving, postponing and popping leave `Pipe`
as it is, because a telegram only moves from the head of one part to the end of
the part before it; a telegram that leaves is the head of `later`, or the one in
hand, and then none in `later` has its target.

*Store.* `OnlyRacesLose` alone is not inductive: it says nothing of a commit under
way. `CommitKnows` says what a clean commit knows (after `Write` the staged
value is the item's; after `NvsCommit` the flash has it). `SettledStored` says of
a persistent item that is not dirty and not lost that its value is staged as
well as in the flash, or that a mark is pending. The induction is over
`StoreInv == TypeOK /\ SettledStored /\ CommitKnows`.

*Registration.* `IdsDistinct` needs two facts: the ids of a priority lie between
its base and the next free slot, and the blocks of the two priorities do not
overlap (`Base[4] + 4 * Chunks <= Base[1]`). `LinkAgrees` needs one about
telegrams under way, since an answer may arrive after both units restarted. The
second unit is the only device of its priority, so it always gets the first id
of it, and every answer to it that is on the way names that id. `RInv` is the
conjunction (`Inboxes`, `Registrars`, `Clocks`, `LinkFirst` and the rest of the
types). The assumption the code makes without saying so is thus that no other
device shares the second unit's priority. The theorems hold for any
external devices, any number of ids, and one unit or two.

`NoPhantomFlarm` speaks of a unit that takes the other one for a Flarm; by then
the telegram that said so is gone, and what the other one said may have been
hearsay. `OwnSomewhere` says that, as long as no user removes a Flarm, either some
unit has one of its own, or no unit takes the other one for one and no query or
answer on its way speaks of one (`NoRumour`). A Flarm of its own survives
everything but a removal (`OwnStays`), and a rumour does not start by itself
(`NoRumourStep`); of two units, the one with a Flarm of its own is then the
other one.

`CapsAgree` speaks of the moment nothing is on the way. `Aware(l, t)` covers all
the others: unless `t` missed to tell `l`, the last telegram on its way that tells
`l` has the truth, and when none is, what `l` knows is the truth, if it has a sync
plug-in for the other unit. The last clause is why a restarted unit, which knows
nothing, is no exception: it gets its plug-in with a query or an answer that
tells. The proof needs that queries of the second unit only reach the master
(`QueriesAtMaster`), and that the second unit, alone of its priority, is never
refused for want of ids.

`ExternalsApart` is about what a device works with long after the answer. `Claims`
is what a device has, or will take from an answer under way, with no request to
register again behind it. Once the registrar has sent that request after a restart
(`Reasked`), all claims are ids it has handed out since: below the next free one,
apart from each other, and from what any other device is known by
(`ClaimsApart`). A removal takes a device out of the table of the registrar and
leaves its claim, and as ids only grow nobody gets its id. The hypothesis
`OneRegistrar` (`Unit = {"master"}`) is needed: section 7 says what happens
with two.

*Sensor registry.* Two hypotheses are about the instrument. `OneDevicePerType`: no
two devices have sensors of one type. The firmware violates it with its two
magnetic sensor devices, and `registry_shared` shows `EntriesAlive` fail then.
`EnoughRoom`: as many places as types, and a queue of two changes per device and
one for the simulation. The firmware has 14 types and 14 places, and a queue of
ten for the four types of sensors that devices bring. `TypeCorrect` needs neither.

`Core` is inductive together with the types. Its centre is what becomes of a
sensor that was not found late (`Kept`): it is the only one of its type and the
global pointer leads to it (`GlobalLeads`); it is in the table or an addition is
pending, not both (`Placed`); it belongs to a device, to the instrument, or a
removal is pending (`Owned`); and a pending removal is about a device that has
gone (`Leaving`). For the removal and the addition of one sensor, both pending,
the order in the queue decides: `InOrder` says the addition comes first, and that
an addition of a sensor the simulation stops comes before the change that stops
it. Room follows by counting: the entries have different types, so the table
never needs more than a place per type (`TableFits`), and the changes are
different, so they are never more than the queue takes.

*Flarm session.* `FlarmHeard` is about a mode outside the instrument and a link
inside it, and between them are two lines and two receivers. `IInv` says, while
no session was spoiled by a party that vanished or by both receivers, that a
session is in one stage only, that an exit is the last telegram of the host's
line, that there is at most one, and that the link of the Flarm is in binary
mode only when a confirmation was taken and no exit has come through
(`Course`). Each stage follows from the one before, so the induction has a step
per action and conjunct. `TextAgain` needs the reason why a link in binary mode
will be turned back: while the host's is, its receiver ends the session, or the
last request is on its way to the Flarm with no exit behind it, or the Flarm is
in the session and no exit is on its way (`Attended`). When all is quiet none of
the three is left.

*Two units.* `AgreeWhenQuiet` speaks of the moment nothing is on the way; the
invariant has to say of every other moment why the units will agree. `Known(i)`
names the four reasons, for an item that is not `apart`: an initial pass that
will send it is still to come (`Pending`: the kick, the request on the line, or a
place behind the index); or a call of `set` has changed it, has it flagged, and is
about to send it, with nothing on the way to its unit (`Owes`); or the last
telegram about it in one direction carries the sender's value and nothing about
it goes the other way (`Follows`); or nothing is on the way and the values are
equal (`Same`). When all is quiet only the last one is left. `Owes` ends with
`SendIfDirty`, or with a flag taken away, and then the item gets into `apart`.
While the receiver sets an item its telegram is still on the line (`Calls`). The
proof needs the lines to keep their order, and that is what the transmit path
promises for a target (section 3).

Only model-checked: the liveness properties (`EventuallyRecycled`,
`PoolRecovers`, `EventuallyCommitted`, `EventuallyFollows`, `EventuallyAgree`,
`EventuallyLinked`, `EventuallyServed`, `ExitEnds`), whose proofs need rules for
fairness and `ENABLED` that this version of TLAPS does not have; and the
properties of the runs that end in a violation.

## 10. Findings

* `tx_garbled`: the check against the deque compares devices, and the comments
  speak of the message sequence of the interface. Two devices on one interface
  get their bytes mixed (`comm/DeviceMgr.cpp:301-306`).
* `tx_spp`: a failed Bluetooth write chops off what was not sent
  (`comm/BTspp.cpp:130`).
* `store_reset`: "Factory reset SUCCESS" with an old value in the flash
  (`setup/SetupCommon.cpp:130`). A restore has written the old value; the sensor
  loop sets the item back to its default and flags it; the end of the restore's
  `commit` clears that flag. The reset that comes later looks at the value in RAM
  only, finds the default and leaves the item out.
* `registry_shared`: a sensor object registered twice gets two entries, and the
  loop keeps the second one after the object is deleted
  (`sensor/SensorMgr.cpp:143`).

## 11. Not modelled, and why

* *Life time of links and interfaces.* `removeProtocol`, `DataLinks::insert` and
  `erase`, and `delete BLUEnus` in `removeDevice` run against receivers and the
  transmit task that hold a pointer. The races are within a call, on a pointer
  or in an array; the modules have sets and maps in their place. They are listed
  as hazards without a property.
* *Routing lists* and their storage in items: a cache rebuilt after each change.
* *Framing.* The byte-wise state machines of `NMEA.cpp` and `FlarmBin.cpp` and the
  contents of telegrams: pure code a test covers, and long enough that a model
  would be a transliteration.
* *Watch-dogs and alive monitors.* A flag and a timer; what may go wrong is a
  matter of a few instructions.
* *Undo of a CAN id* after a failed `addDevice`; capabilities other than a Flarm.
* *Menus, web server, screens* enter the models through the calls they make.
* *Flight computation, wind, audio and sensor drivers* are numeric or
  register-level code, outside the reach of TLC and of the provers.
* `components/` is third-party code; FreeRTOS queues and timers are modelled as
  the code in `src/main` uses them.
