SPECIFICATION FairSpec
CONSTANTS
  Type = {"vario", "battery", "temperature", "flap_position"}
  Prio <- Prios
  OwnType = {"vario", "battery"}
  Probed = {"temperature"}
  Local = {"battery", "flap_position"}
  Essential = {"battery"}
  Device = {"temp", "flap"}
  TypeOf <- OneEach
  NumObjects = 5
  MaxSensors = 4
  QueueLen = 5
  Null = Null
INVARIANTS TypeOK EntriesAlive TableSound DeviceSensorsServed NoneLeaked SimulationStopsReads
PROPERTY EventuallyFollows
CHECK_DEADLOCK FALSE
