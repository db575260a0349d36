SPECIFICATION Spec
CONSTANTS
  Type = {"vario", "battery", "magneto"}
  Prio <- Prios
  OwnType = {"vario", "battery"}
  Probed = {}
  Local = {"battery"}
  Essential = {"battery"}
  Device = {"legacy", "current"}
  TypeOf <- BothMagnetic
  NumObjects = 4
  MaxSensors = 14
  QueueLen = 10
  Null = Null
INVARIANT EntriesAlive
