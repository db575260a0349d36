SPECIFICATION FairSpec
CONSTANTS
  Device = {"NAVI", "HOST"}
  Interface = {"CAN", "WIFI"}
  Kind <- FailingKind
  Message = {m1, m2}
  Sender = {t1}
  MaxLen = 2
  Mtu = 1
  Null = Null
PROPERTIES EventuallyRecycled PoolRecovers
