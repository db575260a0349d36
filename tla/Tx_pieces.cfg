SPECIFICATION Spec
CONSTANTS
  Device = {"NAVI", "HOST"}
  Interface = {"S2", "BLE"}
  Kind <- PiecesKind
  Message = {m1, m2, m3}
  Sender = {t1, t2}
  MaxLen = 2
  Mtu = 1
  Null = Null
SYMMETRY Symmetry
INVARIANTS TypeOK OneOwner SendNeverBlocks NoSleepWithPostponed
PROPERTIES NoGarbledTarget TargetFifoSpec
