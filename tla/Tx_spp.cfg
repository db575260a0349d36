SPECIFICATION Spec
CONSTANTS
  Device = {"NAVI", "HOST"}
  Interface = {"SPP"}
  Kind <- SppKind
  Message = {m1, m2}
  Sender = {t1}
  MaxLen = 2
  Mtu = 1
  Null = Null
SYMMETRY Symmetry
PROPERTY ChoppedIsSent
