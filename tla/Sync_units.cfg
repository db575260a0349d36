SPECIFICATION MCSpec
CONSTANTS
  Order <- MCOrder
  Both = {"mc"}
  Measured = {"volt"}
  Stored = {"mc"}
  User = {"pilot"}
  Value = {1, 2}
  Reading = {2}
  Default = 1
  MaxChan = 1
  Null = Null
  MaxChanges = 2
  MaxRestarts = 1
INVARIANTS TypeOK AgreeWhenQuiet
PROPERTY EventuallyAgree
CHECK_DEADLOCK FALSE
