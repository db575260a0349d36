SPECIFICATION MCSpec
CONSTANTS
  Unit = {"master"}
  External = {"jumbo", "magsens"}
  Base <- MCBase
  Chunks = 3
  QueueLen = 2
  MaxInbox = 1
  Null = Null
  MaxFaults = 3
  MaxChanges = 0
INVARIANTS TypeOK IdsDistinct ExternalsApart
PROPERTY EventuallyServed
CHECK_DEADLOCK FALSE
