SPECIFICATION MCSpec
CONSTANTS
  Unit = {"master", "second"}
  External = {}
  Base <- MCBase
  Chunks = 2
  QueueLen = 2
  MaxInbox = 1
  Null = Null
  MaxFaults = 1
  MaxChanges = 1
INVARIANTS LinkAgrees NoPhantomFlarm CapsAgree
PROPERTY EventuallyLinked
CHECK_DEADLOCK FALSE
