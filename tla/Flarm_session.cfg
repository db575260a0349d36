SPECIFICATION MCSpec
CONSTANTS
  MaxChan = 2
  MaxRequests = 2
  MaxOdd = 1
INVARIANTS TypeOK FlarmHeard TextAgain
PROPERTY ExitEnds
CHECK_DEADLOCK FALSE
