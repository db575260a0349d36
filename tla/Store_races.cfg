SPECIFICATION FairSpec
CONSTANTS
  NumItems = 2
  Value = {"off", "bad"}
  InLimits = {"off"}
  Default <- AllOff
  Fresh = "bad"
  Persistent = {1}
  Resettable = {1}
  Task = {"loop", "menu"}
  LoopTask = "loop"
  Null = Null
INVARIANTS TypeOK OnlyRacesLose
PROPERTY EventuallyCommitted
