SPECIFICATION Spec
CONSTANTS
  NumItems = 2
  Value = {"off", "on"}
  InLimits = {"off", "on"}
  Default <- AllOff
  Fresh = "off"
  Persistent = {1}
  Resettable = {1}
  Task = {"loop", "menu"}
  LoopTask = "loop"
  Null = Null
PROPERTY ResetTakesHold
