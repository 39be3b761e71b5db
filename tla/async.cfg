CONSTANTS
  Regions <- Apart
  a1 = a1
  a2 = a2
  Args = {a1, a2}
  ArgsOf <- OneOf
  None = None
  Sheet = 9
  Ready = {"stopped", "done"}
  Cycles = FALSE
  MaxEdits = 3
  MaxTasks = 4
SPECIFICATION FairSpec
INVARIANTS OwnResult OneTask ListedHasRecord
PROPERTY ResultShown
CHECK_DEADLOCK FALSE
