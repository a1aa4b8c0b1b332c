SPECIFICATION Spec
CONSTANTS
  a = a
  b = b
  Files <- Two
  Calls <- MCCalls
  FirstSizes = {2, 3, 4}
  Sizes = {3}
  MaxSingle = 3
  Budget = 4
  Faults = {}
  MaxChanges = 1
  MaxInterrupts = 0
CHECK_DEADLOCK FALSE
INVARIANT EveryFileNamed
