SPECIFICATION FairSpec
CONSTANTS
  a = a
  b = b
  Files <- Two
  Calls <- MCCalls
  FirstSizes = {2, 4}
  Sizes = {3}
  MaxSingle = 3
  Budget = 3
  Faults = {"print", "disk"}
  MaxChanges = 2
  MaxInterrupts = 2
CHECK_DEADLOCK FALSE
INVARIANTS Inductive NothingLost OnlyOwn WithinBudget ExitIsTheJobs
PROPERTY ReportEnds
