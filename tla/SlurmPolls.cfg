SPECIFICATION FairSpec
CONSTANTS
  OtherEnds = {"DEADLINE", "BOOT_FAIL"}
  Requeues = {"PREEMPTED", "NODE_FAIL"}
  Fields <- MCFields
  Interval = 2
  QueryTime = 3
  Timeouts <- MCTimeouts
  MayInterrupt = TRUE
CHECK_DEADLOCK FALSE
INVARIANTS Inductive ExitTellsTheEnd ReportIsFinal LateByOneRound
PROPERTIES EndIsSeen TimeoutEnds
