SPECIFICATION Spec
CONSTANTS
  OtherEnds = {"DEADLINE", "BOOT_FAIL"}
  Requeues = {"PREEMPTED", "NODE_FAIL"}
  Fields <- MCFields
  Interval = 2
  QueryTime = 3
  Timeouts <- MCTimeouts
  MayInterrupt = TRUE
CHECK_DEADLOCK FALSE
INVARIANT PollTimeoutIs124
