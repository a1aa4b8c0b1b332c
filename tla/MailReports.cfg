SPECIFICATION FairSpec
CONSTANTS
  a = a
  b = b
  x = x
  y = y
  Jobs <- MCJobs
  Recipients <- MCRecipients
  Attempts = 3
  Limit = 1
  Faults = {"cut", "lostReply", "unreachable", "badPassword", "refused", "shutting", "badQuit"}
  MayInterrupt = TRUE
CHECK_DEADLOCK FALSE
INVARIANTS Inductive SentIsQueued NoNeedlessCopy
PROPERTIES SendReturns KeepsMailContract
