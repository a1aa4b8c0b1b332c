SPECIFICATION FairSpec
CONSTANTS
  Output <- TwoAndOne
  ExitCodes = {0, 3}
  Bad <- FirstErr
  Partial <- FirstOfEach
  Background = {}
  BgOutput = 0
  PipeCap = 1
  TailN = 2
  Modes = {"disk", "memory"}
  HasTimeout = FALSE
  Slow = TRUE
  Faults = {"exec", "thread", "kill", "reader", "disk", "oom", "removed"}
  MaxFaults = 2
  InterruptPoints <- Waiting
  MaxInterrupts = 1
CHECK_DEADLOCK FALSE
INVARIANTS NoGaps CombinedAgrees NothingUntold TailTruth
PROPERTY JobFinishes
