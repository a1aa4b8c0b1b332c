SPECIFICATION HangSpec
CONSTANTS
  Output <- OneEach
  ExitCodes = {0, 3}
  Bad <- FirstOut
  Partial <- FirstErr
  Background = {"stdout"}
  BgOutput = 1
  PipeCap = 1
  TailN = 2
  Modes = {"disk"}
  HasTimeout = TRUE
  Slow = TRUE
  Faults = {"thread", "reader", "oom", "crash", "removed"}
  MaxFaults = 1
  InterruptPoints <- AllButFork
  MaxInterrupts = 1
CHECK_DEADLOCK FALSE
INVARIANTS Inductive FateTold NoOrphan
PROPERTIES SealedByFooter NeverClosedOn KeepsContract Returns
