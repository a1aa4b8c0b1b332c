SPECIFICATION Spec
CONSTANTS
  Output <- OneEach
  ExitCodes = {0, 3}
  Bad <- NoUnits
  Partial <- NoUnits
  Background = {}
  BgOutput = 0
  PipeCap = 1
  TailN = 2
  Modes = {"disk"}
  HasTimeout = FALSE
  Slow = FALSE
  Faults = {}
  MaxFaults = 0
  InterruptPoints = {"fork"}
  MaxInterrupts = 1
CHECK_DEADLOCK FALSE
INVARIANT NoOrphan
