SPECIFICATION Spec
CONSTANTS
  InputLength = 5
  WordLength = 4
  Inputs <- MCInputs
  Header <- MCHeader
  ReadChunk = 3
  MaxPending = 2
  BlockSize = 2
  MaxBytes = 9
  TailLines = 2
  LineSeparators <- MCSeparators
  StdoutTails <- MCStdoutTails
  ExitCodes = {1}
CHECK_DEADLOCK FALSE
INVARIANTS LogIsTheOutput CombinedIsTheOutput TailHolds TailIsTrue ClassIsOfTheOutput
