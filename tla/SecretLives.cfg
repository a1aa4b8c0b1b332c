SPECIFICATION Spec
CONSTANTS
  a = a
  b = b
  c = c
  d = d
  Procs <- Four
  Lives <- MCLives
CHECK_DEADLOCK FALSE
INVARIANTS Inductive LegacyKept Scrubbed NewestWins
PROPERTIES SendsRight PurgedClean
