SPECIFICATION Spec
CONSTANTS
  a = a
  b = b
  c = c
  d = d
  Procs <- Two
  Lives <- Races
CHECK_DEADLOCK FALSE
INVARIANT LegacyKept
