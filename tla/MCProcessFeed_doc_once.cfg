SPECIFICATION Spec
CONSTANTS
  Chunks = 4
  CanTrim = TRUE
  Nobody = Nobody
INVARIANTS AppendedOnce
CHECK_DEADLOCK FALSE
