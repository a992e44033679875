CONSTANTS
  Writers = {w1, w2}
  Entries <- MCPlainEntries
  MaxCalls = 3
  MaxLives = 2
  MaxFailures = 0
  MaxTampers = 0
  NoWriter = NoWriter
SPECIFICATION Spec
INVARIANT UntouchedLogVerifies
CHECK_DEADLOCK FALSE
