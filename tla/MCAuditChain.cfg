CONSTANTS
  Writers = {w1, w2}
  Entries <- MCEntries
  MaxCalls = 3
  MaxLives = 2
  MaxFailures = 1
  MaxTampers = 2
  NoWriter = NoWriter
SPECIFICATION Spec
INVARIANTS TypeOK LifeVerifies TamperEvident ChainInv
PROPERTIES WriteReturns
CHECK_DEADLOCK FALSE
