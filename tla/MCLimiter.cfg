CONSTANTS
  Lower <- MCLower
  Window = 3
  Ids <- MCIds
  Rpm <- MCRpm
  MaxTime = 9
SPECIFICATION Spec
INVARIANTS TypeOK SlidingBound RefusalEarned WindowInv
