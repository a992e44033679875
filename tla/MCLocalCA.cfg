CONSTANTS
  Lower <- MCLower
  Agents = {a1, a2}
  Configs <- MCConfigs
  Hosts <- MCHosts
  Missing = Missing
  Torn = Torn
  LeafLife = 0
  CALife = 1
  MaxTime = 2
  MaxStarts = 3
SYMMETRY Symm
SPECIFICATION Spec
INVARIANTS TypeOK TrustKept KeyMatches LeafVerifies Constrained
CHECK_DEADLOCK FALSE
