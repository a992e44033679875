CONSTANTS
  Procs = {p1, p2, p3}
  Ids = {a, b}
  Configs <- MCConfigs
  NoConfig = NoConfig
  NoProc = NoProc
SYMMETRY Symm
SPECIFICATION Spec
INVARIANTS TypeOK EnrolledKept EnrolledOpens ServerOpens LatestServes ServesAsDeclared
CHECK_DEADLOCK FALSE
