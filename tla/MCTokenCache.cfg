CONSTANTS
  Callers = {c1, c2}
  CallTime = 1
  Skew = 4
  DefaultTtl = 12
  Ttls <- MCTtls
  MaxTime = 9
  NoCaller = NoCaller
SPECIFICATION Spec
INVARIANTS TypeOK TokenFresh ExchangeInv
PROPERTIES OneExchange CallsReturn
