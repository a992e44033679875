CONSTANTS
  Lower <- MCLower
  Canonical <- MCCanonical
  Intercept <- MCIntercept
  Detect <- MCDetect
  Refs <- MCRefs
  HopByHop <- MCHopByHop
  Conns = {c1}
  Hosts <- MCHosts
  Requests <- MCRequests
  Answers <- MCAnswers
  Broker <- MCBroker
  MaxReqs = 3
  MaxChunks = 3
SPECIFICATION Spec
INVARIANTS TypeOK OnlyRefsRelayed AnswersAligned AnswerTruthful TunnelDelivers
PROPERTIES TunnelEnds RequestEnds
CHECK_DEADLOCK FALSE
