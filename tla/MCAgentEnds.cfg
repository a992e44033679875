CONSTANTS
  Lower <- MCLower
  Canonical <- MCCanonical
  Intercept <- MCIntercept
  Detect <- MCDetect
  Refs <- MCRefs
  HopByHop <- MCHopByHop
  Conns = {c1}
  Hosts <- MCHosts
  Requests <- MCRequests
  Answers <- MCAnswers
  Broker <- MCBroker
  MaxReqs = 2
  MaxChunks = 2
SPECIFICATION Spec
INVARIANT EndOfAnswerShown
CHECK_DEADLOCK FALSE
