CONSTANTS
  Lower <- MCLower
  Window = 1
  Handlers = {h1, h2}
  Ids <- MCIds
  Requests <- MCRequests
  Stores <- MCStores
  Egress <- MCEgress
  Unwrapper <- MCUnwrapper
  ValidMethods <- MCValidMethods
  UpstreamCodes = {403}
  RedirectHosts <- MCRedirectHosts
  UpstreamTimeout = TRUE
  Willing = {h1}
  SinkFails = TRUE
  MaxHops = 2
  MaxTime = 1
  MaxLives = 2
SPECIFICATION Spec
INVARIANTS TypeOK CredentialBound RefusalMeansUnspent RateSpent AuditMatchesReply
PROPERTIES RefinesUse ComesToRest
CHECK_DEADLOCK FALSE
