SPECIFICATION MCSpec
CONSTANTS
  None = None
  Request = {h1, h2}
  DevKey = {d1}
  MaxRequests = 3
  MaxFailures = 1
  Random <- MCRandom
  Mac <- MCMac
  Payload <- MCPayload
  Config <- MCConfig
INVARIANTS
  AdminTypeOK
  CodesWellFormed
  BatchExact
  ConfigAsStored
  AuditTells
PROPERTIES
  GenerateEnds
CHECK_DEADLOCK FALSE
