\* Liveness: two workers, one fault.
SPECIFICATION FairSpec
CONSTANTS
  None = None
  Voucher = {v1}
  Worker = {w1, w2}
  Order = {o1}
  Config = {good}
  Request = {h1}
  Ops = {"create"}
  ApiKey = TRUE
  UnknownCountry = {}
  InvalidProduct = {}
  Lease = 2
  Inflight = 1
  Poll = 1
  Backoff = 1
  Wait = 2
  Lifetimes = {1, None}
  MaxBuyAttempts = 1
  Horizon = 2
  MaxStates = 1
  MaxFaults = 1
CHECK_DEADLOCK FALSE
PROPERTIES
  ClaimEnds
  DeliveryCloses
