\* Liveness: one worker serves two vouchers, configurations that 5sim would refuse among
\* the ones the admin stores, orders with and without an expiry.
SPECIFICATION FairSpec
CONSTANTS
  None = None
  Voucher = {v1, v2}
  Worker = {w1}
  Order = {o1}
  Config = {good, far, bad}
  Request = {h1}
  Ops = {"create"}
  ApiKey = TRUE
  UnknownCountry = {far}
  InvalidProduct = {bad}
  Lease = 2
  Inflight = 1
  Poll = 1
  Backoff = 1
  Wait = 2
  Lifetimes = {1, None}
  MaxBuyAttempts = 1
  Horizon = 2
  MaxStates = 1
  MaxFaults = 0
CHECK_DEADLOCK FALSE
PROPERTIES
  RedemptionEnds
