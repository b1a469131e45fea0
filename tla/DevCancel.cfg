\* The developer API alone: create and cancel, one worker.
SPECIFICATION Spec
CONSTANTS
  None = None
  Voucher = {v1}
  Worker = {w1}
  Order = {o1}
  Config = {good}
  Request = {h1}
  Ops = {"create", "dev_cancel"}
  ApiKey = TRUE
  UnknownCountry = {}
  InvalidProduct = {}
  Lease = 2
  Inflight = 1
  Poll = 1
  Backoff = 1
  Wait = 2
  Lifetimes = {1}
  MaxBuyAttempts = 1
  Horizon = 3
  MaxStates = 1
  MaxFaults = 1
CHECK_DEADLOCK FALSE
PROPERTIES
  DeliveredNotCanceled
