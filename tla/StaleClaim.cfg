\* Two workers, no fault, no client but the one that created the task.
SPECIFICATION Spec
CONSTANTS
  None = None
  Voucher = {v1}
  Worker = {w1, w2}
  Order = {o1, o2}
  Config = {good}
  Request = {h1}
  Ops = {"create"}
  ApiKey = TRUE
  UnknownCountry = {}
  InvalidProduct = {}
  Lease = 2
  Inflight = 1
  Poll = 1
  Backoff = 1
  Wait = 2
  Lifetimes = {1}
  MaxBuyAttempts = 2
  Horizon = 3
  MaxStates = 1
  MaxFaults = 0
CHECK_DEADLOCK FALSE
PROPERTIES
  DeliveredIsFinal
