\* One worker and every operation, one handler at a time, one fault.
SPECIFICATION Spec
CONSTANTS
  None = None
  Voucher = {v1}
  Worker = {w1}
  Order = {o1, o2}
  Config = {good}
  Request = {h1}
  Ops = {"create", "next", "cancel", "dev_cancel", "complete"}
  ApiKey = TRUE
  UnknownCountry = {}
  InvalidProduct = {}
  Lease = 2
  Inflight = 1
  Poll = 1
  Backoff = 1
  Wait = 2
  Lifetimes = {1, None}
  MaxBuyAttempts = 2
  Horizon = 3
  MaxStates = 2
  MaxFaults = 1
SYMMETRY OrderSymmetric
CHECK_DEADLOCK FALSE
INVARIANTS
  ConsumedHasCode
  AttemptsRecorded
PROPERTIES
  NoBuyInsideInflight
  WorkerKeepsDelivered
  ImplementsTaskLife
