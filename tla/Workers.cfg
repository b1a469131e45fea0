\* Two workers, one of them may crash or meet a database error; clients only create.
SPECIFICATION Spec
CONSTANTS
  None = None
  Voucher = {v1}
  Worker = {w1, w2}
  Order = {o1, o2, o3}
  Config = {good}
  Request = {h1}
  Ops = {"create"}
  ApiKey = TRUE
  UnknownCountry = {}
  InvalidProduct = {}
  Lease = 2
  Inflight = 1
  Poll = 1
  Backoff = 1
  Wait = 2
  Lifetimes = {1}
  MaxBuyAttempts = 1
  Horizon = 3
  MaxStates = 1
  MaxFaults = 1
SYMMETRY Symmetric
CHECK_DEADLOCK FALSE
INVARIANTS
  TypeOK
  ProcessingHasLease
  CodeFromOwnOrder
  PurchasesWithinGrants
PROPERTIES
  LeaseRespected
