\* Create and wait, two requests at a time, through every check before them.
SPECIFICATION DevSpec
CONSTANTS
  None = None
  DevKey = {k1}
  Address = {a1}
  Voucher = {v1, v2}
  Nonce = {n1}
  Skew = 1
  Minute = 2
  KeyLimit = 2
  AddressLimit = 1
  VoucherLimit = 1
  Horizon = 2
  Request = {h1, h2}
  IdemKey = {i1}
  PublicId = {p1, p2}
SYMMETRY DevSymmetric
CHECK_DEADLOCK FALSE
INVARIANTS
  DevTypeOK
  AdmittedOnce
  LimitsKept
  AnswersRecorded
  AnswersOwnVoucher
  RetryNeverActs
