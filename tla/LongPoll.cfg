\* One wait while the code arrives.
SPECIFICATION DevSpec
CONSTANTS
  None = None
  DevKey = {k1}
  Address = {a1}
  Voucher = {v1}
  Nonce = {n1, n2}
  Skew = 0
  Minute = 2
  KeyLimit = 3
  AddressLimit = 2
  VoucherLimit = 1
  Horizon = 2
  Request = {h1}
  IdemKey = {}
  PublicId = {p1, p2}
CHECK_DEADLOCK FALSE
PROPERTIES
  WaitTellsCode
