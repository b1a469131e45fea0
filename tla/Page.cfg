SPECIFICATION UIFairSpec
CONSTANTS
  Voucher = {v1, v2}
  Call = {c1, c2}
  Changes = 1
  None = None
INVARIANTS
  UITypeOK
  NoTimerLeak
  FormUsable
PROPERTIES
  OnlyLatePollSilences
  PageCatchesUp
CHECK_DEADLOCK FALSE
