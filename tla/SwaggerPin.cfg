SPECIFICATION FairSpec
CONSTANTS
  Uploader = {u1, u2}
  Receipt = {r1, r2}
  Text = {t1, t2}
  Version = {v1, v2, v3}
  None = None
  MaxUploads = 2
  MaxRemovals = 1
CHECK_DEADLOCK FALSE
INVARIANTS TypeOK ReceiptExact ReturnedPinReceipted OneVersionPerRun
PROPERTIES ImplementsPinLedger ReceiptLockFreed
