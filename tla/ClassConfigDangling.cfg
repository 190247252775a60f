SPECIFICATION Spec

CONSTANTS
  Writer = {w1}
  Cpu = {c1}
  Klass = {k1}
  Bucket <- OneBucket
  Requests <- LifeRequests
  TxRates = {0, 20, 61}
  Delays = {}
  MaxTxc = 1
  MaxVq = 1
  None = None
  U32 = 4096
  MaxWeight = 4
  MaxCap = 6
  ISO_MAX_TX_RATE = 20
  ISO_VQ_DRAIN_RATE_MBPS = 18
  ISO_MIN_RFAIR = 1
  ISO_RFAIR_INITIAL = 10
  ISO_IDLE_RATE = 5

INVARIANTS
  NoDanglingVq
