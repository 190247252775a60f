SPECIFICATION FairSpec

CONSTANTS
  Writer = {w1, w2}
  Cpu = {c1}
  Klass = {k1}
  Bucket <- OneBucket
  Requests <- RaceRequests
  TxRates = {20}
  Delays = {}
  MaxTxc = 2
  MaxVq = 1
  None = None
  U32 = 4096
  MaxWeight = 4
  MaxCap = 6
  ISO_MAX_TX_RATE = 20
  ISO_VQ_DRAIN_RATE_MBPS = 18
  ISO_MIN_RFAIR = 1
  ISO_RFAIR_INITIAL = 20
  ISO_IDLE_RATE = 5

CHECK_DEADLOCK FALSE

INVARIANTS
  InstalledOnce

PROPERTIES
  FreedUnreferenced
  WritesReturn
