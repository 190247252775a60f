SPECIFICATION Spec

CONSTANTS
  Writer = {w1}
  Cpu = {}
  Klass = {k1, k2}
  Bucket <- OneBucket
  Requests <- VqRequests
  TxRates = {}
  Delays = {}
  MaxTxc = 2
  MaxVq = 2
  None = None
  U32 = 4096
  MaxWeight = 4
  MaxCap = 6
  ISO_MAX_TX_RATE = 20
  ISO_VQ_DRAIN_RATE_MBPS = 18
  ISO_MIN_RFAIR = 1
  ISO_RFAIR_INITIAL = 20
  ISO_IDLE_RATE = 5

SYMMETRY KlassSymmetry

CHECK_DEADLOCK FALSE

INVARIANTS
  VqSharesFit
  
