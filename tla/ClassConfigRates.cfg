SPECIFICATION Spec

CONSTANTS
  Writer = {w1}
  Cpu = {c1}
  Klass = {k1, k2}
  Bucket <- OneBucket
  Requests <- TxRequests
  TxRates = {12, 13}
  Delays <- EachDelay
  MaxTxc = 2
  MaxVq = 0
  None = None
  U32 = 4096
  MaxWeight = 4
  MaxCap = 4
  ISO_MAX_TX_RATE = 4
  ISO_VQ_DRAIN_RATE_MBPS = 18
  ISO_MIN_RFAIR = 1
  ISO_RFAIR_INITIAL = 2
  ISO_IDLE_RATE = 2

SYMMETRY KlassSymmetry

CHECK_DEADLOCK FALSE

INVARIANTS
  TypeOK
  WeightsAreAccounted
  GuaranteesFit
  RatesKeepContract
  ReadersHoldLiveClasses
