SPECIFICATION Spec

CONSTANTS
  Cpu = {c1, c2}
  None = None
  RxRates <- LoadLevels
  EcnBoosts = {3}
  PktSize = 1
  MaxMarked = 1
  MaxSince = 1
  Queues <- TwoQueues
  U64 = 65536
  U32 = 4096
  U16 = 4
  Den = 16
  ISO_VQ_DRAIN_RATE_MBPS = 3
  ISO_MAX_TX_RATE = 6
  ISO_MIN_RFAIR = 1
  ISO_FEEDBACK_INTERVAL_BYTES = 2

SYMMETRY CpuSymmetry

INVARIANTS
  TypeOK
  AlphaInRange
  
