\* Two CPUs share the token pools of a destination and of its class.
CONSTANTS
  Cpu = {c1, c2}
  Leaf = {d1}
  Class = {k1}
  txc <- MCtxc
  None = None
  PktSize = {2}
  GsoSegs <- WholeSegs
  Rates = {2}
  MaxRate = 2
  Us = {4}
  U64 = 16
  InitTokens = 1
  MaxArrivals = 2
  budget = 3
  ISO_RFAIR_INITIAL = 2
  ISO_MAX_QUEUE_LEN_BYTES = 3
  ISO_MIN_BURST_BYTES = 2
  ISO_MAX_BURST_TIME_US = 4
  ISO_GSO_THRESH_RATE = 1
  ISO_GSO_MIN_SPLIT_BYTES = 1
  ISO_IDLE_RATE = 2
  ISO_IDLE_TIMEOUT_US = 7
SYMMETRY CpuSymmetry
SPECIFICATION Spec
INVARIANTS
  LockIsExclusive
  BacklogIsListed
  BurstIsBounded
