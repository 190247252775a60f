\* One CPU and two destinations of one class, at a fixed rate: the active list,
\* the timer and the tasklet, and the liveness they give.
CONSTANTS
  Cpu = {c1}
  Leaf = {d1, d2}
  Class = {k1}
  txc <- MCtxc
  None = None
  PktSize <- MCPktSize
  GsoSegs <- MCGsoSegs
  Rates = {2}
  MaxRate = 2
  Us = {4, 8}
  U64 = 64
  InitTokens = 1
  MaxArrivals = 2
  budget = 1
  ISO_RFAIR_INITIAL = 2
  ISO_MAX_QUEUE_LEN_BYTES = 3
  ISO_MIN_BURST_BYTES = 2
  ISO_MAX_BURST_TIME_US = 4
  ISO_GSO_THRESH_RATE = 1
  ISO_GSO_MIN_SPLIT_BYTES = 1
  ISO_IDLE_RATE = 2
  ISO_IDLE_TIMEOUT_US = 7
SPECIFICATION FairSpec
INVARIANTS
  NeverLinkedTwice
  ListedIsServed
PROPERTY BacklogDrains
