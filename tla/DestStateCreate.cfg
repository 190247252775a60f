SPECIFICATION FairSpec

CONSTANTS
  Cpu = {c1, c2}
  Ip <- Ips
  StateBucket <- Apart
  RlBucket <- CollideRl
  None = None
  Batch = 2
  Low = 1
  MaxObj = 8

INVARIANTS
  TypeOK
  FreelistsAgree
  PublishedIsComplete
PROPERTIES
  Refills
  KeepsDestMap
