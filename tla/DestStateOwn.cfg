SPECIFICATION Spec

CONSTANTS
  Cpu = {c1}
  Ip <- Ips
  StateBucket <- Collide
  RlBucket <- CollideRl
  None = None
  Batch = 2
  Low = 1
  MaxObj = 4

INVARIANTS
  StateIsOwn
