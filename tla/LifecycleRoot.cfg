\* Two slots, so that a root can be replaced, and one CPU in every path.
CONSTANTS
  Inst = {i1, i2}
  Default = Default
  None = None
  Rx = {r1}
  Tx = {t1}
  NumTx = 1
SPECIFICATION FairSpec
INVARIANTS
  TypeOK
  PathsHoldLiveContexts
  TeardownReleasesAll
  DeviceFollowsRoot
  UnloadedIsClean
PROPERTY OperationsEnd
\* A process that dies under rtnl stops everything that needs it.
CHECK_DEADLOCK FALSE
