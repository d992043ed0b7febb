\* One search for neighbours, with answers of up to three interfaces.
SPECIFICATION Spec
CONSTANTS
  lan = lan
  wan = wan
  gone = gone
  Devices = {lan, wan, gone}
  IfIndex <- MCIfIndex
  Entries <- MCEntries
  NodeIds = {n1, n2}
  MaxEntries = 3
  MaxReplies = 2
  Null = Null
INVARIANTS
  TypeOK
  NoDanglingInterface
  OnlyMeshNeighbours
  NoNeighbourTwice
  WalkMeansNoFailure
  FirstOnDevice
CHECK_DEADLOCK FALSE
