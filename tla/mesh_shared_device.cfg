\* A mesh interface is missed when another interface on its device comes first.
SPECIFICATION Spec
CONSTANTS
  lan = lan
  wan = wan
  gone = gone
  Devices = {lan, wan, gone}
  IfIndex <- MCIfIndex
  Entries <- SharedEntries
  NodeIds = {n1}
  MaxEntries = 3
  MaxReplies = 1
  Null = Null
INVARIANT
  AllMeshInterfaces
CHECK_DEADLOCK FALSE
