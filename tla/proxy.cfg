\* Two requests, up to two mirrors, and one redirect for all of a process.
SPECIFICATION FairSpec
CONSTANTS
  Proc = {p1, p2}
  NoOne = NoOne
  MAX_REDIRECTS = 1
  MaxMirrors = 2
  MaxChunks = 1
INVARIANTS
  TypeOK
  OneAtATime
PROPERTIES
  EveryRunEnds
  ImplementsDelivery
CHECK_DEADLOCK FALSE
