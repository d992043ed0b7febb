\* Every run ends or waits, and the program implements UpdatePolicy; no downgrade is allowed here.
SPECIFICATION FairSpec
CONSTANTS
  Proc = {p1, p2}
  NMirrors = 2
  small = small
  large = large
  Images = {small, large}
  MaxSize = 2
  ImageSize <- MCImageSize
  Version <- MCVersion
  Manifests <- MCManifests
  GoodSignatures = 2
  Options <- TrialOptions
  NeighbourLists <- MCNeighbourLists
  InitVersion = 1
  MayLoseVersion = FALSE
  Null = Null
  Empty = Empty
  Torn = Torn
PROPERTIES
  EndsOrWaits
  ImplementsPolicy
