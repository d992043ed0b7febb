\* Two instances, two images, every option: safety and the action properties.
SPECIFICATION Spec
CONSTANTS
  Proc = {p1, p2}
  NMirrors = 2
  small = small
  large = large
  Images = {small, large}
  MaxSize = 2
  ImageSize <- MCImageSize
  Version <- MCVersion
  Manifests <- MCManifests
  GoodSignatures = 2
  Options <- MCOptions
  NeighbourLists <- MCNeighbourLists
  InitVersion = 1
  MayLoseVersion = TRUE
  Null = Null
  Empty = Empty
  Torn = Torn
SYMMETRY Symmetry
INVARIANTS
  TypeOK
  MutualExclusion
  FlashedPrefixVerified
  OnlyAuthorisedFlashed
  HooksBalanced
PROPERTIES
  FileStableDuringSysupgrade
  TouchedOnlyAfterTrustedManifest
