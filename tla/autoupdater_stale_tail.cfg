\* The file given to sysupgrade may be longer than the image that was verified.
SPECIFICATION Spec
CONSTANTS
  Proc = {p1}
  NMirrors = 1
  small = small
  large = large
  Images = {small, large}
  MaxSize = 2
  ImageSize <- MCImageSize
  Version <- MCVersion
  Manifests <- MCManifests
  GoodSignatures = 2
  Options <- TrialOptions
  NeighbourLists <- MCNeighbourLists
  InitVersion = 1
  MayLoseVersion = FALSE
  Null = Null
  Empty = Empty
  Torn = Torn
INVARIANT
  UpgradeFileIsImage
