\* With --fallback a node upgrades before the date of the manifest.
SPECIFICATION Spec
CONSTANTS
  Null = Null
  Newline = "/"
  Nul = "0"
  Separator <- MCSeparator
  Field <- MCField
  IsSignature <- MCIsSignature
  Day = 8
  NaN = NaN
  Infinite = Infinite
  RandMax = 4
  Characters <- MCCharacters
  Texts <- MCTexts
  MAX_LINE_LENGTH = 3
  Nodes <- MCNodes
  Keys = {"k1", "k2"}
  Verifies <- MCVerifies
  GoodSignatures = 2
INVARIANT
  FallbackOnlyOverdue
CHECK_DEADLOCK FALSE
