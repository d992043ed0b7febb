\* Manifests that differ from a good one in one line, read in all ways.
SPECIFICATION FairSpec
CONSTANTS
  Null = Null
  Newline = "/"
  Nul = "0"
  Separator <- MCSeparator
  Field <- MCField
  IsSignature <- MCIsSignature
  Day = 8
  NaN = NaN
  Infinite = Infinite
  RandMax = 4
  Characters <- MCCharacters
  Texts <- MCTexts
  MAX_LINE_LENGTH = 3
  Nodes <- MCNodes
  Keys = {"k1", "k2"}
  Verifies <- MCVerifies
  GoodSignatures = 2
INVARIANTS
  TypeOK
  UpgradeIsSigned
  NotBeforeItsTime
PROPERTIES
  DecidesOrStalls
  ImplementsText
CHECK_DEADLOCK FALSE
