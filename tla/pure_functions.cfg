\* All pairs of short versions, all days of some years, all moments of some spans,
\* all short lists of mirrors and of keys, all
\* orders of up to four mirrors, all queries with two short parameters, encoded
\* and as the autoupdater writes them.
SPECIFICATION Spec
CONSTANTS
  Day = 8
  NaN = NaN
  Infinite = Infinite
  RandMax = 15
  Removed = Removed
  KeyLength = 1
  Loads <- MCLoads
  IsValidKey <- MCIsValidKey
  Versions <- MCVersions
  Years <- MCYears
  Spans <- MCSpans
  MirrorLists <- MCMirrorLists
  KeyLists <- MCKeyLists
  Lengths = {1, 2, 3, 4}
  Texts <- MCTexts
INVARIANTS
  NewerIsLexicographic
  DateIsUtc
  ChanceGrowsToCertainty
  WalkReachesEachMirror
  KeepsValidKeys
  ShuffleGivesEachOrder
  ParametersArrive
