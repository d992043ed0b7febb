\* One call of get_url, for the manifest (any size) and for an image of 2 bytes.
SPECIFICATION FairSpec
CONSTANTS
  Lengths <- MCLengths
  MaxBody = 3
  MaxRedirects = 10
INVARIANTS
  TypeOK
  SuccessIsComplete
  WrongSizeNotRead
PROPERTIES
  Returns
  ImplementsTransfer
CHECK_DEADLOCK FALSE
