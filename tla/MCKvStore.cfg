CONSTANTS
  NumKeys = 2
  Values <- MCValues
  Bytes <- MCBytes
  Default <- MCDefault
  Blank = {"unset", "empty"}
  Required = {1}
  WordSize = 4
  None = None
SPECIFICATION Spec
INVARIANTS
  BufferFits
  SavedIsDurable
PROPERTIES
  ImplementsKvContract
