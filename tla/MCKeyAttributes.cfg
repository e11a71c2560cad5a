SPECIFICATION AttributesSpec
CONSTANTS
    WantSha512 = TRUE
    KeyIds = {0, 1, 2}
    Lifetimes <- MCLifetimes
    KeyTypes <- MCKeyTypes
    KeyBits = {0, 128, 256, 521, 1024, 4096, 65529, 70000}
    Hashes = {5, 9, 10, 11, 17}
    Lengths = {1, 2, 8, 16, 32, 63, 64}
CONSTRAINT Separated
INVARIANTS
  BuiltIsRecovered
  IdIsPersistent
  OutputsFit
