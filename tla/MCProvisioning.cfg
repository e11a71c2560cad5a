SPECIFICATION FairSpec
CONSTANTS
    Issuers = {"self", "aws"}
    NamesGiven = {"none", "given"}
    FactoryNames = {"none", "factory"}
    RawSignatures <- MCRawSignatures
    SignatureBuffer = 12
    MaxFaults = 3
INVARIANTS
  PairMatches
  CompletedIsConsistent
  DocumentsAreSigned
PROPERTIES
  ProvisioningCompletes
