CONSTANTS
  Images = {"old", "new", "bad"}
  Factory = "old"
  Signed = {"old", "new"}
  Signatures <- MCSignatures
  MaxChunk = 2
  Bytes = 4
  Width = 2
  None = None
SPECIFICATION Spec
CONSTRAINT MCConstraint
INVARIANTS
  OnlyGenuineRuns
  FallbackKept
  ReceivedIsStaged
  SignatureIsConverted
