CONSTANTS
  MaxSessions = 3
  Width = 2
  RawSignatures <- MCRawSignatures
  SignatureSpace = 11
  MaxKeys = 2
  None = None
SPECIFICATION Spec
INVARIANTS
  SessionsAccounted
  CredentialsAreSound
