CONSTANTS
  Commands = {c1, c2}
  Buffers = {b1, b2}
  EventsLength = 2
  OtaFilters = {"notify"}
  None = None
  MayTimeOut = FALSE
SPECIFICATION FairSpec
INVARIANTS
  CommandInOnePlace
  ReconnectsOutsideCalls
  BufferExclusive
PROPERTIES
  SubscribedIsRegistered
  AgentComesBack
  BuffersComeBack
