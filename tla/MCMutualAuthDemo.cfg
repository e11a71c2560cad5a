SPECIFICATION Spec
CONSTANTS
    Handles = {h1}
    Ids = {1, 2}
    Sessions = {s1, s2}
    None = None
    MaxDemoCount = 2
    MaxPublishCount = 2
    MaxAttempts = 1
    MaxWaits = 2
    MaxInFlight = 3
CHECK_DEADLOCK FALSE
INVARIANTS
  SessionsAreExact
  GrantIsCurrent
PROPERTIES
  DemoSettles
