SPECIFICATION Spec
CONSTANTS
    t1 = t1
    t2 = t2
    o1 = o1
    o2 = o2
    o3 = o3
    Tasks = {t1, t2}
    Operations = {o1, o2, o3}
    UserOf <- MCUserOf
    Slots = {1, 2}
    Connections = {c1, c2}
INVARIANTS
  SlotsAreHeld
  CallsAreIsolated
PROPERTIES
  CallsReturn
