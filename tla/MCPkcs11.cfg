CONSTANTS
  Tasks = {"maker", "user"}
  Certs = {"cert"}
  Algs = {"EC"}
  MaxObjects = 4
  MaxPresent = 2
  Volatile = {"v1"}
  Callers <- MCCallers
  Exclusive = TRUE
  None = None
SPECIFICATION Spec
CONSTRAINT MCConstraint
VIEW MCView
INVARIANTS
  ListIsExact
PROPERTIES
  StoredIsFound
