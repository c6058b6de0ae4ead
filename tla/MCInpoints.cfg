SPECIFICATION Spec
CONSTANTS
  Parents = {p1, p2, p3}
  Vouts = {0, 1, 2}
  MaxInputs = 4
INVARIANTS
  TypeOK
  RunsMatchParents
  NothingLost
  SelfDelimiting
PROPERTIES
  NeverGrows
  ImplementsInpointMap
