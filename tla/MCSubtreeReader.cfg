SPECIFICATION Spec
VIEW MCView
SYMMETRY MCSymmetry
CONSTANTS
  f1 = f1
  f2 = f2
  Subtrees = {s1, s2}
  Streams = {f1, f2}
  Leaves <- MCLeaves
  Conflicts <- MCConflicts
  Arrays = {1, 2}
  TreeSize = 1
  NULL = NULL
INVARIANTS
  NothingLeaked
  NodesReadable
  ArraysExclusive
  
