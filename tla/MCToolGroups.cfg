SPECIFICATION Spec
CONSTANTS
  a = a
  c = c
  p = p
  t1 = t1
  t2 = t2
  Group <- Groups
  Above <- Tree
  Hooked = {p, c}
  Candidates <- FlatSets
  Overridden = {p}
  Task <- Tasks
SYMMETRY TaskSymmetry
INVARIANTS Nested ExclusionsHold HooksMatchState ChangesAnnounced
