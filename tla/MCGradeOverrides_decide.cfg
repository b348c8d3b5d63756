SPECIFICATION Spec
CONSTANTS
  p1 = p1
  p2 = p2
  Procs = {p1, p2}
  CallsOf <- MCCallsOf
  Results = {g1, g2}
  MaxRev = 3
  MaxChanges = 2
  MaxFailures = 1
  Absent = Absent
  Orphan = Orphan
SYMMETRY Symmetry
INVARIANTS
  TypeOK
  AuthoredOnSelected
PROPERTIES
  ImplementsDecisions
