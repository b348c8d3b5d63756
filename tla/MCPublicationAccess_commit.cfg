SPECIFICATION Spec
CONSTANTS
  Procs = {p1, p2}
  Grants = {g1, g2}
  MaxEdits = 2
  MaxCrashes = 1
  MaxFaults = 1
  Absent = Absent
  Torn = Torn
SYMMETRY Symmetry
INVARIANTS
  TypeOK
  
PROPERTIES
  AddsExactlyItsGrant
