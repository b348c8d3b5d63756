SPECIFICATION Spec
CONSTANTS
  Procs = {p1, p2}
  Authored = {a1, a2}
  Existing = {e1}
  Given = 2
  Baseline = 1
  MaxRev = 3
  MaxCheckpoints = 6
  MaxOthers = 1
  MaxCrashes = 0
  MaxFaults = 0
  Other = Other
  Absent = Absent
SYMMETRY Symmetry
INVARIANTS
  SuccessIsTrue
  ClaimsArePersisted
PROPERTIES
  NoChoiceOverwritten
