SPECIFICATION Spec
CONSTANTS
  Procs = {p1, p2}
  Authored = {a1}
  Existing = {}
  Given = 0
  Baseline = 0
  MaxRev = 1
  MaxCheckpoints = 8
  MaxOthers = 0
  MaxCrashes = 0
  MaxFaults = 0
  Other = Other
  Absent = Absent
SYMMETRY Symmetry
INVARIANTS
  OneWriter
