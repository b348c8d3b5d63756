SPECIFICATION Spec
CONSTANTS
  Procs = {p1, p2}
  Grants = {g1, g2, g3}
  MaxEdits = 0
  MaxCrashes = 0
  MaxFaults = 0
  Absent = Absent
  Torn = Torn
PROPERTIES
  NothingOverwritten
