SPECIFICATION Spec
CONSTANTS
  Procs = {p1}
  Target = 1
  MaxLength = 2
  Regs = {r1, r2}
  Builds = {b1}
  Scopes = {s1, s2}
  MaxVersion = 2
  Inventories = {v1}
  MaxChanges = 2
  MaxCrashes = 0
  MaxFaults = 0
  Absent = Absent
  Torn = Torn
  NoProc = NoProc
  Orphan = Orphan
SYMMETRY Symmetry
INVARIANTS
  TypeOK
  PreparedWasTrue
  ReusableWasCurrent
  ReadsConfined
