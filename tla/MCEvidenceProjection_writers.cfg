SPECIFICATION FairSpec
CONSTANTS
  Procs = {p1, p2}
  Target = 1
  MaxLength = 1
  Regs = {r1}
  Builds = {b1}
  Scopes = {s1}
  MaxVersion = 1
  Inventories = {v1, v2}
  MaxChanges = 0
  MaxCrashes = 1
  MaxFaults = 2
  Absent = Absent
  Torn = Torn
  NoProc = NoProc
  Orphan = Orphan
INVARIANTS
  ReadsSettled
  ReportedSettled
PROPERTIES
  ImplementsSnapshots
  LockReleased
