SPECIFICATION FairSpec
CONSTANTS
  Procs = {p1, p2}
  Authored = {a1}
  Existing = {}
  Given = 0
  Baseline = 0
  MaxRev = 1
  MaxCheckpoints = 8
  MaxOthers = 0
  MaxCrashes = 1
  MaxFaults = 1
  Other = Other
  Absent = Absent
INVARIANTS
  TypeOK
  WritesAreClaimed
  BlockedChangedNothing
PROPERTIES
  ClaimsAreConservative
  WrittenBecomesCurrent
