SPECIFICATION FairSpec
CONSTANTS
  Procs = {p1, p2}
  MaxRev = 2
  a = a
  b = b
  Contents <- MCContents
  Transition <- MCTransition
  Ops = {"write", "load", "list", "ids"}
  MaxCrashes = 1
  MaxIOErrors = 0
  Absent = Absent
  Torn = Torn
  NoProc = NoProc
  Orphan = Orphan
INVARIANTS
  AcknowledgedDurable
PROPERTIES
  HistoryImmutable
  LockReleased
  CallsReturn
