SPECIFICATION Spec
CONSTANTS
  Procs = {p1, p2}
  MaxRev = 2
  a = a
  b = b
  Contents <- MCContents
  Transition <- MCTransition
  Ops = {"write", "select", "load", "list"}
  MaxCrashes = 0
  MaxIOErrors = 2
  Absent = Absent
  Torn = Torn
  NoProc = NoProc
  Orphan = Orphan
SYMMETRY Symmetry
INVARIANTS
  TypeOK
  LockDiscipline
  LoadedDurable
  LinearHistory
  ListedDurable
  PointerCommitted
PROPERTIES
  NoLostUpdate
  FailClosed
  ImplementsHistory
