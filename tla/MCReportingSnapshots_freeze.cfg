SPECIFICATION Spec
CONSTANTS
  N = 2
  g1 = g1
  g2 = g2
  a1 = a1
  a2 = a2
  e1 = e1
  e2 = e2
  Results = {g1, g2}
  Calculated = {g1}
  Activations = {a1, a2}
  Evidence = {e1, e2}
  BasisOf <- MCBasisOf
  Start <- MCStart
  Movable = {"result", "activation", "evidence", "override", "publication"}
  MaxOverride = 2
  MaxChanges = 2
  MaxFailures = 1
  Absent = Absent
INVARIANTS
  TypeOK
  RowsWereTrue
  EffectiveWasInForce
PROPERTIES
  FrozenWasOneState
  NothingReplaced
