SPECIFICATION Spec
CONSTANTS
  Objects = {a, b}
  SharedVars = {p, q}
  WeakVars = {w}
  Null = Null
  CountWord = 16
INVARIANTS
  CountsSound
  FreedOnlyThroughHazard
PROPERTIES
  NeverRevived
  DestructionEnds
