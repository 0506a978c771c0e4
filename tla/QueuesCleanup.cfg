SPECIFICATION Spec
CONSTANTS
  Proxy = {p1, p2}
  Chan = {k1}
  Name = {q1}
  N = 2
  Flag = {"autoDelete", "exclusive"}
  ForceOn = {}
  ForceOff = {"autoDelete"}
  TryPassive = {1}
  Emulate = {0, 1}
  Ask = {{}, {"autoDelete"}, {"exclusive"}}
  MaxRequest = 3
  MaxBreak = 1
SYMMETRY Symmetry
INVARIANTS
  CleanedUp
  DeclaredEverywhere
PROPERTIES
  OnlyAskedFor
CHECK_DEADLOCK FALSE
