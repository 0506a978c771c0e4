SPECIFICATION Spec
CONSTANTS
  Proxy = {p1, p2}
  Chan = {k1}
  Name = {q1}
  N = 1
  Flag = {"autoDelete", "exclusive", "durable"}
  ForceOn = {"durable"}
  ForceOff = {"autoDelete"}
  TryPassive = {0}
  Emulate = {0}
  Ask = {{}, {"autoDelete"}}
  MaxRequest = 2
  MaxBreak = 0
INVARIANTS
  AsConfigured
CHECK_DEADLOCK FALSE
