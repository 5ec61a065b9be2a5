SPECIFICATION PartsSpec
CONSTANTS
  a = a
  b = b
  c = c
  d = d
  e = e
  Requests = {a, c}
  Kind <- InjectionKind
  Target <- NoTarget
  Nobody = Nobody
INVARIANTS
  StopOwnsAbandoned
CHECK_DEADLOCK FALSE
