SPECIFICATION Spec
CONSTANTS
  x = x  y = y  c1 = c1  c2 = c2
  Motors = {x, y}
  Callers = {c1, c2}
  Steps <- TwoSteps
  LoopCount = 1
  PidMode = TRUE
  StepHook = TRUE
  SlowOperator = TRUE
  ErrorAtomic = TRUE
  MaxRuns = 2
  MaxPauses = 1
SYMMETRY CallerSymmetry
INVARIANTS HaltHolds
PROPERTIES  RunPromise
