SPECIFICATION Spec
CONSTANTS
  x = x  y = y  c1 = c1  c2 = c2
  Motors = {x}
  Callers = {c1}
  Steps <- OneStep
  LoopCount = 1
  PidMode = TRUE
  StepHook = FALSE
  SlowOperator = TRUE
  ErrorAtomic = FALSE
  MaxRuns = 1
  MaxPauses = 1
INVARIANTS FailureNotFinished
