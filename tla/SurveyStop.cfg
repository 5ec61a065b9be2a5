SPECIFICATION Spec
CONSTANTS
  Dones = {d1}
  MaxAttempts = 1
  Scripts <- MCScripts
  MaxStops = 1
  MaxTroubles = 0
  MaxWeb = 0
  Retries = 0
  OneStarter = TRUE
INVARIANTS StopReachesSurveys
CHECK_DEADLOCK FALSE
