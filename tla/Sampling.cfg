SPECIFICATION Spec
CONSTANTS
  Dones = {d1}
  MaxAttempts = 2
  Scripts <- MCScripts
  MaxStops = 1
  MaxTroubles = 1
  MaxWeb = 1
  Retries = 1
  OneStarter = TRUE
INVARIANTS StopHolds SuccessIsTrue EverythingIsReported
CHECK_DEADLOCK FALSE
