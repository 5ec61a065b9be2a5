SPECIFICATION PartsSpec
CONSTANTS
  c1 = c1  c2 = c2  c3 = c3  c4 = c4  motor = motor  caller = caller
  Commands = {c1, c2, c3, c4}
  Kind <- MixedKinds
  Room = 1
  Nobody = Nobody
INVARIANTS StopBeatsSurvey LossHasCause
PROPERTIES EveryCommandIsAnswered RecoveryEnds RestartsGoOn RunsEnd
CHECK_DEADLOCK FALSE
