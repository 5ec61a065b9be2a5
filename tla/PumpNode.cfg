SPECIFICATION Spec
CONSTANTS
  x = x  a = a  NoOne = NoOne
  MeterRequests = {1, 2, 3, 4, 5, 6, 7}
  MeterMixes <- RequestMixes
  MeterKind <- KindOfRequest
  MeterSetting <- SettingOfRequest
  Attempts = 2  MaxFrames = 2  MaxTasks = 1
  LineItems <- ItemsOfLine
  MaxItems = 4
  Ons = {1, 2}  Waiting = {1}  Offs = {4, 5}  MaxQueue = 1
  Motors = {x, a}  Oil = a  Turn = 12  Goal = 12  Speed = 2  AngleTimeout = 2  MaxGap = 5  MaxBack = 6
  Plans <- OnePlanEach
  Fresh = 1  StaleStop = 3  WaitTimeout = 2  OwnerTimeout = 2  Lead = 1
  MaxNow = 3  MaxAverages = 2  MaxGaps = 2  MaxSteps = 1  MaxOrders = 1
  Commands = {1, 2, 3, 4}  CalibrationMoves = 2
  DirectMixes <- CommandMixes
  MaxTrouble = 1
INVARIANTS  PacketsArrive PreparedIsReal StepsAreMeasured
PROPERTIES ReadyIsTrue  
CHECK_DEADLOCK FALSE
