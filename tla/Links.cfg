SPECIFICATION PartsSpec
CONSTANTS
  gcs = gcs  fcu = fcu  stop = stop  sample = sample  survey = survey
  Senders = {gcs}
  Asks = {stop, sample}
  KindOf <- TaskKinds
  MaxReplies = 1  MaxSenders = 1  MaxNumber = 3  MaxAttempts = 1
  LateReports = FALSE
  EventSenders = {gcs, fcu}
  EventAsks = {stop, sample, survey}
  EventKindOf <- AskKinds
  MaxEvents = 4  MaxTalkers = 1  MaxTold = 2  MaxTries = 2
  MaxId = 2  MaxSent = 2  MaxFcuBreaks = 1
  AllReports = {"running", "paused", "stopped", "fault"}
  AllStates = {"HOLD_NO_MISSION", "SAMPLING", "NAVIGATING"}
  SomeReports = {"running", "stopped"}
  SomeStates = {"NAVIGATING"}
  Readings = {TRUE, FALSE}
  MaxAge = 1  MessageTime = 2  AgeTime = 4  ReadingTime = 5
  FrameSize = 2  WriteTimeout = 4  TelemetryTimeout = 3  ProbeInterval = 2  ProbeTimeout = 5
  RoundTrip = 4  MaxNow = 13  MaxBreaks = 1
  RadioNumbers = {1, 2, 3}  RadioStops = {3}
  FragmentsOf <- TwoPieces
  MaxRecords = 2  MaxBoots = 1
  RelayNumbers = {1}  RelayTasks = {1}  RelaySafety = {}
  Chunks = 2  MaxRecent = 1  MaxChunkId = 2  MaxTrouble = 1  MaxCopies = 2  MaxQueue = 1
  Parts = {"ledger", "events", "fcu", "messages", "ages", "readings", "router", "radio"}
INVARIANTS AtMostOnce InFlightKept EventsTellApart SamplingsAreTrue
PROPERTIES StatusIsTrue PathIsJudged RequestsRunOnce
CHECK_DEADLOCK FALSE
