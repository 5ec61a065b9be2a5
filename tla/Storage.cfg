SPECIFICATION Spec
CONSTANTS
  manual = manual  survey = survey  page = page  Nobody = Nobody
  j1 = j1  j2 = j2  t1 = t1  t2 = t2  c1 = c1  c2 = c2
  k1 = k1  k2 = k2  oldTile = oldTile  newTile = newTile
  Attempts = {manual, survey, page}
  Sources <- SourceOfAttempt
  RestartCasts <- WithRestart
  RepeatCasts <- WithRepeat
  MaxMissions = 4  MaxStops = 1
  MissionIds = {m1}  Samples = {first, second}  None = None
  Interval = 2  Overlap = FALSE  MaxFrames = 2  MaxPoints = 1  MaxResults = 1  MaxReplacements = 1
  Jobs = {j1, j2}  Tiles = {t1, t2}  Callers = {c1, c2}
  Tasks <- TilesOfJob
  PoolSize = 1  MassAttempts = 2  MaxRuns = 2
  Casts <- Downloads
  TileKeys = {k1, k2}  Contents = {oldTile, newTile, Bad}  Bad = Bad  Absent = Absent
  SizeOf <- SizeOfContent
  Versions <- VersionsOfKey
  Appliers = {a1, a2}  Events = 4
  Pages = {c1, c2}  Fetchers = {a1}  MaxAttempts = 2  MaxFiles = 5
  Waypoints = {k1, k2}  Values = {1, 2}
  Default <- DefaultSettings
  MaxEdits = 3  MaxFailures = 1  MaxCrashes = 1
INVARIANTS SummaryIsWhole ResultsStay    SavedStays
PROPERTIES RecordsAreTrue
CHECK_DEADLOCK FALSE
