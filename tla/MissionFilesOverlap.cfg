SPECIFICATION Spec
CONSTANTS
  Missions = {m1}  Samples = {s1, s2}  None = None
  Interval = 2  Overlap = TRUE
  MaxFrames = 2  MaxPoints = 2  MaxResults = 2  MaxFailures = 1  MaxCrashes = 1  MaxReplacements = 1
INVARIANTS SummaryIsWhole
CHECK_DEADLOCK FALSE
