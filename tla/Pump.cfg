SPECIFICATION FairPartsSpec
CONSTANTS
  a = a  b = b  c = c  d = d  e = e
  Requests = {a, b, c, d}
  Kind <- StopsKind
  Target <- CleanupTarget
  Nobody = Nobody
INVARIANTS ClosedOnce StopOwnsAbandoned StoppedStaysQuiet
PROPERTIES OutdatedNeverDrives EverythingSettles
CHECK_DEADLOCK FALSE
