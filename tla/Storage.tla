------------------------------ MODULE Storage ------------------------------
(***************************************************************************)
(* What the page's server keeps on the disk: the records of sampling       *)
(* attempts, the files of a mission, the downloads, the packs and the      *)
(* tiles of the map, the settings.  A behaviour is one of one part: a      *)
(* part's variables are the first of s1, s2, ...; the others stay zero.    *)
(***************************************************************************)
EXTENDS Naturals, FiniteSets

CONSTANTS
  \* the records of attempts: those of a restart of the server, of repeated messages
  Attempts, Sources, Nobody, RestartCasts, RepeatCasts, MaxMissions, MaxStops,
  \* the files of the missions
  MissionIds, Samples, None, Interval, Overlap, MaxFrames, MaxPoints, MaxResults, MaxReplacements,
  \* the downloads of map tiles
  Jobs, Tiles, Tasks, PoolSize, MassAttempts, Callers, MaxRuns, Casts,
  \* the packs of map tiles
  TileKeys, Contents, SizeOf, Versions, Bad, Absent, Appliers, Events,
  \* one tile
  Pages, Fetchers, MaxAttempts, MaxFiles,
  \* the settings
  Waypoints, Values, Default, MaxEdits,
  \* bounds of several parts
  MaxFailures, MaxCrashes

VARIABLES
  part,
  s1, s2, s3, s4, s5, s6, s7, s8, s9, s10, s11, s12, s13, s14, s15, s16, s17, s18, s19, s20

After11 == <<s12, s13, s14, s15, s16, s17, s18, s19, s20>>
After8 == <<s9, s10, s11, After11>>
After7 == <<s8, After8>>
After6 == <<s7, After7>>
None11 == s12 = 0 /\ s13 = 0 /\ s14 = 0 /\ s15 = 0 /\ s16 = 0 /\ s17 = 0 /\ s18 = 0 /\ s19 = 0 /\ s20 = 0
None8 == s9 = 0 /\ s10 = 0 /\ s11 = 0 /\ None11
None7 == s8 = 0 /\ None8
None6 == s7 = 0 /\ None7
parts == <<part, s1, s2, s3, s4, s5, s6, After6>>

Restarted ==
  INSTANCE WebRecording WITH
    Attempts <- Attempts, SourceOf <- Sources, Casts <- RestartCasts, MaxMissions <- MaxMissions,
    MaxStops <- MaxStops, MaxRepeats <- 0, MaxCrashes <- MaxCrashes, Nobody <- Nobody,
    web <- s1, start <- s2, stop <- s3, stage <- s4, pump <- s5, topic <- s6, truth <- s7, left <- s8

Repeated ==
  INSTANCE WebRecording WITH
    Attempts <- Attempts, SourceOf <- Sources, Casts <- RepeatCasts, MaxMissions <- MaxMissions,
    MaxStops <- MaxStops, MaxRepeats <- 1, MaxCrashes <- 0, Nobody <- Nobody,
    web <- s1, start <- s2, stop <- s3, stage <- s4, pump <- s5, topic <- s6, truth <- s7, left <- s8

Mission ==
  INSTANCE MissionFiles WITH
    Missions <- MissionIds, Samples <- Samples, None <- None, Interval <- Interval, Overlap <- Overlap,
    MaxFrames <- MaxFrames, MaxPoints <- MaxPoints, MaxResults <- MaxResults, MaxFailures <- MaxFailures,
    MaxCrashes <- MaxCrashes, MaxReplacements <- MaxReplacements, file <- s1,
    version <- s2, current <- s3, mem <- s4, held <- s5, object <- s6, closing <- s7, callback <- s8,
    raw <- s9, opened <- s10, builder <- s11, fresh <- s12, cache <- s13, reader <- s14, asked <- s15,
    acked <- s16, used <- s17, failures <- s18, crashes <- s19, replaced <- s20

Prewarm ==
  INSTANCE MapPrewarm WITH
    Jobs <- Jobs, Tiles <- Tiles, Tasks <- Tasks, Workers <- PoolSize, MassAttempts <- MassAttempts,
    Callers <- Callers, MaxRuns <- MaxRuns, Casts <- Casts,
    disk <- s1, active <- s2, run <- s3, call <- s4, shown <- s5, left <- s6

Packs ==
  INSTANCE MapPacks WITH
    Keys <- TileKeys, Contents <- Contents, SizeOf <- SizeOf, Versions <- Versions, Bad <- Bad,
    Absent <- Absent, Appliers <- Appliers, Events <- Events, work <- s1, base <- s2, pack <- s3,
    cache <- s4, applier <- s5, left <- s6

Tile ==
  INSTANCE TileFiles WITH
    Pages <- Pages, Workers <- Fetchers, MaxAttempts <- MaxAttempts, MaxFiles <- MaxFiles,
    MaxCrashes <- MaxCrashes, tile <- s1, tmp <- s2, content <- s3, made <- s4, pc <- s5, fd <- s6,
    attempts <- s7, served <- s8, abort <- s9, shared <- s10, crashes <- s11

Settings ==
  INSTANCE ConfigStore WITH
    Keys <- Waypoints, Values <- Values, Default <- Default, MaxEdits <- MaxEdits, MaxCrashes <- MaxCrashes,
    memory <- s1, file <- s2, previous <- s3, request <- s4, promised <- s5, edits <- s6, crashes <- s7

Start ==
  \/ part = "restart" /\ Restarted!Init /\ None8
  \/ part = "repeat" /\ Repeated!Init /\ None8
  \/ part = "files" /\ Mission!Init
  \/ part = "downloads" /\ Prewarm!Init /\ None6
  \/ part = "packs" /\ Packs!Init /\ None6
  \/ part = "tile" /\ Tile!Init /\ None11
  \/ part = "settings" /\ Settings!Init /\ None7

Step ==
  \/ part = "restart" /\ Restarted!Next /\ UNCHANGED <<part, After8>>
  \/ part = "repeat" /\ Repeated!Next /\ UNCHANGED <<part, After8>>
  \/ part = "files" /\ Mission!Next /\ UNCHANGED part
  \/ part = "downloads" /\ Prewarm!Next /\ UNCHANGED <<part, After6>>
  \/ part = "packs" /\ Packs!Next /\ UNCHANGED <<part, After6>>
  \/ part = "tile" /\ Tile!Next /\ UNCHANGED <<part, After11>>
  \/ part = "settings" /\ Settings!Next /\ UNCHANGED <<part, After7>>

Spec == Start /\ [][Step]_parts

ASSUME RecordingAssumption ==
  Restarted!NobodyIsNoAttempt /\ Restarted!SourceType /\ Restarted!BoundsAreNumbers
ASSUME MissionAssumption == Mission!NoneIsNothing
ASSUME DownloadsAssumption == Prewarm!TasksType
ASSUME PacksAssumption == Packs!ContentsType
ASSUME TileAssumption == Tile!DisjointAssumption
ASSUME SettingsAssumption == Settings!ValuesAssumption

-----------------------------------------------------------------------------
(* What a file says of an attempt is how that attempt ended, an attempt is *)
(* recorded once, when everything has ended no window and no record is     *)
(* open, and taking back a start changes the record of no other attempt.   *)
RecordsAreTrue ==
  /\ [](part = "restart" => Restarted!RecordsHold)
  /\ [](part = "repeat" => Repeated!RecordsHold)
  /\ [][/\ part = "restart" => Restarted!RollsBackItsOwn
        /\ part = "repeat" => Repeated!RollsBackItsOwn]_parts

(* A closed window's statistics are those of all its frames.               *)
SummaryIsWhole == part = "files" => Mission!SummaryIsWhole

(* A manual result that was said to be saved stays, and what is read out   *)
(* of the cache is what the file holds.                                    *)
ResultsStay == part = "files" => Mission!AcknowledgedResultsStay /\ Mission!CacheIsTrue

(* A job that says it is completed has its tiles on the disk, and what it  *)
(* has logged lies there and is counted once.                              *)
JobsAreTrue == part = "downloads" => Prewarm!CompletedIsComplete /\ Prewarm!ProgressIsTrue

(* A pack brings genuine tiles, and all of them when it reports no error.  *)
PacksAreTrue == part = "packs" => Packs!TilesAreGenuine /\ Packs!AppliedIsComplete

(* Nobody is served anything but a whole tile.                             *)
ServedIsWhole == part = "tile" => Tile!ServedIsWhole

(* A setting that was saved stays until it is saved anew.                  *)
SavedStays == part = "settings" => Settings!SavedStays
=============================================================================
