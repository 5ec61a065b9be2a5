------------------------------- MODULE Links --------------------------------
(***************************************************************************)
(* What goes between vehicle, controller and ground: the request ledger,   *)
(* the flight controller's samplings, the vehicle's status, the link to    *)
(* the router, the requests over the radio, the relay of events.  A        *)
(* behaviour is one of one part: the ledger's own variables, or the first  *)
(* of s1, s2, ...; the others stay as they are.                            *)
(***************************************************************************)
EXTENDS RequestLedger

CONSTANTS
  \* the events of a ledger, of late reports, too
  EventSenders, EventAsks, EventKindOf, MaxEvents, MaxTalkers, MaxTold, MaxTries,
  \* the flight controller's samplings
  MaxId, MaxSent, MaxFcuBreaks,
  \* the vehicle's status: of messages, of their ages, of readings
  AllReports, AllStates, SomeReports, SomeStates, Readings, MaxAge, MessageTime, AgeTime, ReadingTime,
  \* the link to the router
  FrameSize, WriteTimeout, TelemetryTimeout, ProbeInterval, ProbeTimeout, RoundTrip, MaxNow, MaxBreaks,
  \* the requests over the radio
  RadioNumbers, RadioStops, FragmentsOf, MaxRecords, MaxBoots,
  \* the relay of requests and events
  RelayNumbers, RelayTasks, RelaySafety, Chunks, MaxRecent, MaxChunkId, MaxTrouble, MaxCopies, MaxQueue,
  Parts   \* the parts whose behaviours are looked at

VARIABLES
  part,
  s1, s2, s3, s4, s5, s6, s7, s8, s9, s10, s11, s12, s13, s14, s15, s16, s17, s18, s19, s20

After18 == <<s19, s20>>
After10 == <<s11, s12, s13, s14, s15, s16, s17, s18, After18>>
After9 == <<s10, After10>>
After7 == <<s8, s9, After9>>
None18 == s19 = 0 /\ s20 = 0
None10 ==
  /\ s11 = 0 /\ s12 = 0 /\ s13 = 0 /\ s14 = 0 /\ s15 = 0 /\ s16 = 0 /\ s17 = 0 /\ s18 = 0
  /\ None18
None9 == s10 = 0 /\ None10
None7 == s8 = 0 /\ s9 = 0 /\ None9
None0 == s1 = 0 /\ s2 = 0 /\ s3 = 0 /\ s4 = 0 /\ s5 = 0 /\ s6 = 0 /\ s7 = 0 /\ None7
slots == <<s1, s2, s3, s4, s5, s6, s7, After7>>
parts == <<part, vars, slots>>

Reported ==
  INSTANCE RequestLedger WITH
    Senders <- EventSenders, Asks <- EventAsks, KindOf <- EventKindOf, MaxReplies <- MaxEvents,
    MaxSenders <- MaxTalkers, MaxNumber <- MaxTold, MaxAttempts <- MaxTries, LateReports <- TRUE,
    ledger <- s1, work <- s2, attempt <- s3, answered <- s4, asked <- s5, admitted <- s6, published <- s7

Fcu ==
  INSTANCE FcuSampling WITH
    MaxId <- MaxId, MaxSent <- MaxSent, MaxBreaks <- MaxFcuBreaks, asked <- s1, waiting <- s2,
    toVehicle <- s3, toFcu <- s4, connected <- s5, breaks <- s6, last <- s7, current <- s8,
    done <- s9, fail <- s10, starts <- s11, stops <- s12, results <- s13, faults <- s14,
    active <- s15, manual <- s16, finishing <- s17, began <- s18, outcome <- s19, answers <- s20

Messages ==
  INSTANCE VehicleStatus WITH
    Reports <- AllReports, States <- AllStates, Values <- {}, Limit <- MaxAge, MaxNow <- MessageTime,
    MaxQueue <- 1, now <- s1, topics <- s2, missions <- s3, data <- s4, seen <- s5, stepAt <- s6,
    code <- s7, codeAt <- s8, lastMission <- s9, sampling <- s10, valid <- s11, taken <- s12,
    validAt <- s13, cycle <- s14, shown <- s15, told <- s16, origin <- s17, truth <- s18

Ages ==
  INSTANCE VehicleStatus WITH
    Reports <- SomeReports, States <- SomeStates, Values <- {}, Limit <- MaxAge, MaxNow <- AgeTime,
    MaxQueue <- 1, now <- s1, topics <- s2, missions <- s3, data <- s4, seen <- s5, stepAt <- s6,
    code <- s7, codeAt <- s8, lastMission <- s9, sampling <- s10, valid <- s11, taken <- s12,
    validAt <- s13, cycle <- s14, shown <- s15, told <- s16, origin <- s17, truth <- s18

Measured ==
  INSTANCE VehicleStatus WITH
    Reports <- {}, States <- {}, Values <- Readings, Limit <- MaxAge, MaxNow <- ReadingTime,
    MaxQueue <- 1, now <- s1, topics <- s2, missions <- s3, data <- s4, seen <- s5, stepAt <- s6,
    code <- s7, codeAt <- s8, lastMission <- s9, sampling <- s10, valid <- s11, taken <- s12,
    validAt <- s13, cycle <- s14, shown <- s15, told <- s16, origin <- s17, truth <- s18

Router ==
  INSTANCE RouterLink WITH
    FrameSize <- FrameSize, WriteTimeout <- WriteTimeout, TelemetryTimeout <- TelemetryTimeout,
    ProbeInterval <- ProbeInterval, ProbeTimeout <- ProbeTimeout, RoundTrip <- RoundTrip,
    MaxNow <- MaxNow, MaxBreaks <- MaxBreaks, now <- s1, checked <- s2, wrote <- s3, path <- s4,
    brokenAt <- s5, breaks <- s6, up <- s7, connectedAt <- s8, seen <- s9, heardAt <- s10, probe <- s11,
    backAt <- s12, answers <- s13, frame <- s14, offset <- s15, attemptAt <- s16, writtenAt <- s17,
    stream <- s18

Radio ==
  INSTANCE RadioRequests WITH
    Requests <- RadioNumbers, Stops <- RadioStops, Fragments <- FragmentsOf, MaxRecords <- MaxRecords,
    MaxBoots <- MaxBoots, issued <- s1, boot <- s2, records <- s3, known <- s4, highwater <- s5, queues <- s6,
    working <- s7, told <- s8, runs <- s9

Relay ==
  INSTANCE EventRelay WITH
    Requests <- RelayNumbers, Tasks <- RelayTasks, Safety <- RelaySafety, Chunks <- Chunks,
    MaxRecent <- MaxRecent, MaxChunkId <- MaxChunkId, MaxTrouble <- MaxTrouble,
    MaxCopies <- MaxCopies, MaxQueue <- MaxQueue, ground <- s1, link <- s2, route <- s3, recent <- s4,
    active <- s5, chunkId <- s6, known <- s7, commands <- s8, events <- s9, executor <- s10

Start ==
  /\ Init /\ part \in Parts
  /\ \/ part = "ledger" /\ None0
     \/ part = "events" /\ Reported!Init /\ None7
     \/ part = "fcu" /\ Fcu!Init
     \/ part = "messages" /\ Messages!Init /\ None18
     \/ part = "ages" /\ Ages!Init /\ None18
     \/ part = "readings" /\ Measured!Init /\ None18
     \/ part = "router" /\ Router!Init /\ None18
     \/ part = "radio" /\ Radio!Init /\ None9
     \/ part = "relay" /\ Relay!Init /\ None10

Step ==
  \/ part = "ledger" /\ Next /\ UNCHANGED <<part, slots>>
  \/ part = "events" /\ Reported!Next /\ UNCHANGED <<part, vars, After7>>
  \/ part = "fcu" /\ Fcu!Next /\ UNCHANGED <<part, vars>>
  \/ part = "messages" /\ Messages!Next /\ UNCHANGED <<part, vars, After18>>
  \/ part = "ages" /\ Ages!Next /\ UNCHANGED <<part, vars, After18>>
  \/ part = "readings" /\ Measured!Next /\ UNCHANGED <<part, vars, After18>>
  \/ part = "router" /\ Router!Next /\ UNCHANGED <<part, vars, After18>>
  \/ part = "radio" /\ Radio!Next /\ UNCHANGED <<part, vars, After9>>
  \/ part = "relay" /\ Relay!Next /\ UNCHANGED <<part, vars, After10>>

PartsSpec == Start /\ [][Step]_parts

ASSUME LinksAssumption == Router!PathAssumption /\ Fcu!NumberAssumption
ASSUME StatusAssumption == Measured!LimitAssumption
ASSUME RadioAssumption == Radio!RequestAssumption
ASSUME RelayAssumption == Relay!RequestTypes

\* A ledger of reported events has room for the records of all requests.
ASSUME EventAssumption ==
  /\ EventKindOf \in [EventAsks -> Kinds] /\ Unknown \notin EventAsks
  /\ MaxEvents \in Nat /\ MaxTalkers \in Nat \ {0} /\ MaxTold \in Nat /\ MaxTries \in Nat \ {0}
  /\ IsFiniteSet(Reported!Requests) /\ Cardinality(Reported!Requests) <= MaxEvents

-----------------------------------------------------------------------------
(* The numbers of a request's events tell them apart, and the result of an *)
(* attempt is the last word on it.                                         *)
EventsTellApart == part = "events" => Reported!NumbersTellApart /\ Reported!ResultStands

(* A number of the flight controller is sampled once, answered once and    *)
(* with what came of it, however often a connection breaks in between.     *)
SamplingsAreTrue == part = "fcu" => Fcu!SampledOnce /\ Fcu!DoneIsTrue /\ Fcu!AnsweredOnce

(* What the vehicle tells of itself is at rest when all is, and neither a  *)
(* report nor a reading is told as younger than it is.                     *)
StatusIsTrue ==
  /\ [](part = "readings" => Measured!ValidIsRecent)
  /\ [][/\ part = "messages" => Messages!RestsIdle
        /\ part = "ages" => Ages!TellsRecent]_parts

(* The router gets whole frames only; a path that leads nowhere is left in *)
(* time, and one that is only slow is kept.                                *)
PathIsJudged ==
  /\ [](part = "router" => Router!OnlyWholeFrames /\ Router!BrokenPathIsLeft)
  /\ [][part = "router" => Router!LeavesOnlyBroken]_parts

(* No request over the radio runs twice, what is answered is true, and a   *)
(* request that waits when a stop is taken does not start after it.        *)
RequestsRunOnce ==
  /\ [](part = "radio" => Radio!RunsOnce /\ Radio!AnswersAreTrue)
  /\ [][part = "radio" => Radio!StartsBeforeStops]_parts

(* Trouble on the way neither mixes the chunks of events nor begins a      *)
(* request anew.                                                           *)
RelayIsTrue == part = "relay" => Relay!RelayIsTrue

(* The result of what was begun comes to the ground, unless the executor   *)
(* that began it is gone.                                                  *)
ResultArrives == part = "relay" => Relay!ResultArrives
=============================================================================
