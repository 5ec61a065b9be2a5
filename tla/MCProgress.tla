----------------------------- MODULE MCProgress -----------------------------
(***************************************************************************)
(* What has to go on, for TLC: the command lanes of the trigger, the       *)
(* session with the pump board, the restarts of MAVROS, the engine's run.  *)
(* A behaviour is one of one part: the lanes' own variables, or the first  *)
(* of s1, s2, ...; the others stay as they are.                            *)
(***************************************************************************)
EXTENDS CommandLanes, TLC

CONSTANTS c1, c2, c3, c4, motor, caller

\* A step that turns nothing between two that turn the motor.
GapSteps == <<{motor}, {}, {motor}>>

MixedKinds == c1 :> "start_survey" @@ c2 :> "stop_survey" @@ c3 :> "stop" @@ c4 :> "other"

VARIABLES
  part,
  s1, s2, s3, s4, s5, s6, s7, s8, s9, s10, s11, s12, s13, s14, s15, s16, s17, s18, s19, s20, s21, s22,
  s23, s24

After17 == <<s18, s19, s20, s21, s22, s23, s24>>
After11 == <<s12, s13, s14, s15, s16, s17, After17>>
None17 == s18 = 0 /\ s19 = 0 /\ s20 = 0 /\ s21 = 0 /\ s22 = 0 /\ s23 = 0 /\ s24 = 0
None11 == s12 = 0 /\ s13 = 0 /\ s14 = 0 /\ s15 = 0 /\ s16 = 0 /\ s17 = 0 /\ None17
None0 == s1 = 0 /\ s2 = 0 /\ s3 = 0 /\ s4 = 0 /\ s5 = 0 /\ s6 = 0 /\ s7 = 0 /\ s8 = 0 /\ s9 = 0 /\ s10 = 0 /\ s11 = 0 /\ None11
slots == <<s1, s2, s3, s4, s5, s6, s7, s8, s9, s10, s11, After11>>
parts == <<part, vars, slots>>

Board ==
  INSTANCE BoardSession WITH
    MaxTrouble <- 3, MaxServices <- 1, conn <- s1, opened <- s2, lost <- s3, reader <- s4, keeper <- s5,
    faultConn <- s6, fault <- s7, armed <- s8, recovering <- s9, requires <- s10, cleanup <- s11,
    tripped <- s12, pending <- s13, job <- s14, board <- s15, trouble <- s16, services <- s17

Link ==
  INSTANCE LinkRecovery WITH
    FreshFor <- 2, Patience <- 3, FirstBackoff <- 3, LastBackoff <- 6, process <- s1, told <- s2,
    stepped <- s3, connected <- s4, age <- s5, unhealthy <- s6, pending <- s7, wait <- s8, backoff <- s9,
    stage <- s10, sinceKill <- s11

Engine ==
  INSTANCE AutomationEngine WITH
    Motors <- {motor}, Callers <- {caller}, Steps <- GapSteps, LoopCount <- 1, PidMode <- TRUE,
    StepHook <- FALSE, SlowOperator <- FALSE, ErrorAtomic <- FALSE, MaxRuns <- 1, MaxPauses <- 1,
    running <- s1, paused <- s2, lock <- s3, generation <- s4, pending <- s5, failed <- s6,
    lastError <- s7, cleanupFailed <- s8, loop <- s9, pc <- s10, idx <- s11, snap <- s12, stopped <- s13,
    cpc <- s14, rpc <- s15, moving <- s16, replies <- s17, status <- s18, runs <- s19, completed <- s20,
    reached <- s21, halted <- s22, operatorStop <- s23, outcome <- s24

Start ==
  /\ Init
  /\ \/ part = "lanes" /\ None0
     \/ part = "board" /\ Board!Init /\ None17
     \/ part = "link" /\ Link!Init /\ None11
     \/ part = "engine" /\ Engine!Init

OfLanes(A) == part = "lanes" /\ A /\ UNCHANGED <<part, slots>>
OfBoard(A) == part = "board" /\ A /\ UNCHANGED <<part, vars, After17>>
OfLink(A) == part = "link" /\ A /\ UNCHANGED <<part, vars, After11>>
OfEngine(A) == part = "engine" /\ A /\ UNCHANGED <<part, vars>>

Step == OfLanes(Next) \/ OfBoard(Board!Next) \/ OfLink(Link!Next) \/ OfEngine(Engine!Next)

(* The fairness of each part, as its module states it.                     *)
LanesGoOn == \A l \in Lanes : WF_parts(OfLanes(Worker(l)))
BoardGoesOn ==
  /\ WF_parts(OfBoard(Board!TakeTrip)) /\ WF_parts(OfBoard(Board!ReaderError)) /\ WF_parts(OfBoard(Board!Main))
  /\ WF_parts(OfBoard(Board!Reconnects))
LinkGoesOn ==
  /\ WF_parts(OfLink(Link!State)) /\ WF_parts(OfLink(Link!Tick)) /\ WF_parts(OfLink(Link!Looks))
  /\ WF_parts(OfLink(Link!LookAgain)) /\ WF_parts(OfLink(Link!Kill))
(* Every thread of the engine goes on running; operators, motors and faults *)
(* may do nothing.  A thread that wants _lock gets it in the end: each     *)
(* holder gives it back after one write.                                   *)
EngineGoesOn ==
  /\ SF_parts(OfEngine(Engine!Worker)) /\ WF_parts(OfEngine(Engine!Reader))
  /\ \A c \in {caller} : WF_parts(OfEngine(Engine!GoesOn(c)))

PartsSpec == Start /\ [][Step]_parts /\ LanesGoOn /\ BoardGoesOn /\ LinkGoesOn /\ EngineGoesOn

ASSUME PartsAssumption == Link!RecoveryAssumption

-----------------------------------------------------------------------------
(* A recovery that clears the fault has stopped what the board drove, and  *)
(* when lines stop breaking the node gets back to a session without fault. *)
RecoveryEnds ==
  /\ [][part = "board" => Board!ClearsOnlyQuiet]_parts
  /\ []<>(part = "board" => Board!IsRecovered)

(* A link that stays away is restarted again and again, and not too often. *)
RestartsGoOn ==
  /\ [][part = "link" => Link!WaitsBetween]_parts
  /\ <>[](part = "link" /\ Link!IsAway) => []<>(part = "link" /\ Link!IsRestarted)
  /\ (part = "link" /\ Link!IsAsked) ~> (part = "link" /\ ~Link!IsAsked)

(* The worker of the engine comes to its end: a stopped run ends, whatever *)
(* it was waiting for, and one that never ends is one somebody keeps paused.*)
Works == part = "engine" /\ Engine!Alive
RunsEnd == <>[]Works => []<>(part = "engine" /\ Engine!IsHeld)
=============================================================================
