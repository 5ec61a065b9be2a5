------------------------------ MODULE PumpNode ------------------------------
(***************************************************************************)
(* What the pump node does at the serial line: the spectrometer, the       *)
(* framing of the line, the injection pump, the preparation of a run, the  *)
(* gate of a step, direct commands.  A behaviour is one of one part: a     *)
(* part's variables are the first of s1, s2, ...; the others stay zero.    *)
(***************************************************************************)
EXTENDS Naturals, Sequences, FiniteSets

CONSTANTS
  \* the spectrometer
  MeterRequests, MeterMixes, MeterKind, MeterSetting, Attempts, MaxFrames, MaxTasks,
  \* the framing
  LineItems, MaxItems,
  \* the injection pump
  Ons, Waiting, Offs, MaxQueue,
  \* the preparation
  Motors, Oil, Plans, Turn, Goal, Speed, AngleTimeout, MaxGap, MaxBack,
  \* the gate
  Fresh, StaleStop, WaitTimeout, OwnerTimeout, Lead, MaxNow, MaxAverages, MaxGaps, MaxSteps, MaxOrders,
  \* direct commands
  Commands, DirectMixes, CalibrationMoves, NoOne,
  \* bound of several parts
  MaxTrouble

VARIABLES
  part,
  s1, s2, s3, s4, s5, s6, s7, s8, s9, s10, s11, s12, s13, s14, s15, s16, s17, s18, s19, s20, s21, s22, s23,
  s24

After17 == <<s18, s19, s20, s21, s22, s23, s24>>
After14 == <<s15, s16, s17, After17>>
After13 == <<s14, After14>>
After11 == <<s12, s13, After13>>
After5 == <<s6, s7, s8, s9, s10, s11, After11>>
None17 == s18 = 0 /\ s19 = 0 /\ s20 = 0 /\ s21 = 0 /\ s22 = 0 /\ s23 = 0 /\ s24 = 0
None14 == s15 = 0 /\ s16 = 0 /\ s17 = 0 /\ None17
None13 == s14 = 0 /\ None14
None11 == s12 = 0 /\ s13 = 0 /\ None13
None5 == s6 = 0 /\ s7 = 0 /\ s8 = 0 /\ s9 = 0 /\ s10 = 0 /\ s11 = 0 /\ None11
parts == <<part, s1, s2, s3, s4, s5, After5>>

Meter ==
  INSTANCE Spectrometer WITH
    Requests <- MeterRequests, Mixes <- MeterMixes, Kind <- MeterKind, Setting <- MeterSetting,
    Attempts <- Attempts, MaxTrouble <- MaxTrouble, MaxFrames <- MaxFrames, MaxTasks <- MaxTasks,
    pc <- s1, lock <- s2, attempt <- s3, down <- s4, up <- s5, txn <- s6, sync <- s7, wanted <- s8,
    config <- s9, meter <- s10, task <- s11, seen <- s12, board <- s13, trouble <- s14

Framing ==
  INSTANCE SerialFraming WITH
    Items <- LineItems, MaxItems <- MaxItems, sent <- s1, line <- s2, buffer <- s3, text <- s4, got <- s5

Injecting ==
  INSTANCE InjectionPump WITH
    Ons <- Ons, Waiting <- Waiting, Offs <- Offs, MaxQueue <- MaxQueue, at <- s1, generation <- s2, queue <- s3,
    item <- s4, worker <- s5, stopping <- s6, shown <- s7, down <- s8, board <- s9, up <- s10, offs <- s11

Preparing ==
  INSTANCE Preparation WITH
    Motors <- Motors, Oil <- Oil, Plans <- Plans, Turn <- Turn, Goal <- Goal, Speed <- Speed,
    AngleTimeout <- AngleTimeout, MaxGap <- MaxGap, MaxBack <- MaxBack, MaxTrouble <- MaxTrouble,
    plan <- s1, stage <- s2, at <- s3, acked <- s4, error <- s5, started <- s6, pending <- s7,
    cancelled <- s8, ended <- s9, travel <- s10, wire <- s11, texts <- s12, moving <- s13,
    injecting <- s14, turned <- s15, real <- s16, trouble <- s17

Gate ==
  INSTANCE StepGate WITH
    Fresh <- Fresh, StaleStop <- StaleStop, WaitTimeout <- WaitTimeout, OwnerTimeout <- OwnerTimeout,
    Lead <- Lead, MaxNow <- MaxNow, MaxAverages <- MaxAverages, MaxGaps <- MaxGaps, MaxSteps <- MaxSteps,
    MaxOrders <- MaxOrders, now <- s1, conn <- s2, started <- s3,
    offset <- s4, state <- s5, validAt <- s6, window <- s7, average <- s8, reference <- s9, running <- s10,
    paused <- s11, cancel <- s12, fault <- s13, beatAt <- s14, injecting <- s15, at <- s16, mine <- s17,
    wait <- s18, leadEnd <- s19, move <- s20, last <- s21, gaps <- s22, steps <- s23, orders <- s24

Direct ==
  INSTANCE DirectCommands WITH
    Requests <- Commands, Mixes <- DirectMixes, Moves <- CalibrationMoves, Nobody <- NoOne, kind <- s1, at <- s2,
    issued <- s3, token <- s4, lock <- s5, cutoff <- s6, stops <- s7, manual <- s8, fault <- s9, run <- s10,
    calibration <- s11, ending <- s12, wrote <- s13

Start ==
  \/ part = "spectrometer" /\ Meter!Init /\ None14
  \/ part = "framing" /\ Framing!Init /\ None5
  \/ part = "injection" /\ Injecting!Init /\ None11
  \/ part = "preparation" /\ Preparing!Init /\ None17
  \/ part = "step" /\ Gate!Init
  \/ part = "direct" /\ Direct!Init /\ None13

Step ==
  \/ part = "spectrometer" /\ Meter!Next /\ UNCHANGED <<part, After14>>
  \/ part = "framing" /\ Framing!Next /\ UNCHANGED <<part, After5>>
  \/ part = "injection" /\ Injecting!Next /\ UNCHANGED <<part, After11>>
  \/ part = "preparation" /\ Preparing!Next /\ UNCHANGED <<part, After17>>
  \/ part = "step" /\ Gate!Next /\ UNCHANGED part
  \/ part = "direct" /\ Direct!Next /\ UNCHANGED <<part, After13>>

Spec == Start /\ [][Step]_parts

ASSUME MeterAssumption == Meter!RequestKinds
ASSUME PumpAssumption == Injecting!QueueHasRoom /\ Preparing!AngleAssumption /\ Framing!ItemsAreBytes
ASSUME RunAssumption == Gate!TimesAssumption /\ Direct!MixesAssumption

-----------------------------------------------------------------------------
(* A reply that confirms a setter is the reply to that very command.       *)
RepliesAreOwn == part = "spectrometer" => Meter!RepliesAreOwn

(* A configuration reported ready is the board's, the frames that count as *)
(* acquired are this session's, and a run ended as stale is stale then.    *)
ReadyIsTrue ==
  /\ [](part = "spectrometer" => Meter!ReadyIsTrue /\ Meter!AcquiringIsReal)
  /\ [][part = "spectrometer" => Meter!EndsWhenStale]_parts

(* Each packet that was written whole is handed on, once and in order.     *)
PacketsArrive == part = "framing" => Framing!PacketsArrive

(* No ON that an OFF has overtaken is written, and what is shown in the    *)
(* end is what the board does.                                             *)
ShownIsTrue ==
  /\ [](part = "injection" => Injecting!ShownIsTrue)
  /\ [][part = "injection" => Injecting!WritesNothingOld]_parts

(* What counts as prepared has really been turned, as far as it should,    *)
(* and nothing that drives follows a stop of a preparation.                *)
PreparedIsReal ==
  part = "preparation" => Preparing!PreparedIsReal /\ Preparing!SeparationIsReal /\ Preparing!StopIsFinal

(* A motion is sent on a fresh measurement and is done with a newer one.   *)
StepsAreMeasured == part = "step" => Gate!MovesAreMeasured /\ Gate!DoneIsMeasured

(* One mover at a time, nothing admitted before a stop is written after    *)
(* it, and a stopped calibration never becomes a success.                  *)
OneMover ==
  /\ [](part = "direct" => Direct!OneMover /\ Direct!NothingOutlivesAStop)
  /\ [][part = "direct" => Direct!KeepsOutcome]_parts
=============================================================================
