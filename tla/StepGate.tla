------------------------------ MODULE StepGate ------------------------------
(***************************************************************************)
(* The gate before each step of a sampling run (_send_automation_step and  *)
(* _wait_for_automation_step of pump_control_node.py): the pumps move only *)
(* while there is a fresh measurement with a reference, a gap is waited    *)
(* for, and the step ends with a new sample.  The engine's thread goes     *)
(* through the gate; the reader, the operator, the owner's heartbeat and   *)
(* the watchers go on meanwhile.                                           *)
(***************************************************************************)
EXTENDS Integers

CONSTANTS
  Fresh, StaleStop, WaitTimeout,  \* measurement_timeout, spectro_stale_stop_timeout, spectro_sample_wait_timeout
  OwnerTimeout, Lead,             \* ticks without a heartbeat; lead_time_s
  MaxNow, MaxAverages, MaxGaps, MaxSteps, MaxOrders  \* bounds: time, averages, gaps, steps, what the operator does

TimesAssumption == 0 < Fresh /\ Fresh <= StaleStop

VARIABLES
  now,
  conn, started, offset,    \* serial_conn; the count of ADSSTARTs, 0 when stopped; spectro_baseline_voltage
  state, validAt, window,   \* spectro_state, _last_valid_spectro_at, gaps the frames of the window were taken after
  average,                  \* latest_spectro: number, status, gaps of its frames
  reference,                \* _spectro_reference_context
  running, paused, cancel, fault, beatAt,  \* the engine, _automation_cancel, _controller_fault, _owner_last_seen
  injecting,                \* inject_pump_enabled
  at, mine, wait, leadEnd,  \* the thread: where, its connection and the average the step began with, its wait
  move, last,               \* what was true when the pumps were moved, and when the step was done (history)
  gaps, steps, orders

timeVars == <<now, gaps, steps, orders>>
boardVars == <<conn, started, offset>>
sampleVars == <<state, validAt, window, average>>
runVars == <<running, paused, cancel, fault>>
gateVars == <<at, mine, wait, leadEnd, move, last>>
vars == <<timeVars, boardVars, sampleVars, reference, runVars, beatAt, injecting, gateVars>>

NoWait == [on |-> FALSE, since |-> 0, until |-> 0]

Init ==
  /\ now = 0 /\ gaps = 0 /\ steps = 0 /\ orders = 0 /\ conn = 1 /\ started = 1 /\ offset = 1
  /\ state = "acquiring" /\ validAt = 0 /\ window = {} /\ average = [n |-> 1, status |-> "valid", after |-> {0}]
  /\ reference = <<1, 1, 1>> /\ running = TRUE /\ paused = FALSE /\ cancel = FALSE /\ fault = "none"
  /\ beatAt = 0 /\ injecting = FALSE
  /\ at = "idle" /\ mine = [conn |-> 1, since |-> 0] /\ wait = NoWait /\ leadEnd = 0
  /\ move = <<>> /\ last = <<>>

-----------------------------------------------------------------------------
(* _real_measurement_ready, with or without a reference or recovery.       *)

Age == now - validAt
Signature == <<conn, started, offset>>
HasReference == reference = Signature
FreshNow == state = "acquiring" /\ Age <= Fresh /\ average.status = "valid"
Recovering == state \in {"acquiring", "stale"} /\ Age < StaleStop /\ average.status \in {"valid", "stale"}
Usable == fault = "none" /\ started # 0 /\ validAt >= 0
Ready == Usable /\ FreshNow /\ HasReference
MayRecover == Usable /\ (FreshNow \/ Recovering) /\ HasReference

(* current(): a missing heartbeat is a fault of its own.                   *)
Mine == conn = mine.conn /\ ~cancel /\ fault = "none"
Owned == now - beatAt <= OwnerTimeout
Current == Mine /\ Owned
NotesOwner == fault' = IF Mine /\ ~Owned THEN "owner_lost" ELSE fault

-----------------------------------------------------------------------------
(* The thread.  What it reads, it reads in one look; each look is a step.  *)

Goes(p) == at' = p /\ wait' = NoWait
Idle == UNCHANGED <<timeVars, boardVars, sampleVars, reference, running, paused, cancel, beatAt>>
Same == UNCHANGED <<mine, leadEnd, move, last, injecting>>

(* _wait_for_new_spectro_sample begins, and looks.  (A bug to look for: any*)
(* sample does.)                                                           *)
BeginWait(since) ==
  IF MayRecover THEN wait' = [on |-> TRUE, since |-> since, until |-> now + WaitTimeout] /\ UNCHANGED at
  ELSE Goes("failed")
AnySample(since) == Ready
NewSample(since) == Ready /\ average.n > since

WaitsFor(next, watched) ==
  /\ wait.on /\ Idle
  /\ IF watched THEN NotesOwner ELSE UNCHANGED fault
  /\ IF \/ ~running \/ paused \/ now >= wait.until
        \/ watched /\ ~Current
        \/ ~MayRecover
     THEN Goes("failed")
     ELSE NewSample(wait.since) /\ Goes(next)

Begin ==
  /\ at = "idle" /\ running /\ ~paused /\ steps < MaxSteps /\ steps' = steps + 1
  /\ mine' = [conn |-> conn, since |-> 0] /\ move' = <<>> /\ last' = <<>> /\ at' = "admit" /\ wait' = NoWait
  /\ UNCHANGED <<now, gaps, orders, boardVars, sampleVars, reference, runVars, beatAt, leadEnd, injecting>>

Admit ==
  /\ at = "admit" /\ ~wait.on /\ Idle /\ NotesOwner /\ UNCHANGED <<leadEnd, move, last, injecting>>
  /\ \/ Ready /\ Goes("inject") /\ mine' = [mine EXCEPT !.since = average.n]
     \/ ~Ready /\ (IF Current THEN BeginWait(average.n) ELSE Goes("failed")) /\ UNCHANGED mine

AdmitWait ==
  /\ at = "admit" /\ WaitsFor("inject", TRUE) /\ mine' = [mine EXCEPT !.since = average.n]
  /\ UNCHANGED <<leadEnd, move, last, injecting>>

(* _start_injection_for_automation_policy                                  *)
Inject ==
  /\ at = "inject" /\ ~wait.on /\ Idle /\ Same
  /\ IF injecting THEN Goes("write") /\ UNCHANGED fault
     ELSE /\ NotesOwner
          /\ IF ~Current THEN Goes("failed") ELSE IF Ready THEN Goes("arm") ELSE BeginWait(average.n)

InjectWait == at = "inject" /\ WaitsFor("arm", TRUE) /\ Same

Arm ==
  /\ at = "arm" /\ Idle /\ UNCHANGED <<fault, mine, move, last>>
  /\ IF running /\ ~paused THEN Goes("lead") /\ injecting' = TRUE /\ leadEnd' = now + Lead
     ELSE Goes("failed") /\ UNCHANGED <<injecting, leadEnd>>

LeadTime ==
  /\ at = "lead" /\ Idle /\ Same /\ UNCHANGED fault
  /\ IF ~running \/ paused THEN Goes("failed") ELSE now >= leadEnd /\ Goes("write")

Write ==
  /\ at = "write" /\ ~wait.on /\ Idle /\ Same /\ NotesOwner
  /\ IF ~Current THEN Goes("failed") ELSE IF Ready THEN Goes("boundary") ELSE BeginWait(average.n)

WriteWait == at = "write" /\ WaitsFor("boundary", TRUE) /\ Same

(* write_current, under the engine's and the serial lock.  (A bug to look  *)
(* for: what was looked at before the locks is good enough.)               *)
NotRechecked == TRUE
Rechecked == Current /\ Ready

Snapshot == [conn |-> conn, after |-> average.after, gaps |-> gaps, age |-> Age, n |-> average.n,
             beat |-> now - beatAt, referred |-> HasReference]

Boundary ==
  /\ at = "boundary" /\ Idle /\ UNCHANGED <<mine, leadEnd, last, injecting>>
  /\ IF running /\ ~paused /\ Rechecked
     THEN Goes("motor") /\ move' = <<Snapshot>> /\ UNCHANGED fault
     ELSE Goes("decide") /\ UNCHANGED move /\ (IF running /\ ~paused THEN NotesOwner ELSE UNCHANGED fault)

Decide ==
  /\ at = "decide" /\ Idle /\ Same /\ NotesOwner
  /\ Goes(IF Current /\ ~paused /\ ~Ready THEN "write" ELSE "failed")

(* _wait_for_automation_step: the motors' time, then a new sample.         *)
Motor ==
  /\ at = "motor" /\ Idle /\ Same /\ UNCHANGED fault
  /\ IF ~running \/ paused THEN Goes("failed") ELSE Goes("measure")

Measure == at = "measure" /\ ~wait.on /\ Idle /\ Same /\ UNCHANGED fault /\ BeginWait(mine.since)

MeasureWait ==
  /\ at = "measure" /\ WaitsFor("done", FALSE) /\ UNCHANGED <<mine, leadEnd, move, injecting>>
  /\ last' = IF at' = "done" THEN <<Snapshot>> ELSE last

(* The engine: a step that failed is repeated after a pause, or ends it.   *)
Done == at = "done" /\ Goes("idle") /\ Idle /\ Same /\ UNCHANGED fault

Failed ==
  /\ at = "failed" /\ paused /\ Goes("idle") /\ Same
  /\ UNCHANGED <<timeVars, boardVars, sampleVars, reference, runVars, beatAt>>

GivesUp ==
  /\ at = "failed" /\ ~paused /\ Goes("idle") /\ running' = FALSE /\ injecting' = FALSE
  /\ UNCHANGED <<timeVars, boardVars, sampleVars, reference, paused, cancel, fault, beatAt, mine, leadEnd, move, last>>

-----------------------------------------------------------------------------
(* The reader: _receive_current_spectro, _accumulate_spectro_sample and    *)
(* _emit_spectro_average.                                                  *)

Frame(emits) ==
  /\ started # 0 /\ (emits => average.n < MaxAverages)
  /\ state' = "acquiring" /\ validAt' = now
  /\ IF emits THEN window' = {} /\ average' = [n |-> average.n + 1, status |-> "valid", after |-> window \cup {gaps}]
     ELSE window' = window \cup {gaps} /\ UNCHANGED average
  /\ UNCHANGED <<timeVars, boardVars, reference, runVars, beatAt, injecting, gateVars>>

Invalidate(why) == average' = [average EXCEPT !.status = why] /\ window' = {}
Gap == gaps < MaxGaps /\ gaps' = gaps + 1

BadFrame ==
  /\ started # 0 /\ Gap /\ state' = "i2c_error" /\ Invalidate("i2c_error")
  /\ IF running THEN fault' = "spectrometer" /\ running' = FALSE ELSE UNCHANGED <<fault, running>>
  /\ UNCHANGED <<now, steps, orders, boardVars, validAt, reference, paused, cancel, beatAt, injecting, gateVars>>

(* _check_spectro_freshness: a short gap is noted, a long one stops.       *)
Stale ==
  /\ started # 0 /\ state = "acquiring" /\ Age > Fresh /\ Gap
  /\ state' = "stale" /\ Invalidate("stale")
  /\ UNCHANGED <<now, steps, orders, boardVars, validAt, reference, runVars, beatAt, injecting, gateVars>>

StopsAll == running' = FALSE /\ cancel' = TRUE /\ injecting' = FALSE

LongGap ==
  /\ started # 0 /\ state = "stale" /\ Age >= StaleStop /\ running /\ StopsAll
  /\ UNCHANGED <<timeVars, boardVars, sampleVars, reference, paused, fault, beatAt, gateVars>>

-----------------------------------------------------------------------------
(* _owner_heartbeat_cb, _check_sampling_owner                              *)
Heartbeat ==
  /\ running /\ beatAt # now /\ beatAt' = now
  /\ UNCHANGED <<timeVars, boardVars, sampleVars, reference, runVars, injecting, gateVars>>

OwnerLost ==
  /\ running /\ ~Owned /\ fault' = "owner_lost" /\ StopsAll
  /\ UNCHANGED <<timeVars, boardVars, sampleVars, reference, paused, beatAt, gateVars>>

(* The operator and the serial line.                                       *)
Order == orders < MaxOrders /\ orders' = orders + 1

(* A pause outlasts a look of the thread.                                  *)
Pause ==
  /\ Order /\ running /\ ~paused /\ paused' = TRUE /\ injecting' = FALSE
  /\ UNCHANGED <<now, gaps, steps, boardVars, sampleVars, reference, running, cancel, fault, beatAt, gateVars>>

Resume ==
  /\ running /\ paused /\ ~cancel /\ at = "idle" /\ Ready /\ paused' = FALSE
  /\ UNCHANGED <<timeVars, boardVars, sampleVars, reference, running, cancel, fault, beatAt, injecting, gateVars>>

Stop ==
  /\ Order /\ running /\ StopsAll /\ paused' = FALSE
  /\ UNCHANGED <<now, gaps, steps, boardVars, sampleVars, reference, fault, beatAt, gateVars>>

(* _set_spectro_reference_voltage, set_baseline_offset                     *)
SetReference ==
  /\ Usable /\ FreshNow /\ reference # Signature /\ reference' = Signature
  /\ UNCHANGED <<timeVars, boardVars, sampleVars, runVars, beatAt, injecting, gateVars>>

ChangeOffset ==
  /\ Order /\ fault = "none" /\ offset' = 3 - offset
  /\ UNCHANGED <<now, gaps, steps, conn, started, sampleVars, reference, runVars, beatAt, injecting, gateVars>>

(* The line is lost and opened again: the run ends, the device is started  *)
(* anew, and the reference goes.                                           *)
Reconnect ==
  /\ Gap /\ conn' = conn + 1 /\ started' = 0 /\ validAt' = -1 /\ state' = "disconnected"
  /\ Invalidate("disconnected") /\ fault' = "reconnecting" /\ running' = FALSE
  /\ UNCHANGED <<now, steps, orders, offset, reference, paused, cancel, beatAt, injecting, gateVars>>

Restart ==
  /\ ~running /\ Gap /\ started' = gaps + 2 /\ reference' = <<>> /\ fault' = "none"
  /\ state' = "starting" /\ Invalidate("awaiting_first_frame") /\ validAt' = -1
  /\ UNCHANGED <<now, steps, orders, conn, offset, running, paused, cancel, beatAt, injecting, gateVars>>

NewRun ==
  /\ ~running /\ at = "idle" /\ Ready
  /\ running' = TRUE /\ paused' = FALSE /\ cancel' = FALSE /\ beatAt' = now /\ injecting' = FALSE
  /\ UNCHANGED <<timeVars, boardVars, sampleVars, reference, fault, gateVars>>

Tick ==
  /\ now < MaxNow /\ now' = now + 1
  /\ UNCHANGED <<gaps, steps, orders, boardVars, sampleVars, reference, runVars, beatAt, injecting, gateVars>>

Next ==
  \/ Begin \/ Admit \/ AdmitWait \/ Inject \/ InjectWait \/ Arm \/ LeadTime \/ Write \/ WriteWait
  \/ Boundary \/ Decide \/ Motor \/ Measure \/ MeasureWait \/ Done \/ Failed \/ GivesUp
  \/ \E emits \in BOOLEAN : Frame(emits)
  \/ BadFrame \/ Stale \/ LongGap \/ Heartbeat \/ OwnerLost \/ Pause \/ Resume \/ Stop
  \/ SetReference \/ ChangeOffset \/ Reconnect \/ Restart \/ NewRun \/ Tick

Spec == Init /\ [][Next]_vars

-----------------------------------------------------------------------------
(* The pumps are moved only on the connection the step began with, for an  *)
(* owner that was heard of, with a reference of this session, while the    *)
(* measurement is fresh: 'Recovery permits waiting only, never ... a new   *)
(* motion'.                                                                *)
MovesAreMeasured ==
  move # <<>> =>
    LET m == move[1] IN
    m.conn = mine.conn /\ m.beat <= OwnerTimeout /\ m.referred /\ m.age <= Fresh /\ m.after = {m.gaps}

(* A step that is done has a sample that is newer than its beginning, of   *)
(* frames without a gap between them, of the connection its motion was     *)
(* sent on.                                                                *)
DoneIsMeasured ==
  last # <<>> =>
    LET s == last[1] IN
    s.n > mine.since /\ s.after = {s.gaps} /\ s.age <= Fresh /\ s.referred /\ move # <<>> /\ s.conn = move[1].conn

(* 'A new short gap at the write boundary permits waiting only': a step    *)
(* that is at the boundary and may go on when it looks again does not fail.*)
ShortGapOnlyWaits == [][at = "decide" /\ running /\ ~paused /\ Current /\ MayRecover => at' # "failed"]_vars
=============================================================================
