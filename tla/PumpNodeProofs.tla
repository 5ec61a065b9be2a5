---------------------------- MODULE PumpNodeProofs ----------------------------
(***************************************************************************)
(* What the pump node promises at the serial line, proved for any pumps,   *)
(* requests, queues, times and troubles: a motion is sent on a fresh       *)
(* measurement and done with a newer one; the injection pump is shown as   *)
(* it runs, and no ON follows the OFF that overtook it; what counts as     *)
(* prepared has been turned; one mover has the pumps at a time, and        *)
(* nothing that was admitted before a stop follows it.                     *)
(***************************************************************************)
EXTENDS PumpNode, FiniteSetTheorems, TLAPS

-----------------------------------------------------------------------------
(* The gate of a step: the names that StepGate gives its variables.        *)
now == s1
conn == s2
sampleState == s5
validAt == s6
window == s7
average == s8
reference == s9
running == s10
fault == s13
where == s16
mine == s17
wait == s18
move == s20
last == s21
gaps == s22
USE DEF now, conn, sampleState, validAt, window, average, reference, running, fault, where, mine, wait,
        move, last, gaps

(***************************************************************************)
(* A valid average is of frames since the last gap; while a run goes on,   *)
(* the thread's connection is the present one; what was moved, was moved   *)
(* on it; and the sample that is waited for is newer than the step.        *)
(***************************************************************************)
Sampled ==
  /\ DOMAIN average = {"n", "status", "after"} /\ window \subseteq {gaps}
  /\ average.status = "valid" => average.after = {gaps}
OnOneLine ==
  /\ DOMAIN mine = {"conn", "since"}
  /\ running /\ where # "idle" => conn = mine.conn
Moved ==
  /\ Gate!MovesAreMeasured
  /\ where \in {"motor", "measure", "done"} => move # <<>>
Measured ==
  /\ Gate!DoneIsMeasured
  /\ last # <<>> => where \in {"done", "idle"}
  /\ where = "measure" /\ wait.on => wait.since = mine.since
GateInv == Sampled /\ OnOneLine /\ Moved /\ Measured

\* The run is under way at first, with a measurement.
LEMMA GateInit == Gate!Init => GateInv
BY DEF Gate!Init, Gate!NoWait, GateInv, Sampled, OnOneLine, Moved, Measured, Gate!MovesAreMeasured,
       Gate!DoneIsMeasured

\* The thread moves on without moving the pumps or finishing the step.
LEMMA ThreadKeeps ==
  ASSUME GateInv, UNCHANGED <<gaps, conn, window, average, mine, move, last>>, where' # "done",
         running' => running /\ (where # "idle" \/ where' = "idle"),
         where \notin {"motor", "measure"} => where' \notin {"motor", "measure"},
         wait'.on /\ where' = "measure" => wait'.since = mine.since,
         last # <<>> => where' = "idle"
  PROVE  GateInv'
BY DEF GateInv, Sampled, OnOneLine, Moved, Measured, Gate!MovesAreMeasured, Gate!DoneIsMeasured

LEMMA ThreadSteps ==
  ASSUME GateInv,
         \/ Gate!Inject \/ Gate!InjectWait \/ Gate!Arm \/ Gate!LeadTime \/ Gate!Write \/ Gate!WriteWait
         \/ Gate!Decide \/ Gate!Motor \/ Gate!Measure \/ Gate!Done \/ Gate!Failed \/ Gate!GivesUp
  PROVE  GateInv'
<1>1. CASE \/ Gate!Inject \/ Gate!InjectWait \/ Gate!Arm \/ Gate!LeadTime \/ Gate!Write \/ Gate!WriteWait
           \/ Gate!Decide
  <2>1. /\ UNCHANGED <<gaps, conn, window, average, mine, move, last, running>>
        /\ where \in {"inject", "arm", "lead", "write", "decide"}
        /\ where' \in {"inject", "arm", "lead", "write", "boundary", "failed"}
    BY <1>1
    DEF Gate!Inject, Gate!InjectWait, Gate!Arm, Gate!LeadTime, Gate!Write, Gate!WriteWait, Gate!Decide,
        Gate!Idle, Gate!Same, Gate!WaitsFor, Gate!Goes, Gate!BeginWait, Gate!timeVars, Gate!boardVars,
        Gate!sampleVars
  <2>2. last = <<>> BY <2>1 DEF GateInv, Measured
  <2> QED BY <2>1, <2>2, ThreadKeeps
<1>2. CASE Gate!Motor \/ Gate!Measure
  <2>1. /\ UNCHANGED <<gaps, conn, window, average, mine, move, last, running>>
        /\ where \in {"motor", "measure"} /\ where' \in {"measure", "failed"}
    BY <1>2
    DEF Gate!Motor, Gate!Measure, Gate!Idle, Gate!Same, Gate!Goes, Gate!BeginWait, Gate!timeVars,
        Gate!boardVars, Gate!sampleVars
  <2>2. wait'.on /\ where' = "measure" => wait'.since = mine.since
    <3>1. wait' = Gate!NoWait \/ \E until : wait' = [on |-> TRUE, since |-> mine.since, until |-> until]
      BY <1>2 DEF Gate!Motor, Gate!Measure, Gate!Goes, Gate!BeginWait
    <3> QED BY <3>1 DEF Gate!NoWait
  <2>3. last = <<>> BY <2>1 DEF GateInv, Measured
  <2> QED BY <2>1, <2>2, <2>3, ThreadKeeps
<1>3. CASE Gate!Done \/ Gate!Failed \/ Gate!GivesUp
  <2>1. /\ UNCHANGED <<gaps, conn, window, average, mine, move, last>> /\ where' = "idle"
        /\ where # "idle" /\ (running' => running)
    <3>1. CASE Gate!Done
      BY <3>1 DEF Gate!Done, Gate!Idle, Gate!Same, Gate!Goes, Gate!timeVars, Gate!boardVars, Gate!sampleVars
    <3>2. CASE Gate!Failed
      BY <3>2 DEF Gate!Failed, Gate!Same, Gate!Goes, Gate!timeVars, Gate!boardVars, Gate!sampleVars, Gate!runVars
    <3>3. CASE Gate!GivesUp
      BY <3>3 DEF Gate!GivesUp, Gate!Goes, Gate!timeVars, Gate!boardVars, Gate!sampleVars
    <3> QED BY <1>3, <3>1, <3>2, <3>3
  <2> QED BY <2>1, ThreadKeeps
<1> QED BY <1>1, <1>2, <1>3

\* The thread is let in with the average it found.
LEMMA AdmitKeeps == ASSUME GateInv, Gate!Begin \/ Gate!Admit \/ Gate!AdmitWait PROVE GateInv'
<1>1. CASE Gate!Begin
  <2>1. /\ UNCHANGED <<gaps, conn, window, average, running>> /\ where' = "admit"
        /\ move' = <<>> /\ last' = <<>> /\ mine' = [conn |-> conn, since |-> 0]
    BY <1>1 DEF Gate!Begin, Gate!boardVars, Gate!sampleVars, Gate!runVars
  <2> QED
    BY <2>1 DEF GateInv, Sampled, OnOneLine, Moved, Measured, Gate!MovesAreMeasured, Gate!DoneIsMeasured
<1>2. CASE Gate!Admit \/ Gate!AdmitWait
  <2>1. /\ UNCHANGED <<gaps, conn, window, average, running, move, last>>
        /\ where = "admit" /\ where' \in {"admit", "inject", "failed"}
        /\ mine' = mine \/ mine' = [mine EXCEPT !.since = average.n]
    BY <1>2
    DEF Gate!Admit, Gate!AdmitWait, Gate!Idle, Gate!WaitsFor, Gate!Goes, Gate!BeginWait, Gate!timeVars,
        Gate!boardVars, Gate!sampleVars
  <2>2. last = <<>> BY <2>1 DEF GateInv, Measured
  <2>3. DOMAIN mine' = {"conn", "since"} /\ mine'.conn = mine.conn
    BY <2>1 DEF GateInv, OnOneLine
  <2> QED
    BY <2>1, <2>2, <2>3
    DEF GateInv, Sampled, OnOneLine, Moved, Measured, Gate!MovesAreMeasured, Gate!DoneIsMeasured
<1> QED BY <1>1, <1>2

\* A measurement that is ready is of the frames since the last gap.
LEMMA ReadyIsFresh ==
  ASSUME GateInv, Gate!Ready
  PROVE  LET s == Gate!Snapshot IN s.after = {s.gaps} /\ s.age <= Fresh /\ s.referred
BY DEF GateInv, Sampled, Gate!Ready, Gate!FreshNow, Gate!Snapshot, Gate!Age

\* The pumps are moved after another look under the locks.
LEMMA BoundaryKeeps == ASSUME GateInv, Gate!Boundary PROVE GateInv'
<1>1. /\ UNCHANGED <<gaps, conn, window, average, running, mine, last>>
      /\ where = "boundary" /\ where' \in {"motor", "decide"} /\ wait' = Gate!NoWait
      /\ where' = "motor" => move' = <<Gate!Snapshot>> /\ running /\ Gate!Rechecked
      /\ where' = "decide" => move' = move
  BY DEF Gate!Boundary, Gate!Idle, Gate!Goes, Gate!timeVars, Gate!boardVars, Gate!sampleVars
<1>2. last = <<>> BY <1>1 DEF GateInv, Measured
<1>3. CASE where' = "motor"
  <2>1. Gate!Ready /\ Gate!Owned /\ Gate!Mine BY <1>1, <1>3 DEF Gate!Rechecked, Gate!Current
  <2>2. PICK s : s = Gate!Snapshot
    OBVIOUS
  <2>3. s.conn = mine.conn /\ s.beat <= OwnerTimeout /\ s.referred /\ s.age <= Fresh /\ s.after = {s.gaps}
    BY <2>1, <2>2, ReadyIsFresh DEF Gate!Owned, Gate!Mine, Gate!Snapshot
  <2>4. move' = <<s>> BY <1>1, <1>3, <2>2
  <2> QED
    BY <1>1, <1>2, <1>3, <2>3, <2>4
    DEF GateInv, Sampled, OnOneLine, Moved, Measured, Gate!MovesAreMeasured, Gate!DoneIsMeasured
<1>4. CASE where' = "decide"
  BY <1>1, <1>2, <1>4
  DEF GateInv, Sampled, OnOneLine, Moved, Measured, Gate!MovesAreMeasured, Gate!DoneIsMeasured
<1> QED BY <1>1, <1>3, <1>4

\* The step ends with a newer sample.
LEMMA MeasureKeeps == ASSUME GateInv, Gate!MeasureWait PROVE GateInv'
<1>1. /\ UNCHANGED <<gaps, conn, window, average, running, mine, move>>
      /\ where = "measure" /\ wait.on /\ where' \in {"done", "failed"} /\ wait' = Gate!NoWait
      /\ where' = "done" => running /\ Gate!NewSample(wait.since) /\ last' = <<Gate!Snapshot>>
      /\ where' = "failed" => last' = last
  BY DEF Gate!MeasureWait, Gate!WaitsFor, Gate!Idle, Gate!Goes, Gate!timeVars, Gate!boardVars, Gate!sampleVars
<1>2. last = <<>> /\ wait.since = mine.since /\ move # <<>> BY <1>1 DEF GateInv, Measured, Moved
<1>3. CASE where' = "done"
  <2>1. Gate!Ready /\ average.n > mine.since BY <1>1, <1>2, <1>3 DEF Gate!NewSample
  <2>2. PICK s : s = Gate!Snapshot
    OBVIOUS
  <2>3. s.referred /\ s.age <= Fresh /\ s.after = {s.gaps} /\ s.n > mine.since /\ s.conn = conn
    BY <2>1, <2>2, ReadyIsFresh DEF Gate!Snapshot
  <2>4. conn = move[1].conn
    BY <1>1, <1>2, <1>3 DEF GateInv, OnOneLine, Moved, Gate!MovesAreMeasured
  <2>5. last' = <<s>> BY <1>1, <1>3, <2>2
  <2> QED
    BY <1>1, <1>2, <1>3, <2>3, <2>4, <2>5
    DEF GateInv, Sampled, OnOneLine, Moved, Measured, Gate!MovesAreMeasured, Gate!DoneIsMeasured
<1>4. CASE where' = "failed"
  BY <1>1, <1>2, <1>4
  DEF GateInv, Sampled, OnOneLine, Moved, Measured, Gate!MovesAreMeasured, Gate!DoneIsMeasured
<1> QED BY <1>1, <1>3, <1>4

\* Around the thread: a gap makes the average invalid and the window empty.
LEMMA OutsideKeeps ==
  ASSUME GateInv, UNCHANGED <<where, mine, wait, move, last>>,
         running' => (running \/ where = "idle") /\ conn' = conn, Sampled'
  PROVE  GateInv'
BY DEF GateInv, OnOneLine, Moved, Measured, Gate!MovesAreMeasured, Gate!DoneIsMeasured

LEMMA SamplesKeep ==
  ASSUME GateInv, NEW emits \in BOOLEAN,
         Gate!Frame(emits) \/ Gate!BadFrame \/ Gate!Stale \/ Gate!Reconnect \/ Gate!Restart
  PROVE  GateInv'
<1>1. UNCHANGED <<where, mine, wait, move, last>>
  BY DEF Gate!Frame, Gate!BadFrame, Gate!Stale, Gate!Reconnect, Gate!Restart, Gate!gateVars
<1>2. running' => running /\ conn' = conn
  BY DEF Gate!Frame, Gate!BadFrame, Gate!Stale, Gate!Reconnect, Gate!Restart, Gate!boardVars, Gate!runVars
<1>3. Sampled'
  <2>1. CASE Gate!Frame(emits)
    <3>1. /\ gaps' = gaps
          /\ \/ /\ window' = {}
                /\ average' = [n |-> average.n + 1, status |-> "valid", after |-> window \cup {gaps}]
             \/ window' = window \cup {gaps} /\ average' = average
      BY <2>1 DEF Gate!Frame, Gate!timeVars
    <3> QED BY <3>1 DEF GateInv, Sampled
  <2>2. CASE Gate!BadFrame \/ Gate!Stale \/ Gate!Reconnect \/ Gate!Restart
    <3>1. PICK why \in {"i2c_error", "stale", "disconnected", "awaiting_first_frame"} : Gate!Invalidate(why)
      BY <2>2 DEF Gate!BadFrame, Gate!Stale, Gate!Reconnect, Gate!Restart
    <3> QED BY <3>1 DEF Gate!Invalidate, GateInv, Sampled
  <2> QED BY <2>1, <2>2
<1> QED BY <1>1, <1>2, <1>3, OutsideKeeps

LEMMA OthersStep ==
  ASSUME GateInv,
         \/ Gate!LongGap \/ Gate!Heartbeat \/ Gate!OwnerLost \/ Gate!Pause \/ Gate!Resume \/ Gate!Stop
         \/ Gate!SetReference \/ Gate!ChangeOffset \/ Gate!NewRun \/ Gate!Tick
  PROVE  GateInv'
<1>1. /\ UNCHANGED <<where, mine, wait, move, last, conn, gaps, window, average>>
      /\ running' => running \/ where = "idle"
  BY DEF Gate!LongGap, Gate!Heartbeat, Gate!OwnerLost, Gate!Pause, Gate!Resume, Gate!Stop, Gate!SetReference,
         Gate!ChangeOffset, Gate!NewRun, Gate!Tick, Gate!StopsAll, Gate!timeVars, Gate!boardVars,
         Gate!sampleVars, Gate!runVars, Gate!gateVars
<1>2. Sampled' BY <1>1 DEF GateInv, Sampled
<1> QED BY <1>1, <1>2, OutsideKeeps

\* The pumps are moved only while there is a fresh measurement with a reference, on the
\* connection the step began with, and a step is done with a sample newer than its beginning.
THEOREM StepsMeasured == Spec => []StepsAreMeasured
<1> DEFINE Inv == part = "step" => GateInv
<1>1. Start => Inv BY GateInit DEF Start
<1>2. Inv /\ [Step]_parts => Inv'
  <2> SUFFICES ASSUME Inv, [Step]_parts, part' = "step" PROVE GateInv'
    OBVIOUS
  <2>1. CASE UNCHANGED parts
    BY <2>1
    DEF parts, After5, After11, After13, After14, After17, GateInv, Sampled, OnOneLine, Moved, Measured,
        Gate!MovesAreMeasured, Gate!DoneIsMeasured
  <2>2. CASE Step
    <3>1. GateInv /\ Gate!Next BY <2>2 DEF Step
    <3> QED
      BY <3>1, ThreadSteps, AdmitKeeps, BoundaryKeeps, MeasureKeeps, SamplesKeep, OthersStep DEF Gate!Next
  <2> QED BY <2>1, <2>2
<1>3. Inv => StepsAreMeasured BY DEF GateInv, Moved, Measured, StepsAreMeasured
<1> QED BY <1>1, <1>2, <1>3, PTL DEF Spec
-----------------------------------------------------------------------------
(* The injection pump: the names that InjectionPump gives its variables.   *)
at == s1
generation == s2
queue == s3
item == s4
worker == s5
stopping == s6
shown == s7
down == s8
board == s9
up == s10
offs == s11
USE DEF at, generation, queue, item, worker, stopping, shown, down, board, up, offs

(***************************************************************************)
(* The generation stands for the OFFs: an item of the present one was      *)
(* asked for after all OFFs there were.  Whatever the worker has in hand   *)
(* or finds in the queue has been asked for.                               *)
(***************************************************************************)
Asking == {r \in Ons : at[r] # "idle"}
ItemType == [generation : Nat, cancelled : BOOLEAN, late : BOOLEAN, done : BOOLEAN, success : BOOLEAN]

PumpTyped ==
  /\ generation \in Nat /\ DOMAIN at = Ons \cup Offs /\ DOMAIN offs = Ons
  /\ item \in [Ons -> ItemType]
WorkerTyped ==
  worker \in [has : Ons \cup {Injecting!Nobody}, doing : {"get", "check", "write", "told"}, sent : BOOLEAN]
LineTyped == down \in Seq({"on", "off"})
QueueAsked == queue \in Seq(Asking)
InHand == worker.doing \in {"check", "write"} => worker.has \in Asking
OfItsTime ==
  \A r \in Asking :
    item[r].generation <= generation /\ (item[r].generation = generation => offs[r] = Injecting!Asked)

PumpInv == PumpTyped /\ WorkerTyped /\ LineTyped /\ QueueAsked /\ InHand /\ OfItsTime

\* Whatever becomes of an item, its generation stays.
LEMMA ItemFacts ==
  /\ Injecting!NoItem \in ItemType
  /\ \A n \in Nat :
       LET i == [Injecting!NoItem EXCEPT !.generation = n] IN i \in ItemType /\ i.generation = n
  /\ \A i \in ItemType, b, c \in BOOLEAN :
       /\ [i EXCEPT !.late = b] \in ItemType /\ [i EXCEPT !.late = b].generation = i.generation
       /\ [i EXCEPT !.cancelled = b] \in ItemType /\ [i EXCEPT !.cancelled = b].generation = i.generation
       /\ [i EXCEPT !.cancelled = b, !.done = c] \in ItemType
       /\ [i EXCEPT !.cancelled = b, !.done = c].generation = i.generation
       /\ [i EXCEPT !.success = b, !.done = c] \in ItemType
       /\ [i EXCEPT !.success = b, !.done = c].generation = i.generation
BY ZenonT(30) DEF Injecting!NoItem, ItemType

\* At first nothing is asked for.
LEMMA PumpInit == Injecting!QueueHasRoom /\ Injecting!Init => PumpInv
<1> SUFFICES ASSUME Injecting!QueueHasRoom, Injecting!Init PROVE PumpInv
  OBVIOUS
<1>1. Asking = {} BY DEF Injecting!Init, Asking
<1>2. PumpTyped BY ItemFacts DEF Injecting!Init, PumpTyped
<1>3. WorkerTyped BY DEF Injecting!Init, WorkerTyped
<1>4. LineTyped /\ QueueAsked BY DEF Injecting!Init, LineTyped, QueueAsked
<1>5. InHand /\ OfItsTime BY <1>1 DEF Injecting!Init, InHand, OfItsTime
<1> QED BY <1>2, <1>3, <1>4, <1>5 DEF PumpInv

\* The invariant is kept by a step that asks for nothing new, keeps each item's
\* generation and adds no OFF, or puts every item that there is out of date.
LEMMA KeepsTime ==
  ASSUME PumpTyped, OfItsTime, Asking' = Asking, offs' = offs,
         \A q \in Ons : item'[q].generation = item[q].generation,
         \/ generation' = generation /\ Injecting!Asked' = Injecting!Asked
         \/ generation' = generation + 1
  PROVE  OfItsTime'
<1>1. \A q \in Ons : item[q].generation \in Nat BY DEF PumpTyped, ItemType
<1>2. Asking \subseteq Ons BY DEF Asking
<1> QED BY <1>1, <1>2 DEF OfItsTime, PumpTyped

\* A step of an ON.
LEMMA OnKeeps ==
  ASSUME Injecting!QueueHasRoom, PumpInv, NEW r \in Ons,
         Injecting!Submit(r) \/ Injecting!Put(r) \/ Injecting!Late(r) \/ Injecting!Answered(r)
  PROVE  PumpInv'
<1>1. UNCHANGED <<generation, worker, down>> BY DEF Injecting!Submit, Injecting!Put, Injecting!Late,
                                                    Injecting!Answered, Injecting!lineVars
<1>2. \A o \in Offs : at'[o] = at[o]
  BY DEF Injecting!QueueHasRoom, PumpInv, PumpTyped, Injecting!Submit, Injecting!Put, Injecting!Late,
         Injecting!Answered
<1>3. Injecting!Asked' = Injecting!Asked
  <2>1. {o \in Offs : at'[o] # "idle"} = {o \in Offs : at[o] # "idle"} BY <1>2
  <2> QED BY <2>1 DEF Injecting!Asked
<1>4. WorkerTyped' /\ LineTyped' BY <1>1 DEF PumpInv, WorkerTyped, LineTyped
<1>5. CASE Injecting!Submit(r)
  <2>1. /\ at[r] = "idle" /\ at' = [at EXCEPT ![r] = "put"] /\ offs' = [offs EXCEPT ![r] = Injecting!Asked]
        /\ item' = [item EXCEPT ![r] = [Injecting!NoItem EXCEPT !.generation = generation]]
        /\ queue' = queue
    BY <1>5 DEF Injecting!Submit
  <2>2. /\ item' \in [Ons -> ItemType] /\ item'[r].generation = generation
        /\ \A q \in Ons \ {r} : item'[q] = item[q]
    BY <2>1, ItemFacts DEF PumpInv, PumpTyped
  <2>3. Asking' = Asking \cup {r} BY <2>1 DEF Asking, PumpInv, PumpTyped
  <2>4. PumpTyped' BY <1>1, <2>1, <2>2 DEF PumpInv, PumpTyped
  <2>5. QueueAsked' BY <2>1, <2>3 DEF PumpInv, QueueAsked
  <2>6. InHand' BY <1>1, <2>3 DEF PumpInv, InHand
  <2>7. OfItsTime'
    <3> SUFFICES ASSUME NEW q \in Asking'
                 PROVE  /\ item'[q].generation <= generation'
                        /\ item'[q].generation = generation' => offs'[q] = Injecting!Asked'
      BY DEF OfItsTime
    <3>1. CASE q = r BY <3>1, <1>1, <1>3, <2>1, <2>2 DEF PumpInv, PumpTyped
    <3>2. CASE q # r
      <4>1. q \in Asking /\ q \in Ons BY <3>2, <2>3 DEF Asking
      <4>2. offs'[q] = offs[q] /\ item'[q] = item[q] BY <3>2, <4>1, <2>1, <2>2 DEF PumpInv, PumpTyped
      <4> QED BY <4>1, <4>2, <1>1, <1>3 DEF PumpInv, OfItsTime
    <3> QED BY <3>1, <3>2
  <2> QED BY <1>4, <2>4, <2>5, <2>6, <2>7 DEF PumpInv
<1>6. CASE Injecting!Put(r)
  <2>1. /\ at[r] = "put" /\ (queue' = queue \/ queue' = Append(queue, r)) /\ UNCHANGED <<item, offs>>
        /\ DOMAIN at' = DOMAIN at /\ at'[r] # "idle" /\ \A q \in Ons \ {r} : at'[q] = at[q]
    BY <1>6 DEF Injecting!Put, PumpInv, PumpTyped
  <2>2. Asking' = Asking /\ r \in Asking BY <2>1 DEF Asking
  <2>3. queue \in Seq(Asking) BY DEF PumpInv, QueueAsked
  <2>4. QueueAsked' BY <2>1, <2>2, <2>3 DEF QueueAsked
  <2>5. PumpTyped' BY <1>1, <2>1 DEF PumpInv, PumpTyped
  <2>6. InHand' BY <1>1, <2>2 DEF PumpInv, InHand
  <2>7. OfItsTime' BY <1>1, <1>3, <2>1, <2>2, KeepsTime DEF PumpInv
  <2> QED BY <1>4, <2>4, <2>5, <2>6, <2>7 DEF PumpInv
<1>7. CASE Injecting!Late(r) \/ Injecting!Answered(r)
  <2> DEFINE b == item[r].cancelled \/ ~item[r].done
  <2>1. /\ UNCHANGED <<queue, offs>> /\ DOMAIN at' = DOMAIN at
        /\ \A q \in Ons : at'[q] = "idle" <=> at[q] = "idle"
    BY <1>7 DEF Injecting!Late, Injecting!Answered, PumpInv, PumpTyped
  <2>2. Asking' = Asking BY <2>1 DEF Asking
  <2>3. item[r] \in ItemType /\ b \in BOOLEAN BY DEF PumpInv, PumpTyped, ItemType
  <2>4. \/ item' = [item EXCEPT ![r] = [item[r] EXCEPT !.late = TRUE]]
        \/ item' = [item EXCEPT ![r] = [item[r] EXCEPT !.cancelled = b]]
    BY <1>7 DEF Injecting!Late, Injecting!Answered
  <2> HIDE DEF b
  <2>5. item' \in [Ons -> ItemType] /\ \A q \in Ons : item'[q].generation = item[q].generation
    <3> DEFINE i == item[r]
    <3>1. item \in [Ons -> ItemType] /\ i \in ItemType BY <2>3 DEF PumpInv, PumpTyped
    <3>2. \A j : item' = [item EXCEPT ![r] = j] => item'[r] = j /\ \A q \in Ons \ {r} : item'[q] = item[q]
      BY <3>1
    <3>3. CASE item' = [item EXCEPT ![r] = [i EXCEPT !.late = TRUE]]
      BY <3>1, <3>2, <3>3, ItemFacts
    <3>4. CASE item' = [item EXCEPT ![r] = [i EXCEPT !.cancelled = b]]
      <4>1. [i EXCEPT !.cancelled = b] \in ItemType /\ [i EXCEPT !.cancelled = b].generation = i.generation
        BY <2>3, <3>1, ItemFacts
      <4> QED BY <3>1, <3>2, <3>4, <4>1
    <3> QED BY <2>4, <3>3, <3>4
  <2>6. PumpTyped' BY <1>1, <2>1, <2>5 DEF PumpInv, PumpTyped
  <2>7. QueueAsked' BY <2>1, <2>2 DEF PumpInv, QueueAsked
  <2>8. InHand' BY <1>1, <2>2 DEF PumpInv, InHand
  <2>9. OfItsTime' BY <1>1, <1>3, <2>1, <2>2, <2>5, KeepsTime DEF PumpInv
  <2> QED BY <1>4, <2>6, <2>7, <2>8, <2>9 DEF PumpInv
<1> QED BY <1>5, <1>6, <1>7

\* A step of the worker, the board or the reader.
LEMMA WorkerKeeps ==
  ASSUME Injecting!QueueHasRoom, PumpInv,
         \/ Injecting!Get \/ Injecting!Check \/ Injecting!Write \/ Injecting!Tell \/ Injecting!Execute
         \/ Injecting!Reply
  PROVE  PumpInv'
<1>1. UNCHANGED <<at, generation, offs>>
  BY DEF Injecting!Get, Injecting!Check, Injecting!Write, Injecting!Tell, Injecting!Execute,
         Injecting!Reply, Injecting!lineVars
<1>2. Asking' = Asking /\ Injecting!Asked' = Injecting!Asked BY <1>1 DEF Asking, Injecting!Asked
<1>3. LineTyped'
  <2>1. down' = down \/ down' = Append(down, "on") \/ (down # <<>> /\ down' = Tail(down))
    BY DEF Injecting!Get, Injecting!Check, Injecting!Write, Injecting!Tell, Injecting!Execute,
           Injecting!Reply, Injecting!lineVars
  <2> QED BY <2>1 DEF PumpInv, LineTyped
<1>4. CASE Injecting!Tell
  <2> DEFINE h == worker.has
             b == Injecting!Stands(h)
  <2>1. item' = [item EXCEPT ![h] = [item[h] EXCEPT !.success = b, !.done = TRUE]] /\ queue' = queue
    BY <1>4 DEF Injecting!Tell
  <2>2. b \in BOOLEAN BY DEF Injecting!Stands, Injecting!Current, PumpInv, WorkerTyped
  <2> HIDE DEF h, b
  <2>3. item' \in [Ons -> ItemType] /\ \A q \in Ons : item'[q].generation = item[q].generation
    <3>1. item \in [Ons -> ItemType] BY DEF PumpInv, PumpTyped
    <3>2. CASE h \in Ons
      <4>1. PICK i \in ItemType : i = item[h] BY <3>1, <3>2
      <4>2. PICK j \in ItemType : j = [i EXCEPT !.success = b, !.done = TRUE] /\ j.generation = i.generation
        BY <2>2, ItemFacts
      <4>3. item' = [item EXCEPT ![h] = j] BY <2>1, <4>1, <4>2
      <4> QED BY <3>1, <3>2, <4>1, <4>2, <4>3
    <3>3. CASE h \notin Ons BY <2>1, <3>1, <3>3
    <3> QED BY <3>2, <3>3
  <2>4. worker' = [has |-> Injecting!Nobody, doing |-> "get", sent |-> FALSE] BY <1>4 DEF Injecting!Tell
  <2>5. PumpTyped' BY <1>1, <2>3 DEF PumpInv, PumpTyped
  <2>6. WorkerTyped' /\ InHand' BY <2>4 DEF WorkerTyped, InHand
  <2>7. QueueAsked' BY <1>2, <2>1 DEF PumpInv, QueueAsked
  <2>8. OfItsTime' BY <1>1, <1>2, <2>3, KeepsTime DEF PumpInv
  <2> QED BY <1>3, <2>5, <2>6, <2>7, <2>8 DEF PumpInv
<1>5. CASE Injecting!Get \/ Injecting!Check \/ Injecting!Write \/ Injecting!Execute \/ Injecting!Reply
  <2>1. item' = item BY <1>5 DEF Injecting!Get, Injecting!Check, Injecting!Write, Injecting!Execute,
                                 Injecting!Reply
  <2>2. queue \in Seq(Asking) BY DEF PumpInv, QueueAsked
  <2>3. queue' = queue \/ (queue # <<>> /\ queue' = Tail(queue))
    BY <1>5 DEF Injecting!Get, Injecting!Check, Injecting!Write, Injecting!Execute, Injecting!Reply
  <2>4. QueueAsked' BY <1>2, <2>2, <2>3 DEF QueueAsked
  <2>5. PumpTyped' BY <1>1, <2>1 DEF PumpInv, PumpTyped
  <2>6. OfItsTime' BY <1>1, <1>2, <2>1, KeepsTime DEF PumpInv
  <2>7. WorkerTyped' /\ InHand'
    <3>1. CASE Injecting!Get
      <4>1. Head(queue) \in Asking /\ Asking \subseteq Ons BY <2>2, <3>1 DEF Injecting!Get, Asking
      <4> QED BY <1>2, <3>1, <4>1 DEF Injecting!Get, WorkerTyped, InHand
    <3>2. CASE Injecting!Check \/ Injecting!Write \/ Injecting!Execute \/ Injecting!Reply
      BY <1>2, <3>2 DEF Injecting!Check, Injecting!Write, Injecting!Execute, Injecting!Reply, PumpInv,
                        WorkerTyped, InHand
    <3> QED BY <1>5, <3>1, <3>2
  <2> QED BY <1>3, <2>4, <2>5, <2>6, <2>7 DEF PumpInv
<1> QED BY <1>4, <1>5

\* A step of an OFF.
LEMMA OffKeeps ==
  ASSUME Injecting!QueueHasRoom, PumpInv, NEW r \in Offs,
         Injecting!StopFirst(r) \/ Injecting!Invalidate(r) \/ Injecting!Off(r)
  PROVE  PumpInv'
<1>1. /\ UNCHANGED <<worker, offs>> /\ DOMAIN at' = DOMAIN at
      /\ \A q \in Ons : at'[q] = at[q]
  BY DEF Injecting!QueueHasRoom, Injecting!StopFirst, Injecting!Invalidate, Injecting!Off, PumpInv,
         PumpTyped
<1>2. Asking' = Asking BY <1>1 DEF Asking
<1>3. item' \in [Ons -> ItemType] /\ \A q \in Ons : item'[q].generation = item[q].generation
  <2>1. /\ Injecting!Invalidated \in [Ons -> ItemType]
        /\ \A q \in Ons : Injecting!Invalidated[q].generation = item[q].generation
    BY ItemFacts DEF Injecting!Invalidated, PumpInv, PumpTyped
  <2>2. item' = Injecting!Invalidated \/ item' = item BY DEF Injecting!StopFirst, Injecting!Invalidate,
                                                             Injecting!Off
  <2> QED BY <2>1, <2>2 DEF PumpInv, PumpTyped
<1>4. generation' = generation + 1 \/ (generation' = generation /\ Injecting!Asked' = Injecting!Asked)
  <2>1. CASE Injecting!Off(r)
    <3>1. {q \in Offs : at'[q] # "idle"} = {q \in Offs : at[q] # "idle"}
      BY <2>1 DEF Injecting!Off, PumpInv, PumpTyped
    <3> QED BY <2>1, <3>1 DEF Injecting!Off, Injecting!Asked
  <2>2. CASE Injecting!StopFirst(r) \/ Injecting!Invalidate(r) BY <2>2
                                                               DEF Injecting!StopFirst, Injecting!Invalidate
  <2> QED BY <2>1, <2>2
<1>5. PumpTyped' BY <1>1, <1>3, <1>4 DEF PumpInv, PumpTyped
<1>6. LineTyped'
  <2>1. down' = down \/ down' = Append(down, "off") BY DEF Injecting!StopFirst, Injecting!Invalidate,
                                                           Injecting!Off, Injecting!lineVars
  <2> QED BY <2>1 DEF PumpInv, LineTyped
<1>7. QueueAsked'
  <2>1. queue' = queue \/ queue' = <<>> BY DEF Injecting!StopFirst, Injecting!Invalidate, Injecting!Off
  <2>2. queue \in Seq(Asking) /\ <<>> \in Seq(Asking) BY DEF PumpInv, QueueAsked
  <2> QED BY <1>2, <2>1, <2>2 DEF QueueAsked
<1>8. WorkerTyped' /\ InHand' BY <1>1, <1>2 DEF PumpInv, WorkerTyped, InHand
<1>9. OfItsTime' BY <1>1, <1>2, <1>3, <1>4, KeepsTime DEF PumpInv
<1> QED BY <1>5, <1>6, <1>7, <1>8, <1>9 DEF PumpInv

\* Nothing but the worker writes an ON, and only one that no OFF has overtaken.
LEMMA WritesCurrent ==
  ASSUME Injecting!QueueHasRoom, PumpInv, Injecting!Next
  PROVE  Injecting!WritesNothingOld
<1> SUFFICES ASSUME Len(down') > Len(down), Injecting!Last(down') = "on"
             PROVE  offs[worker.has] = Injecting!Asked
  BY DEF Injecting!WritesNothingOld
<1>1. down \in Seq({"on", "off"}) BY DEF PumpInv, LineTyped
<1>2. down' # down BY <1>1
<1>3. CASE Injecting!Write
  <2>1. Injecting!MayWrite(worker.has) /\ worker.doing = "write" BY <1>2, <1>3 DEF Injecting!Write
  <2>2. worker.has \in Asking /\ item[worker.has].generation = generation
    BY <2>1 DEF Injecting!MayWrite, Injecting!Current, PumpInv, InHand
  <2> QED BY <2>2 DEF PumpInv, OfItsTime
<1>4. CASE Injecting!Execute
  <2>1. down # <<>> /\ down' = Tail(down) BY <1>4 DEF Injecting!Execute
  <2> QED BY <1>1, <2>1
<1>5. ASSUME NEW r \in Offs, Injecting!StopFirst(r) \/ Injecting!Off(r) PROVE FALSE
  <2>1. down' = Append(down, "off") BY <1>5 DEF Injecting!StopFirst, Injecting!Off
  <2>2. Injecting!Last(down') = "off" BY <1>1, <2>1 DEF Injecting!Last
  <2> QED BY <2>2
<1>6. ASSUME NEW r \in Offs, Injecting!Invalidate(r) PROVE FALSE
  BY <1>2, <1>6 DEF Injecting!Invalidate, Injecting!lineVars
<1>7. ASSUME NEW r \in Ons,
             Injecting!Submit(r) \/ Injecting!Put(r) \/ Injecting!Late(r) \/ Injecting!Answered(r)
      PROVE  FALSE
  BY <1>2, <1>7 DEF Injecting!Submit, Injecting!Put, Injecting!Late, Injecting!Answered, Injecting!lineVars
<1>8. ~(Injecting!Get \/ Injecting!Check \/ Injecting!Tell \/ Injecting!Reply)
  BY <1>2 DEF Injecting!Get, Injecting!Check, Injecting!Tell, Injecting!Reply, Injecting!lineVars
<1> QED BY <1>3, <1>4, <1>5, <1>6, <1>7, <1>8 DEF Injecting!Next

\* An ON that was asked for before an OFF is never written after it.
THEOREM OffIsLast == Spec => [][part = "injection" => Injecting!WritesNothingOld]_parts
<1> DEFINE Inv == part = "injection" => PumpInv
<1>1. Start => Inv BY PumpInit, PumpAssumption DEF Start
<1>2. Inv /\ [Step]_parts => Inv'
  <2> SUFFICES ASSUME Inv, [Step]_parts, part' = "injection" PROVE PumpInv'
    OBVIOUS
  <2>1. CASE UNCHANGED parts
    BY <2>1
    DEF parts, After5, After11, PumpInv, PumpTyped, WorkerTyped, LineTyped, QueueAsked, InHand, OfItsTime,
        Asking, Injecting!Asked
  <2>2. CASE Step
    <3>1. PumpInv /\ Injecting!Next BY <2>2 DEF Step
    <3> QED BY <3>1, PumpAssumption, OnKeeps, WorkerKeeps, OffKeeps DEF Injecting!Next
  <2> QED BY <2>1, <2>2
<1>3. Inv /\ [Step]_parts => [part = "injection" => Injecting!WritesNothingOld]_parts
  <2> SUFFICES ASSUME Inv, Step, part = "injection" PROVE Injecting!WritesNothingOld
    OBVIOUS
  <2>1. PumpInv /\ Injecting!Next BY DEF Step
  <2> QED BY <2>1, PumpAssumption, WritesCurrent
<1> QED BY <1>1, <1>2, <1>3, PTL DEF Spec

(***************************************************************************)
(* What the board will do last: the last command on its way, or what it    *)
(* does.  Its last reply, or what is shown, is what it does now; an ON     *)
(* that was written and that no OFF has overtaken is its last word.        *)
(***************************************************************************)
LastWord == IF down # <<>> THEN Injecting!Last(down) = "on" ELSE board
ReplyTyped == up \in Seq({"on", "off"}) /\ board \in BOOLEAN /\ shown \in BOOLEAN
StopsKept == stopping = {r \in Offs : at[r] \in {"invalidate", "off"}}
LastShown ==
  /\ up # <<>> => (Injecting!Last(up) = "on" <=> board)
  /\ up = <<>> /\ down = <<>> => shown = board
WrittenStands ==
  worker.sent =>
    /\ worker.doing = "told" /\ worker.has \in Asking
    /\ item[worker.has].generation = generation => LastWord /\ stopping = {}

ShownInv == ReplyTyped /\ StopsKept /\ LastShown /\ WrittenStands

\* How a queue of words ends when one is added or taken.
LEMMA LastOfQueue ==
  ASSUME NEW S, NEW q \in Seq(S)
  PROVE  /\ \A w \in S : Append(q, w) # <<>> /\ Injecting!Last(Append(q, w)) = w
         /\ q # <<>> => /\ Tail(q) # <<>> => Injecting!Last(Tail(q)) = Injecting!Last(q)
                        /\ Tail(q) = <<>> => Head(q) = Injecting!Last(q)
BY DEF Injecting!Last

LEMMA ShownInit == Injecting!Init => ShownInv
<1> SUFFICES ASSUME Injecting!Init PROVE ShownInv
  OBVIOUS
<1>1. ReplyTyped /\ LastShown
  <2>1. up = <<>> /\ board = FALSE /\ shown = FALSE BY DEF Injecting!Init
  <2>2. <<>> \in Seq({"on", "off"})
    OBVIOUS
  <2>3. ReplyTyped BY <2>1, <2>2 DEF ReplyTyped
  <2> QED BY <2>1, <2>3 DEF LastShown
<1>2. StopsKept BY DEF Injecting!Init, StopsKept
<1>3. WrittenStands BY DEF Injecting!Init, WrittenStands
<1> QED BY <1>1, <1>2, <1>3 DEF ShownInv

\* The requests for ON change neither the line nor the word of the worker.
LEMMA OnShows ==
  ASSUME Injecting!QueueHasRoom, PumpInv, ShownInv, NEW r \in Ons,
         Injecting!Submit(r) \/ Injecting!Put(r) \/ Injecting!Late(r) \/ Injecting!Answered(r)
  PROVE  ShownInv'
<1>1. UNCHANGED <<generation, worker, stopping, shown, down, board, up>>
  BY DEF Injecting!Submit, Injecting!Put, Injecting!Late, Injecting!Answered, Injecting!lineVars
<1>2. /\ \A q \in Offs : at'[q] = at[q]
      /\ \A q \in Asking : q \in Asking'
  BY DEF Injecting!QueueHasRoom, PumpInv, PumpTyped, Asking, Injecting!Submit, Injecting!Put, Injecting!Late,
         Injecting!Answered
<1>3. \A q \in Asking : item'[q].generation = item[q].generation
  <2>1. \A q \in Asking : q \in Ons /\ item[q] \in ItemType BY DEF PumpInv, PumpTyped, Asking
  <2>2. CASE Injecting!Submit(r)
    BY <2>1, <2>2 DEF Injecting!Submit, PumpInv, PumpTyped, Asking
  <2>3. CASE Injecting!Put(r) BY <2>3 DEF Injecting!Put
  <2>4. CASE Injecting!Late(r) \/ Injecting!Answered(r)
    <3>1. PICK i \in ItemType : i = item[r] BY DEF PumpInv, PumpTyped
    <3>2. PICK j : item' = [item EXCEPT ![r] = j] /\ j.generation = i.generation
      <4>1. CASE Injecting!Late(r)
        <5>1. item' = [item EXCEPT ![r] = [i EXCEPT !.late = TRUE]] BY <3>1, <4>1 DEF Injecting!Late
        <5> QED BY <5>1, ItemFacts
      <4>2. CASE Injecting!Answered(r)
        BY <3>1, <4>2 DEF Injecting!Answered, ItemType
      <4> QED BY <2>4, <4>1, <4>2
    <3> QED BY <2>1, <3>1, <3>2 DEF PumpInv, PumpTyped
  <2> QED BY <2>2, <2>3, <2>4
<1>4. ReplyTyped' /\ LastShown' BY <1>1 DEF ShownInv, ReplyTyped, LastShown
<1>5. StopsKept' BY <1>1, <1>2 DEF ShownInv, StopsKept
<1>6. WrittenStands' BY <1>1, <1>2, <1>3 DEF ShownInv, WrittenStands, LastWord
<1> QED BY <1>4, <1>5, <1>6 DEF ShownInv

\* The worker shows its ON only while that is the last word to the board.
LEMMA WorkerShows ==
  ASSUME PumpInv, ShownInv, Injecting!Get \/ Injecting!Check \/ Injecting!Write \/ Injecting!Tell
  PROVE  ShownInv'
<1>1. UNCHANGED <<at, generation, stopping, board, up>>
  BY DEF Injecting!Get, Injecting!Check, Injecting!Write, Injecting!Tell, Injecting!lineVars
<1>2. StopsKept' BY <1>1 DEF ShownInv, StopsKept
<1>3. Asking' = Asking BY <1>1 DEF Asking
<1>4. CASE Injecting!Get \/ Injecting!Check
  <2>1. UNCHANGED <<shown, down>> /\ (worker'.sent => worker.sent /\ worker.doing = "check")
    BY <1>4 DEF Injecting!Get, Injecting!Check, Injecting!lineVars, PumpInv, WorkerTyped
  <2>2. WrittenStands' BY <2>1 DEF ShownInv, WrittenStands
  <2> QED BY <1>1, <1>2, <2>1, <2>2 DEF ShownInv, ReplyTyped, LastShown
<1>5. CASE Injecting!Write
  <2>1. UNCHANGED <<shown, item>> /\ worker.doing = "write" /\ worker'.doing = "told" /\ worker'.has = worker.has
    BY <1>5 DEF Injecting!Write, PumpInv, WorkerTyped
  <2>2. ~worker.sent BY <2>1 DEF ShownInv, WrittenStands
  <2>3. CASE down' = down /\ ~worker'.sent
    <3>1. WrittenStands' BY <2>3 DEF WrittenStands
    <3> QED BY <1>1, <1>2, <2>1, <2>3, <3>1 DEF ShownInv, ReplyTyped, LastShown
  <2>4. CASE down' = Append(down, "on") /\ stopping = {}
    <3>1. down' # <<>> /\ Injecting!Last(down') = "on" BY <2>4, LastOfQueue DEF PumpInv, LineTyped
    <3>2. LastWord' BY <3>1 DEF LastWord
    <3>3. worker.has \in Asking BY <2>1 DEF PumpInv, InHand
    <3>4. WrittenStands' BY <1>1, <1>3, <2>1, <2>4, <3>2, <3>3 DEF WrittenStands
    <3>5. LastShown' BY <1>1, <3>1 DEF ShownInv, LastShown
    <3> QED BY <1>1, <1>2, <2>1, <3>4, <3>5 DEF ShownInv, ReplyTyped
  <2>5. \/ down' = down /\ ~worker'.sent
        \/ down' = Append(down, "on") /\ stopping = {}
    BY <1>5, <2>2 DEF Injecting!Write, Injecting!MayWrite, PumpInv, WorkerTyped
  <2> QED BY <2>3, <2>4, <2>5
<1>6. CASE Injecting!Tell
  <2>1. /\ down' = down /\ shown' = (shown \/ Injecting!Stands(worker.has))
        /\ worker' = [has |-> Injecting!Nobody, doing |-> "get", sent |-> FALSE]
    BY <1>6 DEF Injecting!Tell, Injecting!lineVars
  <2>2. Injecting!Stands(worker.has) => LastWord
    BY DEF Injecting!Stands, Injecting!Current, ShownInv, WrittenStands
  <2>3. Injecting!Stands(worker.has) \in BOOLEAN
    BY DEF Injecting!Stands, Injecting!Current, PumpInv, WorkerTyped
  <2>4. LastShown' BY <1>1, <2>1, <2>2, <2>3 DEF ShownInv, ReplyTyped, LastShown, LastWord
  <2>5. WrittenStands' /\ ReplyTyped' BY <1>1, <2>1, <2>3 DEF ShownInv, ReplyTyped, WrittenStands
  <2> QED BY <1>2, <2>4, <2>5 DEF ShownInv
<1> QED BY <1>4, <1>5, <1>6

\* The board does what is next on the line and says so.
LEMMA BoardShows == ASSUME PumpInv, ShownInv, Injecting!Execute \/ Injecting!Reply PROVE ShownInv'
<1>1. UNCHANGED <<at, generation, item, worker, stopping>> BY DEF Injecting!Execute, Injecting!Reply
<1>2. StopsKept' /\ Asking' = Asking BY <1>1 DEF ShownInv, StopsKept, Asking
<1>3. down \in Seq({"on", "off"}) /\ up \in Seq({"on", "off"})
  BY DEF PumpInv, LineTyped, ShownInv, ReplyTyped
<1>4. LastWord' = LastWord /\ ReplyTyped' /\ LastShown'
  <2>1. CASE Injecting!Execute
    <3>1. /\ down # <<>> /\ down' = Tail(down) /\ board' = (Head(down) = "on")
          /\ up' = Append(up, Head(down)) /\ shown' = shown
      BY <2>1 DEF Injecting!Execute
    <3>2. Head(down) \in {"on", "off"} BY <1>3, <3>1
    <3>3. up' # <<>> /\ Injecting!Last(up') = Head(down) /\ up' \in Seq({"on", "off"})
      BY <1>3, <3>1, <3>2, LastOfQueue
    <3>4. LastWord' = LastWord BY <1>3, <3>1, LastOfQueue DEF LastWord
    <3> QED BY <3>1, <3>3, <3>4 DEF ShownInv, ReplyTyped, LastShown
  <2>2. CASE Injecting!Reply
    <3>1. /\ up # <<>> /\ up' = Tail(up) /\ shown' = (Head(up) = "on") /\ down' = down /\ board' = board
      BY <2>2 DEF Injecting!Reply
    <3>2. /\ up' # <<>> => Injecting!Last(up') = Injecting!Last(up)
          /\ up' = <<>> => Head(up) = Injecting!Last(up)
          /\ up' \in Seq({"on", "off"})
      BY <1>3, <3>1, LastOfQueue
    <3> QED BY <3>1, <3>2 DEF ShownInv, ReplyTyped, LastShown, LastWord
  <2> QED BY <2>1, <2>2
<1>5. WrittenStands' BY <1>1, <1>2, <1>4 DEF ShownInv, WrittenStands
<1> QED BY <1>2, <1>4, <1>5 DEF ShownInv

\* An OFF puts what the worker has in hand out of date.
LEMMA OffShows ==
  ASSUME Injecting!QueueHasRoom, PumpInv, ShownInv, NEW r \in Offs,
         Injecting!StopFirst(r) \/ Injecting!Invalidate(r) \/ Injecting!Off(r)
  PROVE  ShownInv'
<1>1. /\ UNCHANGED <<worker, shown, board, up>> /\ at' = [at EXCEPT ![r] = at'[r]]
      /\ \A q \in Ons : at'[q] = at[q]
  BY DEF Injecting!QueueHasRoom, Injecting!StopFirst, Injecting!Invalidate, Injecting!Off, Injecting!lineVars,
         PumpInv, PumpTyped
<1>2. Asking' = Asking BY <1>1 DEF Asking
<1>3. down \in Seq({"on", "off"}) BY DEF PumpInv, LineTyped
<1>4. down' = down \/ (down' # <<>>)
  BY <1>3 DEF Injecting!StopFirst, Injecting!Invalidate, Injecting!Off, Injecting!lineVars
<1>5. ReplyTyped' /\ LastShown' BY <1>1, <1>4 DEF ShownInv, ReplyTyped, LastShown
<1>6. StopsKept'
  <2>1. CASE Injecting!StopFirst(r)
    BY <2>1 DEF Injecting!StopFirst, ShownInv, StopsKept, PumpInv, PumpTyped
  <2>2. CASE Injecting!Invalidate(r)
    BY <2>2 DEF Injecting!Invalidate, ShownInv, StopsKept, PumpInv, PumpTyped
  <2>3. CASE Injecting!Off(r)
    BY <2>3 DEF Injecting!Off, ShownInv, StopsKept, PumpInv, PumpTyped
  <2> QED BY <2>1, <2>2, <2>3
<1>7. WrittenStands'
  <2> SUFFICES ASSUME worker.sent
               PROVE  item'[worker.has].generation # generation'
    BY <1>1, <1>2 DEF ShownInv, WrittenStands
  <2>1. worker.has \in Asking /\ worker.has \in Ons BY DEF ShownInv, WrittenStands, Asking
  <2>2. item[worker.has].generation <= generation /\ item[worker.has].generation \in Nat /\ generation \in Nat
    BY <2>1 DEF PumpInv, OfItsTime, PumpTyped, ItemType
  <2>3. CASE Injecting!Off(r)
    <3>1. r \in stopping BY <2>3 DEF Injecting!Off, ShownInv, StopsKept
    <3>2. item[worker.has].generation # generation BY <3>1 DEF ShownInv, WrittenStands
    <3> QED BY <2>3, <3>2 DEF Injecting!Off
  <2>4. CASE Injecting!StopFirst(r) \/ Injecting!Invalidate(r)
    <3>1. generation' = generation + 1 /\ item' = Injecting!Invalidated
      BY <2>4 DEF Injecting!StopFirst, Injecting!Invalidate
    <3>2. item'[worker.has].generation = item[worker.has].generation
      BY <2>1, <3>1, ItemFacts DEF Injecting!Invalidated, PumpInv, PumpTyped
    <3> QED BY <2>2, <3>1, <3>2
  <2> QED BY <2>3, <2>4
<1> QED BY <1>5, <1>6, <1>7 DEF ShownInv

\* When nothing is under way, the node shows the pump as the board runs it,
\* and nothing that an OFF has overtaken is written.
THEOREM PumpShown == Spec => ShownIsTrue
<1> DEFINE Inv == part = "injection" => PumpInv /\ ShownInv
<1>1. Start => Inv BY PumpInit, ShownInit, PumpAssumption DEF Start
<1>2. Inv /\ [Step]_parts => Inv'
  <2> SUFFICES ASSUME Inv, [Step]_parts, part' = "injection" PROVE PumpInv' /\ ShownInv'
    OBVIOUS
  <2>1. CASE UNCHANGED parts
    BY <2>1
    DEF parts, After5, After11, PumpInv, PumpTyped, WorkerTyped, LineTyped, QueueAsked, InHand, OfItsTime,
        Asking, Injecting!Asked, ShownInv, ReplyTyped, StopsKept, LastShown, WrittenStands, LastWord
  <2>2. CASE Step
    <3>1. PumpInv /\ ShownInv /\ Injecting!Next BY <2>2 DEF Step
    <3>2. PumpInv' BY <3>1, PumpAssumption, OnKeeps, WorkerKeeps, OffKeeps DEF Injecting!Next
    <3>3. ShownInv'
      BY <3>1, PumpAssumption, OnShows, WorkerShows, BoardShows, OffShows DEF Injecting!Next
    <3> QED BY <3>2, <3>3
  <2> QED BY <2>1, <2>2
<1>3. Inv => (part = "injection" => Injecting!ShownIsTrue)
  BY DEF ShownInv, LastShown, Injecting!ShownIsTrue
<1> QED BY <1>1, <1>2, <1>3, OffIsLast, PTL DEF Spec, ShownIsTrue


-----------------------------------------------------------------------------
(* The preparation: the names that Preparation gives its variables.        *)
plan == s1
stage == s2
place == s3
acked == s4
error == s5
started == s6
pending == s7
cancelled == s8
ended == s9
travel == s10
wire == s11
texts == s12
moving == s13
injecting == s14
turned == s15
real == s16
USE DEF plan, stage, place, acked, error, started, pending, cancelled, ended, travel, wire, texts, moving,
        injecting, turned, real

Stages == {"query", "off", "set", "verify", "complete"} \cup Preparing!Moves
Words == {"query", "off", "set", "manual", "stop"} \cup Preparing!Moves
Names == {"query", "off", "set", "move", "manual", "any"} \cup Preparing!Moves
Texts ==
  [kind : {"ack"}, of : Names] \cup [kind : {"busy"}]
  \cup [kind : {"start", "done", "fail"}, pump : Motors, move : Names]
Travels == [on : BOOLEAN, angle : Int, degrees : Int, gap : Nat]

PrepTyped ==
  /\ plan \in Plans /\ stage \in Stages /\ place \in {"check", "send", "ack", "moves"}
  /\ acked \in BOOLEAN /\ error \in BOOLEAN /\ cancelled \in BOOLEAN /\ ended \in {"no", "failed", "complete"}
  /\ started \in SUBSET Motors /\ pending \in SUBSET Motors
  /\ wire \in Seq(Words) /\ texts \in Seq(Texts)
  /\ moving \in [Motors -> {"none", "manual"} \cup Preparing!Moves] /\ injecting \in BOOLEAN
  /\ DOMAIN real = Motors /\ turned \in Int
TravelTyped == travel \in Travels

(***************************************************************************)
(* Until a stop or a failure the line holds what was sent last, perhaps    *)
(* behind an operator's own move; from then on it ends with the stop.      *)
(***************************************************************************)
Live == ~cancelled /\ ended # "failed"
Sent == place \in {"ack", "moves"} /\ wire = <<>>
LineKept ==
  /\ wire \in {<<>>, <<"manual">>, <<stage>>, <<"manual", stage>>}
  /\ wire # <<>> => /\ Head(wire) = "manual" => stage = "query"
                    /\ wire = <<"manual">> \/ place = "ack"
                    /\ place = "ack" => ~acked
                    /\ place # "moves"
  /\ place = "send" => ~acked
  /\ place = "moves" => stage \in Preparing!Moves
  /\ stage \in {"verify", "complete"} => place = "check"
PlanKept ==
  /\ plan.calibration => stage \in {"query", "home", "complete"}
  /\ stage = "separate" => plan.separation
  /\ stage = "complete" /\ ~plan.calibration => ended = "complete"
EndKept == ended = "complete" => stage = "complete" /\ ~cancelled
StopKept ==
  ~Live => IF wire # <<>> THEN Preparing!Last(wire) = "stop"
           ELSE ~injecting /\ \A m \in Motors : moving[m] = "none"

(***************************************************************************)
(* The reply to the present command is the last one on the line; nothing   *)
(* tells of a move that is still to come; a pump that has begun the move   *)
(* is not on the way of an operator.                                       *)
(***************************************************************************)
Acks ==
  \A j \in 1..Len(texts) : texts[j].kind = "ack" =>
    /\ (place = "ack" /\ ~acked) \/ (stage = "query" /\ place \in {"check", "send"})
    /\ ~Sent => stage = "query" /\ texts[j].of = "move"
    /\ texts[j].of = Preparing!Command => \A i \in (j + 1)..Len(texts) : texts[i].kind # "ack"
Reached ==
  IF stage \in {"query", "off"} THEN {}
  ELSE IF stage = "home" THEN {"home"}
  ELSE IF stage = "compensate" THEN {"home", "compensate"} ELSE Preparing!Moves
Tells(m, j) == texts[j].kind = "start" /\ texts[j].pump = m /\ texts[j].move = stage
Begun(m) == m \in started \/ \E j \in 1..Len(texts) : Tells(m, j)
Making(m) == Sent /\ m \in Preparing!MovedBy(stage) /\ stage \in Preparing!Moves
StartsKept ==
  /\ \A j \in 1..Len(texts) :
       texts[j].kind = "start" => texts[j].move \in Reached \cup {"manual"}
  /\ \A m \in Motors : Begun(m) => Making(m) /\ moving[m] # "manual"

(***************************************************************************)
(* Each pump has made the moves of the stages before, in order; the one of *)
(* the present stage, too, once it is done: that is, when a pump is not    *)
(* awaited any more, or when its end follows its begin on the line.        *)
(***************************************************************************)
WaysTo(s, m) ==
  IF s \in {"query", "off", "home"} THEN <<>>
  ELSE IF s = "compensate" THEN <<"home">>
  ELSE IF s = "separate" THEN <<"home", "compensate">> ELSE Preparing!Ways(m)
Whole(m) == real[m] = Append(WaysTo(stage, m), stage)
RealKept ==
  \A m \in Motors :
    /\ moving[m] \in Preparing!Moves => Making(m) /\ moving[m] = stage /\ real[m] = WaysTo(stage, m)
    /\ real[m] = WaysTo(stage, m) \/ (Making(m) /\ Whole(m))
AwaitedKept ==
  stage \in Preparing!Moves /\ place # "check" =>
    \A m \in Preparing!MovedBy(stage) \ pending : Whole(m)
DoneKept ==
  \A j \in 1..Len(texts) :
    /\ texts[j].kind = "done"
    /\ texts[j].pump \in started \/ \E i \in 1..(j - 1) : Tells(texts[j].pump, i)
    => Whole(texts[j].pump)

(***************************************************************************)
(* The angle that the thread has counted is the pump's, but for what it    *)
(* may have turned since the last one.                                     *)
(***************************************************************************)
TravelKept ==
  /\ travel.on => /\ stage = "separate" /\ place \in {"ack", "moves"}
                  /\ travel.angle = travel.degrees % Turn
                  /\ turned - travel.degrees <= Speed * travel.gap
                  /\ travel.degrees - turned <= Speed * travel.gap
  /\ ~travel.on => travel = Preparing!Unarmed
  /\ stage = "separate" /\ place \in {"ack", "moves"} => travel.on
  /\ ~travel.on /\ stage \notin {"set", "verify", "complete"} => turned = 0
  /\ ~travel.on /\ stage \in {"set", "verify", "complete"} /\ plan.separation /\ ~plan.calibration =>
       turned + Speed * AngleTimeout >= Goal

LiveInv ==
  /\ LineKept /\ PlanKept /\ Acks /\ StartsKept
  /\ RealKept /\ AwaitedKept /\ DoneKept /\ TravelKept
PrepInv == PrepTyped /\ TravelTyped /\ EndKept /\ StopKept /\ (Live => LiveInv)

\* Preparation counts as FiniteSets does.
LEMMA SameSizes ==
  ASSUME NEW S
  PROVE  Preparing!Cardinality(S) = Cardinality(S) /\ (Preparing!IsFiniteSet(S) <=> IsFiniteSet(S))
BY DEF Preparing!Cardinality, Cardinality, Preparing!IsFiniteSet, IsFiniteSet

\* What the board says of the begin of a move: one text for each pump.
LEMMA StartsAreTexts ==
  ASSUME NEW s
  PROVE  Preparing!Starts(s) \in Seq({Preparing!About("start", m, s) : m \in Preparing!MovedBy(s)})
<1> DEFINE P == Preparing!MovedBy(s)
           S == {Preparing!About("start", m, s) : m \in P}
<1>1. IsFiniteSet(P)
  <2>1. IsFiniteSet(Motors) /\ Oil \in Motors
    BY PumpAssumption, SameSizes DEF Preparing!AngleAssumption
  <2>2. P \in SUBSET Motors BY <2>1 DEF Preparing!MovedBy
  <2> QED BY <2>1, <2>2, FS_Subset
<1>2. PICK n \in Nat : ExistsBijection(1..n, P) BY <1>1, FS_NatBijection
<1>3. PICK f \in Bijection(1..n, P) : TRUE BY <1>2 DEF ExistsBijection
<1> DEFINE g == [i \in 1..n |-> Preparing!About("start", f[i], s)]
<1>4. /\ f \in [1..n -> P] /\ \A i, j \in 1..n : f[i] = f[j] => i = j
      /\ \A m \in P : \E i \in 1..n : f[i] = m
  BY <1>3 DEF Bijection, Injection, Surjection, IsInjective
<1>5. g \in Bijection(1..n, S)
  <2>1. g \in [1..n -> S] BY <1>4
  <2>2. \A i, j \in 1..n : g[i] = g[j] => i = j
    BY <1>4 DEF Preparing!About
  <2>3. \A t \in S : \E i \in 1..n : g[i] = t BY <1>4
  <2> QED BY <2>1, <2>2, <2>3 DEF Bijection, Injection, Surjection, IsInjective
<1>6. ExistsBijection(1..n, S) BY <1>5 DEF ExistsBijection
<1>7. Preparing!Cardinality(S) = n BY <1>6, FS_CountingElements, SameSizes
<1>8. \E h \in [1..Preparing!Cardinality(S) -> S] : Preparing!IsInjective(h)
  <2>1. g \in [1..n -> S] /\ \A i, j \in 1..n : g[i] = g[j] => i = j
    BY <1>5 DEF Bijection, Injection, IsInjective
  <2>2. Preparing!IsInjective(g)
    <3>1. DOMAIN g = 1..n
      OBVIOUS
    <3> HIDE DEF g
    <3> QED BY <2>1, <3>1 DEF Preparing!IsInjective
  <2> QED BY <1>7, <2>1, <2>2
<1> HIDE DEF S
<1>9. Preparing!SetToSeq(S) \in [1..n -> S] BY <1>7, <1>8 DEF Preparing!SetToSeq
<1>10. Preparing!SetToSeq(S) \in Seq(S) BY <1>9
<1>11. Preparing!Starts(s) = Preparing!SetToSeq(S) BY DEF S, Preparing!Starts
<1> QED BY <1>10, <1>11 DEF S

\* What is where after a text is taken from a line of texts or added to it.
LEMMA TakenTexts ==
  ASSUME NEW q \in Seq(Texts), q # <<>>
  PROVE  /\ Tail(q) \in Seq(Texts) /\ Head(q) = q[1] /\ q[1] \in Texts
         /\ \A j \in 1..Len(Tail(q)) : j + 1 \in 1..Len(q) /\ Tail(q)[j] = q[j + 1]
OBVIOUS

LEMMA OneText ==
  ASSUME NEW q \in Seq(Texts), NEW t \in Texts
  PROVE  /\ Append(q, t) \in Seq(Texts) /\ Len(Append(q, t)) = Len(q) + 1
         /\ Append(q, t)[Len(q) + 1] = t /\ \A j \in 1..Len(q) : Append(q, t)[j] = q[j]
OBVIOUS

LEMMA JoinedTexts ==
  ASSUME NEW q \in Seq(Texts), NEW u \in Seq(Texts)
  PROVE  /\ q \o u \in Seq(Texts) /\ Len(q \o u) = Len(q) + Len(u)
         /\ \A j \in 1..Len(q) : (q \o u)[j] = q[j]
         /\ \A j \in 1..Len(u) : (q \o u)[Len(q) + j] = u[j]
OBVIOUS

LEMMA AddedTexts ==
  ASSUME NEW q \in Seq(Texts), NEW t \in Texts, NEW S \in SUBSET Texts, NEW u \in Seq(S)
  PROVE  LET w == Append(q, t) \o u
         IN /\ w \in Seq(Texts)
            /\ \A j \in 1..Len(q) : j \in 1..Len(w) /\ w[j] = q[j]
            /\ \A j \in 1..Len(w) : \/ j \in 1..Len(q)
                                    \/ j = Len(q) + 1 /\ w[j] = t
                                    \/ j > Len(q) + 1 /\ w[j] \in S
<1>1. u \in Seq(Texts)
  OBVIOUS
<1>2. PICK v \in Seq(Texts) : v = Append(q, t) BY OneText
<1>3. Len(v) = Len(q) + 1 /\ v[Len(q) + 1] = t /\ \A j \in 1..Len(q) : v[j] = q[j] BY <1>2, OneText
<1>4. PICK w : w = v \o u
  OBVIOUS
<1>5. /\ w \in Seq(Texts) /\ Len(w) = Len(v) + Len(u)
      /\ \A j \in 1..Len(v) : w[j] = v[j]
      /\ \A j \in 1..Len(u) : w[Len(v) + j] = u[j]
  BY <1>1, <1>4, JoinedTexts
<1>6. \A j \in 1..Len(w) : \/ j \in 1..Len(q)
                           \/ j = Len(q) + 1 /\ w[j] = t
                           \/ j > Len(q) + 1 /\ w[j] \in S
  <2> TAKE j \in 1..Len(w)
  <2>1. CASE j <= Len(q) BY <2>1
  <2>2. CASE j = Len(q) + 1 BY <2>2, <1>3, <1>5
  <2>3. CASE j > Len(q) + 1
    <3>1. j - Len(v) \in 1..Len(u) BY <2>3, <1>3, <1>5
    <3>2. w[j] = u[j - Len(v)] BY <3>1, <1>3, <1>5
    <3> QED BY <2>3, <3>1, <3>2
  <2> QED BY <2>1, <2>2, <2>3
<1>7. \A j \in 1..Len(q) : j \in 1..Len(w) /\ w[j] = q[j] BY <1>3, <1>5
<1> QED BY <1>2, <1>4, <1>5, <1>6, <1>7

\* The texts.
LEMMA TextFacts ==
  /\ \A t \in Texts : t.kind \in {"start", "done", "fail"} => t.pump \in Motors
  /\ \A c \in Names : LET t == Preparing!Ack(c) IN t \in Texts /\ t.kind = "ack" /\ t.of = c
  /\ [kind |-> "busy"] \in Texts
  /\ \A m \in Motors, s \in Names, k \in {"start", "done", "fail"} :
       LET t == Preparing!About(k, m, s) IN t \in Texts /\ t.kind = k /\ t.pump = m /\ t.move = s
BY DEF Texts, Preparing!Ack, Preparing!About

\* Angles: what a turn leaves of a way, and how far two angles are from each other.
LEMMA TurnFacts ==
  /\ Turn \in Nat /\ Turn > 0 /\ Speed \in Nat /\ AngleTimeout \in Nat /\ Goal \in Int
  /\ 2 * (Speed * AngleTimeout) < Turn
<1>1. /\ Turn \in Nat /\ Speed \in Nat /\ AngleTimeout \in Nat /\ Goal \in Int
      /\ 2 * Speed * AngleTimeout < Turn
  BY PumpAssumption DEF Preparing!AngleAssumption
<1>2. 2 * Speed * AngleTimeout = 2 * (Speed * AngleTimeout) /\ Speed * AngleTimeout \in Nat BY <1>1
<1> QED BY <1>1, <1>2

LEMMA Modulo ==
  ASSUME NEW t \in Nat, t > 0, NEW a \in Int
  PROVE  (a % t) = a - t * (a \div t) /\ a \div t \in Int /\ a % t \in 0..(t - 1)
<1>1. (a % t) = a - t * (a \div t) BY SMTT(60)
<1>2. a \div t \in Int /\ a % t \in 0..(t - 1)
  OBVIOUS
<1> QED BY <1>1, <1>2

LEMMA Multiples == ASSUME NEW t \in Nat, t > 0, NEW k \in Int, k # 0 PROVE t * k >= t \/ t * k <= -t
OBVIOUS

LEMMA WithinATurn ==
  ASSUME NEW t \in Nat, t > 0, NEW k \in Int, NEW a \in Int, NEW b \in Int,
         0 <= a, a < t, 0 <= b, b < t, a = t * k + b
  PROVE  a = b
<1>1. k # 0 => t * k >= t \/ t * k <= -t BY Multiples
<1>2. t * k \in Int
  OBVIOUS
<1>3. k = 0 => t * k = 0
  OBVIOUS
<1> QED BY <1>1, <1>2, <1>3

LEMMA Distribute == \A t, x, y \in Int : t * (x - y) = t * x - t * y /\ t * x \in Int
OBVIOUS

LEMMA DistanceWithin ==
  ASSUME NEW t \in Nat, t > 0, NEW a \in Int, NEW b \in Int, 2 * (a - b) < t, 2 * (b - a) < t
  PROVE  (((a % t) - (b % t) + (t \div 2)) % t) - (t \div 2) = a - b
<1> DEFINE h == t \div 2
           u == a % t
           v == b % t
<1>1. h \in Nat /\ 2 * h <= t /\ t <= 2 * h + 1
  OBVIOUS
<1>2. u \in Int /\ v \in Int BY Modulo
<1>3. PICK i, j \in Int : u = a - t * i /\ v = b - t * j BY Modulo
<1> HIDE DEF h, u, v
<1>4. PICK x \in Int : x = u - v + h BY <1>1, <1>2
<1>5. PICK c \in Int : (x % t) = x - t * c /\ x % t \in 0..(t - 1) BY <1>4, Modulo
<1>6. PICK p, q, r \in Int : p = t * i /\ q = t * j /\ r = t * c
  OBVIOUS
<1>7. t * (j - i - c) = q - p - r
  <2>1. t * ((j - i) - c) = t * (j - i) - t * c BY Distribute
  <2>2. t * (j - i) = t * j - t * i BY Distribute
  <2> QED BY <1>6, <2>1, <2>2
<1>8. PICK y \in Int : y = x % t BY <1>5
<1>9. y = t * (j - i - c) + (a - b + h)
  <2>1. y = x - r /\ u = a - p /\ v = b - q BY <1>3, <1>5, <1>6, <1>8
  <2> QED BY <2>1, <1>1, <1>4, <1>7
<1>10. 0 <= a - b + h /\ a - b + h < t BY <1>1
<1>11. y = a - b + h
  <2>1. j - i - c \in Int /\ a - b + h \in Int /\ 0 <= y /\ y < t BY <1>1, <1>5, <1>8
  <2> QED BY <2>1, <1>8, <1>9, <1>10, WithinATurn
<1>12. ((u - v + h) % t) - h = a - b BY <1>1, <1>4, <1>8, <1>11
<1> QED BY <1>12 DEF h, u, v

\* The present angle and the one that was taken last tell how far the pump has turned since,
\* as long as no more than AngleTimeout has gone by.
LEMMA AngleTells ==
  ASSUME TravelTyped, turned \in Int, travel.angle = travel.degrees % Turn, travel.gap <= AngleTimeout,
         turned - travel.degrees <= Speed * travel.gap, travel.degrees - turned <= Speed * travel.gap
  PROVE  Preparing!Distance(Preparing!Angle, travel.angle) = turned - travel.degrees
<1>1. PICK d \in Int, g \in Nat : d = travel.degrees /\ g = travel.gap BY DEF TravelTyped, Travels
<1>2. Speed * g \in Nat /\ Speed * g <= Speed * AngleTimeout /\ Speed * AngleTimeout \in Nat
  BY <1>1, TurnFacts
<1>3. 2 * (turned - d) < Turn /\ 2 * (d - turned) < Turn BY <1>1, <1>2, TurnFacts
<1>4. (((turned % Turn) - (d % Turn) + (Turn \div 2)) % Turn) - (Turn \div 2) = turned - d
  BY <1>3, TurnFacts, DistanceWithin
<1> QED BY <1>1, <1>4 DEF Preparing!Distance, Preparing!Angle

\* The words of the board and of the thread.
LEMMA AckTexts ==
  /\ \A c \in {"query", "off", "set", "move"} : Preparing!Ack(c) \in Texts
  /\ \A s \in {"manual"} \cup Preparing!Moves :
       {Preparing!About("start", m, s) : m \in Preparing!MovedBy(s)} \in SUBSET Texts
<1>1. Oil \in Motors BY PumpAssumption DEF Preparing!AngleAssumption
<1>2. \A c \in {"query", "off", "set", "move"} : Preparing!Ack(c) \in Texts BY TextFacts DEF Names
<1>3. ASSUME NEW s \in {"manual"} \cup Preparing!Moves, NEW m \in Preparing!MovedBy(s)
      PROVE  Preparing!About("start", m, s) \in Texts
  <2>1. s \in Names BY DEF Names
  <2>2. m \in Motors BY <1>1 DEF Preparing!MovedBy
  <2> QED BY <2>1, <2>2, TextFacts
<1> QED BY <1>2, <1>3

\* What a move that the board begins or refuses does to the texts and the pumps.
LEMMA TurnsTyped ==
  ASSUME PrepTyped, NEW s \in {"manual"} \cup Preparing!Moves, Preparing!Turns(s)
  PROVE  /\ texts' \in Seq(Texts) /\ moving' \in [Motors -> {"none", "manual"} \cup Preparing!Moves]
         /\ \A j \in 1..Len(texts) : j \in 1..Len(texts') /\ texts'[j] = texts[j]
         /\ \/ /\ moving' = moving
               /\ \A j \in 1..Len(texts') : j \in 1..Len(texts) \/ texts'[j] = [kind |-> "busy"]
            \/ /\ moving' = [m \in Motors |-> IF m \in Preparing!MovedBy(s) THEN s ELSE moving[m]]
               /\ \A m \in Preparing!MovedBy(s) : moving[m] = "none"
               /\ \A j \in 1..Len(texts') :
                    \/ j \in 1..Len(texts)
                    \/ j = Len(texts) + 1 /\ texts'[j] = Preparing!Ack("move")
                    \/ /\ j > Len(texts) + 1
                       /\ \E m \in Preparing!MovedBy(s) : texts'[j] = Preparing!About("start", m, s)
<1>1. texts \in Seq(Texts) /\ moving \in [Motors -> {"none", "manual"} \cup Preparing!Moves]
  BY DEF PrepTyped
<1>2. CASE texts' = Append(texts, [kind |-> "busy"]) /\ UNCHANGED moving
  <2>1. [kind |-> "busy"] \in Texts BY TextFacts
  <2> QED BY <1>1, <1>2, <2>1, OneText
<1>3. CASE /\ \A m \in Preparing!MovedBy(s) : moving[m] = "none"
           /\ texts' = Append(texts, Preparing!Ack("move")) \o Preparing!Starts(s)
           /\ moving' = [m \in Motors |-> IF m \in Preparing!MovedBy(s) THEN s ELSE moving[m]]
  <2> DEFINE S == {Preparing!About("start", m, s) : m \in Preparing!MovedBy(s)}
  <2>1. PICK t \in Texts : t = Preparing!Ack("move") BY AckTexts
  <2>2. S \in SUBSET Texts BY AckTexts
  <2>3. PICK u \in Seq(S) : u = Preparing!Starts(s) BY StartsAreTexts
  <2>4. texts' = Append(texts, t) \o u BY <1>3, <2>1, <2>3
  <2>5. \A x \in S : \E m \in Preparing!MovedBy(s) : x = Preparing!About("start", m, s)
    OBVIOUS
  <2>6. moving' \in [Motors -> {"none", "manual"} \cup Preparing!Moves] BY <1>1, <1>3
  <2> HIDE DEF S
  <2>7. /\ texts' \in Seq(Texts)
        /\ \A j \in 1..Len(texts) : j \in 1..Len(texts') /\ texts'[j] = texts[j]
        /\ \A j \in 1..Len(texts') : \/ j \in 1..Len(texts)
                                     \/ j = Len(texts) + 1 /\ texts'[j] = t
                                     \/ j > Len(texts) + 1 /\ texts'[j] \in S
    BY <1>1, <2>2, <2>4, AddedTexts
  <2> QED BY <1>3, <2>1, <2>5, <2>6, <2>7
<1> QED BY <1>2, <1>3 DEF Preparing!Turns

\* What a step makes of the way that is counted is one again.
LEMMA TravelArmed ==
  ASSUME NEW t \in Travels, NEW a \in Int, NEW d \in Int
  PROVE  [t EXCEPT !.on = TRUE, !.angle = a] \in Travels /\ [t EXCEPT !.angle = a, !.degrees = d] \in Travels
BY DEF Travels

LEMMA TravelGap == ASSUME NEW t \in Travels, NEW n \in Nat PROVE [t EXCEPT !.gap = n] \in Travels
BY DEF Travels

LEMMA TravelFacts ==
  ASSUME NEW t \in Travels, NEW a \in Int, NEW d \in Int
  PROVE  /\ [t EXCEPT !.on = TRUE, !.angle = a] \in Travels
         /\ [t EXCEPT !.angle = a, !.degrees = d, !.gap = 0] \in Travels
         /\ [t EXCEPT !.gap = t.gap + 1] \in Travels
<1>1. t.gap + 1 \in Nat BY DEF Travels
<1>2. [[t EXCEPT !.angle = a, !.degrees = d] EXCEPT !.gap = 0] \in Travels BY TravelArmed, TravelGap
<1> QED BY <1>1, <1>2, TravelArmed, TravelGap

\* What the stages and words are.
LEMMA StageFacts ==
  /\ Preparing!Moves = {"home", "compensate", "separate"}
  /\ \A s : Preparing!MovedBy(s) \subseteq Motors
  /\ Preparing!Unarmed \in Travels
<1>1. Oil \in Motors BY PumpAssumption DEF Preparing!AngleAssumption
<1>2. \A s : Preparing!MovedBy(s) \subseteq Motors BY <1>1 DEF Preparing!MovedBy
<1>3. Preparing!Unarmed \in Travels BY DEF Preparing!Unarmed, Travels
<1> QED BY <1>2, <1>3 DEF Preparing!Moves

\* What comes after what.
LEMMA AfterFacts ==
  ASSUME PrepTyped, LineKept, PlanKept, place # "check"
  PROVE  /\ stage = "query" => Preparing!After(stage) \in {"off", "home"}
         /\ stage = "off" => Preparing!After(stage) = "home"
         /\ stage = "home" => Preparing!After(stage) = IF plan.calibration THEN "complete" ELSE "compensate"
         /\ stage = "compensate" /\ plan.separation => Preparing!After(stage) = "separate"
         /\ stage = "compensate" /\ ~plan.separation => Preparing!After(stage) \in {"set", "verify"}
         /\ stage = "separate" => Preparing!After(stage) \in {"set", "verify"}
         /\ stage = "set" => Preparing!After(stage) = "verify"
         /\ stage = "query" /\ plan.calibration => Preparing!After(stage) = "home"
         /\ stage \in {"query", "off", "home", "compensate", "separate", "set"}
<1>1. stage \notin {"verify", "complete"} BY DEF LineKept
<1>2. stage \in {"query", "off", "home", "compensate", "separate", "set"}
  BY <1>1, StageFacts DEF PrepTyped, Stages
<1>3. plan.calibration \in BOOLEAN /\ plan.separation \in BOOLEAN /\ plan.injection \in BOOLEAN
  BY PumpAssumption DEF PrepTyped, Preparing!AngleAssumption
<1>4. CASE stage = "query" BY <1>3, <1>4 DEF Preparing!After
<1>5. CASE stage = "off" BY <1>5 DEF Preparing!After
<1>6. CASE stage = "home" BY <1>3, <1>6 DEF Preparing!After
<1>7. CASE stage = "compensate" BY <1>3, <1>7 DEF Preparing!After, Preparing!AfterTurning
<1>8. CASE stage = "separate" BY <1>3, <1>8 DEF Preparing!After, Preparing!AfterTurning
<1>9. CASE stage = "set" BY <1>9 DEF Preparing!After
<1> QED BY <1>2, <1>4, <1>5, <1>6, <1>7, <1>8, <1>9

\* What the board works off.
LEMMA ExecuteTyped ==
  ASSUME PrepTyped, TravelTyped, Preparing!Execute
  PROVE  PrepTyped' /\ TravelTyped'
<1>1. /\ UNCHANGED <<plan, stage, place, cancelled, ended, acked, error, started, pending, travel, turned, real>>
      /\ wire # <<>> /\ wire' = Tail(wire)
  BY DEF Preparing!Execute, Preparing!threadVars, Preparing!replyVars
<1>2. TravelTyped' BY <1>1 DEF TravelTyped
<1>3. wire' \in Seq(Words) BY <1>1 DEF PrepTyped
<1>4. /\ texts' \in Seq(Texts) /\ injecting' \in BOOLEAN
      /\ moving' \in [Motors -> {"none", "manual"} \cup Preparing!Moves]
  <2>1. CASE /\ Head(wire) \in {"query", "off", "set"} /\ texts' = Append(texts, Preparing!Ack(Head(wire)))
             /\ injecting' = (Head(wire) = "set" \/ (injecting /\ Head(wire) # "off")) /\ UNCHANGED moving
    <3>1. Preparing!Ack(Head(wire)) \in Texts BY <2>1, AckTexts
    <3> QED BY <2>1, <3>1, OneText DEF PrepTyped
  <2>2. CASE Head(wire) \in Preparing!Moves /\ Preparing!Turns(Head(wire)) /\ UNCHANGED injecting
    BY <2>2, TurnsTyped DEF PrepTyped
  <2>3. CASE Preparing!Turns("manual") /\ UNCHANGED injecting BY <2>3, TurnsTyped DEF PrepTyped
  <2>4. CASE moving' = [m \in Motors |-> "none"] /\ injecting' = FALSE /\ UNCHANGED texts
    BY <2>4 DEF PrepTyped
  <2> QED BY <2>1, <2>2, <2>3, <2>4 DEF Preparing!Execute
<1> QED BY <1>1, <1>2, <1>3, <1>4 DEF PrepTyped

LEMMA TextsTyped ==
  ASSUME PrepTyped, TravelTyped,
         Preparing!LoseText \/ Preparing!TakeText \/ (\E m \in Motors : Preparing!Finish(m))
  PROVE  PrepTyped' /\ TravelTyped'
<1>1. CASE Preparing!LoseText
  <2>1. /\ UNCHANGED <<plan, stage, place, cancelled, ended, acked, error, started, pending, travel, turned, real>>
        /\ UNCHANGED <<wire, moving, injecting>> /\ texts # <<>> /\ texts' = Tail(texts)
    BY <1>1 DEF Preparing!LoseText, Preparing!threadVars, Preparing!replyVars
  <2>2. texts' \in Seq(Texts) BY <2>1, TakenTexts DEF PrepTyped
  <2> QED BY <2>1, <2>2 DEF PrepTyped, TravelTyped
<1>2. CASE Preparing!TakeText
  <2>1. /\ UNCHANGED <<plan, stage, place, cancelled, ended, travel, turned, real, wire, moving, injecting>>
        /\ texts # <<>> /\ texts' = Tail(texts)
    BY <1>2 DEF Preparing!TakeText, Preparing!threadVars, Preparing!boardVars
  <2>2. texts' \in Seq(Texts) BY <2>1, TakenTexts DEF PrepTyped
  <2>3. acked' \in BOOLEAN /\ error' \in BOOLEAN
    BY <1>2 DEF Preparing!TakeText, PrepTyped
  <2>4. started' \in SUBSET Motors /\ pending' \in SUBSET Motors
    BY <1>2, StageFacts DEF Preparing!TakeText, Preparing!Begun, PrepTyped
  <2> QED BY <2>1, <2>2, <2>3, <2>4 DEF PrepTyped, TravelTyped
<1>3. ASSUME NEW m \in Motors, Preparing!Finish(m) PROVE PrepTyped' /\ TravelTyped'
  <2>1. /\ UNCHANGED <<plan, stage, place, cancelled, ended, acked, error, started, pending, travel, turned>>
        /\ UNCHANGED <<wire, injecting>> /\ moving' = [moving EXCEPT ![m] = "none"]
    BY <1>3 DEF Preparing!Finish, Preparing!threadVars, Preparing!replyVars
  <2>2. \E t \in Texts : texts' = Append(texts, t)
    <3>1. "any" \in Names BY DEF Names
    <3>2. Preparing!About("done", m, "any") \in Texts /\ Preparing!About("fail", m, "any") \in Texts
      BY <3>1, TextFacts
    <3> QED BY <1>3, <3>2 DEF Preparing!Finish
  <2>3. DOMAIN real' = Motors
    <3>1. real' = real \/ \E x : real' = [real EXCEPT ![m] = x] BY <1>3 DEF Preparing!Finish
    <3> QED BY <3>1 DEF PrepTyped
  <2>4. texts' \in Seq(Texts) BY <2>2, OneText DEF PrepTyped
  <2>5. moving' \in [Motors -> {"none", "manual"} \cup Preparing!Moves] BY <2>1 DEF PrepTyped
  <2> QED BY <2>1, <2>3, <2>4, <2>5 DEF PrepTyped, TravelTyped
<1> QED BY <1>1, <1>2, <1>3

LEMMA AnglesTyped ==
  ASSUME PrepTyped, TravelTyped, Preparing!Tick \/ Preparing!TakeAngle
  PROVE  PrepTyped' /\ TravelTyped'
<1>1. /\ UNCHANGED <<plan, stage, place, cancelled, ended, acked, started, pending>>
      /\ UNCHANGED <<wire, texts, moving, injecting, real>>
  BY DEF Preparing!Tick, Preparing!TakeAngle, Preparing!threadVars, Preparing!replyVars, Preparing!boardVars
<1>2. error' \in BOOLEAN BY DEF Preparing!Tick, Preparing!TakeAngle, Preparing!replyVars, PrepTyped
<1>3. turned' \in Int
  <2>1. CASE Preparing!Tick
    <3>1. PICK d \in (IF moving[Oil] = "separate" THEN -Speed..Speed ELSE {0}) : turned' = turned + d
      BY <2>1 DEF Preparing!Tick
    <3>2. d \in Int BY <3>1, TurnFacts
    <3> QED BY <3>1, <3>2 DEF PrepTyped
  <2>2. CASE Preparing!TakeAngle BY <2>2 DEF Preparing!TakeAngle, Preparing!boardVars, PrepTyped
  <2> QED BY <2>1, <2>2
<1>4. TravelTyped'
  <2>1. CASE Preparing!Tick
    <3>1. travel' = [travel EXCEPT !.gap = travel.gap + 1] BY <2>1 DEF Preparing!Tick
    <3>2. travel \in Travels /\ 0 \in Int BY DEF TravelTyped
    <3>3. [travel EXCEPT !.gap = travel.gap + 1] \in Travels BY <3>2, TravelFacts
    <3> QED BY <3>1, <3>3 DEF TravelTyped
  <2>2. CASE Preparing!TakeAngle
    <3>1. PICK a \in Int : a = Preparing!Angle BY TurnFacts, Modulo DEF Preparing!Angle, PrepTyped
    <3>2. PICK b \in Int : b = travel.angle BY DEF TravelTyped, Travels
    <3>3. PICK h \in Int : h = Turn \div 2 BY TurnFacts
    <3>4. ((a - b + h) % Turn) - h \in Int BY TurnFacts, Modulo
    <3>5. Preparing!Distance(a, b) \in Int BY <3>3, <3>4 DEF Preparing!Distance
    <3>6. PICK d \in Int : d = Preparing!Distance(Preparing!Angle, travel.angle) BY <3>1, <3>2, <3>5
    <3>7. PICK e \in Int : e = travel.degrees + d BY <3>6 DEF TravelTyped, Travels
    <3>8. travel' = travel \/ travel' = [travel EXCEPT !.angle = a, !.degrees = e, !.gap = 0]
      BY <2>2, <3>1, <3>6, <3>7 DEF Preparing!TakeAngle
    <3>9. travel \in Travels BY DEF TravelTyped
    <3>10. [travel EXCEPT !.angle = a, !.degrees = e, !.gap = 0] \in Travels BY <3>9, <3>1, <3>7, TravelFacts
    <3> QED BY <3>8, <3>9, <3>10 DEF TravelTyped
  <2> QED BY <2>1, <2>2
<1> QED BY <1>1, <1>2, <1>3, <1>4 DEF PrepTyped

LEMMA ThreadTyped ==
  ASSUME PrepTyped, TravelTyped, LineKept, PlanKept,
         Preparing!Prepare \/ Preparing!Send \/ Preparing!Acknowledged \/ Preparing!Moved
  PROVE  PrepTyped' /\ TravelTyped'
<1>1. UNCHANGED <<plan, cancelled, ended, error, texts, moving, injecting, real, turned>>
  BY DEF Preparing!Prepare, Preparing!Send, Preparing!Acknowledged, Preparing!Moved, Preparing!boardVars,
         Preparing!replyVars
<1>2. /\ place' \in {"check", "send", "ack", "moves"} /\ acked' \in BOOLEAN
      /\ started' \in SUBSET Motors /\ pending' \in SUBSET Motors
  BY StageFacts
  DEF Preparing!Prepare, Preparing!Send, Preparing!Acknowledged, Preparing!Moved, Preparing!Enter,
      Preparing!replyVars, PrepTyped
<1>3. stage' \in Stages
  <2>1. CASE stage' = stage BY <2>1 DEF PrepTyped
  <2>2. CASE stage' = Preparing!After(stage) /\ place # "check"
    <3>1. plan.calibration \in BOOLEAN /\ plan.separation \in BOOLEAN
      BY PumpAssumption DEF PrepTyped, Preparing!AngleAssumption
    <3> QED BY <2>2, <3>1, AfterFacts DEF Stages, Preparing!Moves
  <2> QED
    BY <2>1, <2>2
    DEF Preparing!Prepare, Preparing!Send, Preparing!Acknowledged, Preparing!Moved, Preparing!Enter
<1>4. wire' \in Seq(Words)
  <2>1. stage # "verify" /\ stage # "complete" => stage \in Words
    BY StageFacts DEF PrepTyped, Stages, Words
  <2>2. wire' = wire \/ (wire' = Append(wire, stage) /\ place = "send")
    BY DEF Preparing!Prepare, Preparing!Send, Preparing!Acknowledged, Preparing!Moved
  <2> QED BY <2>1, <2>2 DEF LineKept, PrepTyped
<1>5. TravelTyped'
  <2>1. \/ travel' = travel \/ travel' = Preparing!Unarmed
        \/ travel' = [Preparing!Unarmed EXCEPT !.on = TRUE, !.angle = Preparing!Angle]
    BY DEF Preparing!Prepare, Preparing!Send, Preparing!Acknowledged, Preparing!Moved, Preparing!Enter
  <2>2. PICK a \in Int : a = Preparing!Angle BY TurnFacts, Modulo DEF Preparing!Angle, PrepTyped
  <2>3. [Preparing!Unarmed EXCEPT !.on = TRUE, !.angle = a] \in Travels BY <2>2, StageFacts, TravelArmed
  <2> QED BY <2>1, <2>2, <2>3, StageFacts DEF TravelTyped
<1> QED BY <1>1, <1>2, <1>3, <1>4, <1>5 DEF PrepTyped

\* The end of a preparation, and a stop.
Ends ==
  \/ Preparing!HandOff \/ Preparing!Calibrated \/ Preparing!Fail \/ Preparing!CalibrationFails
  \/ Preparing!Expire \/ Preparing!Stop
Completes ==
  /\ Preparing!Running /\ place = "check" /\ stage' = "complete" /\ ended' = "complete"
  /\ stage = (IF plan.calibration THEN "complete" ELSE "verify")
  /\ UNCHANGED <<cancelled, wire>>
Halts ==
  /\ Preparing!Running /\ wire' = Append(wire, "stop")
  /\ \/ ended' = "failed" /\ UNCHANGED <<stage, cancelled>>
     \/ cancelled' = TRUE /\ UNCHANGED <<stage, ended>>

LEMMA EndsAre ==
  ASSUME PrepTyped, Ends
  PROVE  /\ UNCHANGED <<plan, place, acked, error, started, pending, travel, texts, moving, injecting, turned, real>>
         /\ Completes \/ Halts
<1>1. plan.calibration \in BOOLEAN BY PumpAssumption DEF PrepTyped, Preparing!AngleAssumption
<1>2. CASE Preparing!HandOff \/ Preparing!Calibrated
  BY <1>1, <1>2
  DEF Preparing!HandOff, Preparing!Calibrated, Preparing!Completed, Preparing!Good, Completes,
      Preparing!replyVars, Preparing!boardVars
<1>3. CASE Preparing!Fail \/ Preparing!CalibrationFails \/ Preparing!Expire
  BY <1>3
  DEF Preparing!Fail, Preparing!CalibrationFails, Preparing!Expire, Preparing!Failed, Preparing!Troubled, Halts,
      Preparing!replyVars, Preparing!boardVars
<1>4. CASE Preparing!Stop
  BY <1>4 DEF Preparing!Stop, Halts, Preparing!replyVars, Preparing!boardVars
<1> QED BY <1>2, <1>3, <1>4 DEF Ends

LEMMA EndsTyped == ASSUME PrepTyped, TravelTyped, Ends PROVE PrepTyped' /\ TravelTyped'
<1>1. stage' \in Stages /\ cancelled' \in BOOLEAN /\ ended' \in {"no", "failed", "complete"}
  BY EndsAre DEF Completes, Halts, PrepTyped, Stages
<1>2. wire' \in Seq(Words)
  <2>1. "stop" \in Words /\ wire \in Seq(Words) BY DEF PrepTyped, Words
  <2>2. wire' = wire \/ wire' = Append(wire, "stop") BY EndsAre DEF Completes, Halts
  <2> QED BY <2>1, <2>2
<1> QED BY <1>1, <1>2, EndsAre DEF PrepTyped, TravelTyped

\* How the line ends when its first word is taken.
LEMMA LastTaken ==
  ASSUME NEW S, NEW q \in Seq(S), q # <<>>
  PROVE  /\ Tail(q) # <<>> => Preparing!Last(Tail(q)) = Preparing!Last(q)
         /\ Tail(q) = <<>> => Head(q) = Preparing!Last(q)
BY LastOfQueue DEF Preparing!Last, Injecting!Last

\* After a stop or a failure nothing is written, and the board comes to its stop.
LEMMA StopStays ==
  ASSUME PrepTyped, StopKept, ~Live, Preparing!Next
  PROVE  ~Live' /\ StopKept'
<1>1. CASE Preparing!Execute
  <2>1. UNCHANGED <<cancelled, ended>> /\ wire # <<>> /\ wire' = Tail(wire)
    BY <1>1 DEF Preparing!Execute, Preparing!threadVars
  <2>2. ~Live' BY <2>1 DEF Live
  <2>3. wire \in Seq(Words) /\ Preparing!Last(wire) = "stop" BY <2>1 DEF PrepTyped, StopKept
  <2>4. CASE wire' # <<>>
    <3>1. Preparing!Last(wire') = "stop" BY <2>1, <2>3, <2>4 DEF Preparing!Last
    <3> QED BY <2>2, <2>4, <3>1 DEF StopKept
  <2>5. CASE wire' = <<>>
    <3>1. Head(wire) = "stop" BY <2>1, <2>3, <2>5, LastTaken
    <3>2. moving' = [m \in Motors |-> "none"] /\ injecting' = FALSE
      BY <1>1, <3>1 DEF Preparing!Execute, Preparing!Moves
    <3> QED BY <2>2, <2>5, <3>2 DEF StopKept
  <2> QED BY <2>4, <2>5
<1>2. CASE Preparing!LoseText \/ Preparing!TakeText \/ Preparing!Tick \/ Preparing!TakeAngle
  <2>1. UNCHANGED <<cancelled, ended, wire, moving, injecting>>
    BY <1>2
    DEF Preparing!LoseText, Preparing!TakeText, Preparing!Tick, Preparing!TakeAngle, Preparing!threadVars,
        Preparing!boardVars
  <2> QED BY <2>1 DEF Live, StopKept
<1>3. ASSUME NEW m \in Motors, Preparing!Finish(m) PROVE ~Live' /\ StopKept'
  <2>1. /\ UNCHANGED <<cancelled, ended, wire, injecting>>
        /\ moving[m] # "none" /\ moving' = [moving EXCEPT ![m] = "none"]
    BY <1>3 DEF Preparing!Finish, Preparing!threadVars
  <2> QED BY <2>1 DEF Live, StopKept
<1>4. ~(Preparing!Prepare \/ Preparing!Send \/ Preparing!Acknowledged \/ Preparing!Moved)
  BY DEF Live, Preparing!Prepare, Preparing!Send, Preparing!Allowed, Preparing!Acknowledged, Preparing!Moved,
         Preparing!Good, Preparing!Running, PrepTyped
<1>5. ~Ends BY EndsAre DEF Live, Completes, Halts, Preparing!Running, PrepTyped
<1> QED BY <1>1, <1>2, <1>3, <1>4, <1>5 DEF Preparing!Next, Ends

LEMMA HaltKeeps == ASSUME PrepTyped, Halts PROVE ~Live' /\ StopKept' /\ EndKept'
<1>1. ~Live' /\ ended' # "complete" BY DEF Halts, Live, Preparing!Running, PrepTyped
<1>2. wire' = Append(wire, "stop") /\ wire \in Seq(Words) BY DEF Halts, PrepTyped
<1>3. wire' # <<>> /\ Preparing!Last(wire') = "stop" BY <1>2 DEF Preparing!Last
<1> QED BY <1>1, <1>3 DEF StopKept, EndKept

\* A preparation ends once.
LEMMA EndStays == ASSUME PrepTyped, EndKept, Preparing!Next PROVE EndKept'
<1>1. CASE \/ Preparing!Execute \/ Preparing!LoseText \/ Preparing!TakeText \/ Preparing!Tick
           \/ Preparing!TakeAngle \/ (\E m \in Motors : Preparing!Finish(m))
  <2>1. UNCHANGED <<stage, cancelled, ended>>
    BY <1>1
    DEF Preparing!Execute, Preparing!LoseText, Preparing!TakeText, Preparing!Tick, Preparing!TakeAngle,
        Preparing!Finish, Preparing!threadVars
  <2> QED BY <2>1 DEF EndKept
<1>2. CASE Preparing!Prepare \/ Preparing!Send \/ Preparing!Acknowledged \/ Preparing!Moved
  <2>1. ended = "no" /\ ended' = ended
    BY <1>2
    DEF Preparing!Prepare, Preparing!Send, Preparing!Acknowledged, Preparing!Moved, Preparing!Good,
        Preparing!Running
  <2> QED BY <2>1 DEF EndKept
<1>3. CASE Ends
  BY <1>3, EndsAre, HaltKeeps DEF Completes, Preparing!Running, EndKept
<1> QED BY <1>1, <1>2, <1>3 DEF Preparing!Next, Ends

\* The time passes, angles are taken.
LEMMA AnglesKeep ==
  ASSUME PrepTyped, TravelTyped, LiveInv, Preparing!Tick \/ Preparing!TakeAngle
  PROVE  LiveInv'
<1>1. /\ UNCHANGED <<plan, stage, place, acked, started, pending, ended>>
      /\ UNCHANGED <<wire, texts, moving, real>> /\ travel.on
  BY DEF Preparing!Tick, Preparing!TakeAngle, Preparing!threadVars, Preparing!replyVars, Preparing!boardVars
<1>2. LineKept' /\ PlanKept' BY <1>1 DEF LiveInv, LineKept, PlanKept
<1>3. Acks' BY <1>1 DEF LiveInv, Acks, Sent, Preparing!Command
<1>4. StartsKept' BY <1>1 DEF LiveInv, StartsKept, Reached, Begun, Tells, Making, Sent
<1>5. RealKept' /\ AwaitedKept' /\ DoneKept'
  BY <1>1 DEF LiveInv, RealKept, AwaitedKept, DoneKept, Tells, Making, Sent, Whole, WaysTo, Preparing!Ways
<1>6. TravelKept'
  <2>1. /\ stage = "separate" /\ place \in {"ack", "moves"} /\ travel.angle = travel.degrees % Turn
        /\ turned - travel.degrees <= Speed * travel.gap /\ travel.degrees - turned <= Speed * travel.gap
    BY <1>1 DEF LiveInv, TravelKept
  <2>2. travel \in Travels /\ turned \in Int /\ travel.gap \in Nat /\ travel.degrees \in Int
    BY DEF TravelTyped, Travels, PrepTyped
  <2>3. CASE Preparing!Tick
    <3>1. PICK d \in (IF moving[Oil] = "separate" THEN -Speed..Speed ELSE {0}) : turned' = turned + d
      BY <2>3 DEF Preparing!Tick
    <3>2. d \in Int /\ d <= Speed /\ -d <= Speed BY <3>1, TurnFacts
    <3>3. PICK g \in Nat : g = travel.gap BY <2>2
    <3>4. Speed * (g + 1) = Speed * g + Speed /\ Speed * g \in Nat BY TurnFacts
    <3>5. /\ travel' = [travel EXCEPT !.gap = g + 1] BY <2>3, <3>3 DEF Preparing!Tick
    <3>6. /\ travel'.on /\ travel'.angle = travel.angle /\ travel'.degrees = travel.degrees /\ travel'.gap = g + 1
      BY <1>1, <2>2, <3>5 DEF Travels
    <3>7. turned' - travel'.degrees <= Speed * (g + 1) /\ travel'.degrees - turned' <= Speed * (g + 1)
      BY <2>1, <2>2, <3>1, <3>2, <3>3, <3>4, <3>6, TurnFacts
    <3> QED BY <1>1, <2>1, <3>6, <3>7 DEF TravelKept
  <2>4. CASE Preparing!TakeAngle
    <3>1. turned' = turned BY <2>4 DEF Preparing!TakeAngle, Preparing!boardVars
    <3>2. CASE travel' = travel BY <1>1, <2>1, <3>1, <3>2 DEF TravelKept
    <3>3. CASE travel' # travel
      <4> DEFINE d == Preparing!Distance(Preparing!Angle, travel.angle)
      <4>1. /\ Preparing!Credible(d, travel.gap)
            /\ travel' = [travel EXCEPT !.angle = Preparing!Angle, !.degrees = @ + d, !.gap = 0]
        BY <2>4, <3>3 DEF Preparing!TakeAngle
      <4>2. travel.gap <= AngleTimeout BY <4>1 DEF Preparing!Credible
      <4>3. d = turned - travel.degrees BY <2>1, <2>2, <4>2, AngleTells
      <4> HIDE DEF d
      <4>4. /\ travel'.on /\ travel'.gap = 0 /\ travel'.degrees = travel.degrees + d
            /\ travel'.angle = Preparing!Angle
        BY <1>1, <2>2, <4>1 DEF Travels
      <4>5. travel'.degrees = turned BY <2>2, <4>3, <4>4
      <4>6. travel'.angle = turned % Turn BY <4>4 DEF Preparing!Angle
      <4>7. Speed * 0 = 0 /\ turned - turned = 0 BY <2>2, TurnFacts
      <4> QED BY <1>1, <2>1, <3>1, <4>4, <4>5, <4>6, <4>7 DEF TravelKept
    <3> QED BY <3>2, <3>3
  <2> QED BY <2>3, <2>4
<1> QED BY <1>2, <1>3, <1>4, <1>5, <1>6 DEF LiveInv

\* A text is taken from the line, or lost.
LEMMA TextsKeep ==
  ASSUME PrepTyped, LiveInv, texts # <<>>, texts' = Tail(texts),
         UNCHANGED <<plan, stage, place, ended, wire, moving, real, travel, turned>>,
         acked' => acked \/ (place = "ack" /\ texts[1].kind = "ack" /\ texts[1].of = Preparing!Command),
         \A m \in started' : m \in started \/ Tells(m, 1),
         started' \in SUBSET Motors,
         \A m \in pending : m \in pending' \/ (texts[1].kind = "done" /\ texts[1].pump = m /\ m \in started)
  PROVE  LiveInv'
<1>1. /\ texts \in Seq(Texts) /\ 1 \in 1..Len(texts)
      /\ \A j \in 1..Len(texts') : j + 1 \in 1..Len(texts) /\ texts'[j] = texts[j + 1]
  BY TakenTexts DEF PrepTyped
<1>2. /\ (Sent' <=> Sent) /\ Preparing!Command' = Preparing!Command /\ Reached' = Reached
      /\ \A m \in Motors : (Making(m)' <=> Making(m)) /\ (Whole(m)' <=> Whole(m))
      /\ \A m \in Motors, j \in 1..Len(texts') : Tells(m, j)' <=> Tells(m, j + 1)
  BY <1>1 DEF Sent, Preparing!Command, Reached, Making, Whole, WaysTo, Preparing!Ways, Tells
<1>3. LineKept' /\ PlanKept'
  <2>1. CASE acked' => acked BY <2>1 DEF LiveInv, LineKept, PlanKept
  <2>2. CASE place = "ack" /\ texts[1].kind = "ack" /\ texts[1].of = Preparing!Command
    <3>1. Preparing!Command # "move" \/ stage # "query" BY DEF Preparing!Command, Preparing!Moves
    <3>2. wire = <<>> BY <1>1, <2>2, <3>1 DEF LiveInv, Acks, Sent
    <3> QED BY <2>2, <3>2 DEF LiveInv, LineKept, PlanKept
  <2> QED BY <2>1, <2>2
<1>4. Acks'
  <2> SUFFICES ASSUME NEW j \in 1..Len(texts'), texts'[j].kind = "ack"
               PROVE  /\ (place = "ack" /\ ~acked') \/ (stage = "query" /\ place \in {"check", "send"})
                      /\ ~Sent => stage = "query" /\ texts'[j].of = "move"
                      /\ texts'[j].of = Preparing!Command =>
                           \A i \in (j + 1)..Len(texts') : texts'[i].kind # "ack"
    BY <1>2 DEF Acks
  <2>1. j + 1 \in 1..Len(texts) /\ texts[j + 1].kind = "ack" /\ texts'[j] = texts[j + 1] BY <1>1
  <2>2. ~(texts[1].kind = "ack" /\ texts[1].of = Preparing!Command)
    <3>1. j + 1 \in 2..Len(texts) BY <1>1, <2>1
    <3> QED BY <1>1, <2>1, <3>1 DEF LiveInv, Acks
  <2>3. (place = "ack" /\ ~acked) \/ (stage = "query" /\ place \in {"check", "send"})
    BY <2>1 DEF LiveInv, Acks
  <2>4. ~Sent => stage = "query" /\ texts'[j].of = "move" BY <2>1 DEF LiveInv, Acks
  <2>5. ASSUME texts'[j].of = Preparing!Command, NEW i \in (j + 1)..Len(texts') PROVE texts'[i].kind # "ack"
    <3>1. i \in 1..Len(texts') /\ i + 1 \in (j + 2)..Len(texts) BY <1>1
    <3>2. texts[i + 1].kind # "ack" BY <2>1, <2>5, <3>1 DEF LiveInv, Acks
    <3> QED BY <1>1, <3>1, <3>2
  <2> QED BY <2>2, <2>3, <2>4, <2>5
<1>5. StartsKept'
  <2>1. \A j \in 1..Len(texts') :
          texts'[j].kind = "start" => texts'[j].move \in Reached \cup {"manual"}
    BY <1>1 DEF LiveInv, StartsKept
  <2>2. \A m \in Motors : Begun(m)' => Begun(m)
    BY <1>1, <1>2 DEF Begun
  <2> QED BY <1>2, <2>1, <2>2 DEF LiveInv, StartsKept
<1>6. RealKept' BY <1>2 DEF LiveInv, RealKept, WaysTo, Preparing!Ways
<1>7. AwaitedKept'
  <2> SUFFICES ASSUME stage \in Preparing!Moves, place # "check", NEW m \in Preparing!MovedBy(stage) \ pending'
               PROVE  Whole(m)
    BY <1>2, StageFacts DEF AwaitedKept
  <2>1. CASE m \notin pending BY <2>1 DEF LiveInv, AwaitedKept
  <2>2. CASE m \in pending BY <1>1, <2>2 DEF LiveInv, DoneKept
  <2> QED BY <2>1, <2>2
<1>8. DoneKept'
  <2>1. ASSUME NEW j \in 1..Len(texts'), NEW m \in Motors, texts'[j].kind = "done", texts'[j].pump = m,
               \/ m \in started'
               \/ \E i \in 1..(j - 1) : Tells(m, i)'
        PROVE  Whole(m)
    <3>1. j + 1 \in 1..Len(texts) /\ texts'[j] = texts[j + 1] BY <1>1
    <3>2. m \in started \/ \E i \in 1..j : Tells(m, i)
      <4>1. CASE m \in started' BY <1>1, <4>1
      <4>2. ASSUME NEW i \in 1..(j - 1), Tells(m, i)' PROVE \E k \in 1..j : Tells(m, k)
        <5>1. i \in 1..Len(texts') /\ i + 1 \in 1..j BY <1>1
        <5> QED BY <1>2, <4>2, <5>1
      <4> QED BY <2>1, <4>1, <4>2
    <3> QED BY <2>1, <3>1, <3>2 DEF LiveInv, DoneKept
  <2>2. \A j \in 1..Len(texts') : texts'[j].kind = "done" => texts'[j].pump \in Motors
    BY <1>1, TextFacts
  <2> QED BY <1>2, <2>1, <2>2 DEF DoneKept
<1>9. TravelKept' BY DEF LiveInv, TravelKept
<1> QED BY <1>3, <1>4, <1>5, <1>6, <1>7, <1>8, <1>9 DEF LiveInv

LEMMA TakesKeep ==
  ASSUME PrepTyped, LiveInv, Preparing!LoseText \/ Preparing!TakeText
  PROVE  LiveInv'
<1>1. /\ texts # <<>> /\ texts' = Tail(texts) /\ Head(texts) = texts[1] /\ texts[1] \in Texts
      /\ UNCHANGED <<plan, stage, place, ended, wire, moving, real, travel, turned>>
  BY TakenTexts
  DEF PrepTyped, Preparing!LoseText, Preparing!TakeText, Preparing!threadVars, Preparing!boardVars
<1>2. CASE Preparing!LoseText
  BY <1>1, <1>2, TextsKeep DEF Preparing!LoseText, Preparing!replyVars, PrepTyped
<1>3. CASE Preparing!TakeText
  <2>1. acked' => acked \/ (place = "ack" /\ texts[1].kind = "ack" /\ texts[1].of = Preparing!Command)
    <3>1. acked' => acked \/ (place = "ack" /\ texts[1] = Preparing!Ack(Preparing!Command))
      BY <1>1, <1>3 DEF Preparing!TakeText
    <3> QED BY <3>1 DEF Preparing!Ack
  <2>2. \A m \in started' : m \in started \/ Tells(m, 1)
    BY <1>1, <1>3 DEF Preparing!TakeText, Preparing!Begun, Tells
  <2>3. started' \in SUBSET Motors
    BY <1>1, <1>3, StageFacts DEF Preparing!TakeText, Preparing!Begun, PrepTyped
  <2>4. \A m \in pending : m \in pending' \/ (texts[1].kind = "done" /\ texts[1].pump = m /\ m \in started)
    BY <1>1, <1>3 DEF Preparing!TakeText, Preparing!Completes
  <2> QED BY <1>1, <2>1, <2>2, <2>3, <2>4, TextsKeep
<1> QED BY <1>2, <1>3

\* A pump ends its move.
LEMMA FinishKeeps ==
  ASSUME PrepTyped, LiveInv, NEW m \in Motors, Preparing!Finish(m)
  PROVE  LiveInv'
<1>1. /\ UNCHANGED <<plan, stage, place, ended, acked, started, pending, travel, turned, wire>>
      /\ moving[m] # "none" /\ moving' = [moving EXCEPT ![m] = "none"]
      /\ \/ /\ texts' = Append(texts, Preparing!About("done", m, "any"))
            /\ real' = IF moving[m] = "manual" THEN real ELSE [real EXCEPT ![m] = Append(@, moving[m])]
         \/ texts' = Append(texts, Preparing!About("fail", m, "any")) /\ real' = real
  BY DEF Preparing!Finish, Preparing!threadVars, Preparing!replyVars
<1>2. PICK t \in Texts : /\ texts' = Append(texts, t) /\ t.kind \in {"done", "fail"} /\ t.pump = m
                         /\ t.kind = "fail" => real' = real
                         /\ t.kind = "done" => \/ moving[m] = "manual" /\ real' = real
                                               \/ /\ moving[m] \in Preparing!Moves
                                                  /\ real' = [real EXCEPT ![m] = Append(@, moving[m])]
  <2>1. "any" \in Names BY DEF Names
  <2>2. \A k \in {"done", "fail"} :
          LET x == Preparing!About(k, m, "any") IN x \in Texts /\ x.kind = k /\ x.pump = m
    BY <2>1, TextFacts
  <2>3. moving[m] = "manual" \/ moving[m] \in Preparing!Moves BY <1>1 DEF PrepTyped
  <2>4. CASE /\ texts' = Append(texts, Preparing!About("done", m, "any"))
             /\ real' = IF moving[m] = "manual" THEN real ELSE [real EXCEPT ![m] = Append(@, moving[m])]
    <3>1. "manual" \notin Preparing!Moves BY StageFacts
    <3> QED BY <2>2, <2>3, <2>4, <3>1
  <2>5. CASE texts' = Append(texts, Preparing!About("fail", m, "any")) /\ real' = real
    BY <2>2, <2>5
  <2> QED BY <1>1, <2>4, <2>5
<1>3. /\ texts \in Seq(Texts) /\ Len(texts') = Len(texts) + 1
      /\ texts'[Len(texts) + 1] = t /\ \A j \in 1..Len(texts) : texts'[j] = texts[j]
  BY <1>2, OneText DEF PrepTyped
<1>4. /\ (Sent' <=> Sent) /\ Preparing!Command' = Preparing!Command /\ Reached' = Reached
      /\ \A q \in Motors : /\ (Making(q)' <=> Making(q)) /\ WaysTo(stage, q)' = WaysTo(stage, q)
                           /\ q # m => moving'[q] = moving[q] /\ real'[q] = real[q]
      /\ \A q \in Motors, j \in 1..Len(texts') : Tells(q, j)' <=> j <= Len(texts) /\ Tells(q, j)
  <2>1. \A q \in Motors : q # m => moving'[q] = moving[q] /\ real'[q] = real[q]
    BY <1>1, <1>2 DEF PrepTyped
  <2>2. \A q \in Motors, j \in 1..Len(texts') : Tells(q, j)' <=> j <= Len(texts) /\ Tells(q, j)
    BY <1>1, <1>2, <1>3 DEF Tells
  <2> QED BY <1>1, <2>1, <2>2 DEF Sent, Preparing!Command, Reached, Making, WaysTo, Preparing!Ways
<1>5. LineKept' /\ PlanKept' /\ TravelKept' BY <1>1 DEF LiveInv, LineKept, PlanKept, TravelKept
<1>6. Acks'
  <2> SUFFICES ASSUME NEW j \in 1..Len(texts'), texts'[j].kind = "ack"
               PROVE  /\ (place = "ack" /\ ~acked) \/ (stage = "query" /\ place \in {"check", "send"})
                      /\ ~Sent => stage = "query" /\ texts'[j].of = "move"
                      /\ texts'[j].of = Preparing!Command =>
                           \A i \in (j + 1)..Len(texts') : texts'[i].kind # "ack"
    BY <1>1, <1>4 DEF Acks
  <2>1. j \in 1..Len(texts) /\ texts[j] = texts'[j] BY <1>2, <1>3
  <2>2. /\ (place = "ack" /\ ~acked) \/ (stage = "query" /\ place \in {"check", "send"})
        /\ ~Sent => stage = "query" /\ texts[j].of = "move"
        /\ texts[j].of = Preparing!Command => \A i \in (j + 1)..Len(texts) : texts[i].kind # "ack"
    BY <2>1 DEF LiveInv, Acks
  <2>3. \A i \in (j + 1)..Len(texts') : (i \in (j + 1)..Len(texts) /\ texts'[i] = texts[i]) \/ texts'[i] = t
    BY <1>3
  <2> QED BY <1>2, <2>1, <2>2, <2>3
<1>7. moving'[m] = "none" /\ \A q \in Motors : Begun(q)' => Begun(q)
  BY <1>1, <1>3, <1>4 DEF Begun, PrepTyped
<1>8. StartsKept'
  <2>1. \A j \in 1..Len(texts') :
          texts'[j].kind = "start" => texts'[j].move \in Reached \cup {"manual"}
    BY <1>2, <1>3 DEF LiveInv, StartsKept
  <2>2. \A q \in Motors : Begun(q)' => Making(q) /\ moving'[q] # "manual"
    BY <1>4, <1>7 DEF LiveInv, StartsKept
  <2> QED BY <1>4, <2>1, <2>2 DEF StartsKept
<1>9. /\ real'[m] = real[m] \/ (Making(m) /\ Whole(m)')
      /\ t.kind = "done" /\ Begun(m) => Whole(m)'
      /\ Whole(m) => Whole(m)'
  <2>1. CASE real' = real
    <3>1. t.kind = "done" => moving[m] = "manual" \/ real' = [real EXCEPT ![m] = Append(@, moving[m])]
      BY <1>2
    <3>2. ~(t.kind = "done" /\ Begun(m)) \/ Whole(m)'
      <4>1. CASE t.kind = "done" /\ moving[m] = "manual" BY <4>1 DEF LiveInv, StartsKept
      <4>2. CASE t.kind = "done" /\ moving[m] \in Preparing!Moves /\ real' = [real EXCEPT ![m] = Append(@, moving[m])]
        <5>1. moving[m] = stage /\ real[m] = WaysTo(stage, m) BY <4>2 DEF LiveInv, RealKept
        <5>2. real'[m] = Append(WaysTo(stage, m), stage) BY <4>2, <5>1 DEF PrepTyped
        <5> QED BY <1>1, <1>4, <5>2 DEF Whole
      <4> QED BY <1>2, <4>1, <4>2
    <3> QED BY <1>1, <1>4, <2>1, <3>2 DEF Whole
  <2>2. CASE moving[m] \in Preparing!Moves /\ real' = [real EXCEPT ![m] = Append(@, moving[m])]
    <3>1. Making(m) /\ moving[m] = stage /\ real[m] = WaysTo(stage, m) BY <2>2 DEF LiveInv, RealKept
    <3>2. real'[m] = Append(WaysTo(stage, m), stage) BY <2>2, <3>1 DEF PrepTyped
    <3> QED BY <1>1, <1>4, <3>1, <3>2 DEF Whole
  <2> QED BY <1>2, <2>1, <2>2
<1>10. \A q \in Motors : Whole(q) => Whole(q)' BY <1>1, <1>4, <1>9 DEF Whole
<1>11. RealKept'
  <2> SUFFICES ASSUME NEW q \in Motors
               PROVE  /\ moving'[q] \in Preparing!Moves =>
                           Making(q) /\ moving'[q] = stage /\ real'[q] = WaysTo(stage, q)
                      /\ real'[q] = WaysTo(stage, q) \/ (Making(q) /\ Whole(q)')
    BY <1>1, <1>4 DEF RealKept
  <2>1. CASE q = m
    <3>1. moving'[q] \notin Preparing!Moves BY <1>7, <2>1, StageFacts
    <3>2. real[q] = WaysTo(stage, q) \/ (Making(q) /\ Whole(q)) BY DEF LiveInv, RealKept
    <3> QED BY <1>9, <2>1, <3>1, <3>2
  <2>2. CASE q # m BY <1>4, <1>10, <2>2 DEF LiveInv, RealKept
  <2> QED BY <2>1, <2>2
<1>12. AwaitedKept' BY <1>1, <1>10, StageFacts DEF LiveInv, AwaitedKept
<1>13. DoneKept'
  <2> SUFFICES ASSUME NEW j \in 1..Len(texts'), texts'[j].kind = "done", NEW q \in Motors, texts'[j].pump = q,
                      \/ q \in started
                      \/ \E i \in 1..(j - 1) : Tells(q, i)'
               PROVE  Whole(q)'
    <3>1. \A j \in 1..Len(texts') : texts'[j].kind = "done" => texts'[j].pump \in Motors
      BY <1>2, <1>3, TextFacts
    <3> QED BY <1>1, <3>1 DEF DoneKept
  <2>1. \/ q \in started
        \/ \E i \in 1..(j - 1) : i \in 1..Len(texts) /\ Tells(q, i)
    BY <1>3, <1>4
  <2>2. CASE j \in 1..Len(texts)
    <3>1. texts[j] = texts'[j] BY <1>3, <2>2
    <3> QED BY <1>10, <2>1, <2>2, <3>1 DEF LiveInv, DoneKept
  <2>3. CASE j = Len(texts) + 1
    <3>1. t.kind = "done" /\ q = m BY <1>2, <1>3, <2>3
    <3>2. Begun(q) BY <2>1 DEF Begun
    <3> QED BY <1>9, <3>1, <3>2
  <2> QED BY <1>3, <2>2, <2>3
<1> QED BY <1>5, <1>6, <1>8, <1>11, <1>12, <1>13 DEF LiveInv

\* While a command is on the line nothing of the present stage has happened yet.
LEMMA UnsentFacts ==
  ASSUME PrepTyped, LiveInv, wire # <<>>
  PROVE  /\ \A m \in Motors : /\ real[m] = WaysTo(stage, m) /\ moving[m] \notin Preparing!Moves
                              /\ m \notin started /\ \A j \in 1..Len(texts) : ~Tells(m, j)
         /\ \A j \in 1..Len(texts) : texts[j].kind = "ack" => stage = "query" /\ texts[j].of = "move"
         /\ place \in {"check", "send", "ack"} /\ (place = "ack" => ~acked)
         /\ \/ /\ Head(wire) = "manual" /\ stage = "query"
               /\ Tail(wire) = <<>> \/ (Tail(wire) = <<stage>> /\ place = "ack")
            \/ Head(wire) = stage /\ Tail(wire) = <<>> /\ place = "ack"
<1>1. ~Sent BY DEF Sent
<1>2. \A m \in Motors : ~Making(m) BY <1>1 DEF Making
<1>3. \A m \in Motors : /\ real[m] = WaysTo(stage, m) /\ moving[m] \notin Preparing!Moves
                        /\ m \notin started /\ \A j \in 1..Len(texts) : ~Tells(m, j)
  BY <1>2 DEF LiveInv, RealKept, StartsKept, Begun
<1>4. \A j \in 1..Len(texts) : texts[j].kind = "ack" => stage = "query" /\ texts[j].of = "move"
  BY <1>1 DEF LiveInv, Acks
<1>5. place \in {"check", "send", "ack"} /\ (place = "ack" => ~acked) BY DEF LiveInv, LineKept, PrepTyped
<1>6. wire \in {<<"manual">>, <<stage>>, <<"manual", stage>>} BY DEF LiveInv, LineKept
<1>7. CASE wire = <<"manual">>
  <2>1. Head(wire) = "manual" /\ Tail(wire) = <<>> BY <1>7
  <2> QED BY <1>3, <1>4, <1>5, <2>1 DEF LiveInv, LineKept
<1>8. CASE wire = <<stage>>
  <2>1. stage # "manual" BY StageFacts DEF PrepTyped, Stages
  <2>2. wire # <<"manual">> /\ Head(wire) = stage /\ Tail(wire) = <<>> BY <1>8, <2>1
  <2> QED BY <1>3, <1>4, <1>5, <2>2 DEF LiveInv, LineKept
<1>9. CASE wire = <<"manual", stage>>
  <2>1. Head(wire) = "manual" /\ Tail(wire) = <<stage>> /\ wire # <<"manual">> BY <1>9
  <2> QED BY <1>3, <1>4, <1>5, <2>1 DEF LiveInv, LineKept
<1> QED BY <1>3, <1>4, <1>5, <1>6, <1>7, <1>8, <1>9

\* The texts that the board adds leave the rest as it is.
LEMMA BoardAdds ==
  ASSUME PrepTyped, LiveInv, wire # <<>>, wire' = Tail(wire),
         UNCHANGED <<plan, stage, place, ended, acked, started, pending, travel, turned, real>>,
         \A j \in 1..Len(texts) : j \in 1..Len(texts') /\ texts'[j] = texts[j],
         \A j \in 1..Len(texts') : j \in 1..Len(texts) \/ texts'[j].kind # "done"
  PROVE  LineKept' /\ PlanKept' /\ TravelKept' /\ AwaitedKept' /\ DoneKept'
<1>1. LineKept'
  <2>1. \/ wire' = <<>> /\ place # "moves"
        \/ wire' = <<stage>> /\ place = "ack" /\ ~acked /\ stage = "query"
    BY UnsentFacts
  <2>2. CASE wire' = <<>> /\ place # "moves" BY <2>2 DEF LiveInv, LineKept
  <2>3. CASE wire' = <<stage>> /\ place = "ack" /\ ~acked /\ stage = "query"
    <3>1. wire' # <<>> /\ Head(wire') = stage BY <2>3
    <3> QED BY <2>3, <3>1 DEF LiveInv, LineKept
  <2> QED BY <2>1, <2>2, <2>3
<1>2. PlanKept' /\ TravelKept' BY DEF LiveInv, PlanKept, TravelKept
<1>3. \A m \in Motors : Whole(m)' <=> Whole(m) BY DEF Whole, WaysTo, Preparing!Ways
<1>4. AwaitedKept' BY <1>3, StageFacts DEF LiveInv, AwaitedKept
<1>5. DoneKept'
  <2> SUFFICES ASSUME NEW j \in 1..Len(texts'), texts'[j].kind = "done"
               PROVE  /\ texts'[j].pump \notin started
                      /\ \A i \in 1..(j - 1) :
                           ~(texts'[i].kind = "start" /\ texts'[i].pump = texts'[j].pump /\ texts'[i].move = stage)
    BY DEF DoneKept, Tells
  <2>1. j \in 1..Len(texts) /\ texts \in Seq(Texts) /\ texts'[j] = texts[j] BY DEF PrepTyped
  <2>2. PICK m \in Motors : m = texts'[j].pump BY <2>1, TextFacts
  <2>3. \A i \in 1..(j - 1) : i \in 1..Len(texts) /\ texts'[i] = texts[i] BY <2>1
  <2>4. m \notin started /\ \A i \in 1..Len(texts) : ~Tells(m, i) BY UnsentFacts
  <2> QED BY <2>2, <2>3, <2>4 DEF Tells
<1> QED BY <1>1, <1>2, <1>4, <1>5

\* What the board's words tell.
LEMMA WordFacts ==
  /\ \A c : LET t == Preparing!Ack(c) IN t.kind = "ack" /\ t.of = c
  /\ \A k, m, s : LET t == Preparing!About(k, m, s) IN t.kind = k /\ t.pump = m /\ t.move = s
BY DEF Preparing!Ack, Preparing!About

\* The operator's own move begins, or is refused.
LEMMA ManualKeeps ==
  ASSUME PrepTyped, LiveInv, wire # <<>>, Head(wire) = "manual", Preparing!Execute
  PROVE  LiveInv'
<1>1. /\ UNCHANGED <<plan, stage, place, ended, acked, started, pending, travel, turned, real>>
      /\ wire' = Tail(wire) /\ Preparing!Turns("manual")
  BY StageFacts DEF Preparing!Execute, Preparing!threadVars, Preparing!replyVars
<1>2. /\ \A j \in 1..Len(texts) : j \in 1..Len(texts') /\ texts'[j] = texts[j]
      /\ \A m \in Motors : moving'[m] \in {moving[m], "manual"}
      /\ \A j \in 1..Len(texts') :
           \/ j \in 1..Len(texts)
           \/ texts'[j].kind = "busy"
           \/ texts'[j].kind = "ack" /\ texts'[j].of = "move"
           \/ texts'[j].kind = "start" /\ texts'[j].move = "manual"
  <2>1. "manual" \in {"manual"} \cup Preparing!Moves
    OBVIOUS
  <2>2. \A j \in 1..Len(texts) : j \in 1..Len(texts') /\ texts'[j] = texts[j]
    BY <1>1, <2>1, TurnsTyped
  <2>3. CASE /\ moving' = moving
             /\ \A j \in 1..Len(texts') : j \in 1..Len(texts) \/ texts'[j] = [kind |-> "busy"]
    <3>1. \A j \in 1..Len(texts') : j \in 1..Len(texts) \/ texts'[j].kind = "busy" BY <2>3
    <3> QED BY <2>2, <2>3, <3>1
  <2>4. CASE /\ moving' = [m \in Motors |-> IF m \in Preparing!MovedBy("manual") THEN "manual" ELSE moving[m]]
             /\ \A j \in 1..Len(texts') :
                  \/ j \in 1..Len(texts)
                  \/ j = Len(texts) + 1 /\ texts'[j] = Preparing!Ack("move")
                  \/ /\ j > Len(texts) + 1
                     /\ \E m \in Preparing!MovedBy("manual") : texts'[j] = Preparing!About("start", m, "manual")
    <3>1. \A m \in Motors : moving'[m] \in {moving[m], "manual"} BY <2>4
    <3>2. \A j \in 1..Len(texts') :
            \/ j \in 1..Len(texts)
            \/ texts'[j].kind = "ack" /\ texts'[j].of = "move"
            \/ texts'[j].kind = "start" /\ texts'[j].move = "manual"
      BY <2>4, WordFacts
    <3> QED BY <2>2, <3>1, <3>2
  <2> QED BY <1>1, <2>1, <2>3, <2>4, TurnsTyped
<1>3. \A m \in Motors : /\ real[m] = WaysTo(stage, m) /\ moving[m] \notin Preparing!Moves
                        /\ m \notin started /\ \A j \in 1..Len(texts) : ~Tells(m, j)
  BY UnsentFacts
<1>4. stage = "query" /\ place \in {"check", "send", "ack"} /\ (place = "ack" => ~acked)
  BY UnsentFacts, StageFacts DEF PrepTyped, Stages
<1>5. "manual" \notin Preparing!Moves /\ "query" \notin Preparing!Moves BY StageFacts
<1>6. LineKept' /\ PlanKept' /\ TravelKept' /\ AwaitedKept' /\ DoneKept' BY <1>1, <1>2, BoardAdds
<1>7. Acks'
  <2>1. \A j \in 1..Len(texts') : texts'[j].kind = "ack" => texts'[j].of = "move"
    BY <1>2, UnsentFacts
  <2>2. Preparing!Command' = "query" BY <1>1, <1>4, <1>5 DEF Preparing!Command
  <2> QED BY <1>1, <1>4, <2>1, <2>2 DEF Acks
<1>8. StartsKept'
  <2>1. \A j \in 1..Len(texts') : texts'[j].kind = "start" => texts'[j].move \in Reached \cup {"manual"}
    BY <1>2 DEF LiveInv, StartsKept
  <2>2. \A m \in Motors : ~Begun(m)' BY <1>1, <1>2, <1>3, <1>4 DEF Begun, Tells
  <2>3. Reached' = Reached BY <1>1 DEF Reached
  <2> QED BY <2>1, <2>2, <2>3 DEF StartsKept
<1>9. RealKept' BY <1>1, <1>2, <1>3, <1>5 DEF RealKept, WaysTo, Preparing!Ways
<1> QED BY <1>6, <1>7, <1>8, <1>9 DEF LiveInv

\* A command that moves nothing is answered.
LEMMA CommandKeeps ==
  ASSUME PrepTyped, LiveInv, wire # <<>>, Head(wire) \in {"query", "off", "set"}, Preparing!Execute
  PROVE  LiveInv'
<1>1. /\ UNCHANGED <<plan, stage, place, ended, acked, started, pending, travel, turned, real, moving>>
      /\ wire' = Tail(wire) /\ texts' = Append(texts, Preparing!Ack(Head(wire)))
  BY StageFacts DEF Preparing!Execute, Preparing!threadVars, Preparing!replyVars
<1>2. /\ Head(wire) = stage /\ wire' = <<>> /\ place = "ack" /\ ~acked
      /\ \A m \in Motors : /\ real[m] = WaysTo(stage, m) /\ moving[m] \notin Preparing!Moves
                           /\ m \notin started /\ \A j \in 1..Len(texts) : ~Tells(m, j)
  BY <1>1, UnsentFacts
<1>3. PICK t \in Texts : t = Preparing!Ack(stage) BY <1>2, AckTexts
<1>4. /\ t.kind = "ack" /\ t.of = stage BY <1>3 DEF Preparing!Ack
<1>5. /\ texts \in Seq(Texts) /\ Len(texts') = Len(texts) + 1 /\ texts'[Len(texts) + 1] = t
      /\ \A j \in 1..Len(texts) : j \in 1..Len(texts') /\ texts'[j] = texts[j]
      /\ \A j \in 1..Len(texts') : j \in 1..Len(texts) \/ (j = Len(texts) + 1 /\ texts'[j] = t)
  BY <1>1, <1>2, <1>3, OneText DEF PrepTyped
<1>6. LineKept' /\ PlanKept' /\ TravelKept' /\ AwaitedKept' /\ DoneKept' BY <1>1, <1>4, <1>5, BoardAdds
<1>7. stage \notin Preparing!Moves /\ stage # "move" BY <1>2, StageFacts
<1>8. Acks'
  <2>1. Sent' /\ Preparing!Command' = stage BY <1>1, <1>2, <1>7 DEF Sent, Preparing!Command
  <2>2. \A j \in 1..Len(texts') : texts'[j].kind = "ack" /\ texts'[j].of = stage => j = Len(texts) + 1
    BY <1>5, <1>7, UnsentFacts
  <2> QED BY <1>1, <1>2, <1>5, <2>1, <2>2 DEF Acks
<1>9. StartsKept'
  <2>1. \A j \in 1..Len(texts') : texts'[j].kind = "start" => j \in 1..Len(texts) BY <1>4, <1>5
  <2>2. \A m \in Motors : ~Begun(m)' BY <1>1, <1>2, <1>5, <2>1 DEF Begun, Tells
  <2> QED BY <1>1, <1>5, <2>1, <2>2 DEF LiveInv, StartsKept, Reached
<1>10. RealKept' BY <1>1, <1>2 DEF RealKept, WaysTo, Preparing!Ways
<1> QED BY <1>6, <1>8, <1>9, <1>10 DEF LiveInv

\* The pumps begin the move of the stage, or the board refuses it.
LEMMA MoveKeeps ==
  ASSUME PrepTyped, LiveInv, wire # <<>>, Head(wire) \in Preparing!Moves, Preparing!Execute
  PROVE  LiveInv'
<1>1. /\ UNCHANGED <<plan, stage, place, ended, acked, started, pending, travel, turned, real>>
      /\ wire' = Tail(wire) /\ Preparing!Turns(Head(wire))
  BY StageFacts DEF Preparing!Execute, Preparing!threadVars, Preparing!replyVars
<1>2. /\ Head(wire) = stage /\ wire' = <<>> /\ place = "ack" /\ ~acked /\ stage \in Preparing!Moves
      /\ \A m \in Motors : /\ real[m] = WaysTo(stage, m) /\ moving[m] \notin Preparing!Moves
                           /\ m \notin started /\ \A j \in 1..Len(texts) : ~Tells(m, j)
  BY <1>1, UnsentFacts, StageFacts
<1>3. /\ Sent' /\ Preparing!Command' = "move" /\ stage # "query" /\ stage # "manual"
      /\ \A m \in Preparing!MovedBy(stage) : m \in Motors /\ Making(m)'
  BY <1>1, <1>2, StageFacts DEF Sent, Preparing!Command, Making
<1>4. /\ \A j \in 1..Len(texts) : j \in 1..Len(texts') /\ texts'[j] = texts[j] /\ texts[j].kind # "ack"
      /\ \/ /\ moving' = moving
            /\ \A j \in 1..Len(texts') : j \in 1..Len(texts) \/ texts'[j].kind = "busy"
         \/ /\ moving' = [m \in Motors |-> IF m \in Preparing!MovedBy(stage) THEN stage ELSE moving[m]]
            /\ \A j \in 1..Len(texts') :
                 \/ j \in 1..Len(texts)
                 \/ j = Len(texts) + 1 /\ texts'[j].kind = "ack"
                 \/ /\ j > Len(texts) + 1 /\ texts'[j].kind = "start" /\ texts'[j].move = stage
                    /\ texts'[j].pump \in Preparing!MovedBy(stage)
  <2>1. stage \in {"manual"} \cup Preparing!Moves /\ Preparing!Turns(stage) BY <1>1, <1>2
  <2>2. \A j \in 1..Len(texts) : j \in 1..Len(texts') /\ texts'[j] = texts[j] BY <2>1, TurnsTyped
  <2>3. \A j \in 1..Len(texts) : texts[j].kind # "ack" BY <1>3, UnsentFacts
  <2>4. CASE /\ moving' = moving
             /\ \A j \in 1..Len(texts') : j \in 1..Len(texts) \/ texts'[j] = [kind |-> "busy"]
    <3>1. \A j \in 1..Len(texts') : j \in 1..Len(texts) \/ texts'[j].kind = "busy" BY <2>4
    <3> QED BY <2>2, <2>3, <2>4, <3>1
  <2>5. CASE /\ moving' = [m \in Motors |-> IF m \in Preparing!MovedBy(stage) THEN stage ELSE moving[m]]
             /\ \A j \in 1..Len(texts') :
                  \/ j \in 1..Len(texts)
                  \/ j = Len(texts) + 1 /\ texts'[j] = Preparing!Ack("move")
                  \/ /\ j > Len(texts) + 1
                     /\ \E m \in Preparing!MovedBy(stage) : texts'[j] = Preparing!About("start", m, stage)
    <3>1. \A j \in 1..Len(texts') :
            \/ j \in 1..Len(texts)
            \/ j = Len(texts) + 1 /\ texts'[j].kind = "ack"
            \/ /\ j > Len(texts) + 1 /\ texts'[j].kind = "start" /\ texts'[j].move = stage
               /\ texts'[j].pump \in Preparing!MovedBy(stage)
      BY <2>5, WordFacts
    <3> QED BY <2>2, <2>3, <2>5, <3>1
  <2> QED BY <2>1, <2>4, <2>5, TurnsTyped
<1>5. LineKept' /\ PlanKept' /\ TravelKept' /\ AwaitedKept' /\ DoneKept' BY <1>1, <1>4, BoardAdds
<1>6. Acks'
  <2>1. \A j \in 1..Len(texts') : texts'[j].kind = "ack" => j = Len(texts) + 1 BY <1>4
  <2>2. Len(texts) \in Nat BY DEF PrepTyped
  <2> QED BY <1>1, <1>2, <1>3, <2>1, <2>2 DEF Acks
<1>7. StartsKept'
  <2>1. Reached' = Reached /\ stage \in Reached BY <1>1, <1>2, <1>3, StageFacts DEF Reached
  <2>2. \A j \in 1..Len(texts') :
          texts'[j].kind = "start" => texts'[j].move \in Reached \cup {"manual"}
    BY <1>4, <2>1 DEF LiveInv, StartsKept
  <2>3. \A m \in Motors : Begun(m)' => m \in Preparing!MovedBy(stage) /\ moving'[m] = stage
    BY <1>1, <1>2, <1>4 DEF Begun, Tells
  <2> QED BY <1>3, <2>1, <2>2, <2>3 DEF StartsKept
<1>8. RealKept'
  <2>1. \A m \in Motors : \/ moving'[m] = moving[m]
                          \/ m \in Preparing!MovedBy(stage) /\ moving'[m] = stage
    BY <1>4
  <2> QED BY <1>1, <1>2, <1>3, <2>1 DEF RealKept, WaysTo, Preparing!Ways
<1> QED BY <1>5, <1>6, <1>7, <1>8 DEF LiveInv

LEMMA ExecuteKeeps == ASSUME PrepTyped, LiveInv, Preparing!Execute PROVE LiveInv'
<1>1. wire # <<>> BY DEF Preparing!Execute
<1>2. Head(wire) \in {"manual"} \cup {"query", "off", "set"} \cup Preparing!Moves
  <2>1. Head(wire) # "stop"
    BY <1>1, UnsentFacts DEF PrepTyped, Stages, Preparing!Moves
  <2> QED BY <2>1 DEF Preparing!Execute
<1> QED BY <1>1, <1>2, ManualKeeps, CommandKeeps, MoveKeeps

\* A preparation begins with nothing sent and nothing done.
LEMMA PrepInit == Preparing!Init => PrepInv
<1> SUFFICES ASSUME Preparing!Init PROVE PrepInv
  OBVIOUS
<1>1. /\ plan \in Plans /\ stage = "query" /\ place = "check" /\ acked = FALSE /\ error = FALSE
      /\ started = {} /\ pending = {} /\ cancelled = FALSE /\ ended = "no" /\ travel = Preparing!Unarmed
      /\ wire \in {<<>>, <<"manual">>} /\ texts = <<>> /\ injecting \in BOOLEAN /\ turned = 0
      /\ real = [m \in Motors |-> <<>>]
  BY DEF Preparing!Init
<1>2. moving \in [Motors -> {"none", "manual"}] BY DEF Preparing!Init
<1>3. PrepTyped
  <2>1. stage \in Stages BY <1>1 DEF Stages
  <2>2. wire \in Seq(Words)
    <3>1. PICK w \in Words : w = "manual" BY DEF Words
    <3>2. CASE wire = <<>> BY <3>2
    <3>3. CASE wire = <<"manual">>
      <4>1. wire = <<w>> BY <3>1, <3>3
      <4> QED BY <3>1, <4>1
    <3> QED BY <1>1, <3>2, <3>3
  <2>3. texts \in Seq(Texts) BY <1>1
  <2>4. moving \in [Motors -> {"none", "manual"} \cup Preparing!Moves] BY <1>2
  <2>5. DOMAIN real = Motors /\ turned \in Int /\ started \in SUBSET Motors /\ pending \in SUBSET Motors
    BY <1>1
  <2>6. acked \in BOOLEAN /\ error \in BOOLEAN /\ cancelled \in BOOLEAN BY <1>1
  <2> QED BY <1>1, <2>1, <2>2, <2>3, <2>4, <2>5, <2>6 DEF PrepTyped
<1>4. TravelTyped /\ EndKept /\ StopKept
  BY <1>1, StageFacts DEF TravelTyped, EndKept, StopKept, Live
<1>5. LineKept /\ PlanKept BY <1>1 DEF LineKept, PlanKept
<1>6. Acks /\ StartsKept /\ AwaitedKept /\ DoneKept
  BY <1>1 DEF Acks, StartsKept, Begun, AwaitedKept, DoneKept
<1>7. RealKept BY <1>1, <1>2, StageFacts DEF RealKept, WaysTo
<1>8. TravelKept BY <1>1 DEF TravelKept, Preparing!Unarmed
<1> QED BY <1>3, <1>4, <1>5, <1>6, <1>7, <1>8 DEF PrepInv, LiveInv

\* The thread prepares its next command.
LEMMA PrepareKeeps ==
  ASSUME PrepTyped, LiveInv, Preparing!Prepare
  PROVE  LiveInv'
<1>1. /\ UNCHANGED <<plan, stage, started, ended, travel, wire, texts, moving, turned, real>>
      /\ place = "check" /\ place' = "send" /\ acked' = FALSE /\ stage \notin {"verify", "complete"}
      /\ pending' = (IF stage \in Preparing!Moves THEN Preparing!MovedBy(stage) ELSE {})
  BY DEF Preparing!Prepare, Preparing!boardVars
<1>2. ~Sent /\ ~Sent' BY <1>1 DEF Sent
<1>3. \A m \in Motors : ~Making(m) /\ ~Making(m)' /\ (Whole(m)' <=> Whole(m)) /\ ~Begun(m) /\ ~Begun(m)'
  <2>1. \A m \in Motors : ~Making(m) /\ ~Making(m)' BY <1>2 DEF Making
  <2>2. \A m \in Motors : ~Begun(m) BY <2>1 DEF LiveInv, StartsKept
  <2>3. \A m \in Motors : (Whole(m)' <=> Whole(m)) /\ (Begun(m)' <=> Begun(m))
    BY <1>1 DEF Whole, WaysTo, Preparing!Ways, Begun, Tells
  <2> QED BY <2>1, <2>2, <2>3
<1>4. LineKept'
  <2>1. wire # <<>> => Head(wire) = "manual" /\ stage = "query" /\ wire = <<"manual">>
    BY <1>1 DEF LiveInv, LineKept
  <2> QED BY <1>1, <2>1 DEF LiveInv, LineKept
<1>5. PlanKept' /\ TravelKept' BY <1>1 DEF LiveInv, PlanKept, TravelKept
<1>6. Acks'
  <2>1. \A j \in 1..Len(texts) : texts[j].kind = "ack" => stage = "query" /\ texts[j].of = "move"
    BY <1>2 DEF LiveInv, Acks
  <2>2. stage = "query" => Preparing!Command' # "move"
    BY <1>1 DEF Preparing!Command, Preparing!Moves
  <2> QED BY <1>1, <1>2, <2>1, <2>2 DEF Acks
<1>7. StartsKept' BY <1>1, <1>3 DEF LiveInv, StartsKept, Reached
<1>8. RealKept' BY <1>1, <1>3 DEF LiveInv, RealKept, WaysTo, Preparing!Ways
<1>9. AwaitedKept' BY <1>1 DEF AwaitedKept
<1>10. DoneKept'
  <2>1. \A j \in 1..Len(texts) : texts[j].kind = "done" => texts[j].pump \in Motors
    BY TextFacts DEF PrepTyped
  <2>2. \A m \in Motors, j \in 1..Len(texts) : Tells(m, j)' <=> Tells(m, j) BY <1>1 DEF Tells
  <2> QED BY <1>1, <1>3, <2>1, <2>2 DEF LiveInv, DoneKept, Tells, Whole, WaysTo, Preparing!Ways
<1> QED BY <1>4, <1>5, <1>6, <1>7, <1>8, <1>9, <1>10 DEF LiveInv

\* A word behind a word.
LEMMA TwoWords == ASSUME NEW S, NEW x \in S, NEW y \in S PROVE Append(<<x>>, y) = <<x, y>>
<1>2. PICK q : q = Append(<<x>>, y)
  OBVIOUS
<1>3. PICK r : r = <<x, y>>
  OBVIOUS
<1>4. q \in Seq(S) /\ Len(q) = 2 /\ q[1] = x /\ q[2] = y BY <1>2
<1>5. r \in Seq(S) /\ Len(r) = 2 /\ r[1] = x /\ r[2] = y BY <1>3
<1>6. q \in [1..2 -> S] /\ r \in [1..2 -> S] BY <1>4, <1>5
<1>7. \A i \in 1..2 : q[i] = r[i]
  <2>1. \A i \in 1..2 : i = 1 \/ i = 2
    OBVIOUS
  <2> QED BY <1>4, <1>5, <2>1
<1>8. q = r BY <1>6, <1>7
<1> QED BY <1>2, <1>3, <1>8

\* The thread writes its command; a separation is watched from here on.
LEMMA SendKeeps ==
  ASSUME PrepTyped, LiveInv, Preparing!Send
  PROVE  LiveInv'
<1>1. /\ UNCHANGED <<plan, stage, acked, error, started, pending, cancelled, ended, texts>>
      /\ UNCHANGED <<moving, injecting, turned, real>>
      /\ place = "send" /\ place' = "ack" /\ wire' = Append(wire, stage) /\ ended = "no"
      /\ travel' = IF stage = "separate"
                   THEN [Preparing!Unarmed EXCEPT !.on = TRUE, !.angle = Preparing!Angle] ELSE travel
  BY DEF Preparing!Send, Preparing!boardVars, Preparing!replyVars
<1>2. stage \in {"query", "off", "set"} \cup Preparing!Moves /\ ~acked
  BY <1>1 DEF LiveInv, LineKept, PrepTyped, Stages
<1>3. wire = <<>> \/ (wire = <<"manual">> /\ stage = "query")
  <2>1. wire # <<>> => wire = <<"manual">> BY <1>1 DEF LiveInv, LineKept
  <2>2. wire = <<"manual">> => wire # <<>> /\ Head(wire) = "manual"
    OBVIOUS
  <2> QED BY <2>1, <2>2 DEF LiveInv, LineKept
<1>4. ~Sent /\ ~Sent' BY <1>1, <1>3 DEF Sent
<1>5. LineKept'
  <2>1. stage # "manual" BY <1>2, StageFacts
  <2>2. CASE wire = <<>>
    <3>1. wire' = <<stage>> BY <1>1, <2>2
    <3>2. Head(wire') = stage /\ wire' # <<>> /\ wire' \in {<<stage>>} BY <3>1
    <3>3. /\ wire' \in {<<>>, <<"manual">>, <<stage>>, <<"manual", stage>>}
          /\ Head(wire') # "manual"
      BY <2>1, <3>2
    <3>4. UNCHANGED <<stage, acked>> /\ place' = "ack" /\ ~acked /\ stage \notin {"verify", "complete"}
      BY <1>1, <1>2, StageFacts
    <3> HIDE DEF wire, stage, place, acked
    <3> QED BY <3>3, <3>4 DEF LineKept
  <2>3. CASE wire = <<"manual">> /\ stage = "query"
    <3>1. wire' = <<"manual", stage>>
      <4>1. PICK w \in Words : w = "manual" BY DEF Words
      <4>2. wire' = Append(<<w>>, stage) /\ stage \in Words BY <1>1, <1>2, <2>3, <4>1 DEF Words
      <4> QED BY <4>1, <4>2, TwoWords
    <3> QED BY <1>1, <1>2, <2>3, <3>1 DEF LineKept
  <2> QED BY <1>3, <2>2, <2>3
<1>6. PlanKept' BY <1>1 DEF LiveInv, PlanKept
<1>7. Acks'
  <2>1. \A j \in 1..Len(texts) : texts[j].kind = "ack" => stage = "query" /\ texts[j].of = "move"
    BY <1>4 DEF LiveInv, Acks
  <2>2. stage = "query" => Preparing!Command' # "move"
    BY <1>1 DEF Preparing!Command, Preparing!Moves
  <2> QED BY <1>1, <1>2, <1>4, <2>1, <2>2 DEF Acks
<1>8. \A m \in Motors : ~Making(m) /\ ~Making(m)' /\ (Whole(m)' <=> Whole(m)) /\ ~Begun(m) /\ ~Begun(m)'
  <2>1. \A m \in Motors : ~Making(m) /\ ~Making(m)' BY <1>4 DEF Making
  <2>2. \A m \in Motors : ~Begun(m) BY <2>1 DEF LiveInv, StartsKept
  <2>3. \A m \in Motors : (Whole(m)' <=> Whole(m)) /\ (Begun(m)' <=> Begun(m))
    BY <1>1 DEF Whole, WaysTo, Preparing!Ways, Begun, Tells
  <2> QED BY <2>1, <2>2, <2>3
<1>9. StartsKept' BY <1>1, <1>8 DEF LiveInv, StartsKept, Reached
<1>10. RealKept' BY <1>1, <1>8 DEF LiveInv, RealKept, WaysTo, Preparing!Ways
<1>11. AwaitedKept' BY <1>1, <1>8, StageFacts DEF LiveInv, AwaitedKept
<1>12. DoneKept' BY <1>1 DEF LiveInv, DoneKept, Tells, Whole, WaysTo, Preparing!Ways
<1>13. ~travel.on /\ (stage = "separate" => turned = 0) BY <1>1 DEF LiveInv, TravelKept
<1>14. PICK a \in Int : a = Preparing!Angle /\ a = turned % Turn
  BY TurnFacts, Modulo DEF Preparing!Angle, PrepTyped
<1>15. CASE stage = "separate"
  <2>1. travel' = [on |-> TRUE, angle |-> a, degrees |-> 0, gap |-> 0]
    BY <1>1, <1>14, <1>15 DEF Preparing!Unarmed
  <2>2. Speed * 0 = 0 /\ turned = 0 BY <1>13, <1>15, TurnFacts
  <2>3. /\ travel'.on /\ travel'.angle = a /\ travel'.degrees = 0 /\ travel'.gap = 0
        /\ a = 0 % Turn /\ turned' = 0 /\ stage' = "separate" /\ place' = "ack"
    <3>1. travel'.on /\ travel'.angle = a /\ travel'.degrees = 0 /\ travel'.gap = 0 BY <2>1
    <3>2. a = 0 % Turn BY <1>14, <2>2
    <3>3. turned' = 0 /\ stage' = "separate" /\ place' = "ack" BY <1>1, <1>15, <2>2
    <3> QED BY <3>1, <3>2, <3>3
  <2>4. TravelKept' BY <2>2, <2>3 DEF TravelKept
  <2> QED BY <1>5, <1>6, <1>7, <1>9, <1>10, <1>11, <1>12, <2>4 DEF LiveInv
<1>16. CASE stage # "separate"
  <2>1. TravelKept' BY <1>1, <1>13, <1>16 DEF LiveInv, TravelKept
  <2> QED BY <1>5, <1>6, <1>7, <1>9, <1>10, <1>11, <1>12, <2>1 DEF LiveInv
<1> QED BY <1>15, <1>16

\* The way to the next stage is the way to this one, and its move.
LEMMA WaysAre ==
  ASSUME PrepTyped, NEW m \in Motors
  PROVE  /\ plan.calibration => Preparing!Ways(m) = Append(<<>>, "home")
         /\ ~plan.calibration /\ ~(plan.separation /\ m = Oil) => Preparing!Ways(m) = <<"home", "compensate">>
         /\ ~plan.calibration /\ plan.separation /\ m = Oil =>
              Preparing!Ways(m) = Append(<<"home", "compensate">>, "separate")
         /\ Append(<<>>, "home") = <<"home">> /\ Append(<<"home">>, "compensate") = <<"home", "compensate">>
<1>1. plan.calibration \in BOOLEAN /\ plan.separation \in BOOLEAN
  BY PumpAssumption DEF PrepTyped, Preparing!AngleAssumption
<1> DEFINE S == {"home", "compensate", "separate"}
<1>2. PICK h \in S, c \in S, s \in S : h = "home" /\ c = "compensate" /\ s = "separate"
  OBVIOUS
<1>3. Append(<<>>, h) = <<h>> /\ <<h>> \o <<>> = <<h>> BY <1>2
<1>4. Append(<<h>>, c) = <<h, c>> BY <1>2, TwoWords
<1>5. <<h>> \o <<c>> = Append(<<h>>, c) BY <1>2
<1>6. \A q \in Seq(S) : q \o <<>> = q /\ \A x \in S : q \o <<x>> = Append(q, x)
  OBVIOUS
<1>7. <<h>> \in Seq(S) /\ <<h, c>> \in Seq(S) BY <1>2
<1> HIDE DEF S
<1>8. /\ <<h>> \o <<>> \o <<>> = Append(<<>>, h) /\ <<h>> \o <<c>> \o <<>> = <<h, c>>
      /\ <<h>> \o <<c>> \o <<s>> = Append(<<h, c>>, s)
  <2>1. PICK q \in Seq(S) : q = <<h>> /\ q \o <<>> = q BY <1>6, <1>7
  <2>2. PICK r \in Seq(S) : r = <<h, c>> /\ r \o <<>> = r /\ r \o <<s>> = Append(r, s) BY <1>6, <1>7
  <2>3. q \o <<c>> = r BY <1>4, <1>5, <2>1, <2>2
  <2> QED BY <1>3, <2>1, <2>2, <2>3
<1>9. CASE plan.calibration BY <1>2, <1>3, <1>4, <1>8, <1>9 DEF Preparing!Ways
<1>10. CASE ~plan.calibration /\ ~(plan.separation /\ m = Oil)
  BY <1>2, <1>3, <1>4, <1>8, <1>10 DEF Preparing!Ways
<1>11. CASE ~plan.calibration /\ plan.separation /\ m = Oil
  BY <1>2, <1>3, <1>4, <1>8, <1>11 DEF Preparing!Ways
<1> QED BY <1>1, <1>9, <1>10, <1>11

LEMMA WaysGrow ==
  ASSUME PrepTyped, LineKept, PlanKept, place # "check", NEW m \in Motors
  PROVE  WaysTo(Preparing!After(stage), m) =
           IF stage \in Preparing!Moves /\ m \in Preparing!MovedBy(stage)
           THEN Append(WaysTo(stage, m), stage) ELSE WaysTo(stage, m)
<1>1. plan.calibration \in BOOLEAN /\ plan.separation \in BOOLEAN
  BY PumpAssumption DEF PrepTyped, Preparing!AngleAssumption
<1>2. stage \in {"query", "off", "home", "compensate", "separate", "set"} BY AfterFacts
<1>3. plan.calibration => stage \in {"query", "home"} BY <1>2 DEF PlanKept
<1>4. CASE stage \in {"query", "off", "set"}
  <2>1. stage \notin Preparing!Moves BY <1>4, StageFacts
  <2>2. CASE stage \in {"query", "off"} BY <2>1, <2>2, AfterFacts DEF WaysTo
  <2>3. CASE stage = "set" BY <2>1, <2>3, AfterFacts DEF WaysTo
  <2> QED BY <1>4, <2>2, <2>3
<1>5. CASE stage = "home"
  <2>1. stage \in Preparing!Moves /\ m \in Preparing!MovedBy(stage)
    BY <1>5, StageFacts DEF Preparing!MovedBy
  <2>2. Preparing!After(stage) = IF plan.calibration THEN "complete" ELSE "compensate" BY <1>5, AfterFacts
  <2>3. WaysTo(stage, m) = <<>> BY <1>5 DEF WaysTo
  <2>4. WaysTo("compensate", m) = <<"home">> /\ WaysTo("complete", m) = Preparing!Ways(m) BY DEF WaysTo
  <2> QED BY <1>1, <1>5, <2>1, <2>2, <2>3, <2>4, WaysAre
<1>6. CASE stage = "compensate"
  <2>1. stage \in Preparing!Moves /\ m \in Preparing!MovedBy(stage)
    BY <1>6, StageFacts DEF Preparing!MovedBy
  <2>2. WaysTo(stage, m) = <<"home">> BY <1>6 DEF WaysTo
  <2>3. CASE plan.separation
    <3>1. WaysTo(Preparing!After(stage), m) = <<"home", "compensate">> BY <1>6, <2>3, AfterFacts DEF WaysTo
    <3> QED BY <1>6, <2>1, <2>2, <3>1, WaysAre
  <2>4. CASE ~plan.separation
    <3>1. WaysTo(Preparing!After(stage), m) = Preparing!Ways(m) BY <1>6, <2>4, AfterFacts DEF WaysTo
    <3>2. ~plan.calibration BY <1>3, <1>6
    <3> QED BY <1>6, <2>1, <2>2, <2>4, <3>1, <3>2, WaysAre
  <2> QED BY <2>3, <2>4
<1>7. CASE stage = "separate"
  <2>1. /\ stage \in Preparing!Moves /\ (m \in Preparing!MovedBy(stage) <=> m = Oil)
        /\ plan.separation /\ ~plan.calibration
    BY <1>3, <1>7, StageFacts DEF Preparing!MovedBy, PlanKept
  <2>2. WaysTo(stage, m) = <<"home", "compensate">> BY <1>7 DEF WaysTo
  <2>3. WaysTo(Preparing!After(stage), m) = Preparing!Ways(m) BY <1>7, AfterFacts DEF WaysTo
  <2> QED BY <1>7, <2>1, <2>2, <2>3, WaysAre
<1> QED BY <1>2, <1>4, <1>5, <1>6, <1>7

\* A pump that has made its move does not make it still.
LEMMA WholeIsMore ==
  ASSUME PrepTyped, NEW m \in Motors, Whole(m), stage \in Preparing!Moves
  PROVE  real[m] # WaysTo(stage, m)
<1>1. stage \in {"home", "compensate", "separate"} BY StageFacts
<1>2. \A x : Len(<<x>>) = 1 /\ Len(<<>>) = 0 /\ \A y : Len(<<x, y>>) = 2
  OBVIOUS
<1>3. PICK q \in Seq({"home", "compensate", "separate"}) : q = WaysTo(stage, m)
  <2> DEFINE S == {"home", "compensate", "separate"}
  <2>1. PICK h \in S, c \in S : h = "home" /\ c = "compensate"
    OBVIOUS
  <2>2. <<>> \in Seq(S) /\ <<h>> \in Seq(S) /\ <<h, c>> \in Seq(S)
    OBVIOUS
  <2> HIDE DEF S
  <2>3. WaysTo(stage, m) \in {<<>>, <<h>>, <<h, c>>} BY <1>1, <2>1 DEF WaysTo
  <2>4. WaysTo(stage, m) \in Seq(S) BY <2>2, <2>3
  <2> QED BY <2>4 DEF S
<1>4. Len(Append(q, stage)) = Len(q) + 1 /\ Len(q) \in Nat BY <1>1, <1>3
<1> QED BY <1>3, <1>4 DEF Whole

\* The reply to a move is there: the thread waits for the pumps.
LEMMA MoveAcknowledged ==
  ASSUME PrepTyped, LiveInv, stage \in Preparing!Moves, place = "ack", acked, place' = "moves",
         UNCHANGED <<plan, stage, started, pending, travel, acked, error, cancelled, ended, wire, texts>>,
         UNCHANGED <<moving, turned, real>>
  PROVE  LiveInv'
<1>1. wire = <<>> BY DEF LiveInv, LineKept
<1>2. Sent /\ Sent' BY <1>1 DEF Sent
<1>3. \A j \in 1..Len(texts) : texts[j].kind # "ack" BY StageFacts DEF LiveInv, Acks, Preparing!Moves
<1>4. \A m \in Motors : /\ (Making(m)' <=> Making(m)) /\ (Whole(m)' <=> Whole(m)) /\ (Begun(m)' <=> Begun(m))
                        /\ WaysTo(stage, m)' = WaysTo(stage, m)
                        /\ \A j \in 1..Len(texts) : Tells(m, j)' <=> Tells(m, j)
  BY <1>2 DEF Making, Whole, WaysTo, Preparing!Ways, Begun, Tells
<1>5. LineKept' /\ PlanKept'
  <2>1. stage \notin {"verify", "complete"} BY StageFacts
  <2> QED BY <1>1, <2>1 DEF LiveInv, LineKept, PlanKept
<1>6. Acks' BY <1>3 DEF Acks
<1>7. StartsKept' BY <1>4 DEF LiveInv, StartsKept, Reached
<1>8. RealKept' BY <1>4 DEF LiveInv, RealKept
<1>9. AwaitedKept' BY <1>4, StageFacts DEF LiveInv, AwaitedKept
<1>10. DoneKept' BY DEF LiveInv, DoneKept, Tells, Whole, WaysTo, Preparing!Ways
<1>11. TravelKept' BY DEF LiveInv, TravelKept
<1> QED BY <1>5, <1>6, <1>7, <1>8, <1>9, <1>10, <1>11 DEF LiveInv

\* The next stage is one that no text has told of.
LEMMA NextIsNew ==
  ASSUME PrepTyped, LineKept, PlanKept, place # "check", NEW n, n = Preparing!After(stage)
  PROVE  /\ n \notin Reached \cup {"manual"} /\ n \in Stages
         /\ stage' = n => Reached \subseteq Reached'
<1>1. stage \in {"query", "off", "home", "compensate", "separate", "set"} BY AfterFacts
<1>2. plan.calibration \in BOOLEAN /\ plan.separation \in BOOLEAN
  BY PumpAssumption DEF PrepTyped, Preparing!AngleAssumption
<1>3. CASE stage \in {"query", "off"} BY <1>3, AfterFacts, StageFacts DEF Reached, Stages
<1>4. CASE stage = "home" BY <1>2, <1>4, AfterFacts, StageFacts DEF Reached, Stages
<1>5. CASE stage = "compensate" BY <1>2, <1>5, AfterFacts, StageFacts DEF Reached, Stages
<1>6. CASE stage = "separate" BY <1>6, AfterFacts, StageFacts DEF Reached, Stages
<1>7. CASE stage = "set" BY <1>7, AfterFacts, StageFacts DEF Reached, Stages
<1> QED BY <1>1, <1>3, <1>4, <1>5, <1>6, <1>7

\* The oil pump has turned far enough when its stage is left.
LEMMA TurnedEnough ==
  ASSUME PrepTyped, TravelTyped, LiveInv, place \in {"ack", "moves"}, travel.gap <= AngleTimeout,
         stage = "separate" => travel.degrees >= Goal, travel' = Preparing!Unarmed,
         stage' = Preparing!After(stage), place' = "check", UNCHANGED <<plan, turned>>
  PROVE  TravelKept'
<1>1. ~travel'.on BY DEF Preparing!Unarmed
<1>2. LineKept /\ PlanKept /\ place # "check" BY DEF LiveInv
<1>3. stage \in {"query", "off", "home", "compensate", "separate", "set"} BY <1>2, AfterFacts
<1>4. plan.calibration \in BOOLEAN /\ plan.separation \in BOOLEAN
  BY PumpAssumption DEF PrepTyped, Preparing!AngleAssumption
<1>5. CASE stage \in {"query", "off", "home", "compensate"}
  <2>1. ~travel.on BY <1>5 DEF LiveInv, TravelKept
  <2>2. turned' = 0 BY <1>5, <2>1 DEF LiveInv, TravelKept
  <2>3. stage' \in {"set", "verify", "complete"} => plan.calibration \/ ~plan.separation
    BY <1>2, <1>4, <1>5, AfterFacts
  <2>4. stage' \in {"off", "home", "complete", "compensate", "separate", "set", "verify"}
    BY <1>2, <1>4, <1>5, AfterFacts
  <2> QED BY <1>1, <1>2, <2>2, <2>3 DEF TravelKept
<1>6. CASE stage = "separate"
  <2>1. travel.on BY <1>6 DEF LiveInv, TravelKept
  <2>2. PICK d \in Int, g \in Nat, a \in Int : d = travel.degrees /\ g = travel.gap /\ a = turned
    BY DEF TravelTyped, Travels, PrepTyped
  <2>3. d - a <= Speed * g /\ g <= AngleTimeout /\ d >= Goal
    BY <1>6, <2>1, <2>2 DEF LiveInv, TravelKept
  <2>4. Speed * g \in Nat /\ Speed * AngleTimeout \in Nat /\ Speed * g <= Speed * AngleTimeout
    BY <2>2, <2>3, TurnFacts
  <2>5. a + Speed * AngleTimeout >= Goal BY <2>2, <2>3, <2>4, TurnFacts
  <2>6. stage' \in {"set", "verify"} /\ turned' = a BY <1>2, <1>6, <2>2, AfterFacts
  <2> QED BY <1>1, <2>5, <2>6 DEF TravelKept
<1>7. CASE stage = "set"
  <2>1. ~travel.on /\ stage' = "verify" BY <1>2, <1>7, AfterFacts DEF LiveInv, TravelKept
  <2> QED BY <1>1, <1>7, <2>1 DEF LiveInv, TravelKept
<1> QED BY <1>3, <1>5, <1>6, <1>7

\* The thread goes on to the next stage.
LEMMA EnterKeeps ==
  ASSUME PrepTyped, TravelTyped, LiveInv, Preparing!Good, Preparing!Enter(Preparing!After(stage)),
         \/ place = "ack" /\ acked /\ stage \notin Preparing!Moves
         \/ place = "moves" /\ pending = {} /\ (stage = "separate" => travel.degrees >= Goal),
         UNCHANGED <<plan, acked, error, cancelled, ended, wire, texts, moving, injecting, turned, real>>
  PROVE  LiveInv'
<1>1. /\ stage' = Preparing!After(stage) /\ place' = "check" /\ started' = {} /\ pending' = {}
      /\ travel' = Preparing!Unarmed
  BY DEF Preparing!Enter
<1>2. LineKept /\ PlanKept /\ place # "check" /\ place \in {"ack", "moves"} BY DEF LiveInv
<1>3. stage \in {"query", "off", "home", "compensate", "separate", "set"} BY <1>2, AfterFacts
<1>4. wire = <<>> /\ (place = "moves" => stage \in Preparing!Moves) BY <1>2 DEF LineKept
<1>5. \A j \in 1..Len(texts) : texts[j].kind # "ack" BY <1>2 DEF LiveInv, Acks
<1>6. TravelKept'
  <2>1. travel.gap <= AngleTimeout /\ (stage = "separate" => travel.degrees >= Goal)
    BY StageFacts DEF Preparing!Good
  <2> QED BY <1>1, <1>2, <2>1, TurnedEnough
<1>7. /\ stage' \notin Reached \cup {"manual"} /\ stage' \in Stages /\ Reached \subseteq Reached'
  BY <1>1, <1>2, NextIsNew
<1>9. LineKept' BY <1>1, <1>4 DEF LineKept
<1>10. PlanKept'
  <2>1. plan.calibration \in BOOLEAN /\ plan.separation \in BOOLEAN
    BY PumpAssumption DEF PrepTyped, Preparing!AngleAssumption
  <2>2. plan.calibration => stage \in {"query", "home"} BY <1>2, <1>3 DEF PlanKept
  <2>3. plan.calibration => stage' \in {"home", "complete"} BY <1>1, <1>2, <2>2, AfterFacts
  <2>4. stage' = "separate" => plan.separation BY <1>1, <1>2, <1>3, <2>1, AfterFacts
  <2>5. stage' = "complete" => plan.calibration BY <1>1, <1>2, <1>3, <2>1, AfterFacts
  <2> QED BY <2>3, <2>4, <2>5 DEF PlanKept
<1>11. Acks' BY <1>5 DEF Acks
<1>12. \A m \in Motors : ~Begun(m)' /\ \A j \in 1..Len(texts) : ~Tells(m, j)'
  BY <1>1, <1>7 DEF LiveInv, StartsKept, Begun, Tells
<1>13. StartsKept' BY <1>7, <1>12 DEF LiveInv, StartsKept
<1>14. ASSUME NEW m \in Motors
       PROVE  real[m] = WaysTo(stage, m)' /\ moving[m] \notin Preparing!Moves
  <2>1. WaysTo(stage, m)' = WaysTo(Preparing!After(stage), m) BY <1>1 DEF WaysTo, Preparing!Ways
  <2>2. CASE stage \in Preparing!Moves /\ m \in Preparing!MovedBy(stage)
    <3>1. Whole(m) BY <1>2, <2>2 DEF LiveInv, AwaitedKept
    <3>2. real[m] # WaysTo(stage, m) BY <2>2, <3>1, WholeIsMore
    <3>3. moving[m] \notin Preparing!Moves BY <3>2 DEF LiveInv, RealKept
    <3> QED BY <1>2, <2>1, <2>2, <3>1, <3>3, WaysGrow DEF Whole
  <2>3. CASE ~(stage \in Preparing!Moves /\ m \in Preparing!MovedBy(stage))
    <3>1. ~Making(m) BY <2>3 DEF Making
    <3>2. real[m] = WaysTo(stage, m) /\ moving[m] \notin Preparing!Moves BY <3>1 DEF LiveInv, RealKept
    <3> QED BY <1>2, <2>1, <2>3, <3>2, WaysGrow
  <2> QED BY <2>2, <2>3
<1>15. RealKept' BY <1>14 DEF RealKept
<1>16. AwaitedKept' BY <1>1 DEF AwaitedKept
<1>17. DoneKept'
  <2>1. \A j \in 1..Len(texts) : texts[j].kind = "done" => texts[j].pump \in Motors
    BY TextFacts DEF PrepTyped
  <2> SUFFICES ASSUME NEW j \in 1..Len(texts), texts[j].kind = "done"
               PROVE  ~(texts[j].pump \in started' \/ \E i \in 1..(j - 1) :
                          texts[i].kind = "start" /\ texts[i].pump = texts[j].pump /\ texts[i].move = stage')
    BY DEF DoneKept, Tells
  <2>2. PICK m \in Motors : m = texts[j].pump BY <2>1
  <2>3. \A i \in 1..(j - 1) : i \in 1..Len(texts) BY DEF PrepTyped
  <2> QED BY <1>1, <1>12, <2>2, <2>3 DEF Tells
<1> QED BY <1>6, <1>9, <1>10, <1>11, <1>13, <1>15, <1>16, <1>17 DEF LiveInv

\* The preparation is complete.
LEMMA CompletesKeep ==
  ASSUME PrepTyped, LiveInv, Completes,
         UNCHANGED <<plan, place, acked, error, started, pending, travel, texts, moving, injecting, turned, real>>
  PROVE  LiveInv' /\ EndKept'
<1>1. /\ place = "check" /\ stage' = "complete" /\ ended' = "complete" /\ ~cancelled /\ ~cancelled'
      /\ stage \in {"complete", "verify"} /\ UNCHANGED wire
  BY DEF Completes, Preparing!Running
<1>2. EndKept' BY <1>1 DEF EndKept
<1>3. wire = <<>>
  <2>1. wire # <<>> => wire = <<"manual">> BY <1>1 DEF LiveInv, LineKept
  <2>2. wire = <<"manual">> => wire # <<>> /\ Head(wire) = "manual"
    OBVIOUS
  <2> QED BY <1>1, <2>1, <2>2 DEF LiveInv, LineKept
<1>4. \A m \in Motors : ~Making(m) /\ ~Making(m)' BY <1>1 DEF Making, Sent
<1>5. LineKept' /\ PlanKept' BY <1>1, <1>3 DEF LineKept, PlanKept
<1>6. Acks' BY <1>1 DEF LiveInv, Acks
<1>7. \A j \in 1..Len(texts) : texts[j].kind = "start" => texts[j].move \in Preparing!Moves \cup {"manual"}
  BY <1>1 DEF LiveInv, StartsKept, Reached
<1>8. \A m \in Motors : ~Begun(m)' /\ m \notin started /\ \A j \in 1..Len(texts) : ~Tells(m, j)'
  <2>1. \A m \in Motors : ~Begun(m) BY <1>4 DEF LiveInv, StartsKept
  <2>2. \A m \in Motors, j \in 1..Len(texts) : ~Tells(m, j)' BY <1>1, <1>7, StageFacts DEF Tells
  <2> QED BY <2>1, <2>2 DEF Begun
<1>9. StartsKept' BY <1>1, <1>7, <1>8 DEF StartsKept, Reached
<1>10. RealKept' BY <1>1, <1>4 DEF LiveInv, RealKept, WaysTo, Preparing!Ways
<1>11. AwaitedKept' BY <1>1 DEF AwaitedKept
<1>12. DoneKept'
  <2>1. \A j \in 1..Len(texts) : texts[j].kind = "done" => texts[j].pump \in Motors
    BY TextFacts DEF PrepTyped
  <2> SUFFICES ASSUME NEW j \in 1..Len(texts), texts[j].kind = "done"
               PROVE  ~(texts[j].pump \in started \/ \E i \in 1..(j - 1) :
                          texts[i].kind = "start" /\ texts[i].pump = texts[j].pump /\ texts[i].move = stage')
    BY DEF DoneKept, Tells
  <2>2. PICK m \in Motors : m = texts[j].pump BY <2>1
  <2>3. \A i \in 1..(j - 1) : i \in 1..Len(texts) BY DEF PrepTyped
  <2> QED BY <1>8, <2>2, <2>3 DEF Tells
<1>13. TravelKept'
  <2>1. ~travel.on BY <1>1 DEF LiveInv, TravelKept
  <2> QED BY <1>1, <2>1 DEF LiveInv, TravelKept
<1> QED BY <1>2, <1>5, <1>6, <1>9, <1>10, <1>11, <1>12, <1>13 DEF LiveInv

\* Whatever the thread of the preparation does.
LEMMA ThreadLives ==
  ASSUME PrepTyped, TravelTyped, LiveInv,
         Preparing!Prepare \/ Preparing!Send \/ Preparing!Acknowledged \/ Preparing!Moved
  PROVE  LiveInv'
<1>1. CASE Preparing!Prepare BY <1>1, PrepareKeeps
<1>2. CASE Preparing!Send BY <1>2, SendKeeps
<1>3. CASE Preparing!Acknowledged
  <2>1. /\ Preparing!Good /\ place = "ack" /\ acked
        /\ UNCHANGED <<plan, acked, error, cancelled, ended, wire, texts, moving, injecting, turned, real>>
    BY <1>3 DEF Preparing!Acknowledged, Preparing!boardVars
  <2>2. CASE stage \in Preparing!Moves
    BY <1>3, <2>1, <2>2, MoveAcknowledged DEF Preparing!Acknowledged
  <2>3. CASE stage \notin Preparing!Moves
    BY <1>3, <2>1, <2>3, EnterKeeps DEF Preparing!Acknowledged
  <2> QED BY <2>2, <2>3
<1>4. CASE Preparing!Moved
  <2>1. /\ Preparing!Good /\ place = "moves" /\ pending = {} /\ (stage = "separate" => travel.degrees >= Goal)
        /\ UNCHANGED <<plan, acked, error, cancelled, ended, wire, texts, moving, injecting, turned, real>>
        /\ Preparing!Enter(Preparing!After(stage))
    BY <1>4 DEF Preparing!Moved, Preparing!boardVars
  <2> QED BY <2>1, EnterKeeps
<1> QED BY <1>1, <1>2, <1>3, <1>4

LEMMA PrepKeeps == ASSUME PrepInv, Preparing!Next PROVE PrepInv'
<1>1. PrepTyped' /\ TravelTyped'
  <2>1. CASE Preparing!Prepare \/ Preparing!Send \/ Preparing!Acknowledged \/ Preparing!Moved
    <3>1. Live
      BY <2>1
      DEF Live, Preparing!Prepare, Preparing!Send, Preparing!Allowed, Preparing!Acknowledged, Preparing!Moved,
          Preparing!Good, Preparing!Running
    <3> QED BY <2>1, <3>1, ThreadTyped DEF PrepInv, LiveInv
  <2>2. CASE Ends BY <2>2, EndsTyped DEF PrepInv
  <2> QED BY <2>1, <2>2, ExecuteTyped, TextsTyped, AnglesTyped DEF PrepInv, Preparing!Next, Ends
<1>2. EndKept' BY EndStays DEF PrepInv
<1>3. CASE ~Live BY <1>1, <1>2, <1>3, StopStays DEF PrepInv
<1>4. CASE Live /\ Ends
  <2>1. CASE Halts BY <1>1, <2>1, HaltKeeps DEF PrepInv
  <2>2. CASE Completes
    <3>1. LiveInv' BY <1>4, <2>2, EndsAre, CompletesKeep DEF PrepInv
    <3>2. Live' BY <2>2 DEF Live, Completes, Preparing!Running
    <3> QED BY <1>1, <1>2, <3>1, <3>2 DEF PrepInv, StopKept
  <2> QED BY <1>4, <2>1, <2>2, EndsAre DEF PrepInv
<1>5. CASE Live /\ ~Ends
  <2>1. LiveInv'
    BY <1>5, ExecuteKeeps, TakesKeep, AnglesKeep, FinishKeeps, ThreadLives DEF PrepInv, Preparing!Next, Ends
  <2>2. Live'
    BY <1>5
    DEF Live, Preparing!Next, Ends, Preparing!Execute, Preparing!LoseText, Preparing!TakeText, Preparing!Tick,
        Preparing!TakeAngle, Preparing!Finish, Preparing!Prepare, Preparing!Send, Preparing!Acknowledged,
        Preparing!Moved, Preparing!threadVars
  <2> QED BY <1>1, <1>2, <2>1, <2>2 DEF PrepInv, StopKept
<1> QED BY <1>3, <1>4, <1>5

\* What counts as prepared has been turned, each pump its moves once and in order, the oil pump as far as it
\* should; and nothing that drives follows a stop: for any pumps and any delays and losses on the line.
THEOREM PreparedTrue == Spec => []PreparedIsReal
<1> DEFINE Inv == part = "preparation" => PrepInv
<1>1. Start => Inv BY PrepInit DEF Start
<1>2. Inv /\ [Step]_parts => Inv'
  <2> SUFFICES ASSUME Inv, [Step]_parts, part' = "preparation" PROVE PrepInv'
    OBVIOUS
  <2>1. CASE UNCHANGED parts
    <3>1. /\ UNCHANGED <<plan, stage, place, acked, error, started, pending, cancelled, ended, travel, wire, texts>>
          /\ UNCHANGED <<moving, injecting, turned, real>> /\ PrepInv
      BY <2>1 DEF parts, After5, After11, After13, After14
    <3>2. PrepTyped' /\ TravelTyped' /\ EndKept' /\ StopKept'
      BY <3>1 DEF PrepInv, PrepTyped, TravelTyped, EndKept, StopKept, Live, Preparing!Last
    <3> SUFFICES ASSUME Live' PROVE LiveInv'
      BY <3>2 DEF PrepInv
    <3>3. LiveInv BY <3>1 DEF Live, PrepInv
    <3>4. LineKept' /\ PlanKept' /\ TravelKept' BY <3>1, <3>3 DEF LiveInv, LineKept, PlanKept, TravelKept
    <3>5. Acks' BY <3>1, <3>3 DEF LiveInv, Acks, Sent, Preparing!Command
    <3>6. StartsKept' BY <3>1, <3>3 DEF LiveInv, StartsKept, Reached, Begun, Tells, Making, Sent
    <3>7. RealKept' BY <3>1, <3>3 DEF LiveInv, RealKept, Making, Sent, Whole, WaysTo, Preparing!Ways
    <3>8. AwaitedKept' BY <3>1, <3>3 DEF LiveInv, AwaitedKept, Whole, WaysTo, Preparing!Ways
    <3>9. DoneKept' BY <3>1, <3>3 DEF LiveInv, DoneKept, Tells, Whole, WaysTo, Preparing!Ways
    <3> QED BY <3>4, <3>5, <3>6, <3>7, <3>8, <3>9 DEF LiveInv
  <2>2. CASE Step
    <3>1. PrepInv /\ Preparing!Next BY <2>2 DEF Step
    <3> QED BY <3>1, PrepKeeps
  <2> QED BY <2>1, <2>2
<1>3. Inv => PreparedIsReal
  <2> SUFFICES ASSUME PrepInv
               PROVE  Preparing!PreparedIsReal /\ Preparing!SeparationIsReal /\ Preparing!StopIsFinal
    BY DEF PreparedIsReal
  <2>1. Preparing!StopIsFinal
    <3> SUFFICES ASSUME ~Live
                 PROVE  IF "stop" \in Preparing!ToSet(wire) THEN Preparing!Last(wire) = "stop"
                        ELSE ~injecting /\ \A m \in Motors : moving[m] = "none"
      BY DEF Preparing!StopIsFinal, Live
    <3>1. wire \in Seq(Words) BY DEF PrepInv, PrepTyped
    <3>2. wire # <<>> => Preparing!Last(wire) \in Preparing!ToSet(wire)
      BY <3>1 DEF Preparing!Last, Preparing!ToSet
    <3>3. wire = <<>> => Preparing!ToSet(wire) = {} BY DEF Preparing!ToSet
    <3> QED BY <3>2, <3>3 DEF PrepInv, StopKept
  <2>2. ASSUME ended = "complete"
        PROVE  /\ \A m \in Motors : real[m] = Preparing!Ways(m)
               /\ plan.separation /\ ~plan.calibration => turned + Speed * AngleTimeout >= Goal
    <3>1. stage = "complete" /\ Live BY <2>2 DEF PrepInv, EndKept, Live
    <3>2. LiveInv /\ place = "check" BY <3>1 DEF PrepInv, LiveInv, LineKept
    <3>3. \A m \in Motors : ~Making(m) BY <3>2 DEF Making, Sent
    <3>4. \A m \in Motors : real[m] = Preparing!Ways(m) BY <3>1, <3>2, <3>3 DEF LiveInv, RealKept, WaysTo
    <3>5. ~travel.on BY <3>1, <3>2 DEF LiveInv, TravelKept
    <3> QED BY <3>1, <3>2, <3>4, <3>5 DEF LiveInv, TravelKept
  <2> QED BY <2>1, <2>2 DEF Preparing!PreparedIsReal, Preparing!SeparationIsReal
<1> QED BY <1>1, <1>2, <1>3, PTL DEF Spec

-----------------------------------------------------------------------------
(* Direct commands: the names that DirectCommands gives its variables.     *)
kind == s1
standing == s2
issued == s3
token == s4
lock == s5
cutoff == s6
stops == s7
manual == s8
faulty == s9
run == s10
calibration == s11
ending == s12
wrote == s13
USE DEF kind, standing, issued, token, lock, cutoff, stops, manual, faulty, run, calibration, ending, wrote

Phases == [phase : {"idle", "active", "ending"}, token : Nat]
Calibrations == [active : BOOLEAN, outcome : {"none", "succeeded", "failed", "cancelled"}, sent : Nat, token : Nat]

(***************************************************************************)
(* No time of issue is later than the present cutoff.  Who was let in      *)
(* still has the control lock, and nobody else is let in: what he was      *)
(* judged by has not become worse.                                         *)
(***************************************************************************)
DirectTyped ==
  /\ kind \in [Commands -> Direct!Kinds] /\ DOMAIN standing = Commands
  /\ token \in [Commands -> Nat] /\ cutoff \in Nat /\ manual \in BOOLEAN
  /\ run \in Phases /\ calibration \in Calibrations
OfThePast ==
  /\ run.token <= cutoff /\ calibration.token <= cutoff
  /\ \A r \in Commands : token[r] <= cutoff
LetIn == \A r \in Commands : standing[r] = "judged" => lock = r
JudgedWell ==
  \A r \in Commands : standing[r] = "judged" =>
    /\ kind[r] \in Direct!Services => ~calibration.active
    /\ kind[r] = "calibrate" => ~Direct!IsActive /\ ~manual
    /\ kind[r] = "start" => ~Direct!IsActive /\ ~manual
    /\ kind[r] \in {"manual_on", "manual_step", "raw", "step"} => ~Direct!IsActive
DirectInv ==
  DirectTyped /\ OfThePast /\ LetIn /\ JudgedWell /\ Direct!OneMover /\ Direct!NothingOutlivesAStop

LEMMA DirectInit == Direct!Init => DirectInv
<1> SUFFICES ASSUME Direct!Init PROVE DirectInv
  OBVIOUS
<1>1. DirectTyped
  BY RunAssumption
  DEF Direct!Init, DirectTyped, Direct!MixesAssumption, Direct!NoCalibration, Phases, Calibrations
<1> QED
  BY <1>1
  DEF Direct!Init, DirectInv, OfThePast, LetIn, JudgedWell, Direct!OneMover, Direct!NothingOutlivesAStop,
      Direct!NoCalibration, Direct!IsActive

\* A request moves on and leaves the pumps alone.
LEMMA RequestKeeps ==
  ASSUME DirectInv, NEW r \in Commands,
         Direct!Issue(r) \/ Direct!Scope(r) \/ Direct!Outdated(r) \/ Direct!Enter(r)
  PROVE  DirectInv'
<1>1. UNCHANGED <<kind, cutoff, manual, run, calibration, wrote>>
  BY DEF Direct!Issue, Direct!Scope, Direct!Outdated, Direct!Enter, Direct!stopVars
<1>2. DirectTyped' /\ OfThePast'
  <2>1. DOMAIN standing' = Commands
    BY DEF Direct!Issue, Direct!Scope, Direct!Outdated, Direct!Enter, Direct!Becomes, DirectInv, DirectTyped
  <2>2. token' = token \/ token' = [token EXCEPT ![r] = cutoff]
    BY DEF Direct!Issue, Direct!Scope, Direct!Outdated, Direct!Enter
  <2>3. token' \in [Commands -> Nat] /\ \A q \in Commands : token'[q] <= cutoff
    BY <2>2 DEF DirectInv, DirectTyped, OfThePast
  <2> QED BY <1>1, <2>1, <2>3 DEF DirectInv, DirectTyped, OfThePast
<1>3. CASE standing'[r] # "judged"
  <2>1. lock' = lock /\ \A q \in Commands : q # r => standing'[q] = standing[q]
    BY <1>3
    DEF Direct!Issue, Direct!Scope, Direct!Outdated, Direct!Enter, Direct!Becomes, DirectInv, DirectTyped
  <2>2. LetIn' /\ JudgedWell' BY <1>1, <1>3, <2>1 DEF DirectInv, LetIn, JudgedWell, Direct!IsActive
  <2> QED
    BY <1>1, <1>2, <2>2 DEF DirectInv, Direct!OneMover, Direct!NothingOutlivesAStop, Direct!IsActive
<1>4. CASE standing'[r] = "judged"
  <2>1. Direct!Enter(r)
    BY <1>4 DEF Direct!Issue, Direct!Scope, Direct!Outdated, Direct!Becomes, DirectInv, DirectTyped
  <2>2. /\ lock = NoOne /\ lock' = r /\ Direct!Admits(r) /\ Direct!Allowed(r)
        /\ \A q \in Commands : q # r => standing'[q] = standing[q]
    BY <1>4, <2>1 DEF Direct!Enter, Direct!Becomes, DirectInv, DirectTyped
  <2>3. NoOne \notin Commands BY RunAssumption DEF Direct!MixesAssumption
  <2>4. \A q \in Commands : q # r => standing'[q] # "judged" BY <2>2, <2>3 DEF DirectInv, LetIn
  <2>5. LetIn' BY <2>2, <2>4 DEF LetIn
  <2>6. /\ kind[r] \in Direct!Services => ~calibration.active
        /\ kind[r] = "calibrate" => ~Direct!IsActive /\ ~manual
        /\ kind[r] = "start" => ~Direct!IsActive /\ ~manual
        /\ kind[r] \in {"manual_on", "manual_step", "raw", "step"} => ~Direct!IsActive
    BY <2>2 DEF Direct!Admits, Direct!Allowed, Direct!MayCalibrate, Direct!Services
  <2>7. JudgedWell' BY <1>1, <2>4, <2>6 DEF JudgedWell, Direct!IsActive
  <2> QED
    BY <1>1, <1>2, <2>5, <2>7 DEF DirectInv, Direct!OneMover, Direct!NothingOutlivesAStop, Direct!IsActive
<1> QED BY <1>3, <1>4

\* What is written has been issued since the last cutoff, and no stop is under way.
LEMMA WritesAreOfNow ==
  ASSUME DirectInv, NEW by, NEW t \in Nat, t <= cutoff, NEW own, Direct!MayWrite(t, own), Direct!Wrote(by, t),
         by = "operator" => ~Direct!IsActive /\ own = FALSE,
         by = "calibration" => ~Direct!IsActive,
         by = "run" => own = FALSE, by \in {"operator", "calibration", "run"}
  PROVE  /\ wrote' # <<>> /\ wrote'[1].token = wrote'[1].cutoff /\ wrote'[1].stops = 0
         /\ wrote'[1].by = by /\ (by \in {"operator", "calibration"} => wrote'[1].run = "idle")
         /\ by \in {"operator", "run"} => ~wrote'[1].calibration
<1>1. wrote' = <<[by |-> by, token |-> t, cutoff |-> cutoff, stops |-> stops, run |-> run.phase,
                  calibration |-> calibration.active]>>
  BY DEF Direct!Wrote
<1>2. PICK w : w = [by |-> by, token |-> t, cutoff |-> cutoff, stops |-> stops, run |-> run.phase,
                    calibration |-> calibration.active]
  OBVIOUS
<1>3. wrote' = <<w>> /\ wrote' # <<>> /\ wrote'[1] = w BY <1>1, <1>2
<1>4. stops = 0 /\ t = cutoff /\ (own = FALSE => ~calibration.active)
  BY DEF Direct!MayWrite, Direct!Cancelled, DirectInv, DirectTyped
<1> QED BY <1>2, <1>3, <1>4 DEF Direct!IsActive

\* Who was let in does what he was let in for.
LEMMA JudgedKeeps ==
  ASSUME DirectInv, NEW r \in Commands,
         Direct!WriteDirect(r) \/ Direct!SetManual(r) \/ Direct!StartRun(r) \/ Direct!StartCalibration(r)
  PROVE  DirectInv'
<1>1. UNCHANGED <<kind, issued, token, cutoff, stops>> /\ standing[r] = "judged" /\ Direct!Ends(r)
  BY DEF Direct!WriteDirect, Direct!SetManual, Direct!StartRun, Direct!StartCalibration, Direct!stopVars
<1>2. \A q \in Commands : standing'[q] # "judged"
  BY <1>1 DEF Direct!Ends, Direct!Becomes, DirectInv, DirectTyped, LetIn
<1>3. LetIn' /\ JudgedWell' BY <1>2 DEF LetIn, JudgedWell
<1>4. DOMAIN standing' = Commands BY <1>1 DEF Direct!Ends, Direct!Becomes, DirectInv, DirectTyped
<1>5. CASE Direct!WriteDirect(r)
  <2>1. UNCHANGED <<manual, run, calibration>> BY <1>5 DEF Direct!WriteDirect
  <2>2. ~Direct!IsActive BY <1>1, <1>5 DEF Direct!WriteDirect, DirectInv, JudgedWell
  <2>3. token[r] \in Nat /\ token[r] <= cutoff BY DEF DirectInv, DirectTyped, OfThePast
  <2>4. Direct!NothingOutlivesAStop' /\ Direct!OneMover'
    <3>1. CASE Direct!MayWrite(token[r], FALSE) /\ Direct!Wrote("operator", token[r])
      <4>1. /\ wrote' # <<>> /\ wrote'[1].token = wrote'[1].cutoff /\ wrote'[1].stops = 0
            /\ wrote'[1].by = "operator" /\ wrote'[1].run = "idle" /\ ~wrote'[1].calibration
        BY <2>2, <2>3, <3>1, WritesAreOfNow
      <4> QED BY <2>1, <4>1 DEF DirectInv, Direct!OneMover, Direct!NothingOutlivesAStop, Direct!IsActive
    <3>2. CASE UNCHANGED wrote
      BY <2>1, <3>2 DEF DirectInv, Direct!OneMover, Direct!NothingOutlivesAStop, Direct!IsActive
    <3> QED BY <1>5, <3>1, <3>2 DEF Direct!WriteDirect
  <2> QED BY <1>1, <1>3, <1>4, <2>1, <2>4 DEF DirectInv, DirectTyped, OfThePast
<1>6. CASE Direct!SetManual(r)
  <2>1. UNCHANGED <<run, calibration, wrote>> /\ manual' = (kind[r] = "manual_on") BY <1>6 DEF Direct!SetManual
  <2>2. manual' => ~Direct!IsActive /\ ~calibration.active
    BY <1>1, <2>1 DEF DirectInv, JudgedWell, Direct!Services
  <2>3. Direct!NothingOutlivesAStop' /\ Direct!OneMover'
    BY <2>1, <2>2 DEF DirectInv, Direct!OneMover, Direct!NothingOutlivesAStop, Direct!IsActive
  <2> QED BY <1>1, <1>3, <1>4, <2>1, <2>3 DEF DirectInv, DirectTyped, OfThePast
<1>7. CASE Direct!StartRun(r)
  <2>1. /\ UNCHANGED <<manual, calibration, wrote>>
        /\ run' = run \/ run' = [phase |-> "active", token |-> cutoff]
    BY <1>7 DEF Direct!StartRun
  <2>2. ~manual /\ ~calibration.active
    BY <1>1, <1>7 DEF Direct!StartRun, DirectInv, JudgedWell, Direct!Services
  <2>3. Direct!NothingOutlivesAStop' /\ Direct!OneMover'
    BY <2>1, <2>2 DEF DirectInv, Direct!OneMover, Direct!NothingOutlivesAStop, Direct!IsActive
  <2>4. run' \in Phases /\ run'.token <= cutoff BY <2>1 DEF DirectInv, DirectTyped, OfThePast, Phases
  <2> QED BY <1>1, <1>3, <1>4, <2>1, <2>3, <2>4 DEF DirectInv, DirectTyped, OfThePast
<1>8. CASE Direct!StartCalibration(r)
  <2>1. /\ UNCHANGED <<manual, run, wrote>>
        /\ calibration' = [active |-> TRUE, outcome |-> "none", sent |-> 0, token |-> cutoff]
    BY <1>8 DEF Direct!StartCalibration
  <2>2. ~manual /\ ~Direct!IsActive BY <1>1, <1>8 DEF Direct!StartCalibration, DirectInv, JudgedWell
  <2>3. Direct!NothingOutlivesAStop' /\ Direct!OneMover'
    BY <2>1, <2>2 DEF DirectInv, Direct!OneMover, Direct!NothingOutlivesAStop, Direct!IsActive
  <2>4. calibration' \in Calibrations /\ calibration'.token <= cutoff
    BY <2>1 DEF DirectInv, DirectTyped, OfThePast, Calibrations
  <2> QED BY <1>1, <1>3, <1>4, <2>1, <2>3, <2>4 DEF DirectInv, DirectTyped, OfThePast
<1> QED BY <1>5, <1>6, <1>7, <1>8

\* Nobody is let in, no mover begins.
LEMMA OthersKeep ==
  ASSUME DirectInv, UNCHANGED <<kind, token, lock, manual>>, cutoff' \in Nat, cutoff <= cutoff',
         DOMAIN standing' = Commands, \A q \in Commands : standing'[q] = "judged" => standing[q] = "judged",
         run' \in Phases, run'.token = run.token, Direct!IsActive' => Direct!IsActive,
         calibration' \in Calibrations, calibration'.token = calibration.token,
         calibration'.active => calibration.active,
         \/ wrote' = wrote
         \/ /\ wrote' # <<>> /\ wrote'[1].token = wrote'[1].cutoff /\ wrote'[1].stops = 0
            /\ \/ wrote'[1].by = "calibration" /\ wrote'[1].run = "idle"
               \/ wrote'[1].by = "run" /\ ~wrote'[1].calibration
  PROVE  DirectInv'
<1>1. DirectTyped' BY DEF DirectInv, DirectTyped
<1>2. OfThePast'
  <2>1. /\ run.token \in Nat /\ calibration.token \in Nat /\ cutoff \in Nat
        /\ \A q \in Commands : token[q] \in Nat
    BY DEF DirectInv, DirectTyped, Phases, Calibrations
  <2> QED BY <2>1 DEF DirectInv, OfThePast
<1>3. LetIn' /\ JudgedWell' BY DEF DirectInv, LetIn, JudgedWell
<1>4. Direct!NothingOutlivesAStop' BY DEF DirectInv, Direct!NothingOutlivesAStop
<1>5. Direct!OneMover'
  <2>1. ~(manual /\ Direct!IsActive) /\ ~(manual /\ calibration.active) /\ ~(Direct!IsActive /\ calibration.active)
    BY DEF DirectInv, Direct!OneMover
  <2>2. CASE wrote' = wrote BY <2>1, <2>2 DEF DirectInv, Direct!OneMover
  <2>3. CASE wrote' # wrote BY <2>1, <2>3 DEF Direct!OneMover
  <2> QED BY <2>2, <2>3
<1> QED BY <1>1, <1>2, <1>3, <1>4, <1>5 DEF DirectInv

LEMMA CalibrationEnded ==
  ASSUME NEW c \in Calibrations, NEW o \in {"none", "succeeded", "failed", "cancelled"}
  PROVE  LET d == [c EXCEPT !.active = FALSE, !.outcome = o]
         IN d \in Calibrations /\ d.token = c.token /\ d.active = FALSE
BY DEF Calibrations

LEMMA CalibrationSent ==
  ASSUME NEW c \in Calibrations
  PROVE  LET d == [c EXCEPT !.sent = c.sent + 1]
         IN d \in Calibrations /\ d.token = c.token /\ d.active = c.active
<1>1. c.sent + 1 \in Nat BY DEF Calibrations
<1> QED BY <1>1 DEF Calibrations

LEMMA RunEnded ==
  ASSUME NEW c \in Phases, NEW p \in {"idle", "ending"}
  PROVE  LET d == [c EXCEPT !.phase = p] IN d \in Phases /\ d.token = c.token /\ d.phase = p
BY DEF Phases

\* The calibration and the run go on and end.
LEMMA MoversKeep ==
  ASSUME DirectInv,
         \/ Direct!CalibrationSends \/ Direct!CalibrationCompletes \/ Direct!CalibrationFails
         \/ Direct!RunWrites \/ Direct!RunEnds
  PROVE  DirectInv'
<1>1. /\ UNCHANGED <<kind, standing, token, lock, manual, cutoff>> /\ cutoff \in Nat
      /\ DOMAIN standing = Commands /\ calibration \in Calibrations /\ run \in Phases
  BY DEF Direct!CalibrationSends, Direct!CalibrationCompletes, Direct!CalibrationFails, Direct!RunWrites,
         Direct!RunEnds, Direct!requestVars, Direct!stopVars, DirectInv, DirectTyped
<1>2. /\ run.token \in Nat /\ run.token <= cutoff /\ calibration.token \in Nat /\ calibration.token <= cutoff
  BY DEF DirectInv, DirectTyped, OfThePast, Phases, Calibrations
<1>3. ASSUME UNCHANGED <<run, wrote>>, NEW o \in {"succeeded", "failed"}, Direct!Ended(o) PROVE DirectInv'
  <2>1. calibration' = [calibration EXCEPT !.active = FALSE, !.outcome = o] BY <1>3 DEF Direct!Ended
  <2>2. o \in {"none", "succeeded", "failed", "cancelled"} /\ calibration \in Calibrations BY <1>1
  <2>4. /\ calibration' \in Calibrations /\ calibration'.token = calibration.token
        /\ calibration'.active = FALSE
    BY <2>1, <2>2, CalibrationEnded, Zenon
  <2>3. Direct!IsActive' => Direct!IsActive BY <1>3 DEF Direct!IsActive
  <2> QED BY <1>1, <1>3, <2>3, <2>4, OthersKeep
<1>4. CASE Direct!CalibrationSends
  <2>1. /\ run' = run /\ calibration' = [calibration EXCEPT !.sent = calibration.sent + 1]
        /\ calibration.active
    BY <1>4 DEF Direct!CalibrationSends, Direct!CheckActive
  <2>2. ~Direct!IsActive BY <2>1 DEF DirectInv, Direct!OneMover
  <2>3. \/ wrote' = wrote
        \/ /\ wrote' # <<>> /\ wrote'[1].token = wrote'[1].cutoff /\ wrote'[1].stops = 0
           /\ wrote'[1].by = "calibration" /\ wrote'[1].run = "idle"
    <3>1. CASE Direct!MayWrite(calibration.token, TRUE) /\ Direct!Wrote("calibration", calibration.token)
      BY <1>2, <2>2, <3>1, WritesAreOfNow
    <3> QED BY <1>4, <3>1 DEF Direct!CalibrationSends
  <2>4. /\ calibration' \in Calibrations /\ calibration'.token = calibration.token
        /\ calibration'.active => calibration.active
    BY <1>1, <2>1, CalibrationSent
  <2>5. Direct!IsActive' => Direct!IsActive BY <2>1 DEF Direct!IsActive
  <2> QED BY <1>1, <2>1, <2>3, <2>4, <2>5, OthersKeep
<1>5. CASE Direct!CalibrationCompletes
  <2>1. UNCHANGED <<run, wrote>> /\ Direct!Ended("succeeded") BY <1>5 DEF Direct!CalibrationCompletes
  <2> QED BY <1>1, <1>3, <2>1
<1>6. CASE Direct!CalibrationFails
  <2>1. UNCHANGED <<run, wrote>> /\ Direct!Ended("failed") BY <1>6 DEF Direct!CalibrationFails
  <2> QED BY <1>1, <1>3, <2>1
<1>7. CASE Direct!RunWrites
  <2>1. run' = run /\ calibration' = calibration BY <1>7 DEF Direct!RunWrites
  <2>2. /\ wrote' # <<>> /\ wrote'[1].token = wrote'[1].cutoff /\ wrote'[1].stops = 0
        /\ wrote'[1].by = "run" /\ ~wrote'[1].calibration
    BY <1>2, <1>7, WritesAreOfNow DEF Direct!RunWrites
  <2>3. Direct!IsActive' => Direct!IsActive BY <2>1 DEF Direct!IsActive
  <2> QED BY <1>1, <2>1, <2>2, <2>3, OthersKeep
<1>8. CASE Direct!RunEnds
  <2>1. UNCHANGED <<calibration, wrote>> /\ run' = [run EXCEPT !.phase = "idle"] BY <1>8 DEF Direct!RunEnds
  <2>2. run' \in Phases /\ run'.token = run.token /\ run'.phase = "idle" BY <1>1, <2>1, RunEnded
  <2>3. ~Direct!IsActive' BY <2>2 DEF Direct!IsActive
  <2> QED BY <1>1, <2>1, <2>2, <2>3, OthersKeep
<1> QED BY <1>4, <1>5, <1>6, <1>7, <1>8

\* A stop ends them all, or the line fails.
LEMMA StopsKeep ==
  ASSUME DirectInv,
         \/ \E r \in Commands : Direct!RequestStop(r) \/ Direct!FinishStop(r) \/ Direct!Trouble(r)
         \/ Direct!WatcherStops \/ Direct!FinishWatcher
  PROVE  DirectInv'
<1>1. /\ UNCHANGED <<kind, token, lock, manual, wrote>>
      /\ cutoff' = cutoff \/ cutoff' = cutoff + 1
  BY DEF Direct!RequestStop, Direct!FinishStop, Direct!Trouble, Direct!WatcherStops, Direct!FinishWatcher,
         Direct!Halts, Direct!requestVars
<1>2. cutoff' \in Nat /\ cutoff <= cutoff' BY <1>1 DEF DirectInv, DirectTyped
<1>3. /\ DOMAIN standing' = Commands
      /\ \A q \in Commands : standing'[q] = "judged" => standing[q] = "judged"
  <2>1. standing' = standing \/ \E r \in Commands, p \in {"halting", "done"} : Direct!Becomes(r, p)
    BY DEF Direct!RequestStop, Direct!FinishStop, Direct!Trouble, Direct!WatcherStops, Direct!FinishWatcher,
           Direct!requestVars
  <2> QED BY <2>1 DEF Direct!Becomes, DirectInv, DirectTyped
<1>4. \/ calibration' = calibration
      \/ \E o \in {"failed", "cancelled"} : calibration' = [calibration EXCEPT !.active = FALSE, !.outcome = o]
  BY DEF Direct!RequestStop, Direct!FinishStop, Direct!Trouble, Direct!WatcherStops, Direct!FinishWatcher,
         Direct!Halts
<1>5. run' = run \/ (Direct!IsActive /\ run' = [run EXCEPT !.phase = "ending"])
  BY DEF Direct!RequestStop, Direct!FinishStop, Direct!Trouble, Direct!WatcherStops, Direct!FinishWatcher,
         Direct!Halts, Direct!IsActive
<1>6. /\ run' \in Phases /\ run'.token = run.token /\ (Direct!IsActive' => Direct!IsActive)
      /\ calibration' \in Calibrations /\ calibration'.token = calibration.token
      /\ calibration'.active => calibration.active
  <2>1. calibration \in Calibrations /\ run \in Phases BY DEF DirectInv, DirectTyped
  <2>2. /\ calibration' \in Calibrations /\ calibration'.token = calibration.token
        /\ calibration'.active => calibration.active
    <3>1. CASE calibration' = calibration BY <2>1, <3>1
    <3>2. ASSUME NEW o \in {"failed", "cancelled"},
                 calibration' = [calibration EXCEPT !.active = FALSE, !.outcome = o]
          PROVE  /\ calibration' \in Calibrations /\ calibration'.token = calibration.token
                 /\ calibration'.active = FALSE
      <4>1. o \in {"none", "succeeded", "failed", "cancelled"}
        OBVIOUS
      <4> QED BY <2>1, <3>2, <4>1, CalibrationEnded, Zenon
    <3> QED BY <1>4, <3>1, <3>2
  <2>3. run' \in Phases /\ run'.token = run.token BY <1>5, <2>1, RunEnded
  <2>4. Direct!IsActive' => Direct!IsActive BY <1>5 DEF Direct!IsActive
  <2> QED BY <2>2, <2>3, <2>4
<1> QED BY <1>1, <1>2, <1>3, <1>6, OthersKeep

\* A calibration has one outcome, and none that was stopped is a success.
LEMMA OutcomeKept == ASSUME DirectInv, Direct!Next PROVE Direct!KeepsOutcome
<1> SUFFICES ASSUME calibration.outcome # calibration'.outcome PROVE Direct!KeepsOutcome
  BY DEF Direct!KeepsOutcome
<1>1. calibration.token \in Nat /\ calibration.token <= cutoff /\ cutoff \in Nat /\ calibration \in Calibrations
  BY DEF DirectInv, DirectTyped, OfThePast, Calibrations
<1>2. CASE Direct!CalibrationCompletes
  BY <1>1, <1>2
  DEF Direct!CalibrationCompletes, Direct!MayComplete, Direct!CheckActive, Direct!Cancelled, Direct!KeepsOutcome
<1>3. CASE calibration.active /\ calibration'.outcome \in {"failed", "cancelled"}
  BY <1>3 DEF Direct!KeepsOutcome
<1>4. CASE calibration'.outcome = "none" BY <1>4 DEF Direct!KeepsOutcome
<1>5. CASE Direct!CalibrationFails
  BY <1>1, <1>3, <1>5 DEF Direct!CalibrationFails, Direct!Ended, Calibrations
<1>6. CASE Direct!WatcherStops \/ \E r \in Commands : Direct!RequestStop(r) \/ Direct!Trouble(r)
  BY <1>1, <1>3, <1>6 DEF Direct!WatcherStops, Direct!RequestStop, Direct!Trouble, Direct!Halts, Calibrations
<1>7. CASE \E r \in Commands : Direct!StartCalibration(r)
  BY <1>4, <1>7 DEF Direct!StartCalibration
<1>8. CASE Direct!CalibrationSends
  BY <1>1, <1>8 DEF Direct!CalibrationSends, Calibrations
<1> QED
  BY <1>2, <1>5, <1>6, <1>7, <1>8
  DEF Direct!Next, Direct!Issue, Direct!Scope, Direct!Outdated, Direct!Enter, Direct!WriteDirect, Direct!SetManual,
      Direct!StartRun, Direct!FinishStop, Direct!RunWrites, Direct!RunEnds, Direct!FinishWatcher

\* One mover at a time; nothing outlives a stop, however long it waits for the control lock; a calibration that
\* was stopped is no success: for any requests of any kinds.
THEOREM MoversAreOne == Spec => OneMover
<1> DEFINE Inv == part = "direct" => DirectInv
<1>1. Start => Inv BY DirectInit DEF Start
<1>2. Inv /\ [Step]_parts => Inv' /\ ((part = "direct" => Direct!KeepsOutcome) \/ UNCHANGED parts)
  <2> SUFFICES ASSUME Inv, [Step]_parts
               PROVE  Inv' /\ ((part = "direct" => Direct!KeepsOutcome) \/ UNCHANGED parts)
    OBVIOUS
  <2>1. CASE UNCHANGED parts
    BY <2>1
    DEF parts, After5, After11, After13, DirectInv, DirectTyped, OfThePast, LetIn, JudgedWell, Direct!OneMover,
        Direct!NothingOutlivesAStop, Direct!IsActive
  <2>2. CASE Step /\ part = "direct"
    <3>1. DirectInv /\ Direct!Next /\ part' = part BY <2>2 DEF Step
    <3>2. DirectInv' BY <3>1, RequestKeeps, JudgedKeeps, MoversKeep, StopsKeep DEF Direct!Next
    <3> QED BY <3>1, <3>2, OutcomeKept
  <2>3. CASE Step /\ part # "direct"
    <3>1. part' = part BY <2>3 DEF Step
    <3> QED BY <2>3, <3>1
  <2> QED BY <2>1, <2>2, <2>3
<1>3. Inv => (part = "direct" => Direct!OneMover /\ Direct!NothingOutlivesAStop) BY DEF DirectInv
<1> QED BY <1>1, <1>2, <1>3, PTL DEF Spec, OneMover
=============================================================================
