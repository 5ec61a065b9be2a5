---------------------------- MODULE Preparation -----------------------------
(***************************************************************************)
(* What comes before an automation run (lib/automation_preflight.py as     *)
(* pump_control_node.py uses it): the pumps go home, make one turn more,   *)
(* the oil pump separates, the injection pump starts, the measurement is   *)
(* looked at.  A calibration is the first part alone.  A thread sends one  *)
(* command after the other and waits for the board's texts, the reader     *)
(* takes texts and angles, a stop may come at any step.                    *)
(***************************************************************************)
EXTENDS Integers, Sequences, FiniteSets, SequencesExt

CONSTANTS
  Motors, Oil,    \* the pumps of the steps; the one that separates
  Plans,          \* what is asked for: records of calibration, separation, injection
  Turn, Goal,     \* units of angle in a turn; of the separation
  Speed,          \* units a pump makes in a tick at the most
  AngleTimeout,   \* ANGLE_TIMEOUT in ticks
  MaxGap, MaxBack,   \* bounds: ticks without an angle, units a pump turns back
  MaxTrouble         \* bound: texts that get lost, moves that fail

AngleAssumption ==
  /\ Oil \in Motors /\ IsFiniteSet(Motors) /\ Turn \in Nat /\ Speed \in Nat /\ AngleTimeout \in Nat /\ Goal \in Int
  /\ 2 * Speed * AngleTimeout < Turn
  /\ Plans \subseteq [calibration : BOOLEAN, separation : BOOLEAN, injection : BOOLEAN]

VARIABLES
  plan, stage, at,    \* what is prepared; where the thread is
  acked, error,       \* ack_received, error
  started, pending,   \* the moves begun and awaited, by pump
  cancelled, ended,   \* a stop was asked for; how it ended
  travel,             \* the oil pump as the angles show it: angle, degrees, age
  wire, texts,        \* the serial line, both ways
  moving, injecting, turned,   \* the board: the move of each pump, the injection pump, the oil pump's way
  real,               \* the moves each pump has completed (history)
  trouble

vars == <<plan, stage, at, acked, error, started, pending, cancelled, ended, travel, wire, texts, moving, injecting,
          turned, real, trouble>>
threadVars == <<stage, at, cancelled, ended>>
replyVars == <<acked, error, started, pending>>
boardVars == <<moving, injecting, turned, real, trouble>>

Moves == {"home", "compensate", "separate"}
MovedBy(s) == IF s = "separate" THEN {Oil} ELSE Motors
Unarmed == [on |-> FALSE, angle |-> 0, degrees |-> 0, gap |-> 0]

(* An operator's own move may be under way, or just sent.                  *)
Init ==
  /\ plan \in Plans /\ stage = "query" /\ at = "check" /\ acked = FALSE /\ error = FALSE
  /\ started = {} /\ pending = {} /\ cancelled = FALSE /\ ended = "no" /\ travel = Unarmed
  /\ wire \in {<<>>, <<"manual">>} /\ texts = <<>>
  /\ moving \in {[m \in Motors |-> "none"], [m \in Motors |-> IF m = Oil THEN "manual" ELSE "none"]}
  /\ injecting \in BOOLEAN /\ turned = 0 /\ real = [m \in Motors |-> <<>>] /\ trouble = 0

-----------------------------------------------------------------------------
(* The board works off its commands and answers in order.                  *)

Ack(c) == [kind |-> "ack", of |-> c]
About(k, m, s) == [kind |-> k, pump |-> m, move |-> s]
Starts(s) == SetToSeq({About("start", m, s) : m \in MovedBy(s)})

Turns(s) ==
  IF \E m \in MovedBy(s) : moving[m] # "none"
  THEN texts' = Append(texts, [kind |-> "busy"]) /\ UNCHANGED moving
  ELSE /\ texts' = Append(texts, Ack("move")) \o Starts(s)
       /\ moving' = [m \in Motors |-> IF m \in MovedBy(s) THEN s ELSE moving[m]]

Execute ==
  /\ wire # <<>> /\ wire' = Tail(wire)
  /\ \/ /\ Head(wire) \in {"query", "off", "set"} /\ texts' = Append(texts, Ack(Head(wire)))
        /\ injecting' = (Head(wire) = "set" \/ (injecting /\ Head(wire) # "off")) /\ UNCHANGED moving
     \/ Head(wire) \in Moves /\ Turns(Head(wire)) /\ UNCHANGED injecting
     \/ Head(wire) = "manual" /\ Turns("manual") /\ UNCHANGED injecting
     \/ Head(wire) = "stop" /\ moving' = [m \in Motors |-> "none"] /\ injecting' = FALSE /\ UNCHANGED texts
  /\ UNCHANGED <<plan, threadVars, replyVars, travel, turned, real, trouble>>

(* A move ends: the board says so, whatever the pump has done.             *)
Finish(m) ==
  /\ moving[m] # "none" /\ moving' = [moving EXCEPT ![m] = "none"]
  /\ \/ /\ texts' = Append(texts, About("done", m, "any")) /\ UNCHANGED trouble
        /\ real' = IF moving[m] = "manual" THEN real ELSE [real EXCEPT ![m] = Append(@, moving[m])]
     \/ /\ trouble < MaxTrouble /\ trouble' = trouble + 1
        /\ texts' = Append(texts, About("fail", m, "any")) /\ UNCHANGED real
  /\ UNCHANGED <<plan, threadVars, replyVars, travel, wire, injecting, turned>>

LoseText ==
  /\ texts # <<>> /\ trouble < MaxTrouble /\ trouble' = trouble + 1 /\ texts' = Tail(texts)
  /\ UNCHANGED <<plan, threadVars, replyVars, travel, wire, moving, injecting, turned, real>>

(* A tick passes.  The oil pump turns, back, too, when the PID settles.    *)
Tick ==
  /\ travel.on /\ travel.gap < MaxGap /\ travel' = [travel EXCEPT !.gap = @ + 1]
  /\ \E d \in (IF moving[Oil] = "separate" THEN -Speed..Speed ELSE {0}) :
       turned' = turned + d /\ turned + d \in -MaxBack..Goal
  /\ UNCHANGED <<plan, threadVars, replyVars, wire, texts, moving, injecting, real, trouble>>

-----------------------------------------------------------------------------
(* notify_text                                                             *)

(* (A bug to look for: any completion of a pump that is awaited.)          *)
CompletesAny(m) == m \in pending
Completes(m) == m \in pending /\ m \in started

Command == IF stage \in Moves THEN "move" ELSE stage
Begun(m) == texts[1].move = stage /\ m \in MovedBy(stage)

TakeText ==
  LET t == Head(texts)
      wanted == ~cancelled /\ ended = "no"
  IN /\ texts # <<>> /\ texts' = Tail(texts)
     /\ acked' = (acked \/ (wanted /\ at = "ack" /\ t = Ack(Command)))
     /\ started' = IF wanted /\ pending # {} /\ t.kind = "start" /\ Begun(t.pump) THEN started \cup {t.pump} ELSE started
     /\ pending' = IF wanted /\ t.kind = "done" /\ Completes(t.pump) THEN pending \ {t.pump} ELSE pending
     /\ error' = (error \/ (wanted /\ (\/ t.kind = "busy"
                                       \/ t.kind = "start" /\ pending # {} /\ t.pump \in MovedBy(stage) /\ ~Begun(t.pump)
                                       \/ t.kind = "fail" /\ Completes(t.pump))))
     /\ UNCHANGED <<plan, threadVars, travel, wire, boardVars>>

-----------------------------------------------------------------------------
(* notify_angles: the angle is one within a turn.                          *)

Angle == turned % Turn
Distance(a, b) == ((a - b + Turn \div 2) % Turn) - Turn \div 2

(* (A bug to look for: the time since the last angle is not looked at.)    *)
Plausible(delta, gap) == TRUE
Credible(delta, gap) == gap <= AngleTimeout /\ delta <= Speed * gap /\ -delta <= Speed * gap

TakeAngle ==
  LET delta == Distance(Angle, travel.angle)
  IN /\ travel.on /\ travel.gap > 0 /\ ended = "no"
     /\ IF Credible(delta, travel.gap)
        THEN travel' = [travel EXCEPT !.angle = Angle, !.degrees = @ + delta, !.gap = 0] /\ UNCHANGED error
        ELSE error' = TRUE /\ UNCHANGED travel
     /\ UNCHANGED <<plan, threadVars, acked, started, pending, wire, texts, boardVars>>

-----------------------------------------------------------------------------
(* The thread of the preparation.                                          *)

(* _check_preflight_active, the check_active of a calibration.             *)
Running == ended = "no" /\ ~cancelled
(* _check                                                                  *)
Good == Running /\ ~error /\ travel.gap <= AngleTimeout

AfterTurning == IF plan.injection THEN "set" ELSE "verify"
After(s) ==
  CASE s = "query" -> IF plan.injection /\ ~plan.calibration THEN "off" ELSE "home"
    [] s = "off" -> "home"
    [] s = "home" -> IF plan.calibration THEN "complete" ELSE "compensate"
    [] s = "compensate" -> IF plan.separation THEN "separate" ELSE AfterTurning
    [] s = "separate" -> AfterTurning
    [] s = "set" -> "verify"
    [] s = "verify" -> "complete"

Enter(s) == stage' = s /\ at' = "check" /\ started' = {} /\ pending' = {} /\ travel' = Unarmed

(* pid_moves and command, up to the locks.                                 *)
Prepare ==
  /\ Good /\ at = "check" /\ stage \notin {"verify", "complete"} /\ at' = "send"
  /\ pending' = (IF stage \in Moves THEN MovedBy(stage) ELSE {}) /\ acked' = FALSE
  /\ UNCHANGED <<plan, stage, error, started, cancelled, ended, travel, wire, texts, boardVars>>

(* _check_preflight_active is asked once more under the serial lock.  (A   *)
(* bug to look for: it is not.)                                            *)
NotAsked == TRUE
Allowed == ~cancelled

(* _send_preflight_command, with arm_travel: the reply is awaited before   *)
(* the command is on its way.                                              *)
Send ==
  /\ ended = "no" /\ at = "send" /\ Allowed
  /\ at' = "ack" /\ wire' = Append(wire, stage)
  /\ travel' = IF stage = "separate" THEN [Unarmed EXCEPT !.on = TRUE, !.angle = Angle] ELSE travel
  /\ UNCHANGED <<plan, stage, replyVars, cancelled, ended, texts, boardVars>>

Acknowledged ==
  /\ Good /\ at = "ack" /\ acked
  /\ IF stage \in Moves THEN at' = "moves" /\ UNCHANGED <<stage, started, pending, travel>> ELSE Enter(After(stage))
  /\ UNCHANGED <<plan, acked, error, cancelled, ended, wire, texts, boardVars>>

Moved ==
  /\ Good /\ at = "moves" /\ pending = {}
  /\ stage = "separate" => travel.degrees >= Goal
  /\ Enter(After(stage)) /\ UNCHANGED <<plan, acked, error, cancelled, ended, wire, texts, boardVars>>

Completed ==
  /\ Good /\ at = "check" /\ stage' = "complete" /\ ended' = "complete"
  /\ UNCHANGED <<plan, at, replyVars, cancelled, travel, wire, texts, boardVars>>

(* The measurement is good, the engine starts.                             *)
HandOff == ~plan.calibration /\ stage = "verify" /\ Completed
Calibrated == plan.calibration /\ stage = "complete" /\ Completed

Failed ==
  /\ ended' = "failed" /\ wire' = Append(wire, "stop")
  /\ UNCHANGED <<plan, stage, at, replyVars, cancelled, travel, texts, boardVars>>

Troubled == Running /\ (error \/ travel.gap > AngleTimeout \/ at \in {"ack", "moves"})

(* _fail_preflight: an error, a timeout, no measurement.                   *)
Fail == ~plan.calibration /\ (Troubled \/ (Running /\ stage = "verify")) /\ Failed
CalibrationFails == plan.calibration /\ Troubled /\ Failed

(* _check_calibration: the deadline, a lost owner, at any moment.          *)
Expire == plan.calibration /\ Running /\ Failed

(* _request_output_stop, _auto_stop_locked: flag and first write are one   *)
(* under the serial lock.                                                  *)
Stop ==
  /\ Running /\ cancelled' = TRUE /\ wire' = Append(wire, "stop")
  /\ UNCHANGED <<plan, stage, at, replyVars, ended, travel, texts, boardVars>>

Next ==
  \/ Execute \/ LoseText \/ Tick \/ TakeText \/ TakeAngle
  \/ \E m \in Motors : Finish(m)
  \/ Prepare \/ Send \/ Acknowledged \/ Moved
  \/ HandOff \/ Calibrated \/ Fail \/ CalibrationFails \/ Expire \/ Stop

Spec == Init /\ [][Next]_vars

-----------------------------------------------------------------------------
Ways(m) ==
  <<"home">> \o (IF plan.calibration THEN <<>> ELSE <<"compensate">>)
             \o (IF plan.separation /\ ~plan.calibration /\ m = Oil THEN <<"separate">> ELSE <<>>)

(* When the preparation is complete each pump has really made its moves,   *)
(* once and in order, although replies to somebody else's move may come in *)
(* at any time: 'home, compensate 360 deg and separate oil exactly once'.  *)
PreparedIsReal == ended = "complete" => \A m \in Motors : real[m] = Ways(m)

(* The oil pump has turned as far as it should have, but for what it may   *)
(* have settled back since the last angle, although the board only tells   *)
(* the angle within a turn, and not always.                                *)
SeparationIsReal ==
  ended = "complete" /\ plan.separation /\ ~plan.calibration => turned + Speed * AngleTimeout >= Goal

(* Nothing that drives follows a stop: what was written before it is       *)
(* stopped by it, and nothing is written after it.                         *)
StopIsFinal ==
  cancelled \/ ended = "failed" =>
    IF "stop" \in ToSet(wire) THEN Last(wire) = "stop"
    ELSE ~injecting /\ \A m \in Motors : moving[m] = "none"
=============================================================================
