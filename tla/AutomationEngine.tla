--------------------------- MODULE AutomationEngine ---------------------------
(***************************************************************************)
(* The step sequencer of the payload, scripts/lib/automation_engine.py.    *)
(*                                                                         *)
(* Three kinds of thread touch it.  The worker walks through the steps and *)
(* waits for the motors (_run_loop); callers stop, pause and resume it     *)
(* from ROS services; the serial reader delivers what the firmware says of *)
(* the motors.  Only part of the state is guarded by _lock: the events     *)
(* _running and _paused are read without it, and an error clears _running  *)
(* without it, so an action here is one stretch of code between two points *)
(* where another thread may get in.                                        *)
(*                                                                         *)
(* The motors and the serial line are external: a write succeeds or fails, *)
(* a moving motor ends with a PID_DONE or a failure reply, replies arrive  *)
(* in order, late, or never.                                               *)
(***************************************************************************)
EXTENDS Naturals, Sequences, FiniteSets

CONSTANTS
  Motors,       \* MOTOR_NAMES
  Callers,      \* threads that may call stop, pause and resume
  Steps,        \* the active motors of each step, _get_step_active_motors
  LoopCount,    \* loop_count, 0 for ever
  PidMode,      \* _pid_mode_enabled
  StepHook,     \* on_step_command is set, as the pump node does
  SlowOperator, \* a pause lasts until the worker has seen it and motors and line are at rest
  ErrorAtomic,  \* the worker is not scheduled between the assignments of _handle_error
  MaxRuns,      \* bound on start
  MaxPauses     \* bound on pause within a run

ASSUME StepsAssumption == Steps \in Seq(SUBSET Motors) /\ Steps # <<>>
ASSUME LoopAssumption == LoopCount \in Nat
ASSUME FlagAssumption == {PidMode, StepHook, SlowOperator, ErrorAtomic} \subseteq BOOLEAN
ASSUME CallerAssumption == {"free", "worker"} \cap Callers = {}
ASSUME BoundAssumption == MaxRuns \in Nat /\ MaxPauses \in Nat

VARIABLES
  running, paused,          \* _running, _paused
  lock,                     \* the holder of _lock
  generation,               \* _pause_generation
  pending,                  \* _pending_pid_motors
  failed, lastError,        \* _failed, and whether _last_error is set
  cleanupFailed,            \* _cleanup_failed
  loop,                     \* _current_loop
  pc, idx, snap, stopped,   \* the worker: where it is, step_idx, pause_generation, stopped
  cpc,                      \* where each caller is
  rpc,                      \* how far a thread is inside _handle_error
  moving, replies,          \* motors under way; replies on the serial line
  status,                   \* the status published last
  runs, completed, reached, \* history: starts, completed steps, motors at their target
  halted,                   \* history: the stop or pause now in force wrote its halt
  operatorStop,             \* history: stop was called in this run
  outcome                   \* history: the terminal status of the run that ended last

engine == <<running, paused, lock, generation, pending, failed, lastError, cleanupFailed, loop>>
worker == <<pc, idx, snap, stopped>>
device == <<moving, replies>>
history == <<runs, completed, reached, halted, operatorStop, outcome>>
vars == <<engine, worker, cpc, rpc, device, status, history>>

Alive == pc # "dead"
Active(i) == Steps[i]
Total == LoopCount * Len(Steps)

Init ==
  /\ running = FALSE /\ paused = FALSE /\ lock = "free" /\ generation = 0
  /\ pending = {} /\ failed = FALSE /\ lastError = FALSE /\ cleanupFailed = FALSE /\ loop = 1
  /\ pc = "dead" /\ idx = 1 /\ snap = 0 /\ stopped = FALSE
  /\ cpc = [c \in Callers |-> "idle"] /\ rpc = "idle"
  /\ moving = {} /\ replies = <<>> /\ status = "none"
  /\ runs = 0 /\ completed = 0 /\ reached = {} /\ halted = FALSE /\ operatorStop = FALSE
  /\ outcome = "none"

(***************************************************************************)
(* Callers.                                                                *)
(***************************************************************************)
Settled ==
  SlowOperator => moving = {} /\ replies = <<>> /\ pc \in {"dead", "unpaused", "interval"}

\* start: the pump node calls it under its _control_lock, as it calls stop.
Start ==
  /\ ~Alive /\ runs < MaxRuns /\ Settled /\ rpc = "idle"
  /\ \A c \in Callers : cpc[c] \in {"idle", "publishPaused", "publishResumed"}
  /\ running' = TRUE /\ paused' = FALSE /\ generation' = 0 /\ pending' = {}
  /\ failed' = FALSE /\ lastError' = FALSE /\ cleanupFailed' = FALSE /\ loop' = 1
  /\ pc' = "loop" /\ idx' = 1 /\ snap' = 0 /\ stopped' = FALSE
  /\ runs' = runs + 1 /\ completed' = 0 /\ reached' = {} /\ halted' = FALSE /\ operatorStop' = FALSE
  /\ UNCHANGED <<lock, cpc, rpc, device, status, outcome>>

\* stop, up to the two halt writes it makes under the lock.
StopBegin(c) ==
  /\ cpc[c] = "idle" /\ lock = "free"
  /\ lock' = c /\ running' = FALSE /\ paused' = FALSE /\ operatorStop' = TRUE
  /\ cpc' = [cpc EXCEPT ![c] = "stopHalt"]
  /\ UNCHANGED <<generation, pending, failed, lastError, cleanupFailed, loop, worker, rpc, device,
                 status, runs, completed, reached, halted, outcome>>

\* Mutant: the result of the second write replaces that of the first and earlier ones.
LastWriteDecides(pidOk, stopOk) ==
  /\ cleanupFailed' = ~pidOk
  /\ moving' = IF stopOk THEN {} ELSE moving

\* The PID stop and the motor stop are both attempted; each may fail.
HaltWrites(pidOk, stopOk) ==
  /\ cleanupFailed' = (cleanupFailed \/ ~pidOk \/ ~stopOk)
  /\ moving' = IF stopOk THEN {} ELSE moving

StopHalt(c) ==
  /\ cpc[c] = "stopHalt"
  /\ \E pidOk, stopOk \in BOOLEAN : HaltWrites(pidOk, stopOk) /\ halted' = stopOk
  /\ lock' = "free" /\ cpc' = [cpc EXCEPT ![c] = "joining"]
  /\ UNCHANGED <<running, paused, generation, pending, failed, lastError, loop, worker, rpc,
                 replies, status, runs, completed, reached, operatorStop, outcome>>

\* join(timeout=2.0): the caller goes on whether or not the worker has ended.
StopReturn(c) ==
  /\ cpc[c] = "joining" /\ cpc' = [cpc EXCEPT ![c] = "idle"]
  /\ UNCHANGED <<engine, worker, rpc, device, status, history>>

PauseBegin(c) ==
  /\ cpc[c] = "idle" /\ lock = "free" /\ running /\ Alive /\ generation < MaxPauses
  /\ lock' = c /\ paused' = TRUE /\ generation' = generation + 1
  /\ cpc' = [cpc EXCEPT ![c] = "pauseHalt"]
  /\ UNCHANGED <<running, pending, failed, lastError, cleanupFailed, loop, worker, rpc, device,
                 status, history>>

\* halt_func is stop_all_pumps; a halt that fails leaves the run paused all the same.
PauseHalt(c) ==
  /\ cpc[c] = "pauseHalt"
  /\ \E ok \in BOOLEAN : halted' = ok /\ moving' = IF ok THEN {} ELSE moving
  /\ lock' = "free" /\ cpc' = [cpc EXCEPT ![c] = "publishPaused"]
  /\ UNCHANGED <<running, paused, generation, pending, failed, lastError, cleanupFailed, loop,
                 worker, rpc, replies, status, runs, completed, reached, operatorStop, outcome>>

\* The pump node resumes a run that is alive, running and paused.
Resume(c) ==
  /\ cpc[c] = "idle" /\ lock = "free" /\ running /\ Alive /\ paused /\ Settled
  /\ paused' = FALSE /\ halted' = FALSE /\ cpc' = [cpc EXCEPT ![c] = "publishResumed"]
  /\ UNCHANGED <<running, lock, generation, pending, failed, lastError, cleanupFailed, loop,
                 worker, rpc, device, status, runs, completed, reached, operatorStop, outcome>>

\* pause and resume publish after they have released the lock.
CallerPublish(c) ==
  /\ \/ cpc[c] = "publishPaused" /\ status' = "paused"
     \/ cpc[c] = "publishResumed" /\ status' = "running"
  /\ cpc' = [cpc EXCEPT ![c] = "idle"]
  /\ UNCHANGED <<engine, worker, rpc, device, history>>

\* A caller under way: it is the operator who decides whether one sets out.
GoesOn(c) == StopHalt(c) \/ StopReturn(c) \/ PauseHalt(c) \/ CallerPublish(c)

Caller(c) ==
  StopBegin(c) \/ StopHalt(c) \/ StopReturn(c) \/ PauseBegin(c) \/ PauseHalt(c) \/ Resume(c)
    \/ CallerPublish(c)

(***************************************************************************)
(* The worker.                                                             *)
(***************************************************************************)
At(place) == pc = place /\ (ErrorAtomic => rpc = "idle")
Goto(place) == pc' = place

\* _handle_error on the worker's own thread: nothing it decides can come between.
HandleError == failed' = TRUE /\ lastError' = TRUE /\ running' = FALSE

Ended == ~running \/ failed

ShouldContinue == LoopCount = 0 \/ loop <= LoopCount

\* _run_loop's while and the head of _execute_loop.
LoopHead ==
  /\ At("loop")
  /\ IF ~Ended /\ ShouldContinue
       THEN Goto("step") /\ idx' = 1
       ELSE Goto("cleanup") /\ UNCHANGED idx
  /\ UNCHANGED <<engine, snap, stopped, cpc, rpc, device, status, history>>

\* The tests before and at the head of the retry loop: go on, or return False.
StepHead ==
  /\ At("step")
  /\ Goto(IF Ended THEN "return" ELSE "unpaused")
  /\ UNCHANGED <<engine, idx, snap, stopped, cpc, rpc, device, status, history>>

\* _wait_if_paused and the test after it.
WaitIfPaused ==
  /\ At("unpaused") /\ (~paused \/ ~running)
  /\ Goto(IF Ended THEN "return" ELSE "snapshot")
  /\ UNCHANGED <<engine, idx, snap, stopped, cpc, rpc, device, status, history>>

\* _pause_generation_snapshot, and the motors to wait for, set before the command goes out.
Snapshot ==
  /\ At("snapshot") /\ lock = "free"
  /\ snap' = generation
  /\ pending' = IF PidMode THEN Active(idx) ELSE pending
  /\ Goto("send")
  /\ UNCHANGED <<running, paused, lock, generation, failed, lastError, cleanupFailed, loop, idx,
                 stopped, cpc, rpc, device, status, history>>

\* Mutant: the pause is tested before the lock is taken, not under it.
SendBeginUntested ==
  /\ At("send") /\ running /\ lock = "free"
  /\ Goto("write") /\ lock' = "worker"
  /\ UNCHANGED <<running, paused, generation, pending, failed, lastError, cleanupFailed, loop, idx,
                 snap, stopped, cpc, rpc, device, status, history>>

\* _send_step_command up to the tests run_while_active makes under the lock.
\* A hook may also refuse the step before it gets there.
SendBegin ==
  /\ At("send")
  /\ \/ ~running /\ Goto("resend") /\ UNCHANGED lock
     \/ StepHook /\ Goto("resend") /\ UNCHANGED lock
     \/ /\ running /\ lock = "free"
        /\ IF paused THEN Goto("sendFailed") /\ UNCHANGED lock
                     ELSE Goto("write") /\ lock' = "worker"
  /\ UNCHANGED <<running, paused, generation, pending, failed, lastError, cleanupFailed, loop, idx,
                 snap, stopped, cpc, rpc, device, status, history>>

\* The command is written, or the write fails, and the lock is given back.
Write ==
  /\ At("write")
  /\ \/ /\ Goto("sent") /\ moving' = moving \cup Active(idx)
        /\ reached' = reached \ Active(idx)
     \/ Goto("sendFailed") /\ UNCHANGED <<moving, reached>>
  /\ lock' = "free"
  /\ UNCHANGED <<running, paused, generation, pending, failed, lastError, cleanupFailed, loop, idx,
                 snap, stopped, cpc, rpc, replies, status, runs, completed, halted, operatorStop, outcome>>

\* A send that failed for another reason than a pause is an error, unless a hook made it.
SendFailed ==
  /\ At("sendFailed") /\ Goto("resend")
  /\ IF StepHook \/ (paused /\ running) THEN UNCHANGED <<failed, lastError, running>>
                                        ELSE HandleError
  /\ UNCHANGED <<paused, lock, generation, pending, cleanupFailed, loop, idx, snap, stopped, cpc,
                 rpc, device, status, history>>

PausedSince == generation # snap

\* After a send or a wait that failed: replay the step if a pause was the cause.
Resend ==
  /\ At("resend") /\ (running => lock = "free")
  /\ Goto(IF running /\ PausedSince THEN "step" ELSE "return")
  /\ UNCHANGED <<engine, idx, snap, stopped, cpc, rpc, device, status, history>>

\* After a send that succeeded: a pause since the snapshot has halted the motion.
Sent ==
  /\ At("sent") /\ lock = "free"
  /\ Goto(IF PausedSince THEN "step" ELSE "pidWait")
  /\ UNCHANGED <<engine, idx, snap, stopped, cpc, rpc, device, status, history>>

\* Mutant: the wait does not look at _running.
PidWaitDeaf ==
  /\ At("pidWait") /\ (pending = {} \/ ~PidMode \/ paused)
  /\ Goto(IF running /\ (pending = {} \/ ~PidMode) THEN "stepWait" ELSE "resend")
  /\ UNCHANGED <<engine, idx, snap, stopped, cpc, rpc, device, status, history>>

\* _wait_for_pid_complete.  Its loop wakes every 0.1 s, so the event it also
\* waits for changes when it looks, not what it sees.
PidWaitEnds ==
  /\ At("pidWait") /\ (pending = {} \/ ~PidMode \/ ~running \/ paused)
  /\ Goto(IF running /\ (pending = {} \/ ~PidMode) THEN "stepWait" ELSE "resend")
  /\ UNCHANGED <<engine, idx, snap, stopped, cpc, rpc, device, status, history>>

\* Mutant: the wait for the motors has no limit.
NoPidTimeout == FALSE /\ UNCHANGED vars

PidWaitTimeout ==
  /\ At("pidWait") /\ PidMode /\ pending # {} /\ running /\ ~paused
  /\ HandleError /\ Goto("resend")
  /\ UNCHANGED <<paused, lock, generation, pending, cleanupFailed, loop, idx, snap, stopped, cpc,
                 rpc, device, status, history>>

\* on_step_wait, where the node waits for a fresh sample: it may find none.
StepWait ==
  /\ At("stepWait")
  /\ \/ running /\ Goto("waited")
     \/ (~running \/ StepHook) /\ Goto("resend")
  /\ UNCHANGED <<engine, idx, snap, stopped, cpc, rpc, device, status, history>>

Waited ==
  /\ At("waited") /\ lock = "free"
  /\ Goto(IF PausedSince THEN "step" ELSE "complete")
  /\ UNCHANGED <<engine, idx, snap, stopped, cpc, rpc, device, status, history>>

\* The test after the retry loop, and on_step_complete.
CompleteStep ==
  /\ At("complete")
  /\ IF Ended THEN Goto("return") /\ UNCHANGED completed
              ELSE Goto("interval") /\ completed' = completed + 1
  /\ UNCHANGED <<engine, idx, snap, stopped, cpc, rpc, device, status, runs, reached, halted,
                 operatorStop, outcome>>

\* Mutant: the loop over the steps goes one too far.
IntervalEndsLate ==
  /\ At("interval") /\ (~paused \/ ~running)
  /\ \/ Ended /\ Goto("return") /\ UNCHANGED <<idx, loop>>
     \/ ~Ended /\ idx <= Len(Steps) /\ Goto("step") /\ idx' = idx + 1 /\ UNCHANGED loop
  /\ UNCHANGED <<running, paused, lock, generation, pending, failed, lastError, cleanupFailed, snap,
                 stopped, cpc, rpc, device, status, history>>

\* _wait_interval: a pause lengthens it, the end of the run cuts it short.
IntervalEnds ==
  /\ At("interval") /\ (~paused \/ ~running)
  /\ \/ Ended /\ Goto("return") /\ UNCHANGED <<idx, loop>>
     \/ ~Ended /\ idx < Len(Steps) /\ Goto("step") /\ idx' = idx + 1 /\ UNCHANGED loop
     \/ ~Ended /\ idx = Len(Steps) /\ Goto("loop") /\ loop' = loop + 1 /\ UNCHANGED idx
  /\ UNCHANGED <<running, paused, lock, generation, pending, failed, lastError, cleanupFailed, snap,
                 stopped, cpc, rpc, device, status, history>>

\* _execute_loop returned False.
ReturnFalse ==
  /\ At("return") /\ Goto("cleanup") /\ running' = FALSE
  /\ UNCHANGED <<paused, lock, generation, pending, failed, lastError, cleanupFailed, loop, idx, snap,
                 stopped, cpc, rpc, device, status, history>>

\* _cleanup's halt writes, made without the lock.
CleanupHalt ==
  /\ At("cleanup") /\ Goto("finish")
  /\ \E pidOk, stopOk \in BOOLEAN : HaltWrites(pidOk, stopOk)
  /\ UNCHANGED <<running, paused, lock, generation, pending, failed, lastError, loop, idx, snap,
                 stopped, cpc, rpc, replies, status, history>>

\* Mutant: _running is cleared before it is looked at.
CleanupForgetsStop ==
  /\ At("finish") /\ lock = "free" /\ Goto("report")
  /\ stopped' = FALSE /\ running' = FALSE /\ paused' = FALSE
  /\ UNCHANGED <<lock, generation, pending, failed, lastError, cleanupFailed, loop, idx, snap, cpc,
                 rpc, device, status, history>>

CleanupFinish ==
  /\ At("finish") /\ lock = "free" /\ Goto("report")
  /\ stopped' = ~running /\ running' = FALSE /\ paused' = FALSE
  /\ UNCHANGED <<lock, generation, pending, failed, lastError, cleanupFailed, loop, idx, snap, cpc,
                 rpc, device, status, history>>

\* The terminal status, on_finished, and the end of the thread.
Report ==
  /\ At("report") /\ Goto("dead")
  /\ status' = IF failed /\ lastError THEN "failed" ELSE IF stopped THEN "stopped" ELSE "finished"
  /\ outcome' = status'
  /\ UNCHANGED <<engine, idx, snap, stopped, cpc, rpc, device, runs, completed, reached, halted,
                 operatorStop>>

Worker ==
  LoopHead \/ StepHead \/ WaitIfPaused \/ Snapshot \/ SendBegin \/ Write \/ SendFailed \/ Resend
    \/ Sent \/ PidWaitEnds \/ PidWaitTimeout \/ StepWait \/ Waited \/ CompleteStep \/ IntervalEnds
    \/ ReturnFalse \/ CleanupHalt \/ CleanupFinish \/ Report

(***************************************************************************)
(* The firmware and the serial reader.                                     *)
(***************************************************************************)
Replies == [kind : {"done", "fail"}, motor : Motors]

\* A motor reaches its target, and says so in PID mode.
MotorDone(m) ==
  /\ m \in moving /\ moving' = moving \ {m} /\ reached' = reached \cup {m}
  /\ replies' = IF PidMode THEN Append(replies, [kind |-> "done", motor |-> m]) ELSE replies
  /\ UNCHANGED <<engine, worker, cpc, rpc, status, runs, completed, halted, operatorStop, outcome>>

MotorFail(m) ==
  /\ PidMode /\ m \in moving /\ moving' = moving \ {m}
  /\ replies' = Append(replies, [kind |-> "fail", motor |-> m])
  /\ UNCHANGED <<engine, worker, cpc, rpc, status, history>>

\* notify_pid_complete: a reply for a motor nobody waits for is dropped.
NotifyPidComplete ==
  /\ rpc = "idle" /\ replies # <<>> /\ Head(replies).kind = "done"
  /\ pending' = pending \ {Head(replies).motor} /\ replies' = Tail(replies)
  /\ UNCHANGED <<running, paused, lock, generation, failed, lastError, cleanupFailed, loop, worker,
                 cpc, rpc, moving, status, history>>

\* Mutant: a failure reply ends the wait for its motor and nothing else.
PidFailedAsDone ==
  /\ rpc = "idle" /\ replies # <<>> /\ Head(replies).kind = "fail"
  /\ pending' = pending \ {Head(replies).motor} /\ replies' = Tail(replies)
  /\ UNCHANGED <<running, paused, lock, generation, failed, lastError, cleanupFailed, loop, worker,
                 cpc, rpc, moving, status, history>>

\* notify_pid_failed, up to its first assignment in _handle_error.
NotifyPidFailed ==
  /\ rpc = "idle" /\ replies # <<>> /\ Head(replies).kind = "fail" /\ replies' = Tail(replies)
  /\ IF running /\ Head(replies).motor \in pending
       THEN pending' = pending \ {Head(replies).motor} /\ failed' = TRUE /\ rpc' = "failed"
       ELSE UNCHANGED <<pending, failed, rpc>>
  /\ UNCHANGED <<running, paused, lock, generation, lastError, cleanupFailed, loop, worker, cpc,
                 moving, status, history>>

\* notify_failure: the node reports a fault of the line, the sensor or its owner.
NotifyFailure ==
  /\ rpc = "idle" /\ running /\ ~failed
  /\ failed' = TRUE /\ rpc' = "failed"
  /\ UNCHANGED <<running, paused, lock, generation, pending, lastError, cleanupFailed, loop, worker,
                 cpc, device, status, history>>

\* The rest of _handle_error: the worker may run between its assignments.
HandleErrorStep ==
  /\ \/ rpc = "failed" /\ rpc' = "recorded" /\ lastError' = TRUE /\ UNCHANGED running
     \/ rpc = "recorded" /\ rpc' = "idle" /\ running' = FALSE /\ UNCHANGED lastError
  /\ UNCHANGED <<paused, lock, generation, pending, failed, cleanupFailed, loop, worker, cpc, device,
                 status, history>>

Reader == NotifyPidComplete \/ NotifyPidFailed \/ HandleErrorStep

Next ==
  \/ Start \/ Worker \/ Reader \/ NotifyFailure
  \/ \E c \in Callers : Caller(c)
  \/ \E m \in Motors : MotorDone(m) \/ MotorFail(m)

Spec == Init /\ [][Next]_vars

(***************************************************************************)
(* Properties.                                                             *)
(***************************************************************************)
Places == {"dead", "loop", "step", "unpaused", "snapshot", "send", "write", "sendFailed", "resend",
           "sent", "pidWait", "stepWait", "waited", "complete", "interval", "return", "cleanup",
           "finish", "report"}
CallerPlaces == {"idle", "stopHalt", "joining", "pauseHalt", "publishPaused", "publishResumed"}
Terminal == {"finished", "stopped", "failed"}

\* Every variable has its type.
TypeOK ==
  /\ {running, paused, failed, lastError, cleanupFailed, stopped, halted, operatorStop} \subseteq BOOLEAN
  /\ lock \in Callers \cup {"free", "worker"}
  /\ generation \in Nat /\ snap \in Nat /\ loop \in Nat /\ runs \in Nat /\ completed \in Nat
  /\ pending \subseteq Motors /\ moving \subseteq Motors /\ reached \subseteq Motors
  /\ pc \in Places /\ idx \in 1..Len(Steps)
  /\ cpc \in [Callers -> CallerPlaces] /\ rpc \in {"idle", "failed", "recorded"}
  /\ replies \in Seq(Replies)
  /\ status \in Terminal \cup {"none", "paused", "running"} /\ outcome \in Terminal \cup {"none"}

\* Once a stop or a pause has written its halt, nothing moves until the run is
\* resumed or started anew: run_while_active tests _paused and _running under
\* the lock that stop and pause hold while they halt.
HaltHolds == halted => moving = {}

\* A worker that has gone through _cleanup leaves nothing moving unless it has
\* said that a halt write failed.
EndedMeansHalted == pc \in {"finish", "report", "dead"} /\ ~cleanupFailed => moving = {}

\* on_step_complete is called only after every motor of the step has reached
\* the target of the command sent last: a pause replays the step it broke.
StepsReallyDone ==
  [][PidMode /\ completed' = completed + 1 => Active(idx) \subseteq reached]_vars

\* The retry loop gives up on its own only after a stop, an error or a failed
\* send; a pause is not a reason to end the run.
OnlyStopOrErrorEnds == [][pc = "return" /\ pc' = "cleanup" => Ended]_vars

\* A run in which an error was reported does not end as a success.
FailureNotFinished == pc = "dead" /\ outcome = "finished" => ~failed

\* Somebody keeps the run paused, and nobody has stopped it.
IsHeld == paused /\ ~operatorStop

\* The engine keeps the promise of AutomationRun.
Run == INSTANCE AutomationRun WITH active <- Alive, done <- completed, held <- halted,
                                   output <- moving # {}
RunPromise == Run!Spec
===============================================================================
