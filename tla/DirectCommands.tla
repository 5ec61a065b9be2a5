--------------------------- MODULE DirectCommands ---------------------------
(***************************************************************************)
(* What moves the pumps besides a sampling run, in pump_control_node.py:   *)
(* an operator's raw commands and single steps, the manual mode, and the   *)
(* calibration with its own thread.  They share the serial line with a run *)
(* and with the stops.  A request captures what may cancel it, waits for   *)
(* _control_lock, is judged, and writes; a stop waits for none of this.    *)
(***************************************************************************)
EXTENDS Integers, FiniteSets

CONSTANTS
  Requests, Mixes,  \* what is asked for, and of which kinds it may be
  Moves,            \* how many commands a calibration sends
  Nobody

Kinds == {"raw", "step", "manual_step", "manual_on", "manual_off", "calibrate", "start", "stop", "trouble"}

MixesAssumption == Mixes \subseteq [Requests -> Kinds] /\ Nobody \notin Requests

VARIABLES
  kind,                 \* of each request
  at, issued, token,    \* where it is, the cutoffs at its issue and at its _action_scope
  lock,                 \* who holds _control_lock
  cutoff, stops,        \* how often _action_cancel was replaced, _stop_requests
  manual, fault,        \* manual_mode_enabled, _controller_fault
  run,                  \* the sampling run: idle, active or ending; and its token
  calibration,          \* _calibration: active, outcome, commands sent, its token
  ending,               \* whether the watcher of the calibration has to stop the pumps
  wrote                 \* the last move written, and what was so then (history)

requestVars == <<kind, at, issued, token>>
stopVars == <<cutoff, stops>>
vars == <<requestVars, lock, stopVars, manual, fault, run, calibration, ending, wrote>>

Services == {"manual_step", "manual_on", "manual_off", "calibrate", "start"}
NoCalibration == [active |-> FALSE, outcome |-> "none", sent |-> 0, token |-> 0]

Init ==
  /\ kind \in Mixes /\ at = [r \in Requests |-> "new"] /\ issued = [r \in Requests |-> 0] /\ token = issued
  /\ lock = Nobody /\ cutoff = 0 /\ stops = 0 /\ manual \in BOOLEAN /\ fault = FALSE
  /\ run = [phase |-> "idle", token |-> 0] /\ calibration = NoCalibration /\ ending = FALSE /\ wrote = <<>>

Becomes(r, p) == at' = [at EXCEPT ![r] = p]
IsActive == run.phase # "idle"
Cancelled(t) == t < cutoff

-----------------------------------------------------------------------------
(* send_command: whoever asks, the line is judged under serial_lock.  (A   *)
(* bug to look for: what was judged under the control lock is enough.)     *)

Trusted(t, own) == TRUE
MayWrite(t, own) == ~Cancelled(t) /\ stops = 0 /\ (calibration.active => own)

Wrote(by, t) ==
  wrote' = <<[by |-> by, token |-> t, cutoff |-> cutoff, stops |-> stops, run |-> run.phase,
              calibration |-> calibration.active]>>

-----------------------------------------------------------------------------
(* Requests.  A service knows when it was issued; topics do not.           *)

Issue(r) ==
  /\ at[r] = "new" /\ kind[r] \in Services /\ Becomes(r, "issued") /\ issued' = [issued EXCEPT ![r] = cutoff]
  /\ UNCHANGED <<kind, token, lock, stopVars, manual, fault, run, calibration, ending, wrote>>

(* _execute_control_action looks at the time before it waits.              *)
Scope(r) ==
  /\ IF kind[r] \in Services THEN at[r] = "issued" /\ issued[r] = cutoff
     ELSE at[r] = "new" /\ kind[r] \in {"raw", "step"}
  /\ Becomes(r, "scoped") /\ token' = [token EXCEPT ![r] = cutoff]
  /\ UNCHANGED <<kind, issued, lock, stopVars, manual, fault, run, calibration, ending, wrote>>

Outdated(r) ==
  /\ at[r] = "issued" /\ issued[r] # cutoff /\ Becomes(r, "rejected")
  /\ UNCHANGED <<kind, issued, token, lock, stopVars, manual, fault, run, calibration, ending, wrote>>

(* The checks of _execute_control_action, _step_callback and               *)
(* _raw_command_locked, which leaves the rest to send_command.  (Bugs to   *)
(* look for: the manual mode does not keep a calibration out.)             *)
StillWanted(r) == ~Cancelled(token[r]) /\ stops = 0
Admits(r) ==
  /\ kind[r] # "raw" => StillWanted(r)
  /\ kind[r] \in Services => ~calibration.active /\ issued[r] = cutoff
  /\ ~fault

CalibratesAnyway == ~IsActive
MayCalibrate == ~IsActive /\ ~manual

Allowed(r) ==
  CASE kind[r] = "calibrate" -> MayCalibrate
    [] kind[r] = "manual_step" -> manual /\ ~IsActive
    [] kind[r] = "manual_on" -> ~IsActive /\ ~calibration.active
    [] kind[r] = "start" -> ~manual /\ ~IsActive
    [] kind[r] \in {"raw", "step"} -> ~IsActive
    [] OTHER -> TRUE

Enter(r) ==
  /\ at[r] = "scoped" /\ lock = Nobody
  /\ IF Admits(r) /\ Allowed(r) THEN Becomes(r, "judged") /\ lock' = r ELSE Becomes(r, "rejected") /\ UNCHANGED lock
  /\ UNCHANGED <<kind, issued, token, stopVars, manual, fault, run, calibration, ending, wrote>>

Ends(r) == Becomes(r, "done") /\ lock' = Nobody

WriteDirect(r) ==
  /\ at[r] = "judged" /\ kind[r] \in {"raw", "step", "manual_step"} /\ Ends(r)
  /\ IF MayWrite(token[r], FALSE) THEN Wrote("operator", token[r]) ELSE UNCHANGED wrote
  /\ UNCHANGED <<kind, issued, token, stopVars, manual, fault, run, calibration, ending>>

SetManual(r) ==
  /\ at[r] = "judged" /\ kind[r] \in {"manual_on", "manual_off"} /\ Ends(r)
  /\ manual' = (kind[r] = "manual_on")
  /\ UNCHANGED <<kind, issued, token, stopVars, fault, run, calibration, ending, wrote>>

(* The run takes the event of this moment; so does the calibration.        *)
StartRun(r) ==
  /\ at[r] = "judged" /\ kind[r] = "start" /\ Ends(r)
  /\ run' = IF StillWanted(r) THEN [phase |-> "active", token |-> cutoff] ELSE run
  /\ UNCHANGED <<kind, issued, token, stopVars, manual, fault, calibration, ending, wrote>>

StartCalibration(r) ==
  /\ at[r] = "judged" /\ kind[r] = "calibrate" /\ Ends(r)
  /\ calibration' = [active |-> TRUE, outcome |-> "none", sent |-> 0, token |-> cutoff]
  /\ UNCHANGED <<kind, issued, token, stopVars, manual, fault, run, ending, wrote>>

-----------------------------------------------------------------------------
(* _run_calibration and _check_calibration.                                *)

CheckActive == calibration.active /\ ~Cancelled(calibration.token) /\ stops = 0 /\ ~fault
Ended(outcome) == calibration' = [calibration EXCEPT !.active = FALSE, !.outcome = outcome]

CalibrationSends ==
  /\ lock = Nobody /\ CheckActive /\ calibration.sent < Moves
  /\ calibration' = [calibration EXCEPT !.sent = @ + 1]
  /\ IF MayWrite(calibration.token, TRUE) THEN Wrote("calibration", calibration.token) ELSE UNCHANGED wrote
  /\ UNCHANGED <<requestVars, lock, stopVars, manual, fault, run, ending>>

(* (A bug to look for: the last confirmation counts although it was        *)
(* stopped.)                                                               *)
DoneAnyway == calibration.sent = Moves
MayComplete == CheckActive /\ calibration.sent = Moves

CalibrationCompletes ==
  /\ lock = Nobody /\ MayComplete /\ Ended("succeeded")
  /\ UNCHANGED <<requestVars, lock, stopVars, manual, fault, run, ending, wrote>>

(* A failure, or the watcher's deadline, which needs no control lock.      *)
CalibrationFails ==
  /\ calibration.active /\ Ended("failed") /\ fault' = TRUE /\ ending' = TRUE
  /\ UNCHANGED <<requestVars, lock, stopVars, manual, run, wrote>>

(* The run's own writes, and its end.                                      *)
RunWrites ==
  /\ run.phase = "active" /\ ~fault /\ MayWrite(run.token, FALSE) /\ Wrote("run", run.token)
  /\ UNCHANGED <<requestVars, lock, stopVars, manual, fault, run, calibration, ending>>

RunEnds ==
  /\ run.phase # "idle" /\ run' = [run EXCEPT !.phase = "idle"]
  /\ UNCHANGED <<requestVars, lock, stopVars, manual, fault, calibration, ending, wrote>>

-----------------------------------------------------------------------------
(* _request_output_stop under serial_lock, the rest under the control lock.*)
Halts ==
  /\ cutoff' = cutoff + 1 /\ stops' = stops + 1
  /\ calibration' = IF calibration.active THEN [calibration EXCEPT !.active = FALSE, !.outcome = "cancelled"]
                    ELSE calibration
  /\ run' = IF run.phase = "active" THEN [run EXCEPT !.phase = "ending"] ELSE run

RequestStop(r) ==
  /\ at[r] = "new" /\ kind[r] = "stop" /\ Halts /\ Becomes(r, "halting")
  /\ UNCHANGED <<kind, issued, token, lock, manual, fault, ending, wrote>>

WatcherStops ==
  /\ ending /\ Halts /\ ending' = FALSE /\ stops' = stops + 1
  /\ UNCHANGED <<requestVars, lock, manual, fault, wrote>>

(* A confirmed stop releases what it was the fault of.                     *)
FinishStop(r) ==
  /\ at[r] = "halting" /\ lock = Nobody /\ run.phase # "active"
  /\ Becomes(r, "done") /\ stops' = stops - 1 /\ fault' \in {FALSE, fault}
  /\ UNCHANGED <<kind, issued, token, lock, cutoff, manual, run, calibration, ending, wrote>>

FinishWatcher ==
  /\ lock = Nobody /\ stops > Cardinality({r \in Requests : at[r] = "halting"}) /\ stops' = stops - 1
  /\ UNCHANGED <<requestVars, lock, cutoff, manual, fault, run, calibration, ending, wrote>>

(* The serial line fails: _latch_serial_fault.                             *)
Trouble(r) ==
  /\ at[r] = "new" /\ kind[r] = "trouble" /\ Becomes(r, "done") /\ fault' = TRUE /\ cutoff' = cutoff + 1
  /\ calibration' = IF calibration.active THEN [calibration EXCEPT !.active = FALSE, !.outcome = "failed"]
                    ELSE calibration
  /\ run' = IF run.phase = "active" THEN [run EXCEPT !.phase = "ending"] ELSE run
  /\ UNCHANGED <<kind, issued, token, lock, stops, manual, ending, wrote>>

Next ==
  \/ \E r \in Requests :
       \/ Issue(r) \/ Scope(r) \/ Outdated(r) \/ Enter(r) \/ WriteDirect(r) \/ SetManual(r)
       \/ StartRun(r) \/ StartCalibration(r) \/ RequestStop(r) \/ FinishStop(r) \/ Trouble(r)
  \/ CalibrationSends \/ CalibrationCompletes \/ CalibrationFails \/ RunWrites \/ RunEnds
  \/ WatcherStops \/ FinishWatcher

Spec == Init /\ [][Next]_vars

-----------------------------------------------------------------------------
(* One mover at a time: the manual mode, a run and a calibration exclude   *)
(* each other, and what is written is the one's that has the pumps.        *)
OneMover ==
  /\ ~(manual /\ IsActive) /\ ~(manual /\ calibration.active) /\ ~(IsActive /\ calibration.active)
  /\ wrote # <<>> =>
       LET w == wrote[1] IN
       CASE w.by = "operator" -> w.run = "idle" /\ ~w.calibration
         [] w.by = "calibration" -> w.run = "idle"
         [] OTHER -> ~w.calibration

(* What was admitted before a stop is not written after it, however long   *)
(* it waited for the lock in between.                                      *)
NothingOutlivesAStop == wrote # <<>> => wrote[1].token = wrote[1].cutoff /\ wrote[1].stops = 0

(* A calibration has one outcome, and success is none of one that was      *)
(* stopped, failed or not finished.                                        *)
KeepsOutcome ==
  calibration.outcome # calibration'.outcome =>
    /\ calibration'.outcome # "none" => calibration.active
    /\ calibration'.outcome = "succeeded" =>
         calibration.sent = Moves /\ calibration.token = cutoff /\ stops = 0 /\ ~fault
=============================================================================
