------------------------------ MODULE PumpControl ------------------------------
(***************************************************************************)
(* The control side of the pump node (pump_control_node.py): concurrent    *)
(* requests to start a prepared automation, to stop everything, to clean   *)
(* up after one attempt, to switch off the injection pump or the detector, *)
(* the loss of the serial connection, and the two threads a started        *)
(* attempt runs in, the preparation and the engine's worker.               *)
(*                                                                         *)
(* Ordinary requests are serialised by _control_lock. Stops act before     *)
(* they wait for it: under serial_lock, which every write takes, they      *)
(* cancel what was admitted so far and write the first halt. A step below  *)
(* is what happens between two points at which another thread can come in. *)
(***************************************************************************)
EXTENDS Naturals, FiniteSets

CONSTANTS
  Requests,  \* the requests that arrive; a start is identified with its attempt
  Kind,      \* what each of them asks for
  Target,    \* the attempt that a cleanup names
  Nobody

Kinds == {"start", "stop", "cleanup", "injection_off", "detector_stop", "disconnect"}

ASSUME KindAssumption == Kind \in [Requests -> Kinds]

Attempts == {r \in Requests : Kind[r] = "start"}

ASSUME TargetAssumption ==
  /\ Target \in [Requests -> Attempts \cup {Nobody}]
  /\ \A r \in Requests : Kind[r] = "cleanup" => Target[r] # Nobody
ASSUME NobodyAssumption == Nobody \notin Requests

VARIABLES
  at,         \* where each request is
  issued,     \* the cutoffs that a start had behind it when it was issued
  token,      \* and those it had behind it when it captured its cancel event
  cutoff,     \* how many cutoffs there were: each replaces _action_cancel
  since,      \* the cutoffs before a stop's own (history)
  answer,     \* how a request was answered
  stops,      \* _stop_requests
  stopping,   \* _stop_in_progress
  cancelled,  \* _cancelled_attempts
  lock,       \* who holds _control_lock: a request, or the attempt preparing
  owner,      \* the attempt in sampling_context
  fault,      \* _controller_fault
  link,       \* whether the serial connection works
  reason,     \* _terminal_reason
  finalized,  \* _terminal_finalized
  prep,       \* the current preparation: its state and its cancelled event
  preparer,   \* the attempt whose preparation thread is alive
  running,    \* automation_engine._running
  worker,     \* the attempt whose engine thread is alive
  doing,      \* what the two threads are doing
  outcome,    \* how the engine's worker ended
  runToken,   \* _automation_cancel
  output,     \* the attempt whose movement the outputs carry out
  records     \* the terminal reasons recorded for each attempt (history)

requests == <<at, issued, token, since, answer>>
halting  == <<cutoff, stops, stopping>>
verdict  == <<reason, finalized, records>>
threads  == <<prep, preparer, running, worker, doing, outcome, runToken>>
trouble  == <<fault, link>>
vars == <<requests, halting, cancelled, lock, owner, trouble, verdict, threads, output>>

Stages  == {"new", "issued", "checked", "scoped", "locked", "cleared", "loaded", "verified",
            "asked_active", "asked_idle", "requested", "stopping", "finishing", "answered"}
Answers == {"none", "ok", "failed", "rejected", "not_owned", "superseded"}
Reasons == {"completed", "operator_stop", "not_ready", "serial_disconnected",
            "cleanup_failed", "failed", "unknown_error"}
NoReason == "none"

TypeOK ==
  /\ at \in [Requests -> Stages]
  /\ issued \in [Requests -> Nat] /\ token \in [Requests -> Nat] /\ since \in [Requests -> Nat]
  /\ answer \in [Requests -> Answers]
  /\ cutoff \in Nat /\ stops \in Nat /\ stopping \in BOOLEAN
  /\ cancelled \subseteq Attempts
  /\ lock \in Requests \cup {Nobody}
  /\ owner \in Attempts \cup {Nobody}
  /\ fault \in {"none", "cleanup_failed", "disconnected"} /\ link \in BOOLEAN
  /\ reason \in Reasons \cup {NoReason} /\ finalized \in BOOLEAN
  /\ prep \in [active : BOOLEAN, cancelled : BOOLEAN]
  /\ preparer \in Attempts \cup {Nobody} /\ worker \in Attempts \cup {Nobody}
  /\ running \in BOOLEAN
  /\ doing \in [preparer : {"nothing", "preparing", "handing", "failing"},
                worker : {"nothing", "working", "reporting"}]
  /\ outcome \in {"none", "finished", "failed", "stopped"}
  /\ runToken \in Nat
  /\ output \in Attempts \cup {Nobody}
  /\ records \in [Attempts -> SUBSET (Reasons \cup {NoReason})]

Init ==
  /\ at = [r \in Requests |-> "new"]
  /\ issued = [r \in Requests |-> 0] /\ token = issued /\ since = issued
  /\ answer = [r \in Requests |-> "none"]
  /\ cutoff = 0 /\ stops = 0 /\ stopping = FALSE
  /\ cancelled = {} /\ lock = Nobody /\ owner = Nobody /\ fault = "none" /\ link = TRUE
  /\ reason = NoReason /\ finalized = FALSE
  /\ prep = [active |-> FALSE, cancelled |-> FALSE]
  /\ preparer = Nobody /\ running = FALSE /\ worker = Nobody
  /\ doing = [preparer |-> "nothing", worker |-> "nothing"]
  /\ outcome = "none" /\ runToken = 0
  /\ output = Nobody
  /\ records = [a \in Attempts |-> {}]

-----------------------------------------------------------------------------
(* Helpers.                                                                *)

(* A captured cancel event is set by the first cutoff after the capture.   *)
TokenSet(t) == t < cutoff

IsActiveByFlag == prep.active \/ running

(* _automation_is_active: a thread that is still in its last callback      *)
(* counts, so that no new attempt is loaded under it.                      *)
IsActive == preparer # Nobody \/ prep.active \/ running \/ worker # Nobody

Move(r, stage) == at' = [at EXCEPT ![r] = stage]

Reply(r, a) ==
  /\ at' = [at EXCEPT ![r] = "answered"]
  /\ answer' = [answer EXCEPT ![r] = a]

(* _set_terminal_reason: the first cause stays.                            *)
FirstReason(cause) ==
  IF finalized \/ reason # NoReason THEN reason ELSE cause

RecordOutsideStops(cause) ==
  IF stopping THEN UNCHANGED verdict
  ELSE /\ finalized' = TRUE
       /\ reason' = FirstReason(cause)
       /\ records' = IF finalized \/ owner = Nobody THEN records
                     ELSE [records EXCEPT ![owner] = records[owner] \cup {FirstReason(cause)}]

(* _log_automation_terminal: the first one closes the attempt's record.    *)
Record(cause) ==
  /\ finalized' = TRUE
  /\ reason' = FirstReason(cause)
  /\ records' = IF finalized \/ owner = Nobody THEN records
                ELSE [records EXCEPT ![owner] = records[owner] \cup {FirstReason(cause)}]

(* A halt that is written reaches the board while it is connected.         *)
Halted == IF link THEN Nobody ELSE output

-----------------------------------------------------------------------------
(* A start. Its client stamps it, possibly long before it arrives here.    *)

Issue(r) ==
  /\ at[r] = "new" /\ Kind[r] = "start"
  /\ issued' = [issued EXCEPT ![r] = cutoff]
  /\ Move(r, "issued")
  /\ UNCHANGED <<token, since, answer, halting, cancelled, lock, owner, trouble, verdict,
                 threads, output>>

(* The first look at the cutoff, before any lock.                          *)
Arrive(r) ==
  /\ at[r] = "issued"
  /\ IF issued[r] = cutoff THEN Move(r, "checked") /\ answer' = answer
                           ELSE Reply(r, "rejected")
  /\ UNCHANGED <<issued, token, since, halting, cancelled, lock, owner, trouble, verdict,
                 threads, output>>

(* _action_scope captures the event before it waits for the control lock.  *)
Scope(r) ==
  /\ at[r] = "checked"
  /\ token' = [token EXCEPT ![r] = cutoff]
  /\ Move(r, "scoped")
  /\ UNCHANGED <<issued, since, answer, halting, cancelled, lock, owner, trouble, verdict,
                 threads, output>>

Enter(r) ==
  /\ at[r] = "scoped" /\ lock = Nobody
  /\ lock' = r
  /\ Move(r, "locked")
  /\ UNCHANGED <<issued, token, since, answer, halting, cancelled, owner, trouble, verdict,
                 threads, output>>

MayClearByToken(r) ==
  ~TokenSet(token[r]) /\ stops = 0 /\ fault = "none" /\ r \notin cancelled /\ ~IsActive

MayClear(r) ==
  /\ ~TokenSet(token[r]) /\ stops = 0 /\ issued[r] = cutoff
  /\ fault = "none" /\ r \notin cancelled /\ ~IsActive

Clear(r) ==
  /\ at[r] = "locked" /\ MayClear(r)
  /\ Move(r, "cleared")
  /\ UNCHANGED <<issued, token, since, answer, halting, cancelled, lock, owner, trouble,
                 verdict, threads, output>>

(* The configuration is loaded and the context replaced, whatever stopped  *)
(* since it was cleared.                                                   *)
Load(r) ==
  /\ at[r] = "cleared"
  /\ owner' = r
  /\ reason' = NoReason /\ finalized' = FALSE
  /\ prep' = [active |-> FALSE, cancelled |-> FALSE]
  /\ Move(r, "loaded")
  /\ UNCHANGED <<issued, token, since, answer, halting, cancelled, lock, trouble, records,
                 preparer, running, worker, doing, outcome, runToken, output>>

MayStart(r) == ~TokenSet(token[r]) /\ stops = 0 /\ fault = "none" /\ ~IsActive

Verify(r) ==
  /\ at[r] = "loaded" /\ MayStart(r)
  /\ reason' = NoReason /\ finalized' = FALSE
  /\ Move(r, "verified")
  /\ UNCHANGED <<issued, token, since, answer, halting, cancelled, lock, owner, trouble,
                 records, threads, output>>

RejectKeepsLock(r) ==
  /\ \/ at[r] = "locked"
     \/ at[r] = "loaded" /\ ~MayStart(r)
  /\ Reply(r, "rejected")
  /\ UNCHANGED <<issued, token, since, halting, cancelled, lock, owner, trouble, verdict,
                 threads, output>>

(* Cancelled, faulty, busy, or a configuration that is not valid.          *)
Reject(r) ==
  /\ \/ at[r] = "locked"
     \/ at[r] = "loaded" /\ ~MayStart(r)
  /\ Reply(r, "rejected")
  /\ lock' = Nobody
  /\ UNCHANGED <<issued, token, since, halting, cancelled, owner, trouble, verdict, threads,
                 output>>

(* No fresh measurement.                                                   *)
RejectUnready(r) ==
  /\ at[r] = "loaded" /\ MayStart(r)
  /\ reason' = "not_ready" /\ finalized' = FALSE
  /\ Reply(r, "rejected")
  /\ lock' = Nobody
  /\ UNCHANGED <<issued, token, since, halting, cancelled, owner, trouble, records, threads,
                 output>>

(* The run takes the event that is current now, not the one that the       *)
(* request captured.                                                       *)
Launch(r) ==
  /\ at[r] = "verified"
  /\ runToken' = cutoff
  /\ prep' = [active |-> TRUE, cancelled |-> FALSE]
  /\ preparer' = r
  /\ doing' = [doing EXCEPT !.preparer = "preparing"]
  /\ Reply(r, "ok")
  /\ lock' = Nobody
  /\ UNCHANGED <<issued, token, since, halting, cancelled, owner, trouble, verdict, running,
                 worker, outcome, output>>

-----------------------------------------------------------------------------
(* The requests that stop something.                                       *)

(* _request_output_stop in one critical section of serial_lock: what was   *)
(* admitted so far is cancelled, and the first halt written.               *)
Cut(r, halted) ==
  /\ reason' = FirstReason("operator_stop")
  /\ stops' = stops + 1 /\ stopping' = TRUE
  /\ cutoff' = cutoff + 1
  /\ since' = [since EXCEPT ![r] = cutoff + 1]
  /\ running' = FALSE
  /\ prep' = [prep EXCEPT !.cancelled = TRUE]
  /\ output' = halted
  /\ UNCHANGED <<issued, token, lock, owner, trouble, finalized, records, preparer, worker,
                 doing, outcome, runToken>>

RequestStop(r) ==
  /\ at[r] = "new" /\ Kind[r] = "stop"
  /\ Cut(r, Halted)
  /\ Move(r, "requested")
  /\ UNCHANGED <<answer, cancelled>>

RequestCleanupOfAny(r) ==
  /\ at[r] = "new" /\ Kind[r] = "cleanup"
  /\ cancelled' = cancelled \cup {Target[r]}
  /\ Cut(r, Halted)
  /\ Move(r, "requested")
  /\ UNCHANGED answer

(* The owner is compared and the first halt written in one section.        *)
RequestCleanup(r) ==
  /\ at[r] = "new" /\ Kind[r] = "cleanup" /\ owner = Target[r]
  /\ cancelled' = cancelled \cup {Target[r]}
  /\ Cut(r, Halted)
  /\ Move(r, "requested")
  /\ UNCHANGED answer

(* A cleanup of an attempt that does not own the outputs only notes that   *)
(* the attempt is cancelled.                                               *)
NoteCleanup(r) ==
  /\ at[r] = "new" /\ Kind[r] = "cleanup" /\ owner # Target[r]
  /\ cancelled' = cancelled \cup {Target[r]}
  /\ Reply(r, IF owner = Nobody THEN "not_owned" ELSE "superseded")
  /\ UNCHANGED <<issued, token, since, halting, lock, owner, trouble, verdict, threads, output>>

(* The two narrower stops first look, without a lock, whether an           *)
(* automation is active.                                                   *)
Ask(r) ==
  /\ at[r] = "new" /\ Kind[r] \in {"injection_off", "detector_stop"}
  /\ Move(r, IF IsActive THEN "asked_active" ELSE "asked_idle")
  /\ UNCHANGED <<issued, token, since, answer, halting, cancelled, lock, owner, trouble,
                 verdict, threads, output>>

RequestWhole(r) ==
  /\ at[r] = "asked_active"
  /\ Cut(r, Halted)
  /\ Move(r, "requested")
  /\ UNCHANGED <<answer, cancelled>>

(* PUMP:OFF or ADSSTOP: everything is cancelled, the movement not halted.  *)
RequestPart(r) ==
  /\ at[r] = "asked_idle"
  /\ Cut(r, output)
  /\ Move(r, "finishing")
  /\ UNCHANGED <<answer, cancelled>>

(* _finish_output_stop of a part. The detector's stop is awaited under the *)
(* control lock, the injection pump's is not.                              *)
FinishPart(r) ==
  /\ at[r] = "finishing"
  /\ Kind[r] = "detector_stop" => lock = Nobody
  /\ stops' = stops - 1 /\ stopping' = (stops > 1)
  /\ \E a \in {"ok", "failed"} : Reply(r, a)
  /\ UNCHANGED <<issued, token, since, cutoff, cancelled, lock, owner, trouble, verdict,
                 threads, output>>

(* _latch_serial_fault: the reader, a write or the keepalive failed.       *)
Disconnect(r) ==
  /\ at[r] = "new" /\ Kind[r] = "disconnect" /\ link
  /\ link' = FALSE
  /\ fault' = IF fault = "none" THEN "disconnected" ELSE fault
  /\ cutoff' = cutoff + 1
  /\ since' = [since EXCEPT ![r] = cutoff + 1]
  /\ reason' = IF IsActive THEN FirstReason("serial_disconnected") ELSE reason
  /\ Move(r, "requested")
  /\ UNCHANGED <<issued, token, answer, stops, stopping, cancelled, lock, owner, finalized,
                 records, threads, output>>

-----------------------------------------------------------------------------
(* The stop itself, under the control lock (_auto_stop_locked).            *)

StopBeginKeepsPrep(r) ==
  /\ at[r] = "requested" /\ lock = Nobody
  /\ Kind[r] = "cleanup" => owner = Target[r]
  /\ lock' = r
  /\ prep' = prep
  /\ reason' = FirstReason("operator_stop")
  /\ stopping' = TRUE
  /\ running' = FALSE
  /\ output' = IF running \/ worker # Nobody THEN Halted ELSE output
  /\ Move(r, "stopping")
  /\ UNCHANGED <<issued, token, since, answer, cutoff, stops, cancelled, owner, trouble,
                 finalized, records, preparer, worker, doing, outcome, runToken>>

(* The preparation and the engine are told to stop. A cleanup finds out    *)
(* whether its attempt still owns the outputs.                             *)
StopBegin(r) ==
  /\ at[r] = "requested" /\ lock = Nobody
  /\ Kind[r] = "cleanup" => owner = Target[r]
  /\ lock' = r
  /\ prep' = IF prep.active THEN [active |-> FALSE, cancelled |-> TRUE] ELSE prep
  /\ reason' = FirstReason("operator_stop")
  /\ stopping' = TRUE
  /\ running' = FALSE
  /\ output' = IF running \/ worker # Nobody THEN Halted ELSE output
  /\ Move(r, "stopping")
  /\ UNCHANGED <<issued, token, since, answer, cutoff, stops, cancelled, owner, trouble,
                 finalized, records, preparer, worker, doing, outcome, runToken>>

SkipCleanup(r) ==
  /\ at[r] = "requested" /\ lock = Nobody
  /\ Kind[r] = "cleanup" /\ owner # Target[r]
  /\ Reply(r, "superseded")
  /\ stops' = stops - 1 /\ stopping' = (stops > 1)
  /\ UNCHANGED <<issued, token, since, cutoff, cancelled, lock, owner, trouble, verdict,
                 threads, output>>

(* The stops that ask the board to confirm.                                *)
Confirms(r) == Kind[r] \in {"stop", "cleanup", "detector_stop"}

RemainingStopsAlways(r) == stops - 1

(* The reader's own stop after a lost connection asked for nothing first.  *)
RemainingStops(r) == IF Kind[r] = "disconnect" THEN stops ELSE stops - 1

(* The engine's worker was given two seconds, so it may still be alive.    *)
(* Everything is halted, a missing confirmation is a fault, a confirmation *)
(* releases that fault, and the attempt is closed.                         *)
StopEnd(r) ==
  /\ at[r] = "stopping"
  /\ \E quiet \in {TRUE, FALSE} :
       /\ quiet => link
       /\ ~quiet => Confirms(r) \/ ~link
       /\ fault' = IF ~quiet /\ fault = "none" THEN "cleanup_failed"
                   ELSE IF quiet /\ Confirms(r) /\ fault = "cleanup_failed" THEN "none"
                   ELSE fault
       /\ Reply(r, IF quiet /\ (Kind[r] = "cleanup" => fault' = "none") THEN "ok" ELSE "failed")
  /\ output' = Halted
  /\ Record("operator_stop")
  /\ stops' = RemainingStops(r) /\ stopping' = (RemainingStops(r) > 0)
  /\ lock' = Nobody
  /\ UNCHANGED <<issued, token, since, cutoff, cancelled, owner, link, threads>>

-----------------------------------------------------------------------------
(* The preparation's thread, _run_preflight.                               *)

(* _check_preflight_active. The preparation of a stopped attempt ends      *)
(* without a word: whoever stopped it says what became of it.              *)
Wanted ==
  /\ ~prep.cancelled /\ ~TokenSet(runToken) /\ stops = 0
  /\ preparer = owner

PrepareUnchecked ==
  /\ doing.preparer = "preparing" /\ lock = Nobody
  /\ fault = "none"
  /\ output' = preparer
  /\ UNCHANGED <<requests, halting, cancelled, lock, owner, trouble, verdict, threads>>

(* A command of the preparation, under both locks.                         *)
Prepare ==
  /\ doing.preparer = "preparing" /\ lock = Nobody
  /\ Wanted /\ fault = "none"
  /\ output' = preparer
  /\ UNCHANGED <<requests, halting, cancelled, lock, owner, trouble, verdict, threads>>

AbandonPreparation ==
  /\ doing.preparer = "preparing" /\ ~Wanted
  /\ preparer' = Nobody
  /\ doing' = [doing EXCEPT !.preparer = "nothing"]
  /\ UNCHANGED <<requests, halting, cancelled, lock, owner, trouble, verdict, prep, running,
                 worker, outcome, runToken, output>>

(* A phase failed or timed out, a fault, a lost heartbeat.                 *)
PreparationRaises ==
  /\ doing.preparer = "preparing"
  /\ doing' = [doing EXCEPT !.preparer = "failing"]
  /\ UNCHANGED <<requests, halting, cancelled, lock, owner, trouble, verdict, prep, preparer,
                 running, worker, outcome, runToken, output>>

(* _fail_preflight, silent if the attempt was stopped meanwhile.           *)
FailPreparation ==
  /\ doing.preparer = "failing" /\ lock = Nobody
  /\ IF prep.cancelled \/ finalized
     THEN UNCHANGED <<prep, verdict, output>>
     ELSE /\ prep' = [prep EXCEPT !.active = FALSE]
          /\ IF stopping
             THEN /\ reason' = FirstReason("failed")
                  /\ UNCHANGED <<finalized, records, output>>
             ELSE Record("failed") /\ output' = Halted
  /\ preparer' = Nobody
  /\ doing' = [doing EXCEPT !.preparer = "nothing"]
  /\ UNCHANGED <<requests, halting, cancelled, lock, owner, trouble, running, worker, outcome,
                 runToken>>

(* The preparation is over: the last check and the start of the engine,    *)
(* both under the control lock, and a stop may come in between.            *)
BeginHandOver ==
  /\ doing.preparer = "preparing" /\ lock = Nobody
  /\ Wanted /\ fault = "none"
  /\ lock' = preparer
  /\ doing' = [doing EXCEPT !.preparer = "handing"]
  /\ UNCHANGED <<requests, halting, cancelled, owner, trouble, verdict, prep, preparer, running,
                 worker, outcome, runToken, output>>

EndHandOver ==
  /\ doing.preparer = "handing"
  /\ prep' = [prep EXCEPT !.active = FALSE]
  /\ running' = TRUE /\ worker' = preparer /\ preparer' = Nobody
  /\ doing' = [preparer |-> "nothing", worker |-> "working"]
  /\ outcome' = "none"
  /\ lock' = Nobody
  /\ UNCHANGED <<requests, halting, cancelled, owner, trouble, verdict, runToken, output>>

-----------------------------------------------------------------------------
(* The engine's worker. Its steps have a module of their own: here it      *)
(* moves something, ends, and reports.                                     *)

(* send_command refuses everything but a halt to a cancelled run.          *)
Work ==
  /\ doing.worker = "working" /\ running /\ link
  /\ ~TokenSet(runToken) /\ stops = 0
  /\ output' = worker
  /\ UNCHANGED <<requests, halting, cancelled, lock, owner, trouble, verdict, threads>>

(* _on_automation_status: while a stop is under way, or once the attempt   *)
(* is closed, the stop speaks for the worker.                              *)
WorkerEnds ==
  /\ doing.worker = "working"
  /\ running' = FALSE
  /\ outcome' \in IF running THEN {"finished", "failed"} ELSE {"stopped", "failed"}
  /\ IF stopping \/ finalized
     THEN worker' = Nobody /\ doing' = [doing EXCEPT !.worker = "nothing"]
     ELSE worker' = worker /\ doing' = [doing EXCEPT !.worker = "reporting"]
  /\ UNCHANGED <<requests, halting, cancelled, lock, owner, trouble, verdict, prep, preparer,
                 runToken, output>>

WorkerReports ==
  /\ doing.worker = "reporting"
  /\ output' = Halted
  /\ Record(CASE ~link -> "cleanup_failed"
              [] link /\ outcome = "finished" -> "completed"
              [] link /\ outcome = "failed" -> "unknown_error"
              [] OTHER -> "operator_stop")
  /\ worker' = Nobody
  /\ doing' = [doing EXCEPT !.worker = "nothing"]
  /\ UNCHANGED <<requests, halting, cancelled, lock, owner, trouble, prep, preparer, running,
                 outcome, runToken>>

-----------------------------------------------------------------------------
Start(r) ==
  \/ Arrive(r) \/ Scope(r) \/ Enter(r) \/ Clear(r) \/ Load(r) \/ Verify(r)
  \/ Reject(r) \/ RejectUnready(r) \/ Launch(r)

Stop(r) ==
  \/ RequestWhole(r) \/ RequestPart(r) \/ FinishPart(r)
  \/ StopBegin(r) \/ SkipCleanup(r) \/ StopEnd(r)

Next ==
  \/ \E r \in Requests :
       \/ Issue(r) \/ Arrive(r) \/ Scope(r) \/ Enter(r) \/ Clear(r) \/ Load(r)
       \/ Verify(r) \/ Reject(r) \/ RejectUnready(r) \/ Launch(r)
       \/ RequestStop(r) \/ RequestCleanup(r) \/ NoteCleanup(r) \/ Ask(r)
       \/ RequestWhole(r) \/ RequestPart(r) \/ FinishPart(r) \/ Disconnect(r)
       \/ StopBegin(r) \/ SkipCleanup(r) \/ StopEnd(r)
  \/ Prepare \/ AbandonPreparation \/ PreparationRaises \/ FailPreparation
  \/ BeginHandOver \/ EndHandOver
  \/ Work \/ WorkerEnds \/ WorkerReports

Spec == Init /\ [][Next]_vars

(* The threads run. The control lock is not fair, but it is free for long  *)
(* between the few that want it: whoever finds it free again and again     *)
(* gets it. A preparation ends, its phases have timeouts, and so does an   *)
(* engine with a loop count.                                               *)
Preparing == AbandonPreparation \/ FailPreparation \/ BeginHandOver \/ EndHandOver
Working   == WorkerEnds \/ WorkerReports

FairSpec ==
  /\ Spec
  /\ \A r \in Requests : SF_vars(Start(r) \/ Stop(r))
  /\ SF_vars(Preparing) /\ WF_vars(Working)

-----------------------------------------------------------------------------
Alive(a) == preparer = a \/ worker = a

(* A stop or a cleanup that was answered with success leaves nothing       *)
(* moving that was asked for before it, and nothing of that starts moving  *)
(* later: not the start that waited for the lock, not the one that was     *)
(* already past its checks, not the worker that outlived its two seconds.  *)
StoppedStaysQuiet ==
  \A s \in Requests, a \in Attempts :
    /\ Kind[s] \in {"stop", "cleanup"} /\ at[s] = "answered" /\ answer[s] = "ok"
    /\ at[a] # "new" /\ issued[a] < since[s]
    => output # a /\ ~(running /\ worker = a)

(* No write moves anything for an attempt that was issued before the       *)
(* latest cutoff ("Invalidate ordinary work", _request_output_stop).       *)
OutdatedNeverDrives ==
  [][output' # output /\ output' # Nobody => issued[output'] = cutoff]_vars

(* The context is that of the attempt whose threads are alive, until the   *)
(* last callback of the last of them has returned: a new attempt is never  *)
(* loaded under them (_automation_is_active, "Do not relabel those         *)
(* callbacks by loading the next transaction").                            *)
ContextOfThreads ==
  /\ preparer # Nobody => owner = preparer
  /\ worker # Nobody => owner = worker
  /\ preparer = Nobody \/ worker = Nobody

(* Every attempt is closed at most once, and with a reason, although a     *)
(* stop, a failing preparation and a worker that ends all try.             *)
ClosedOnce ==
  \A a \in Attempts : Cardinality(records[a]) <= 1 /\ NoReason \notin records[a]

(* A cleanup halts the outputs, and cancels work, only while they are those*)
(* of its own attempt: other owners are left alone (README.md:671).        *)
CleanupSparesOthers ==
  [][\A c \in Requests :
       Kind[c] = "cleanup" /\ at[c] = "new" /\ at'[c] = "requested"
         => /\ output \in {Target[c], Nobody}
            /\ \A a \in Attempts : Alive(a) => a = Target[c]]_vars

(* A preparation that ended without a word was stopped by someone who still*)
(* has to stop it under the control lock ("The synchronous STOP path owns  *)
(* cleanup and terminal status", _run_preflight).                          *)
StopOwnsAbandoned ==
  prep.active /\ preparer = Nobody
    => \E r \in Requests : at[r] = "requested" /\ Kind[r] # "start"

(* Every request is answered: no one waits for a lock, or for an engine    *)
(* that waits for the lock, for ever.                                      *)
AllAnswered == \A r \in Requests : at[r] \in {"new", "answered"}

(* Every start that was accepted is closed one day.                        *)
AllClosed == \A a \in Attempts : at[a] = "answered" /\ answer[a] = "ok" => records[a] # {}
================================================================================
