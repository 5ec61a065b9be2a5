---------------------------- MODULE Spectrometer ----------------------------
(***************************************************************************)
(* The spectrometer behind the serial line: pump_control_node.py's text    *)
(* transactions with the detector board, the start of a measurement with   *)
(* its retries, stops that cancel it, the frames, and the check of their   *)
(* freshness.  One client at a time holds _control_lock; the reader of the *)
(* line, stop requests and the main loop do not wait for it.               *)
(*                                                                         *)
(* The board executes text commands in the order in which they are         *)
(* written.  A reply, and a command, may get lost or be late.  What the    *)
(* serial connection itself goes through is BoardSession's subject: here a *)
(* reconnection is one step that leaves an empty line and a quiet board.   *)
(***************************************************************************)
EXTENDS Naturals, Sequences, SequencesExt

CONSTANTS
  Requests,    \* the clients' requests
  Mixes,       \* the sets of requests that are made in one behaviour
  Kind,        \* what each one asks for
  Setting,     \* the mapping, or the configuration, that it brings along
  Attempts,    \* SPECTRO_INIT_ATTEMPTS
  MaxTrouble,  \* bound: lost, late and refused commands
  MaxFrames,   \* bound: frames
  MaxTasks     \* bound: automation runs

Kinds == {"start", "restore", "map", "configure", "query", "stop"}

RequestKinds ==
  /\ Mixes \subseteq SUBSET Requests /\ Kind \in [Requests -> Kinds] /\ Setting \in [Requests -> Nat]
  /\ Attempts \in Nat \ {0}

VARIABLES
  pc,       \* where a request is, and whether a stop has cancelled it
  lock,     \* the request that holds _control_lock, or 0
  attempt,  \* _spectro_txn_attempt
  down,     \* commands on their way to the board
  up,       \* replies and frames on their way back
  txn,      \* _text_txn: the command whose answer is awaited
  sync,     \* _spectro_reply_sync_required and _failed
  wanted,   \* the mapping and the configuration that the node asks for
  config,   \* _spectro_config_state and _spectro_i2c_verified
  meter,    \* what the node believes of the measurement
  task,     \* the automation run that measures
  seen,     \* the main loop's observation of a stale measurement
  board,    \* the board
  trouble   \* what went wrong so far

vars == <<pc, lock, attempt, down, up, txn, sync, wanted, config, meter, task, seen, board, trouble>>
lineVars == <<down, up, board, trouble>>
clientVars == <<pc, lock, attempt, wanted, config>>

NoTxn == [kind |-> "none", answer |-> <<>>, cancelled |-> FALSE]
NoSight == [taken |-> FALSE, due |-> FALSE, ack |-> 0, last |-> 0, state |-> "idle", task |-> <<>>]
Resting == {"absent", "idle", "done", "confirmed", "failed"}
Stops == {r \in Requests : Kind[r] = "stop"}
StopRequested == \E r \in Stops : pc[r].at \notin Resting
Trouble == trouble < MaxTrouble /\ trouble' = trouble + 1

Init ==
  /\ \E mix \in Mixes : pc = [r \in Requests |-> [at |-> IF r \in mix THEN "idle" ELSE "absent", cancelled |-> FALSE]]
  /\ lock = 0 /\ attempt = 1 /\ down = <<>> /\ up = <<>> /\ txn = NoTxn /\ sync = "fine"
  /\ wanted = [map |-> 0, cfg |-> 0]
  /\ config = [state |-> "ready", verified |-> TRUE]
  /\ meter = [state |-> "idle", ads |-> 0, ack |-> 0, last |-> 0, from |-> 0, age |-> 0]
  /\ task = [id |-> 0, used |-> 0, end |-> "none", fault |-> FALSE] /\ seen = NoSight
  /\ board = [map |-> 0, cfg |-> 0, on |-> FALSE, starts |-> 0, frames |-> 0] /\ trouble = 0

-----------------------------------------------------------------------------
(* The board and the line.                                                 *)

Tag(kind) == IF kind \in {"map", "mapquery"} THEN "I2CMAP" ELSE kind
Reply(c, ok) == [tag |-> Tag(c.kind), ok |-> ok, own |-> c.own,
                 value |-> IF Tag(c.kind) = "I2CMAP" THEN board'.map ELSE board'.cfg,
                 start |-> board'.starts]
Done(c) ==
  [board EXCEPT !.map = IF c.kind = "map" THEN c.value ELSE @, !.cfg = IF c.kind = "cfg" THEN c.value ELSE @,
                !.on = IF c.kind \in {"start", "stop"} THEN c.kind = "start" ELSE @,
                !.starts = IF c.kind = "start" THEN @ + 1 ELSE @]

Execute ==
  /\ down # <<>> /\ down' = Tail(down)
  /\ LET c == Head(down)
     IN \/ board' = Done(c) /\ up' = Append(up, Reply(c, TRUE)) /\ UNCHANGED trouble
        \/ UNCHANGED board /\ up' = Append(up, Reply(c, FALSE)) /\ Trouble     \* ..._ERR:I2C
        \/ board' \in {Done(c), board} /\ UNCHANGED up /\ Trouble               \* lost
  /\ UNCHANGED <<clientVars, txn, sync, meter, task, seen>>

Frame ==
  /\ board.on /\ board.frames < MaxFrames
  /\ board' = [board EXCEPT !.frames = @ + 1]
  /\ \E valid \in BOOLEAN :
       up' = Append(up, [tag |-> "frame", ok |-> valid, own |-> FALSE, value |-> board'.frames, start |-> board.starts])
  /\ UNCHANGED <<clientVars, down, txn, sync, meter, task, seen, trouble>>

-----------------------------------------------------------------------------
(* The reader: _on_text_received and _receive_current_spectro.             *)

ErrorOf(tag) == IF tag = "I2CMAP" THEN "I2CMAP_ERR" ELSE "ADS_ERR"
Matches(m) ==
  /\ txn.kind # "none" /\ txn.answer = <<>> /\ ~txn.cancelled
  /\ IF m.ok THEN m.tag = Tag(txn.kind) ELSE ErrorOf(m.tag) = ErrorOf(Tag(txn.kind))

(* A frame that came before the acknowledgement is not one of the new      *)
(* session.  (A bug to look for: it counts.)                               *)
AcknowledgedAt(m) == [meter EXCEPT !.state = "starting", !.ads = 2, !.ack = m.start, !.age = 0]
Acknowledged(m) == [meter EXCEPT !.state = "starting", !.ads = 2, !.ack = m.start, !.age = 0, !.last = 0, !.from = 0]
Stopped == [meter EXCEPT !.state = "stopped", !.ads = 1, !.ack = 0, !.last = 0, !.from = 0]

Phase == IF lock = 0 THEN "none" ELSE pc[lock].at

TakeText(m) ==
  /\ txn' = IF Matches(m) THEN [txn EXCEPT !.answer = <<m>>] ELSE txn
  /\ meter' = IF Matches(m) /\ m.ok /\ m.tag = "start" THEN Acknowledged(m)
              ELSE IF Matches(m) /\ m.ok /\ m.tag = "stop" THEN Stopped
              ELSE IF ~m.ok /\ ErrorOf(m.tag) = "ADS_ERR" /\ Phase \notin {"cfg", "retry"}
              THEN [meter EXCEPT !.state = "error"] ELSE meter
  /\ UNCHANGED task

TakeFrame(m) ==
  /\ UNCHANGED txn
  /\ \/ /\ m.ok
        /\ LET measuring == meter.ack # 0 /\ meter.ads \in {2, 3, 4}
           IN meter' = [meter EXCEPT !.last = m.value, !.from = m.start, !.age = 0,
                          !.state = IF measuring THEN "acquiring" ELSE @, !.ads = IF measuring THEN 3 ELSE @]
        /\ UNCHANGED task
     \/ /\ ~m.ok
        /\ meter' = [meter EXCEPT !.state = "i2c_error", !.ads = IF task.id # 0 THEN 4 ELSE @]
        /\ task' = IF task.id # 0 THEN [task EXCEPT !.id = 0, !.end = "error", !.fault = TRUE] ELSE task

Read ==
  /\ up # <<>> /\ up' = Tail(up)
  /\ IF Head(up).tag = "frame" THEN TakeFrame(Head(up)) ELSE TakeText(Head(up))
  /\ UNCHANGED <<clientVars, down, sync, seen, board, trouble>>

-----------------------------------------------------------------------------
(* One transaction: _send_and_wait_text_locked.                            *)

Outcomes == {"ok", "error", "timeout", "cancelled"}

Disown(list) == [i \in DOMAIN list |-> [list[i] EXCEPT !.own = FALSE]]
Command(kind, value, own) == [kind |-> kind, value |-> value, own |-> own]

Go(r, where) == pc' = [pc EXCEPT ![r].at = where]

Send(kind, value) ==
  /\ txn' = [NoTxn EXCEPT !.kind = kind]
  /\ down' = Append(down, Command(kind, value, TRUE))

(* What an unanswered command leaves behind.  Only stops may be sent again *)
(* without asking for the barrier.  (A bug to look for: no barrier at all  *)
(* after a time-out.)                                                      *)
OverdueKeeps(kind) == sync
Overdue(kind) ==
  CASE kind = "status" -> "failed" [] kind = "stop" -> sync [] OTHER -> IF sync = "failed" THEN sync ELSE "required"

Leave == txn' = NoTxn /\ down' = Disown(down) /\ up' = Disown(up)

(* Nobody answers a command that got lost; another answer is late.         *)
OnTheWay == \E m \in Range(down) \cup Range(up) \cup Range(txn.answer) : m.own
Late == IF OnTheWay THEN Trouble ELSE UNCHANGED trouble

(* A transaction's outcome.                                                *)
Ends(outcome) ==
  \/ /\ txn.answer # <<>> /\ txn.cancelled /\ outcome = "cancelled"
     /\ Leave /\ UNCHANGED <<sync, trouble>>
  \/ /\ txn.answer # <<>> /\ ~txn.cancelled
     /\ outcome = IF txn.answer[1].ok THEN "ok" ELSE "error"
     /\ Leave /\ UNCHANGED <<sync, trouble>>
  \/ /\ txn.answer = <<>> /\ txn.cancelled /\ outcome = "cancelled"
     /\ Leave /\ sync' = (IF sync = "failed" THEN sync ELSE "required") /\ UNCHANGED trouble
  \/ /\ ~txn.cancelled /\ outcome = "timeout"      \* no answer, or a late one
     /\ Leave /\ sync' = Overdue(txn.kind) /\ Late

(* The barrier: a reply of its own kind drains what is late.               *)
Setters == {"map", "cfg", "start", "mapquery"}
Synchronized(outcome) ==
  /\ CASE outcome = "ok" -> txn.answer # <<>> /\ txn.answer[1].ok /\ ~txn.cancelled
       [] outcome = "error" -> txn.answer # <<>> /\ ~txn.answer[1].ok /\ ~txn.cancelled
       [] outcome = "cancelled" -> txn.cancelled
       [] outcome = "timeout" -> ~txn.cancelled
  /\ sync' = (IF outcome = "ok" THEN "fine" ELSE "failed")
  /\ IF outcome = "timeout" THEN Late ELSE UNCHANGED trouble
  /\ Leave

EndBarrier(r) ==
  /\ lock = r /\ txn.kind = "status" /\ pc[r].at \in Setters \cup {"stop"}
  /\ \E outcome \in Outcomes : Synchronized(outcome)
  /\ UNCHANGED <<clientVars, meter, task, seen, board>>

Ready(r, kind) == pc[r].at = kind /\ lock = r /\ txn = NoTxn

BeginBarrier(r) ==
  /\ \E kind \in Setters \cup {"stop"} : Ready(r, kind)
  /\ sync = "required" /\ ~pc[r].cancelled
  /\ Send("status", 0)
  /\ UNCHANGED <<clientVars, up, sync, meter, task, seen, board, trouble>>

(* The write itself looks once more at the stop.                           *)
Sends(r, kind, value) ==
  /\ Ready(r, kind) /\ sync = "fine" /\ ~pc[r].cancelled /\ ~StopRequested
  /\ Send(kind, value)

-----------------------------------------------------------------------------
(* Clients.                                                                *)

Ask(r) ==
  /\ pc[r].at = "idle" /\ Kind[r] \notin {"stop", "restore"}
  /\ pc' = [pc EXCEPT ![r] = [at |-> "asked", cancelled |-> FALSE]]
  /\ UNCHANGED <<lock, attempt, wanted, config, down, up, txn, sync, meter, task, seen, board, trouble>>

First(r) == CASE Kind[r] \in {"start", "restore", "map"} -> "map"
              [] Kind[r] = "configure" -> "cfg" [] Kind[r] = "query" -> "status"

Refused(r) == Kind[r] # "query" /\ (pc[r].cancelled \/ StopRequested \/ task.fault \/ task.id # 0)
Wants(r) ==
  CASE Kind[r] = "start" -> [map |-> Setting[r], cfg |-> Setting[r]]
    [] Kind[r] = "map" -> [wanted EXCEPT !.map = Setting[r]]
    [] Kind[r] = "configure" -> [wanted EXCEPT !.cfg = Setting[r]]
    [] OTHER -> wanted

Enter(r) ==
  /\ pc[r].at = "asked" /\ lock = 0
  /\ IF Refused(r) THEN Go(r, "failed") /\ UNCHANGED <<lock, attempt, wanted>>
     ELSE Go(r, First(r)) /\ lock' = r /\ attempt' = 1 /\ wanted' = Wants(r)
  /\ meter' = IF lock' = r /\ Kind[r] = "start" THEN [meter EXCEPT !.ack = 0] ELSE meter
  /\ UNCHANGED <<config, down, up, txn, sync, task, seen, board, trouble>>

Finish(r, how) == Go(r, how) /\ lock' = 0

(* A setter that could not be sent, or was not confirmed.                  *)
Retryable(r) == Kind[r] \in {"start", "restore"} /\ attempt < Attempts
Unsent(r) ==
  /\ \E kind \in Setters : Ready(r, kind) /\ (pc[r].cancelled \/ StopRequested \/ sync = "failed")
  /\ Finish(r, "failed")
  /\ \/ pc[r].at \notin {"map", "cfg"} /\ UNCHANGED config
     \/ \E state \in {"failed"} \cup (IF pc[r].cancelled THEN {"disconnected"} ELSE {}) :
          pc[r].at \in {"map", "cfg"} /\ config' = [state |-> state, verified |-> config.verified /\ pc[r].at = "cfg"]
  /\ IF pc[r].at = "start"
     THEN /\ meter' = [meter EXCEPT !.state = "error", !.ads = 2, !.last = 0, !.from = 0, !.ack = 0]
          /\ down' = Append(down, Command("stop", 0, FALSE))
     ELSE UNCHANGED <<meter, down>>
  /\ UNCHANGED <<attempt, wanted, up, txn, sync, task, seen, board, trouble>>

(* _apply_i2c_mapping.  (A bug to look for: what was verified before       *)
(* stands while the mapping is set anew.)                                  *)
UnverifiedLater == config
Unverified == [state |-> "mapping", verified |-> FALSE]
BeginMap(r) ==
  /\ Sends(r, "map", wanted.map) /\ config' = Unverified
  /\ UNCHANGED <<pc, lock, attempt, wanted, up, sync, meter, task, seen, board, trouble>>

Fails(r, outcome) ==
  IF outcome \in {"error", "timeout"} /\ Retryable(r) THEN Go(r, "retry") /\ UNCHANGED lock ELSE Finish(r, "failed")

EndMap(r) ==
  /\ pc[r].at = "map" /\ txn.kind = "map"
  /\ \E outcome \in Outcomes :
       /\ Ends(outcome)
       /\ IF outcome = "ok" /\ txn.answer[1].value = wanted.map
          THEN /\ config' = [state |-> "mapped", verified |-> TRUE]
               /\ IF Kind[r] # "map" THEN Go(r, "cfg") /\ UNCHANGED lock ELSE Finish(r, "done")
          ELSE config' = [config EXCEPT !.state = "failed"] /\ Fails(r, outcome)
  /\ UNCHANGED <<attempt, wanted, meter, task, seen, board>>

BeginCfg(r) ==
  /\ Sends(r, "cfg", wanted.cfg) /\ config' = [config EXCEPT !.state = "configuring"]
  /\ UNCHANGED <<pc, lock, attempt, wanted, up, sync, meter, task, seen, board, trouble>>

EndCfg(r) ==
  /\ pc[r].at = "cfg" /\ txn.kind = "cfg"
  /\ \E outcome \in Outcomes :
       /\ Ends(outcome)
       /\ IF outcome = "ok" /\ txn.answer[1].value = wanted.cfg
          THEN /\ config' = [config EXCEPT !.state = IF config.verified THEN "ready" ELSE "ads_configured"]
               /\ IF Kind[r] = "start" THEN Go(r, "start") /\ UNCHANGED lock ELSE Finish(r, "done")
          ELSE config' = [config EXCEPT !.state = "failed"] /\ Fails(r, outcome)
  /\ UNCHANGED <<attempt, wanted, meter, task, seen, board>>

(* _start_configured_spectrometer.                                         *)
BeginStart(r) ==
  /\ Sends(r, "start", 0)
  /\ meter' = [meter EXCEPT !.ads = 2, !.ack = 0, !.last = 0, !.from = 0]
  /\ UNCHANGED <<clientVars, up, sync, task, seen, board, trouble>>

EndStart(r) ==
  /\ pc[r].at = "start" /\ txn.kind = "start"
  /\ \E outcome \in Outcomes :
       /\ Ends(outcome)
       /\ Go(r, IF outcome = "ok" THEN "running" ELSE IF outcome = "cancelled" THEN "abandon" ELSE "cleanup")
  /\ UNCHANGED <<lock, attempt, wanted, config, meter, task, seen, board>>

(* The acknowledgement has been noted by the reader; a frame, or a stop,   *)
(* may have come since.                                                    *)
Running(r) ==
  /\ pc[r].at = "running" /\ Finish(r, "done")
  /\ meter' = IF meter.last # 0 /\ meter.ack # 0
              THEN [meter EXCEPT !.state = "acquiring", !.ads = 3]
              ELSE [meter EXCEPT !.state = "starting", !.ads = 2, !.ack = board.starts, !.last = 0, !.from = 0]
  /\ UNCHANGED <<attempt, wanted, config, down, up, txn, sync, task, seen, board, trouble>>

(* _cleanup_failed_spectro_start.                                          *)
Abandon(r) ==
  /\ pc[r].at = "abandon" \/ (pc[r].at = "cleanup" /\ txn = NoTxn /\ pc[r].cancelled)
  /\ down' = Append(down, Command("stop", 0, FALSE))
  /\ meter' = [meter EXCEPT !.state = "error", !.last = 0]
  /\ Finish(r, "failed")
  /\ UNCHANGED <<attempt, wanted, config, up, txn, sync, task, seen, board, trouble>>

BeginCleanup(r) ==
  /\ Ready(r, "cleanup") /\ ~pc[r].cancelled
  /\ Send("stop", 0) /\ meter' = [meter EXCEPT !.ads = 5, !.ack = 0]
  /\ UNCHANGED <<clientVars, up, sync, task, seen, board, trouble>>

EndCleanup(r) ==
  /\ pc[r].at = "cleanup" /\ txn.kind = "stop"
  /\ \E outcome \in Outcomes :
       /\ Ends(outcome)
       /\ meter' = [meter EXCEPT !.state = IF outcome = "ok" THEN "stopped" ELSE "error", !.last = 0]
       /\ IF outcome = "ok" /\ Retryable(r) THEN Go(r, "retry") /\ UNCHANGED lock ELSE Finish(r, "failed")
  /\ UNCHANGED <<attempt, wanted, config, task, seen, board>>

(* Before another attempt, the barrier.                                    *)
BeginRetry(r) ==
  /\ Ready(r, "retry") /\ ~pc[r].cancelled /\ Send("status", 0)
  /\ UNCHANGED <<clientVars, up, sync, meter, task, seen, board, trouble>>

EndRetry(r) ==
  /\ pc[r].at = "retry"
  /\ IF txn = NoTxn
     THEN pc[r].cancelled /\ sync' = "failed" /\ Finish(r, "failed") /\ UNCHANGED <<attempt, down, up, txn, trouble>>
     ELSE \E outcome \in Outcomes :
            /\ Synchronized(outcome)
            /\ IF outcome = "ok" THEN Go(r, "map") /\ attempt' = attempt + 1 /\ UNCHANGED lock
               ELSE Finish(r, "failed") /\ UNCHANGED attempt
  /\ UNCHANGED <<wanted, config, meter, task, seen, board>>

(* query_status: the state, then the mapping; nothing is concluded.        *)
BeginQuery(r) ==
  /\ \/ Ready(r, "status") /\ ~pc[r].cancelled /\ Send("status", 0)
     \/ Sends(r, "mapquery", 0)
  /\ UNCHANGED <<clientVars, up, sync, meter, task, seen, board, trouble>>

EndQuery(r) ==
  /\ lock = r
  /\ \/ /\ pc[r].at = "status" /\ txn.kind = "status" /\ Go(r, "mapquery") /\ UNCHANGED lock
        /\ \E outcome \in Outcomes : Ends(outcome)
     \/ /\ pc[r].at = "status" /\ txn = NoTxn /\ pc[r].cancelled /\ Finish(r, "failed")
        /\ UNCHANGED <<down, up, txn, sync, trouble>>
     \/ /\ pc[r].at = "mapquery" /\ txn.kind = "mapquery" /\ Finish(r, "done")
        /\ \E outcome \in Outcomes : Ends(outcome)
  /\ UNCHANGED <<attempt, wanted, config, meter, task, seen, board>>

-----------------------------------------------------------------------------
(* Stops.  _request_output_stop waits for nobody: it cancels whatever is   *)
(* under way and writes the first ADSSTOP before it asks for the lock.     *)
Cancels(r) == r \notin Stops /\ pc[r].at \notin Resting

RequestStop(r) ==
  /\ r \in Stops /\ pc[r].at = "idle"
  /\ pc' = [q \in Requests |-> IF q = r THEN [pc[q] EXCEPT !.at = "claimed"]
                              ELSE IF Cancels(q) THEN [pc[q] EXCEPT !.cancelled = TRUE] ELSE pc[q]]
  /\ txn' = [txn EXCEPT !.cancelled = txn.kind # "none"]
  /\ sync' = IF (txn.kind # "none" \/ Phase \in {"map", "cfg", "start", "retry"}) /\ sync # "failed" THEN "required" ELSE sync
  /\ IF task.id # 0 THEN UNCHANGED <<meter, down>>     \* STOPALL: the run's stop is PumpControl's subject
     ELSE /\ meter' = [meter EXCEPT !.ads = 5, !.ack = 0]
          /\ down' = Append(down, Command("stop", 0, FALSE))
  /\ UNCHANGED <<lock, attempt, wanted, config, up, task, seen, board, trouble>>

EnterStop(r) ==
  /\ r \in Stops /\ pc[r].at = "claimed" /\ lock = 0 /\ lock' = r /\ Go(r, "stop")
  /\ task' = IF task.id # 0 THEN [task EXCEPT !.id = 0, !.end = "stopped"] ELSE task
  /\ UNCHANGED <<attempt, wanted, config, down, up, txn, sync, meter, seen, board, trouble>>

BeginStop(r) ==
  /\ Ready(r, "stop") /\ sync = "fine" /\ Send("stop", 0)
  /\ meter' = [meter EXCEPT !.ads = 5, !.ack = 0]
  /\ UNCHANGED <<clientVars, up, sync, task, seen, board, trouble>>

EndStop(r) ==
  /\ pc[r].at = "stop" /\ lock = r
  /\ \/ txn.kind = "stop" /\ \E outcome \in Outcomes : Ends(outcome) /\ Finish(r, IF outcome = "ok" THEN "confirmed" ELSE "failed")
     \/ txn = NoTxn /\ sync = "failed" /\ Finish(r, "failed") /\ UNCHANGED <<down, up, txn, sync, trouble>>
  /\ UNCHANGED <<attempt, wanted, config, meter, task, seen, board>>

-----------------------------------------------------------------------------
(* The automation run that needs the measurement, and its freshness.       *)

MeasurementReady ==
  config.state = "ready" /\ meter.state = "acquiring" /\ meter.age = 0 /\ meter.ack # 0 /\ meter.last # 0 /\ ~task.fault

StartTask ==
  /\ lock = 0 /\ task.id = 0 /\ task.used < MaxTasks /\ MeasurementReady /\ ~StopRequested
  /\ task' = [task EXCEPT !.id = task.used + 1, !.used = @ + 1, !.end = "none"]
  /\ UNCHANGED <<clientVars, lineVars, txn, sync, meter, seen>>

(* The run ends, or a confirmed stop of the outputs releases its fault.    *)
EndTask ==
  /\ \/ task.id # 0 /\ task' = [task EXCEPT !.id = 0, !.end = "done"]
     \/ task.fault /\ lock = 0 /\ task' = [task EXCEPT !.fault = FALSE]
  /\ UNCHANGED <<clientVars, lineVars, txn, sync, meter, seen>>

(* Time: 1 is past the measurement's time-out, or the first frame's; 2 is  *)
(* past the one that stops a run.                                          *)
Age ==
  /\ meter.age < 2 /\ (meter.ack # 0 \/ meter.last # 0)
  /\ meter' = [meter EXCEPT !.age = @ + 1]
  /\ UNCHANGED <<clientVars, lineVars, txn, sync, task, seen>>

(* A task is its cancellation and its attempt.                             *)
Task == <<task.id, {r \in Stops : pc[r].at \notin {"idle", "absent"}}>>
AwaitingFirst == meter.ack # 0 /\ meter.last = 0

Observe ==
  /\ ~seen.taken /\ meter.state # "i2c_error" /\ meter.age > 0 /\ (AwaitingFirst \/ meter.last # 0)
  /\ seen' = [taken |-> TRUE, due |-> AwaitingFirst \/ meter.age = 2, ack |-> meter.ack, last |-> meter.last,
              state |-> meter.state, task |-> Task]
  /\ UNCHANGED <<clientVars, lineVars, txn, sync, meter, task>>

(* The observation may have waited for the lock.  (A bug to look for: it   *)
(* is not compared with the newest frame.)                                 *)
CurrentSession == meter.ack = seen.ack /\ meter.state = seen.state /\ Task = seen.task
Current == CurrentSession /\ meter.last = seen.last

Commit ==
  /\ seen.taken /\ lock = 0 /\ seen' = NoSight
  /\ meter' = IF Current THEN [meter EXCEPT !.state = "stale"] ELSE meter
  /\ IF Current /\ seen.due /\ task.id # 0
     THEN /\ task' = [task EXCEPT !.id = 0, !.end = "stale"]
          /\ pc' = [q \in Requests |-> IF Cancels(q) THEN [pc[q] EXCEPT !.cancelled = TRUE] ELSE pc[q]]
     ELSE UNCHANGED <<task, pc>>
  /\ UNCHANGED <<lock, attempt, wanted, config, lineVars, txn, sync>>

-----------------------------------------------------------------------------
(* _retry_serial_connection: a failed configuration is restored from the   *)
(* parameters, and if the replies cannot be told apart any more, over a    *)
(* new connection.                                                         *)
Restore(r) ==
  /\ Kind[r] = "restore" /\ pc[r].at = "idle" /\ lock = 0 /\ config.state = "failed"
  /\ task.id = 0 /\ ~task.fault
  /\ pc' = [q \in Requests |-> IF q = r THEN [at |-> "map", cancelled |-> FALSE]
                              ELSE IF sync = "failed" /\ Cancels(q) THEN [pc[q] EXCEPT !.cancelled = TRUE] ELSE pc[q]]
  /\ lock' = r /\ attempt' = 1 /\ wanted' = [map |-> Setting[r], cfg |-> Setting[r]]
  /\ IF sync # "failed" THEN UNCHANGED <<config, down, up, txn, sync, meter, board>>
     ELSE /\ down' = <<>> /\ up' = <<>> /\ txn' = NoTxn /\ sync' = "fine"
          /\ config' = [state |-> "unconfigured", verified |-> FALSE]
          /\ meter' = [state |-> "idle", ads |-> 0, ack |-> 0, last |-> 0, from |-> 0, age |-> 0]
          /\ board' \in {[board EXCEPT !.on = FALSE]} \cup
                       (IF meter.state \in {"starting", "acquiring", "stale"} THEN {} ELSE {board})
  /\ UNCHANGED <<task, seen, trouble>>

Request(r) ==
  \/ Ask(r) \/ Enter(r) \/ BeginBarrier(r) \/ EndBarrier(r) \/ Unsent(r) \/ BeginMap(r) \/ EndMap(r)
  \/ BeginCfg(r) \/ EndCfg(r) \/ BeginStart(r) \/ EndStart(r) \/ Running(r) \/ Abandon(r) \/ BeginCleanup(r)
  \/ EndCleanup(r) \/ BeginRetry(r) \/ EndRetry(r) \/ BeginQuery(r) \/ EndQuery(r)
  \/ RequestStop(r) \/ EnterStop(r) \/ BeginStop(r) \/ EndStop(r) \/ Restore(r)

Next ==
  \/ Execute \/ Frame \/ Read \/ StartTask \/ EndTask \/ Age \/ Observe \/ Commit
  \/ \E r \in Requests : Request(r)

Spec == Init /\ [][Next]_vars

-----------------------------------------------------------------------------
(* What has to hold.                                                       *)

(* A reply that confirms a setter is the reply to that very command, never *)
(* a late one to an earlier command: text transactions and their barrier.  *)
(* That holds until somebody asks for the status.                          *)
EveryReplyIsOwn == txn.kind \in Setters /\ txn.answer # <<>> /\ txn.answer[1].ok => txn.answer[1].own
RepliesAreOwn == (\A r \in Requests : Kind[r] = "query" => pc[r].at \in {"idle", "absent"}) => EveryReplyIsOwn

(* When the node reports its configuration as ready and nothing is under   *)
(* way, the board has the mapping and the configuration it was last asked  *)
(* for, whatever was lost, late, cancelled or tried again on the way.      *)
ReadyIsTrue == config.state = "ready" /\ lock = 0 => board.map = wanted.map /\ board.cfg = wanted.cfg

(* While a started measurement counts as acquiring, its newest frame is    *)
(* one of this session and not of the one before.                          *)
AcquiringIsReal == meter.state = "acquiring" /\ meter.ack # 0 => meter.from = meter.ack

(* A run that is ended because its measurement went stale has had no valid *)
(* frame for that long at the moment at which it is ended.                 *)
EndsWhenStale == task'.end = "stale" /\ task.end # "stale" => meter.age > 0
=============================================================================
