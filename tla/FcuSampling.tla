---------------------------- MODULE FcuSampling -----------------------------
(***************************************************************************)
(* Samplings that the flight controller's mission asks for: its script     *)
(* waits, sends USV_SMPL with a number again and again, and goes on with   *)
(* USV_DONE only.  The bridge (usv_mavlink_router_bridge.py) keeps the     *)
(* numbers and passes orders and answers on, the trigger (mavlink_trigger_ *)
(* node.py) samples.  An operator samples and stops, too, the script gives *)
(* up, the pump controller loses its owner, and the link breaks.           *)
(***************************************************************************)
EXTENDS Integers, Sequences, FiniteSets

CONSTANTS
  MaxId,       \* bound: samplings the script asks for
  MaxSent,     \* bound: messages under way on a queue
  MaxBreaks    \* bound: breaks of the link, lost messages

NumberAssumption == MaxId \in Nat

VARIABLES
  asked, waiting,    \* the script: its last number, whether it waits
  toVehicle, toFcu,  \* the link, both ways
  connected, breaks,
  last, current,     \* _last_fcu_sample_id, _fcu_sample_id
  done, fail,        \* _pending_usv_done, _pending_usv_fail
  starts, stops,     \* orders on their way to the trigger
  results, faults,   \* /usv/sampling_result; the controller's reports of a lost owner
  active, manual, finishing,   \* what the trigger samples; whether it samples for the operator; what it ends
  began, outcome, answers      \* history: samplings begun and their outcome, by number; answers sent

scriptVars == <<asked, waiting>>
linkVars == <<toVehicle, toFcu, connected, breaks, answers>>
bridgeVars == <<last, current, done, fail>>
triggerVars == <<active, manual, finishing, began, outcome>>
vars == <<scriptVars, linkVars, bridgeVars, starts, stops, results, faults, triggerVars>>

Ids == 1..MaxId

Init ==
  /\ asked = 0 /\ waiting = FALSE /\ toVehicle = <<>> /\ toFcu = <<>> /\ connected = TRUE /\ breaks = 0
  /\ last = 0 /\ current = 0 /\ done = <<>> /\ fail = <<>>
  /\ starts = <<>> /\ stops = 0 /\ results = <<>> /\ faults = <<>>
  /\ active = 0 /\ manual = FALSE /\ finishing = 0
  /\ began = [i \in Ids |-> 0] /\ outcome = [i \in Ids |-> "none"] /\ answers = <<>>

-----------------------------------------------------------------------------
(* The script, and the link to it.                                         *)

Send(kind) == Len(toVehicle) < MaxSent /\ toVehicle' = Append(toVehicle, [kind |-> kind, id |-> asked'])

Ask ==
  /\ ~waiting /\ asked < MaxId /\ asked' = asked + 1 /\ waiting' = TRUE /\ Send("USV_SMPL")
  /\ UNCHANGED <<toFcu, connected, breaks, answers, bridgeVars, starts, stops, results, faults, triggerVars>>

AskAgain ==
  /\ waiting /\ UNCHANGED scriptVars /\ Send("USV_SMPL")
  /\ UNCHANGED <<toFcu, connected, breaks, answers, bridgeVars, starts, stops, results, faults, triggerVars>>

GiveUp ==
  /\ waiting /\ asked' = asked /\ waiting' = FALSE /\ Send("USV_FAIL")
  /\ UNCHANGED <<toFcu, connected, breaks, answers, bridgeVars, starts, stops, results, faults, triggerVars>>

TakeAnswer ==
  /\ toFcu # <<>> /\ toFcu' = Tail(toFcu) /\ waiting' = (waiting /\ Head(toFcu).id # asked)
  /\ UNCHANGED <<asked, toVehicle, connected, breaks, answers, bridgeVars, starts, stops, results, faults, triggerVars>>

Lose ==
  /\ breaks < MaxBreaks /\ breaks' = breaks + 1
  /\ \/ toVehicle # <<>> /\ toVehicle' = Tail(toVehicle) /\ UNCHANGED toFcu
     \/ toFcu # <<>> /\ toFcu' = Tail(toFcu) /\ UNCHANGED toVehicle
  /\ UNCHANGED <<scriptVars, connected, answers, bridgeVars, starts, stops, results, faults, triggerVars>>

(* _retire_router                                                          *)
Break ==
  /\ connected /\ breaks < MaxBreaks /\ breaks' = breaks + 1 /\ connected' = FALSE
  /\ toVehicle' = <<>> /\ done' = <<>> /\ fail' = <<>>
  /\ UNCHANGED <<scriptVars, toFcu, answers, last, current, starts, stops, results, faults, triggerVars>>

Reconnect ==
  /\ ~connected /\ connected' = TRUE
  /\ UNCHANGED <<scriptVars, toVehicle, toFcu, breaks, answers, bridgeVars, starts, stops, results, faults, triggerVars>>

-----------------------------------------------------------------------------
(* The bridge.                                                             *)

(* A number that is asked for again is not sampled again.  (A bug to look  *)
(* for: only the one that is being sampled.)                               *)
NotSampled(id) == id # current
New(id) == id # last

(* _receive_mavlink_messages: the numbers are kept before the order goes   *)
(* out, and a newer script ends the answers to an older one.               *)
TakeAsk(id) ==
  IF New(id)
  THEN /\ last' = id /\ current' = id /\ done' = <<>> /\ fail' = <<>>
       /\ starts' = Append(starts, id) /\ UNCHANGED stops
  ELSE UNCHANGED <<bridgeVars, starts, stops>>

TakeGivenUp(id) ==
  /\ stops' = IF id = current THEN 1 ELSE stops
  /\ UNCHANGED <<bridgeVars, starts>>

Receive ==
  /\ connected /\ toVehicle # <<>> /\ toVehicle' = Tail(toVehicle)
  /\ LET m == Head(toVehicle) IN IF m.kind = "USV_SMPL" THEN TakeAsk(m.id) ELSE TakeGivenUp(m.id)
  /\ UNCHANGED <<scriptVars, toFcu, connected, breaks, answers, results, faults, triggerVars>>

(* _sampling_result_cb: the script goes on after a success or a skip.  (A  *)
(* bug to look for: after any end.)                                        *)
AnyEnd(o) == TRUE
Releases(o) == o \in {"succeeded", "skipped"}

TakeResult ==
  LET r == Head(results)
  IN /\ results # <<>> /\ results' = Tail(results)
     /\ IF r.id # current THEN UNCHANGED <<current, done, fail>>
        ELSE /\ current' = 0
             /\ IF Releases(r.outcome) THEN done' = Append(done, r.id) /\ UNCHANGED fail
                ELSE fail' = Append(fail, r.id) /\ UNCHANGED done
     /\ UNCHANGED <<scriptVars, linkVars, last, starts, stops, faults, triggerVars>>

(* _automation_status_cb: what is left of the number when it has failed.   *)
(* (A bug to look for: all of it.)                                         *)
Kept == current
Forgotten == 0

TakeFault ==
  /\ faults # <<>> /\ faults' = Tail(faults)
  /\ IF Head(faults) # current THEN UNCHANGED <<current, done, fail>>
     ELSE fail' = Append(fail, current) /\ done' = <<>> /\ current' = Forgotten
  /\ UNCHANGED <<scriptVars, linkVars, last, starts, stops, results, triggerVars>>

(* _flush_pending_sends: failures first.                                   *)
Flush ==
  /\ connected /\ Len(toFcu) < MaxSent
  /\ \/ /\ fail # <<>> /\ fail' = Tail(fail) /\ UNCHANGED done
        /\ toFcu' = Append(toFcu, [kind |-> "USV_FAIL", id |-> Head(fail)])
     \/ /\ fail = <<>> /\ done # <<>> /\ done' = Tail(done) /\ UNCHANGED fail
        /\ toFcu' = Append(toFcu, [kind |-> "USV_DONE", id |-> Head(done)])
  /\ answers' = Append(answers, toFcu'[Len(toFcu')])
  /\ UNCHANGED <<scriptVars, toVehicle, connected, breaks, last, current, starts, stops, results, faults, triggerVars>>

-----------------------------------------------------------------------------
(* The trigger.                                                            *)

Busy == active # 0 \/ manual \/ finishing # 0
Publish(id, o) == results' = Append(results, [id |-> id, outcome |-> o])

(* _do_fcu_sample: refused while it samples, begun, or failed to begin.    *)
Start ==
  LET id == Head(starts)
  IN /\ starts # <<>> /\ starts' = Tail(starts)
     /\ IF Busy
        THEN Publish(id, "failed") /\ outcome' = [outcome EXCEPT ![id] = "failed"] /\ UNCHANGED <<active, began>>
        ELSE active' = id /\ began' = [began EXCEPT ![id] = @ + 1] /\ UNCHANGED <<outcome, results>>
     /\ UNCHANGED <<scriptVars, linkVars, bridgeVars, stops, faults, manual, finishing>>

(* _handle_completion: the attempt is over, the outputs are being stopped. *)
End(o) ==
  /\ active # 0 /\ finishing = 0 /\ finishing' = active /\ active' = 0
  /\ outcome' = [outcome EXCEPT ![active] = o]
  /\ UNCHANGED <<scriptVars, linkVars, bridgeVars, starts, results, faults, manual, began>>

Complete == stops' = stops /\ \E o \in {"succeeded", "failed", "skipped", "cancelled"} : End(o)

(* _publish_sampling_result: if the outputs do not stop it has failed.     *)
Tell ==
  /\ finishing # 0 /\ finishing' = 0
  /\ \/ Publish(finishing, outcome[finishing]) /\ UNCHANGED outcome
     \/ Publish(finishing, "failed") /\ outcome' = [outcome EXCEPT ![finishing] = "failed"]
  /\ UNCHANGED <<scriptVars, linkVars, bridgeVars, starts, stops, faults, active, manual, began>>

(* 31011: a sampling ends, and orders that came before are not followed.   *)
Stop ==
  /\ stops = 1 /\ stops' = 0
  /\ IF active # 0 /\ finishing = 0
     THEN /\ finishing' = active /\ active' = 0 /\ outcome' = [outcome EXCEPT ![active] = "cancelled"]
     ELSE UNCHANGED <<active, finishing, outcome>>
  /\ starts' = <<>> /\ manual' = FALSE
  /\ UNCHANGED <<scriptVars, linkVars, bridgeVars, results, faults, began>>

Operator ==
  /\ \/ manual' = ~manual /\ (manual \/ ~Busy) /\ UNCHANGED stops
     \/ stops = 0 /\ stops' = 1 /\ UNCHANGED manual
  /\ UNCHANGED <<scriptVars, linkVars, bridgeVars, starts, results, faults, active, finishing, began, outcome>>

(* The pump controller hears nothing of the trigger: it stops and says so; *)
(* the trigger may come back to end the attempt, or not.                   *)
LoseOwner ==
  /\ active # 0 /\ Len(faults) < 1 /\ faults' = Append(faults, active)
  /\ outcome' = [outcome EXCEPT ![active] = "failed"]
  /\ \/ finishing = 0 /\ finishing' = active /\ active' = 0
     \/ active' = 0 /\ UNCHANGED finishing
  /\ UNCHANGED <<scriptVars, linkVars, bridgeVars, starts, stops, results, manual, began>>

Next ==
  \/ Ask \/ AskAgain \/ GiveUp \/ TakeAnswer \/ Lose \/ Break \/ Reconnect
  \/ Receive \/ TakeResult \/ TakeFault \/ Flush
  \/ Start \/ Complete \/ Tell \/ Stop \/ Operator \/ LoseOwner

Spec == Init /\ [][Next]_vars

-----------------------------------------------------------------------------
(* A number is sampled once, however often it is asked for.                *)
SampledOnce == \A i \in Ids : began[i] <= 1

(* The script goes on only after a sampling that has really succeeded or   *)
(* is to be skipped; 'only a matching, explicit FCU success/skip may       *)
(* release NAV_SCRIPT_TIME'.                                               *)
DoneIsTrue ==
  \A n \in 1..Len(answers) : answers[n].kind = "USV_DONE" => outcome[answers[n].id] \in {"succeeded", "skipped"}

(* A number is answered once, by success or failure but not by both, and   *)
(* not after the answer to a later one.                                    *)
AnsweredOnce == \A n, m \in 1..Len(answers) : n < m => answers[n].id < answers[m].id
=============================================================================
