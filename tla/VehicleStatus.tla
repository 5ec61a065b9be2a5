--------------------------- MODULE VehicleStatus ----------------------------
(***************************************************************************)
(* The one status the ground station is told (usv_mavlink_router_bridge.   *)
(* py): the bridge makes it from what the pump controller reports, on two  *)
(* topics, and from the state of the mission, and sends it by cycles as    *)
(* long as its source is not too old.  A measurement's validity travels    *)
(* with it: read under the lock, sent later beside the age of that time.   *)
(***************************************************************************)
EXTENDS Integers, Sequences

CONSTANTS
  Reports,      \* what the controller may report
  States,       \* states of the mission
  Values,       \* what the spectrometer may say of its validity
  Limit,        \* 3 seconds, and _measurement_timeout
  MaxNow, MaxQueue   \* bounds: the time; messages under way on a topic

LimitAssumption == Limit \in Nat \ {0}

VARIABLES
  now,
  topics, missions, data,      \* messages under way
  seen, stepAt,                \* the report that was taken last; USV_STEP in _field_received_at
  code, codeAt, lastMission,   \* _status_code, its USV_STAT time, _last_mission_state
  sampling,                    \* _fcu_sample_id > 0
  valid, taken, validAt,       \* _spectrometer_valid, _spectrometer_received_at, USV_VLD's time
  cycle,                       \* what the cycle under way has read
  shown, told,                 \* what was sent last: the status's age, the validity
  origin, truth                \* history: the report behind the code; when valid was true last

statusVars == <<seen, stepAt, code, codeAt, lastMission, origin>>
dataVars == <<valid, taken, validAt>>
sentVars == <<cycle, shown, told>>
vars == <<now, topics, missions, data, statusVars, sampling, dataVars, sentVars, truth>>

Never == -100

(* What _apply_automation_status_locked reads from a report.               *)
Flags(r) ==
  CASE r = "idle" -> {"ended"}
    [] r = "running" -> {"running"}
    [] r = "paused" -> {"running", "paused"}
    [] r = "preflight" -> {"preparing"}
    [] r = "failed" -> {"ended", "failed"}
    [] r = "stopped" -> {"ended", "stopped"}
    [] r = "fault" -> {"ended", "stopped", "fault"}
    [] r = "calibrating" -> {"ended", "calibrating"}
    [] r = "none" -> {}
Resting == {"IDLE", "HOLD_NO_MISSION"}
SamplingStates == Resting \cup {"SAMPLING", "SAMPLING_DONE", "PAUSED"}
Topics == {"status", "automation"}

Init ==
  /\ now = 0
  /\ topics = [t \in Topics |-> <<>>] /\ missions = <<>> /\ data = <<>>
  /\ seen = "none" /\ stepAt = Never /\ code = "IDLE" /\ codeAt = Never /\ lastMission = "IDLE" /\ sampling = FALSE
  /\ valid = FALSE /\ taken = Never /\ validAt = Never
  /\ cycle = <<>> /\ shown = 0 /\ told = [valid |-> FALSE, age |-> 0]
  /\ origin = Never /\ truth = 0

-----------------------------------------------------------------------------
(* The sources: any of them may fall silent, and a message may be late. (A *)
(* cycle is shorter than a tick: it sends for 30 ms at the most.)          *)

Tick ==
  /\ cycle = <<>> /\ now < MaxNow /\ now' = now + 1
  /\ UNCHANGED <<topics, missions, data, statusVars, sampling, dataVars, sentVars, truth>>

(* The controller publishes each report on both topics.                    *)
Report(r) ==
  /\ \A t \in Topics : Len(topics[t]) < MaxQueue
  /\ topics' = [t \in Topics |-> Append(topics[t], [report |-> r, at |-> now])]
  /\ UNCHANGED <<now, missions, data, statusVars, sampling, dataVars, sentVars, truth>>

SayMission(s) ==
  /\ Len(missions) < MaxQueue /\ missions' = Append(missions, s)
  /\ UNCHANGED <<now, topics, data, statusVars, sampling, dataVars, sentVars, truth>>

Measure(v) ==
  /\ Len(data) < MaxQueue /\ data' = Append(data, [valid |-> v, at |-> now])
  /\ UNCHANGED <<now, topics, missions, statusVars, sampling, dataVars, sentVars, truth>>

(* USV_SMPL sets _fcu_sample_id, the result of the sampling clears it.     *)
SampleForFcu ==
  /\ sampling' = ~sampling
  /\ UNCHANGED <<now, topics, missions, data, statusVars, dataVars, sentVars, truth>>

-----------------------------------------------------------------------------
(* _apply_automation_status_locked.  (A bug to look for: a report that is  *)
(* older than the one taken is taken, too.)                                *)
AnyOrder(m) == now - m.at <= Limit
InOrder(m) == now - m.at <= Limit /\ m.at >= stepAt

(* What a report says whatever the mission does.                           *)
Urgent(flags) ==
  CASE "fault" \in flags -> "FAILED"
    [] "calibrating" \in flags -> "CALIBRATING"
    [] "failed" \in flags -> "FAILED"
    [] "preparing" \in flags -> "WAITING_STABLE"
    [] "paused" \in flags /\ "ended" \notin flags -> "PAUSED"
    [] OTHER -> "none"

(* (A bug to look for: a stop ends a failure only if the mission rests.)   *)
EndsInSampling(flags) == ~sampling /\ "ended" \in flags /\ lastMission \in SamplingStates \ {"HOLD_NO_MISSION"}
EndsRun(flags) == ~sampling /\ "ended" \in flags /\ (lastMission \in SamplingStates \/ "stopped" \in flags)

NewCode(flags) ==
  IF Urgent(flags) # "none" THEN Urgent(flags)
  ELSE IF "running" \in flags THEN IF lastMission \in SamplingStates THEN "SAMPLING" ELSE code
  ELSE IF EndsRun(flags) THEN "IDLE"
  ELSE IF lastMission \in Resting THEN lastMission ELSE code

Apply(m) ==
  LET flags == Flags(m.report)
      renewed == Urgent(flags) # "none" \/ lastMission \in SamplingStates
  IN /\ seen' = m.report /\ stepAt' = m.at /\ code' = NewCode(flags)
     /\ codeAt' = IF renewed THEN m.at ELSE codeAt
     /\ lastMission' = IF Urgent(flags) = "none" /\ "running" \notin flags /\ EndsRun(flags) THEN "IDLE" ELSE lastMission
     /\ origin' = IF renewed \/ EndsRun(flags) THEN m.at ELSE origin

TakeReport(t) ==
  /\ topics[t] # <<>> /\ topics' = [topics EXCEPT ![t] = Tail(@)]
  /\ IF InOrder(Head(topics[t])) THEN Apply(Head(topics[t])) ELSE UNCHANGED statusVars
  /\ UNCHANGED <<now, missions, data, sampling, dataVars, sentVars, truth>>

(* _mission_status_cb: what of the last report goes before the mission.    *)
Fresh == now - stepAt <= Limit
Overrides(s) ==
  LET flags == Flags(seen)
  IN CASE "fault" \in flags -> "FAILED"
       [] ~Fresh -> "none"
       [] flags \cap {"calibrating", "failed"} # {} -> Urgent(flags)
       [] Urgent(flags) # "none" /\ s \in Resting \cup {"SAMPLING", "PAUSED"} -> Urgent(flags)
       [] Urgent(flags) = "none" /\ "running" \in flags /\ s \in Resting -> "SAMPLING"
       [] Urgent(flags) = "none" /\ "ended" \in flags /\ s \in Resting /\ ~sampling -> "IDLE"
       [] OTHER -> "none"

(* (A bug to look for: a mission that goes on renews what the controller   *)
(* has said.)                                                              *)
RenewedTime(s) == now
TimeOf(s) == IF Overrides(s) = "none" THEN now ELSE stepAt

TakeMission ==
  LET s == Head(missions)
  IN /\ missions # <<>> /\ missions' = Tail(missions) /\ lastMission' = s
     /\ code' = IF Overrides(s) = "none" THEN s ELSE Overrides(s)
     /\ codeAt' = TimeOf(s) /\ origin' = (IF Overrides(s) = "none" THEN now ELSE stepAt)
     /\ UNCHANGED <<now, topics, data, seen, stepAt, sampling, dataVars, sentVars, truth>>

(* _voltage_cb: what came too late is not valid.                           *)
TakeData ==
  LET m == Head(data)
  IN /\ data # <<>> /\ data' = Tail(data)
     /\ valid' = (m.valid /\ now - m.at <= Limit) /\ taken' = now /\ validAt' = m.at
     /\ truth' = IF valid' THEN m.at ELSE truth
     /\ UNCHANGED <<now, topics, missions, statusVars, sampling, sentVars>>

-----------------------------------------------------------------------------
(* run: the cycle reads everything under the lock.  (A bug to look for: a  *)
(* measurement is not looked at again.)                                    *)
NotLookedAt == valid
StillValid == valid /\ now - taken <= Limit

ReadAll ==
  /\ cycle = <<>> /\ valid' = StillValid
  /\ cycle' = <<[valid |-> valid', from |-> origin, time |-> codeAt, truth |-> truth]>>
  /\ UNCHANGED <<now, topics, missions, data, statusVars, sampling, taken, validAt, shown, told, truth>>

(* _send_payload, which looks at the ages of now.                          *)
SendPayload ==
  /\ cycle # <<>> /\ cycle' = <<>>
  /\ shown' = IF now - codeAt <= Limit THEN now - cycle[1].from ELSE shown
  /\ told' = [valid |-> cycle[1].valid /\ now - validAt <= Limit, age |-> now - cycle[1].truth]
  /\ UNCHANGED <<now, topics, missions, data, statusVars, sampling, dataVars, truth>>

Next ==
  \/ Tick \/ TakeMission \/ TakeData \/ ReadAll \/ SendPayload \/ SampleForFcu
  \/ \E r \in Reports : Report(r)
  \/ \E s \in States : SayMission(s)
  \/ \E v \in Values : Measure(v)
  \/ \E t \in Topics : TakeReport(t)

Spec == Init /\ [][Next]_vars

-----------------------------------------------------------------------------
(* In whatever order the messages of controller and mission come: once     *)
(* either is taken, a rest of both is IDLE: neither a failure nor a hold   *)
(* outlives the stop.                                                      *)
Rest ==
  /\ Fresh /\ Flags(seen) \in {{"ended"}, {"ended", "stopped"}}
  /\ lastMission \in Resting /\ ~sampling
RestsIdle == (stepAt' # stepAt \/ Len(missions') < Len(missions)) /\ Rest' => code' = "IDLE"

(* A status is told only as long as what it tells of is not too old, but   *)
(* for a frame whose source spoke while its cycle was under way, and the   *)
(* reports of the controller never go back in time.                        *)
TellsRecent ==
  /\ shown' # shown /\ shown' > 2 * Limit => codeAt # cycle[1].time
  /\ stepAt' >= stepAt

(* A measurement that is told to be valid was so not long ago: 'never      *)
(* renew an old true value'.                                               *)
ValidIsRecent == told.valid => told.age <= 2 * Limit
=============================================================================
