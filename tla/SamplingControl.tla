--------------------------- MODULE SamplingControl ---------------------------
(***************************************************************************)
(* The sampling side of mavlink_trigger_node.py: who may start an attempt, *)
(* what its terminal message, an operator's stop, the autopilot, a lost    *)
(* session and a retry do to it, and what is reported of it.               *)
(*                                                                         *)
(* An action is the code between two points at which another thread of the *)
(* node can get in: a critical section of state_lock, a call of the pump's *)
(* control service, an unlocked test.  A context dict is identified with   *)
(* its attempt.  `pump' is what the pump node promises, which PumpControl  *)
(* checks: one owner at a time, nothing that was issued before a stop, and *)
(* nothing that was cleaned up before it arrived.                          *)
(***************************************************************************)
EXTENDS Naturals, Sequences, FiniteSets

CONSTANTS Dones,        \* threads that handle the end of an attempt
          MaxAttempts,  \* bound: contexts that are created
          Scripts,      \* the starts, pauses and resumes that are asked for
          MaxStops,     \* bound: commands the safety lane is given
          MaxTroubles,  \* bound: replies lost, stops not confirmed, FCU lost
          MaxWeb,       \* bound: what the pump's other client does
          Retries,      \* retry_count of a waypoint
          OneStarter    \* no two threads are in the middle of a start

ASSUME BoundsAreNat == {MaxAttempts, MaxStops, MaxTroubles, MaxWeb, Retries} \subseteq Nat
ASSUME ScriptsAreOrders ==
  Scripts \subseteq Seq({"manual", "fcu", "survey", "waypoint", "pause", "resume"})
ASSUME DonesAreApart ==
  Dones \cap {"lane", "stop", "watch", "service", "retry", "loop", "free"} = {}

None == 0                       \* no context
Attempts == 1..MaxAttempts
Web == MaxAttempts + 1          \* an owner of the pump that is not the trigger
Threads == {"lane", "stop", "watch", "service", "retry", "loop"} \cup Dones
Outcomes == {"succeeded", "cancelled", "failed"}

VARIABLES
  trg,      \* the fields of the node that its threads share
  lock,     \* who holds _sampling_control_lock, or "free"
  ctx,      \* the context dict of every attempt
  th,       \* the threads
  pump,     \* the pump node: owner, time of the last stop, attempts cancelled
  status,   \* /usv/automation_status, not yet delivered
  told,     \* outcomes published per attempt on /usv/sampling_result
  record,   \* the outcome in the sample record of an attempt, or "none"
  stopped,  \* history: the time of the last stop that is done, the surveys
            \* that were stopped, the samples whose flag a waypoint took,
            \* and the attempts the pump completed
  left      \* what is left of the bounds

vars == <<trg, lock, ctx, th, pump, status, told, record, stopped, left>>

Idle == [pc |-> "idle", a |-> None, seen |-> None, exp |-> None, kind |-> "none",
         stamp |-> 0, gen |-> 0, ok |-> FALSE, over |-> FALSE, kept |-> FALSE,
         saved |-> FALSE, early |-> FALSE, then |-> "none", end |-> "none"]

NoContext == [source |-> "none", cancel |-> FALSE, started |-> FALSE, reason |-> "none",
              pending |-> "none", retries |-> 0, answered |-> FALSE, named |-> FALSE, asked |-> 0,
              issued |-> 0, gen |-> 0]

Init ==
  /\ trg = [sampling |-> FALSE, finishing |-> FALSE, current |-> None, prepared |-> None,
            survey |-> FALSE, sample |-> FALSE, gen |-> 0, live |-> 0, owner |-> None,
            commands |-> 0, auto |-> TRUE, mission |-> "idle"]
  /\ lock = "free"
  /\ ctx = [a \in Attempts |-> NoContext]
  /\ th = [t \in Threads |-> Idle]
  /\ pump = [owner |-> None, cutoff |-> 0, gone |-> {}]
  /\ status = <<>>
  /\ told = [a \in Attempts |-> {}]
  /\ record = [a \in Attempts |-> "none"]
  /\ stopped = [before |-> 0, surveys |-> {}, lost |-> {}, completed |-> {}]
  /\ left \in [orders : Scripts, stops : {MaxStops}, troubles : {MaxTroubles}, web : {MaxWeb}]

-----------------------------------------------------------------------------
(* Small steps that the handlers share.                                    *)

Used == {a \in Attempts : ctx[a].source # "none"}
Fresh == Cardinality(Used) + 1

Go(t, pc) == th' = [th EXCEPT ![t].pc = pc]
Done(t) == th' = [th EXCEPT ![t] = Idle]
Free(t) == lock \in {"free", t}
Release(t) == lock' = IF lock = t THEN "free" ELSE lock

(* _emit_sample_record writes one record per attempt, the first.           *)
Emit(a, outcome) ==
  record' = IF a # None /\ record[a] = "none" THEN [record EXCEPT ![a] = outcome] ELSE record

Tell(a, outcome) ==
  told' = IF a = None THEN told ELSE [told EXCEPT ![a] = @ \cup {outcome}]

Report(a, outcome) == Emit(a, outcome) /\ Tell(a, outcome)

(* The owner whose lease the main loop renews once a second.               *)
LeaseOf == IF trg.current # None /\ ctx[trg.current].named THEN trg.current ELSE IF trg.survey THEN trg.owner ELSE None
Renewed(a) == (trg.sampling \/ trg.survey) /\ LeaseOf = a

NewContext(a, source, stamp, retries) ==
  ctx' = [ctx EXCEPT ![a] = [NoContext EXCEPT !.source = source, !.asked = stamp,
                                              !.gen = trg.gen, !.retries = retries,
                                              !.named = source # "survey"]]

-----------------------------------------------------------------------------
(* A cleanup is a call of the pump for one attempt.  `finishing' is set    *)
(* for its duration and restored to what it was.                           *)

CleanupCall(t, a, then) ==
  /\ a # None
  /\ \E confirmed \in {TRUE} \cup (IF left.troubles > 0 THEN {FALSE} ELSE {}) :
       /\ left' = IF confirmed THEN left ELSE [left EXCEPT !.troubles = @ - 1]
       /\ th' = [th EXCEPT ![t].pc = "cleaning", ![t].then = then, ![t].saved = trg.finishing,
                           ![t].seen = a, ![t].over = pump.owner \notin {None, a},
                           ![t].ok = confirmed /\ pump.owner \in {None, a}]
  /\ pump' = [pump EXCEPT !.owner = IF @ = a THEN None ELSE @, !.gone = @ \cup {a}]
  /\ status' = IF pump.owner = a THEN Append(status, [attempt |-> a, kind |-> "fault"]) ELSE status
  /\ trg' = [trg EXCEPT !.finishing = TRUE]

CleanupReturn(t) ==
  /\ th[t].pc = "cleaning"
  /\ trg' = [trg EXCEPT !.finishing = th[t].saved]
  /\ Go(t, th[t].then)
  /\ UNCHANGED <<lock, ctx, pump, status, told, record, stopped, left>>

-----------------------------------------------------------------------------
(* Starting.  The lane takes a command; a service and the retry of a       *)
(* waypoint come on threads of their own.                                  *)

Order ==
  /\ left.orders # <<>> /\ Head(left.orders) # "waypoint"
  /\ th["lane"].pc = "idle" /\ th["stop"].pc = "idle"
  /\ left' = [left EXCEPT !.orders = Tail(@)]
  /\ th' = [th EXCEPT !["lane"] = [Idle EXCEPT !.pc = "check", !.kind = Head(left.orders),
                                     !.stamp = pump.cutoff, !.gen = trg.commands]]
  /\ UNCHANGED <<trg, lock, ctx, pump, status, told, record, stopped>>

TriggerService ==
  /\ left.orders # <<>> /\ Head(left.orders) = "waypoint" /\ th["service"].pc = "idle"
  /\ left' = [left EXCEPT !.orders = Tail(@)]
  /\ th' = [th EXCEPT !["service"] = [Idle EXCEPT !.pc = "check", !.kind = "waypoint",
                                        !.stamp = Retries]]
  /\ UNCHANGED <<trg, lock, ctx, pump, status, told, record, stopped>>

(* From the test whether something is sampled to the answer of the pump.   *)
(* Nothing in the code keeps two threads from being there together, and    *)
(* what they share is then mixed up: the payload of one is made of the     *)
(* context of the other.  OneStarter leaves that out.                      *)
StartPart == {"claim", "hold", "prepare", "guard", "call", "answer", "enter", "flags"}
MayStart(t) == OneStarter => \A u \in Threads \ {t} : th[u].pc \notin StartPart

(* The test that is made without a lock.  A retry may start while its      *)
(* predecessor is being closed.                                            *)
Check(t) ==
  /\ th[t].pc = "check" /\ th[t].kind \in {"manual", "fcu", "waypoint"} /\ MayStart(t)
  /\ IF \/ trg.sampling \/ (trg.finishing /\ t # "retry")
        \/ t = "lane" /\ th[t].gen # trg.commands
     THEN Done(t) ELSE Go(t, "claim")
  /\ UNCHANGED <<trg, lock, ctx, pump, status, told, record, stopped, left>>

ClaimPoint(t) ==
  /\ th[t].pc = "claim" /\ th[t].kind \in {"manual", "fcu"} /\ Fresh \in Attempts
  /\ NewContext(Fresh, th[t].kind, th[t].stamp, 0)
  /\ trg' = [trg EXCEPT !.current = Fresh, !.sampling = TRUE, !.mission = "sampling"]
  /\ th' = [th EXCEPT ![t].pc = "prepare", ![t].a = Fresh]
  /\ UNCHANGED <<lock, pump, status, told, record, stopped, left>>

(* A waypoint's attempt is current while the vehicle is brought to rest,   *)
(* but nothing is sampled yet.                                             *)
ClaimWaypoint(t) ==
  /\ th[t].pc = "claim" /\ th[t].kind = "waypoint" /\ Fresh \in Attempts
  /\ NewContext(Fresh, "waypoint", 0, th[t].stamp)
  /\ trg' = [trg EXCEPT !.current = Fresh, !.mission = "idle"]
  /\ th' = [th EXCEPT ![t].pc = "hold", ![t].a = Fresh]
  /\ UNCHANGED <<lock, pump, status, told, record, stopped, left>>

Hold(t) ==
  /\ th[t].pc = "hold"
  /\ \/ Go(t, "prepare") /\ UNCHANGED left
     \/ left.troubles > 0 /\ Go(t, "act") /\ left' = [left EXCEPT !.troubles = @ - 1]
  /\ UNCHANGED <<trg, lock, ctx, pump, status, told, record, stopped>>

(* A start that carries out a command has the time the command came in;    *)
(* any other is stamped with the present time.                             *)
StampNow(t) == pump.cutoff
Stamp(t) == IF th[t].kind \in {"manual", "fcu"} THEN th[t].stamp ELSE pump.cutoff

(* The payload is made of the context that is current by now, whoever      *)
(* made it.                                                                *)
Prepare(t) ==
  /\ th[t].pc = "prepare"
  /\ LET c == trg.current
         survey == th[t].kind = "survey"
     IN
     IF th[t].kind = "fcu" /\ c # th[t].a
     THEN CleanupCall(t, th[t].a, "quit") /\ UNCHANGED <<lock, ctx, told, record, stopped>>
     ELSE /\ ctx' = IF c = None THEN ctx
                    ELSE [ctx EXCEPT ![c].started = FALSE, ![c].named = TRUE,
                                     ![c].source = IF survey THEN "survey" ELSE @,
                                     ![c].issued = Stamp(t)]
          /\ trg' = [trg EXCEPT !.prepared = c,
                                !.owner = IF survey THEN c ELSE @,
                                !.sampling = @ \/ th[t].kind = "waypoint",
                                !.mission = IF th[t].kind = "waypoint" THEN "sampling" ELSE @]
          /\ th' = [th EXCEPT ![t].pc = "guard", ![t].a = IF survey THEN c ELSE @]
          /\ UNCHANGED <<lock, pump, status, told, record, stopped, left>>

(* _start_prepared_automation_locked, up to the call.                      *)
Guard(t) ==
  /\ th[t].pc = "guard" /\ Free(t)
  /\ IF trg.sampling /\ trg.current # None /\ ~ctx[trg.current].cancel
     THEN lock' = t /\ th' = [th EXCEPT ![t].pc = "call", ![t].exp = trg.current]
     ELSE UNCHANGED lock /\ Go(t, "refused")
  /\ UNCHANGED <<trg, ctx, pump, status, told, record, stopped, left>>

Admits(a) == pump.owner = None /\ ctx[a].issued >= pump.cutoff /\ a \notin pump.gone

(* The pump starts the attempt or refuses it, and the reply may be lost.   *)
Call(t) ==
  /\ th[t].pc = "call"
  /\ trg' = [trg EXCEPT !.prepared = None]
  /\ LET p == trg.prepared
         runs == p # None /\ Admits(p)
     IN \E admitted \in IF runs THEN BOOLEAN ELSE {FALSE},
           heard \in {TRUE} \cup (IF left.troubles > 0 THEN {FALSE} ELSE {}) :
          /\ left' = IF heard THEN left ELSE [left EXCEPT !.troubles = @ - 1]
          /\ pump' = IF admitted THEN [pump EXCEPT !.owner = p] ELSE pump
          /\ th' = [th EXCEPT ![t].pc = "answer", ![t].ok = admitted /\ heard,
                              ![t].seen = IF trg.current = p THEN p ELSE None]
  /\ UNCHANGED <<lock, ctx, status, told, record, stopped>>

Spawn(a, kind, threads) ==
  \E d \in Dones : /\ threads[d].pc = "idle"
                   /\ th' = [threads EXCEPT ![d] = [Idle EXCEPT !.pc = "complete", !.exp = a,
                                                                !.end = kind]]

(* The context learns that the start was answered, and why it failed if    *)
(* nothing told it before.                                                 *)
Rejected(a) ==
  [ctx EXCEPT ![a].answered = TRUE,
              ![a].reason = IF @ # "none" THEN @ ELSE IF ctx[a].cancel THEN "stop" ELSE "fault"]

(* An end that was reported before the start was answered is handled once  *)
(* it is.                                                                  *)
ForgetEnd(a, threads) == th' = threads
HandleEnd(a, threads) ==
  IF ctx[a].pending = "none" THEN th' = threads ELSE Spawn(a, ctx[a].pending, threads)

(* The attempt counts as started if it is still the current one; what      *)
(* became of it in the meantime is handled now.                            *)
Answer(t) ==
  /\ th[t].pc = "answer"
  /\ LET a == th[t].exp
         mine == trg.sampling /\ trg.current = a /\ ~ctx[a].cancel
         held == IF t = "loop" THEN t ELSE "free"
         back == [th EXCEPT ![t] = IF t = "loop" THEN [@ EXCEPT !.pc = "started"] ELSE Idle]
     IN \/ /\ th[t].ok /\ mine
           /\ ctx' = [ctx EXCEPT ![a].started = TRUE, ![a].pending = "none", ![a].answered = TRUE]
           /\ HandleEnd(a, back)
           /\ lock' = held
           /\ UNCHANGED <<trg, pump, status, left>>
        \/ /\ th[t].ok /\ ~mine
           /\ CleanupCall(t, a, "recanted")
           /\ ctx' = [ctx EXCEPT ![a].answered = TRUE]
           /\ UNCHANGED lock
        \/ /\ ~th[t].ok
           /\ ctx' = IF th[t].seen = None THEN ctx ELSE Rejected(th[t].seen)
           /\ lock' = held
           /\ Go(t, "refused")
           /\ UNCHANGED <<trg, pump, status, left>>
  /\ UNCHANGED <<told, record, stopped>>

Recanted(t) ==
  /\ th[t].pc = "recanted"
  /\ Go(t, "refused")
  /\ lock' = IF t = "loop" THEN lock ELSE "free"
  /\ UNCHANGED <<trg, ctx, pump, status, told, record, stopped, left>>

(* What a failed start leaves to do.  The manual start looks at the reason *)
(* it has given before; the autopilot's is closed as a completion is.      *)
Refused(t) ==
  /\ th[t].pc = "refused"
  /\ \/ /\ th[t].kind = "manual"
        /\ ctx' = [ctx EXCEPT ![th[t].a].reason =
                     IF @ # "none" THEN @ ELSE IF ctx[th[t].a].cancel THEN "stop" ELSE "fault"]
        /\ CleanupCall(t, th[t].a, "closeManual")
        /\ UNCHANGED lock
     \/ /\ th[t].kind = "waypoint"
        /\ CleanupCall(t, th[t].a, "closeWaypoint")
        /\ UNCHANGED <<ctx, lock>>
     \/ /\ th[t].kind = "fcu"
        /\ th' = [th EXCEPT ![t].pc = "complete", ![t].exp = th[t].a, ![t].end = "fault"]
        /\ UNCHANGED <<ctx, lock, trg, pump, status, left>>
     \/ /\ th[t].kind = "survey"
        /\ IF trg.survey /\ trg.current = th[t].a /\ th[t].a # None
           THEN CleanupCall(t, th[t].a, "closeSurvey") /\ UNCHANGED lock
           ELSE Go(t, "look") /\ lock' = "free" /\ UNCHANGED <<trg, pump, status, left>>
        /\ UNCHANGED ctx
  /\ UNCHANGED <<told, record, stopped>>

CloseManual(t) ==
  /\ th[t].pc = "closeManual"
  /\ LET a == th[t].a IN
     /\ Report(a, IF ctx[a].cancel /\ ctx[a].reason \in {"stop", "lost"}
                  THEN "cancelled" ELSE "failed")
     /\ trg' = IF trg.current # a THEN trg
               ELSE [trg EXCEPT !.sampling = FALSE, !.current = None, !.mission = "idle"]
  /\ Done(t)
  /\ UNCHANGED <<lock, ctx, pump, status, stopped, left>>

(* `is_sampling' is reset whoever the current attempt belongs to.          *)
CloseWaypoint(t) ==
  /\ th[t].pc = "closeWaypoint"
  /\ Emit(th[t].a, "failed")
  /\ trg' = [trg EXCEPT !.sampling = FALSE, !.mission = IF th[t].over THEN @ ELSE "idle"]
  /\ ctx' = IF th[t].over \/ th[t].ok THEN ctx ELSE [ctx EXCEPT ![th[t].a].retries = 0]
  /\ stopped' = [stopped EXCEPT !.lost = @ \cup ({trg.current} \ {None, th[t].a})]
  /\ IF th[t].over THEN Done(t) ELSE Go(t, "act")
  /\ UNCHANGED <<lock, pump, status, told, left>>

CloseSurvey(t) ==
  /\ th[t].pc = "closeSurvey"
  /\ Report(th[t].a, "failed")
  /\ trg' = [trg EXCEPT !.sampling = FALSE, !.sample = FALSE, !.current = None,
                        !.survey = FALSE, !.mission = "idle"]
  /\ lock' = "free"
  /\ Go(t, "leave")
  /\ UNCHANGED <<ctx, pump, status, stopped, left>>

(* _handle_failure_action of an attempt that is not the autopilot's: the   *)
(* current context says whether there is a retry left.                     *)
FailureAction(threads) ==
  LET c == trg.current IN
  IF c # None /\ ctx[c].retries > 0
  THEN /\ threads["retry"].pc = "idle"
       /\ ctx' = [ctx EXCEPT ![c].retries = @ - 1]
       /\ th' = [threads EXCEPT !["retry"] = [Idle EXCEPT !.pc = "check", !.kind = "waypoint",
                                                         !.stamp = ctx[c].retries - 1]]
  ELSE th' = threads /\ UNCHANGED ctx

Act(t) ==
  /\ th[t].pc = "act"
  /\ FailureAction([th EXCEPT ![t] = Idle])
  /\ UNCHANGED <<trg, lock, pump, status, told, record, stopped, left>>

Quit(t) ==
  /\ th[t].pc = "quit"
  /\ Done(t)
  /\ UNCHANGED <<trg, lock, ctx, pump, status, told, record, stopped, left>>

-----------------------------------------------------------------------------
(* The end of an attempt: _handle_completion.                              *)

(* A cancellation that was noted in the context decides over what the      *)
(* message says, unless a failure was noted as well.                       *)
OutcomeAsSent(c, end) ==
  IF c.cancel THEN IF c.reason \in {"none", "stop"} THEN "cancelled" ELSE "failed" ELSE end
OutcomeOf(c, end) ==
  IF c.cancel THEN IF c.reason \in {"none", "stop"} THEN "cancelled" ELSE "failed"
  ELSE CASE end = "done" -> "succeeded" [] end = "stop" -> "cancelled" [] OTHER -> "failed"

Complete(t) ==
  /\ th[t].pc = "complete"
  /\ LET a == th[t].exp
         outcome == OutcomeOf(ctx[a], th[t].end)
         broken == trg.sample /\ outcome # "succeeded"
         claimed == [trg EXCEPT !.sampling = FALSE, !.finishing = TRUE, !.sample = FALSE,
                                !.survey = @ /\ ~broken,
                                !.current = IF broken \/ ctx[a].source = "fcu" THEN None ELSE @]
     IN IF ~trg.sampling \/ trg.finishing \/ trg.current # a
        THEN Done(t) /\ UNCHANGED trg
        ELSE /\ trg' = claimed
             /\ th' = [th EXCEPT ![t] =
                  [Idle EXCEPT !.pc = IF trg.sample /\ ~broken THEN "report" ELSE "cleanup",
                               !.a = a, !.kind = IF trg.sample THEN "survey" ELSE ctx[a].source,
                               !.early = ~ctx[a].started /\ ctx[a].answered,
                               !.ok = TRUE, !.end = outcome]]
  /\ UNCHANGED <<lock, ctx, pump, status, told, record, stopped, left>>

CompletionCleanup(t) ==
  /\ th[t].pc = "cleanup"
  /\ CleanupCall(t, th[t].a, "report")
  /\ UNCHANGED <<lock, ctx, told, record, stopped>>

(* A newer owner of the pump is left alone; an attempt that could not be   *)
(* halted has failed; otherwise the outcome stands.                        *)
CompletionReport(t) ==
  /\ th[t].pc = "report"
  /\ LET a == th[t].a
         kind == th[t].kind
         outcome == IF ~th[t].ok THEN "failed"
                    ELSE IF kind = "fcu" /\ ~trg.auto THEN "cancelled" ELSE th[t].end
         over == th[t].over
         idle == [trg EXCEPT !.finishing = FALSE,
                    !.current = IF kind = "manual" /\ outcome = "succeeded" THEN None ELSE @,
                    !.survey = @ /\ ~(kind = "survey" /\ outcome = "failed"),
                    !.mission = IF kind = "survey" /\ outcome = "succeeded" /\ trg.survey
                                THEN "surveying" ELSE "idle"]
     IN \/ /\ over
           /\ IF th[t].early THEN Report(a, "failed") ELSE Tell(a, "cancelled") /\ UNCHANGED record
           /\ trg' = [trg EXCEPT !.finishing = FALSE]
           /\ Done(t) /\ UNCHANGED ctx
        \/ /\ ~over
           /\ Report(a, outcome)
           /\ \E moved \in IF kind = "fcu" /\ outcome # "succeeded" THEN BOOLEAN ELSE {FALSE} :
                trg' = [idle EXCEPT !.auto = @ /\ ~moved]
           /\ IF outcome = "failed" /\ kind \in {"manual", "waypoint"}
              THEN FailureAction([th EXCEPT ![t] = Idle])
              ELSE Done(t) /\ UNCHANGED ctx
  /\ UNCHANGED <<lock, pump, status, stopped, left>>

(* _automation_status_cb: a terminal message of the pump, which concerns   *)
(* the current attempt or nobody.                                          *)
ConcernsWhoever(a) == trg.current # None
Concerns(a) == trg.current = a

Deliver ==
  /\ status # <<>>
  /\ status' = Tail(status)
  /\ LET a == Head(status).attempt
         end == Head(status).kind
         c == trg.current
         gap == c # None /\ ctx[c].source = "survey" /\ trg.survey /\ end = "stop"
         noted == [ctx EXCEPT ![c].reason = IF @ = "none" THEN end ELSE @,
                              ![c].cancel = @ \/ gap]
     IN \/ /\ ~(trg.sampling \/ gap) \/ ~Concerns(a)
           /\ UNCHANGED <<trg, ctx, th>>
        \/ /\ Concerns(a) /\ gap /\ ~trg.sampling
           /\ ctx' = noted
           /\ trg' = [trg EXCEPT !.survey = FALSE]
           /\ th["watch"].pc = "idle"
           /\ th' = [th EXCEPT !["watch"] = [Idle EXCEPT !.pc = "stop", !.exp = c]]
        \/ /\ Concerns(a) /\ trg.sampling /\ ~ctx[c].started
           /\ ctx' = [noted EXCEPT ![c].pending = IF @ = "none" \/ end # "done" THEN end ELSE @]
           /\ trg' = [trg EXCEPT !.survey = @ /\ ~gap]
           /\ UNCHANGED th
        \/ /\ Concerns(a) /\ trg.sampling /\ ctx[c].started
           /\ ctx' = noted
           /\ trg' = [trg EXCEPT !.survey = @ /\ ~gap]
           /\ Spawn(c, end, th)
  /\ UNCHANGED <<lock, pump, told, record, stopped, left>>

-----------------------------------------------------------------------------
(* Stopping: an operator's command (exp = None), the loss of the session,  *)
(* or the autopilot (exp is the attempt it was about).                     *)

StopCommand ==
  /\ left.stops > 0 /\ th["stop"].pc = "idle"
  /\ left' = [left EXCEPT !.stops = @ - 1]
  /\ trg' = [trg EXCEPT !.commands = @ + 1]
  /\ th' = [th EXCEPT !["stop"] = [Idle EXCEPT !.pc = "stop"]]
  /\ UNCHANGED <<lock, ctx, pump, status, told, record, stopped>>

SessionLost ==
  /\ left.stops > 0 /\ th["stop"].pc = "idle"
  /\ trg.sampling \/ trg.survey \/ th["lane"].pc # "idle"
  /\ left' = [left EXCEPT !.stops = @ - 1]
  /\ trg' = [trg EXCEPT !.commands = @ + 1]
  /\ ctx' = IF (trg.sampling \/ trg.survey) /\ trg.current # None
            THEN [ctx EXCEPT ![trg.current].cancel = TRUE,
                             ![trg.current].reason = IF @ = "none" THEN "lost" ELSE @]
            ELSE ctx
  /\ th' = [th EXCEPT !["stop"] = [Idle EXCEPT !.pc = "stop"]]
  /\ UNCHANGED <<lock, pump, status, told, record, stopped>>

(* The autopilot is lost or leaves its mission, or has been silent for     *)
(* three seconds.  Only the first two are noted in the context.            *)
FcuLost ==
  /\ left.troubles > 0 /\ trg.auto
  /\ left' = [left EXCEPT !.troubles = @ - 1]
  /\ trg' = [trg EXCEPT !.auto = FALSE]
  /\ IF trg.sampling /\ trg.current # None /\ ctx[trg.current].source = "fcu"
     THEN /\ ctx' = [ctx EXCEPT ![trg.current].cancel = TRUE]
          /\ th["watch"].pc = "idle"
          /\ th' = [th EXCEPT !["watch"] = [Idle EXCEPT !.pc = "stop", !.exp = trg.current]]
     ELSE UNCHANGED <<ctx, th>>
  /\ UNCHANGED <<lock, pump, status, told, record, stopped>>

FcuSilent ==
  /\ left.troubles > 0 /\ th["watch"].pc = "idle"
  /\ trg.sampling /\ trg.current # None /\ ctx[trg.current].source = "fcu"
  /\ left' = [left EXCEPT !.troubles = @ - 1]
  /\ th' = [th EXCEPT !["watch"] = [Idle EXCEPT !.pc = "stop", !.exp = trg.current]]
  /\ UNCHANGED <<trg, lock, ctx, pump, status, told, record, stopped>>

(* With the lock free, everything is done under it.  With the lock taken   *)
(* by a start, the pump is stopped first and the lock joined later.        *)
StopBegin(t) ==
  /\ th[t].pc = "stop"
  /\ LET c == trg.current IN
     IF lock = "free"
     THEN lock' = t /\ Go(t, "claimStop") /\ UNCHANGED ctx
     ELSE /\ UNCHANGED lock
          /\ IF th[t].exp # None /\ c # th[t].exp
             THEN Done(t) /\ UNCHANGED ctx
             ELSE /\ ctx' = IF c = None THEN ctx ELSE [ctx EXCEPT ![c].cancel = TRUE]
                  /\ th' = [th EXCEPT ![t].pc = "halt", ![t].then = "join", ![t].a = c,
                              ![t].kind = IF trg.survey THEN "survey"
                                          ELSE IF c = None THEN "none" ELSE ctx[c].source]
  /\ UNCHANGED <<trg, pump, status, told, record, stopped, left>>

(* The call: of everything, or of the one attempt.                         *)
Halt(t) ==
  /\ th[t].pc = "halt"
  /\ IF th[t].exp # None /\ th[t].a # None
     THEN CleanupCall(t, th[t].a, th[t].then) /\ UNCHANGED <<lock, ctx, told, record, stopped>>
     ELSE /\ \E confirmed \in {TRUE} \cup (IF left.troubles > 0 THEN {FALSE} ELSE {}) :
               /\ left' = IF confirmed THEN left ELSE [left EXCEPT !.troubles = @ - 1]
               /\ th' = [th EXCEPT ![t].pc = th[t].then, ![t].ok = confirmed,
                                   ![t].stamp = pump.cutoff + 1]
          /\ pump' = [pump EXCEPT !.owner = None, !.cutoff = @ + 1]
          /\ status' = IF pump.owner \in Attempts
                       THEN Append(status, [attempt |-> pump.owner, kind |-> "stop"]) ELSE status
          /\ UNCHANGED <<trg, lock, ctx, told, record, stopped>>

Join(t) ==
  /\ th[t].pc = "join" /\ lock = "free"
  /\ lock' = t
  /\ th' = [th EXCEPT ![t].pc = "claimStop", ![t].ok = @ \/ th[t].over, ![t].over = FALSE]
  /\ UNCHANGED <<trg, ctx, pump, status, told, record, stopped, left>>

(* Nothing is sampled from here on, and the context is taken away before   *)
(* the pump's answer can report its end.                                   *)
StopClaim(t) ==
  /\ th[t].pc = "claimStop"
  /\ LET joined == th[t].then = "join"
         c == IF joined THEN th[t].a ELSE trg.current
         survey == trg.survey \/ (IF joined THEN th[t].kind = "survey"
                                  ELSE c # None /\ ctx[c].source = "survey")
     IN IF th[t].exp # None /\ trg.current # th[t].exp
        THEN Done(t) /\ lock' = "free" /\ UNCHANGED trg
        ELSE /\ trg' = [trg EXCEPT !.finishing = TRUE, !.sampling = FALSE, !.current = None,
                          !.prepared = None, !.survey = FALSE, !.sample = @ /\ ~survey,
                          !.live = IF survey THEN 0 ELSE @, !.owner = IF survey THEN None ELSE @]
             /\ th' = [th EXCEPT ![t].pc = IF joined THEN "stopReport" ELSE "halt",
                                 ![t].then = "stopReport", ![t].kept = trg.finishing, ![t].a = c,
                                 ![t].kind = IF c = None THEN "none" ELSE ctx[c].source]
             /\ UNCHANGED lock
  /\ UNCHANGED <<ctx, pump, status, told, record, stopped, left>>

StopReport(t) ==
  /\ th[t].pc = "stopReport"
  /\ IF th[t].over
     THEN Tell(th[t].a, "cancelled") /\ UNCHANGED record
     ELSE Report(th[t].a, IF th[t].ok THEN "cancelled" ELSE "failed")
  /\ \E moved \in IF th[t].kind = "fcu" THEN BOOLEAN ELSE {FALSE} :
       trg' = [trg EXCEPT !.finishing = th[t].kept, !.auto = @ /\ ~moved,
                          !.mission = IF th[t].over THEN @ ELSE "idle",
                          !.current = IF th[t].kind = "manual" THEN None ELSE @]
  /\ stopped' = IF th[t].exp = None /\ th[t].ok
                THEN [stopped EXCEPT !.before = IF th[t].stamp > @ THEN th[t].stamp ELSE @]
                ELSE stopped
  /\ lock' = "free"
  /\ Done(t)
  /\ UNCHANGED <<ctx, pump, status, left>>

-----------------------------------------------------------------------------
(* The survey: a thread that starts one attempt after the other.           *)

StartSurvey ==
  /\ th["lane"].pc = "check" /\ th["lane"].kind = "survey" /\ lock = "free" /\ MayStart("lane")
  /\ IF trg.survey \/ trg.sampling \/ trg.finishing \/ th["lane"].gen # trg.commands
     THEN Done("lane") /\ UNCHANGED trg
     ELSE /\ th["loop"].pc \in {"idle", "look", "leave"}
          /\ trg' = [trg EXCEPT !.survey = TRUE, !.current = None, !.owner = None,
                                !.gen = @ + 1, !.live = trg.gen + 1, !.mission = "surveying"]
          /\ th' = [th EXCEPT !["lane"] = Idle,
                              !["loop"] = [Idle EXCEPT !.pc = "look", !.kind = "survey",
                                                       !.stamp = th["lane"].stamp,
                                                       !.gen = trg.gen + 1]]
  /\ UNCHANGED <<lock, ctx, pump, status, told, record, stopped, left>>

Active == trg.survey /\ th["loop"].gen = trg.live

(* Whether something is sampled is read before the lock is taken.          *)
SurveyLook ==
  /\ th["loop"].pc = "look"
  /\ IF Active THEN ~trg.sampling /\ MayStart("loop") /\ Go("loop", "enter") ELSE Go("loop", "leave")
  /\ UNCHANGED <<trg, lock, ctx, pump, status, told, record, stopped, left>>

SurveyEnter ==
  /\ th["loop"].pc = "enter" /\ lock = "free"
  /\ IF Active /\ ~trg.finishing
     THEN lock' = "loop" /\ Go("loop", "flags")
     ELSE UNCHANGED lock /\ Go("loop", "look")
  /\ UNCHANGED <<trg, ctx, pump, status, told, record, stopped, left>>

(* The gate may say no, or the survey be stopped meanwhile.                *)
SurveyFlags ==
  /\ th["loop"].pc = "flags"
  /\ \/ /\ lock' = "free" /\ Go("loop", "look")
        /\ UNCHANGED <<trg, ctx>>
     \/ /\ trg.survey /\ Fresh \in Attempts
        /\ NewContext(Fresh, "survey", th["loop"].stamp, 0)
        /\ trg' = [trg EXCEPT !.sampling = TRUE, !.sample = TRUE, !.current = Fresh]
        /\ th' = [th EXCEPT !["loop"].pc = "prepare", !["loop"].a = Fresh]
        /\ UNCHANGED lock
  /\ UNCHANGED <<pump, status, told, record, stopped, left>>

SurveyStarted ==
  /\ th["loop"].pc = "started"
  /\ lock' = "free" /\ Go("loop", "look")
  /\ UNCHANGED <<trg, ctx, pump, status, told, record, stopped, left>>

SurveyLeave ==
  /\ th["loop"].pc = "leave" /\ lock = "free"
  /\ trg' = IF th["loop"].gen = trg.live THEN [trg EXCEPT !.survey = FALSE] ELSE trg
  /\ Done("loop")
  /\ UNCHANGED <<lock, ctx, pump, status, told, record, stopped, left>>

(* STOP_SURVEY takes state_lock only, never the lock of the starts.        *)
StopSurvey ==
  /\ left.stops > 0 /\ th["stop"].pc = "idle"
  /\ left' = [left EXCEPT !.stops = @ - 1]
  /\ IF ~trg.survey
     THEN UNCHANGED <<trg, th>>
     ELSE /\ trg' = [trg EXCEPT !.commands = @ + 1, !.survey = FALSE, !.sample = FALSE, !.live = 0,
                                !.owner = None, !.sampling = FALSE, !.current = None,
                                !.prepared = None]
          /\ th' = [th EXCEPT !["stop"] = [Idle EXCEPT !.a = trg.current, !.gen = trg.live,
                      !.ok = TRUE, !.early = trg.sampling, !.kind = "survey",
                      !.pc = IF trg.current # None /\ ctx[trg.current].named
                             THEN "endSurvey" ELSE "reportSurvey"]]
  /\ UNCHANGED <<lock, ctx, pump, status, told, record, stopped>>

EndSurvey ==
  /\ th["stop"].pc = "endSurvey"
  /\ CleanupCall("stop", th["stop"].a, "reportSurvey")
  /\ UNCHANGED <<lock, ctx, told, record, stopped>>

ReportSurvey ==
  /\ th["stop"].pc = "reportSurvey"
  /\ LET s == th["stop"] IN
     /\ IF s.early THEN Emit(s.a, IF s.ok \/ s.over THEN "cancelled" ELSE "failed")
                   ELSE UNCHANGED record
     /\ trg' = IF s.over THEN trg ELSE [trg EXCEPT !.mission = "idle"]
     /\ stopped' = IF s.ok THEN [stopped EXCEPT !.surveys = @ \cup {s.gen}] ELSE stopped
  /\ Done("stop")
  /\ UNCHANGED <<lock, ctx, pump, status, told, left>>

-----------------------------------------------------------------------------
(* Pause and resume: the answer of the pump counts for the attempt that    *)
(* was current when it was asked.                                          *)

AskPump ==
  /\ th["lane"].pc = "check" /\ th["lane"].kind \in {"pause", "resume"}
  /\ IF trg.current # None /\ pump.owner = trg.current
     THEN th' = [th EXCEPT !["lane"].pc = "paused", !["lane"].exp = trg.current]
     ELSE Done("lane")
  /\ UNCHANGED <<trg, lock, ctx, pump, status, told, record, stopped, left>>

NotePauseLate ==
  /\ th["lane"].pc = "paused"
  /\ trg' = [trg EXCEPT !.mission = IF th["lane"].kind = "pause" THEN "paused" ELSE "sampling"]
  /\ Done("lane")
  /\ UNCHANGED <<lock, ctx, pump, status, told, record, stopped, left>>

NotePause ==
  /\ th["lane"].pc = "paused"
  /\ LET a == th["lane"].exp IN
     trg' = IF trg.sampling /\ trg.current = a /\ ~ctx[a].cancel
            THEN [trg EXCEPT !.mission = IF th["lane"].kind = "pause" THEN "paused" ELSE "sampling"]
            ELSE trg
  /\ Done("lane")
  /\ UNCHANGED <<lock, ctx, pump, status, told, record, stopped, left>>

-----------------------------------------------------------------------------
(* The pump node and its other client.                                     *)

PumpEnds(end) ==
  /\ pump.owner \in Attempts
  /\ pump' = [pump EXCEPT !.owner = None]
  /\ status' = Append(status, [attempt |-> pump.owner, kind |-> end])
  /\ stopped' = IF end = "done" THEN [stopped EXCEPT !.completed = @ \cup {pump.owner}] ELSE stopped
  /\ UNCHANGED <<trg, lock, ctx, th, told, record, left>>

(* An owner that is not renewed for five seconds is stopped.               *)
LeaseEnds ==
  /\ pump.owner \in Attempts /\ ~Renewed(pump.owner)
  /\ PumpEnds("fault")

WebStarts ==
  /\ left.web > 0 /\ pump.owner = None
  /\ left' = [left EXCEPT !.web = @ - 1]
  /\ pump' = [pump EXCEPT !.owner = Web]
  /\ UNCHANGED <<trg, lock, ctx, th, status, told, record, stopped>>

WebStops ==
  /\ pump.owner \in Attempts /\ left.web > 0
  /\ left' = [left EXCEPT !.web = @ - 1]
  /\ pump' = [pump EXCEPT !.owner = None, !.cutoff = @ + 1]
  /\ status' = Append(status, [attempt |-> pump.owner, kind |-> "stop"])
  /\ UNCHANGED <<trg, lock, ctx, th, told, record, stopped>>

WebEnds ==
  /\ pump.owner = Web
  /\ pump' = [pump EXCEPT !.owner = None]
  /\ UNCHANGED <<trg, lock, ctx, th, status, told, record, stopped, left>>

-----------------------------------------------------------------------------
Starting(t) ==
  \/ Check(t) \/ ClaimPoint(t) \/ ClaimWaypoint(t) \/ Hold(t) \/ Prepare(t) \/ Guard(t) \/ Call(t)
  \/ Answer(t) \/ Recanted(t) \/ Refused(t) \/ CloseManual(t) \/ CloseWaypoint(t) \/ CloseSurvey(t)
  \/ Act(t) \/ Quit(t)
Completing(t) == Complete(t) \/ CompletionCleanup(t) \/ CompletionReport(t)
Stopping(t) == StopBegin(t) \/ Halt(t) \/ Join(t) \/ StopClaim(t) \/ StopReport(t)
Surveying == SurveyLook \/ SurveyEnter \/ SurveyFlags \/ SurveyStarted \/ SurveyLeave
Runs(t) == Starting(t) \/ Completing(t) \/ Stopping(t) \/ CleanupReturn(t)
Steps(t) == \/ Runs(t)
            \/ t = "lane" /\ (StartSurvey \/ AskPump \/ NotePause)
            \/ t = "stop" /\ (EndSurvey \/ ReportSurvey)
            \/ t = "loop" /\ Surveying

Next ==
  \/ Order \/ TriggerService \/ StopCommand \/ StopSurvey \/ SessionLost \/ FcuLost \/ FcuSilent
  \/ \E t \in Threads : Steps(t)
  \/ Deliver
  \/ \E end \in {"done", "fault"} : PumpEnds(end)
  \/ LeaseEnds \/ WebStarts \/ WebStops \/ WebEnds

Spec == Init /\ [][Next]_vars

-----------------------------------------------------------------------------
TypeOK ==
  /\ trg \in [sampling : BOOLEAN, finishing : BOOLEAN, current : {None} \cup Attempts,
              prepared : {None} \cup Attempts, survey : BOOLEAN, sample : BOOLEAN, gen : Nat,
              live : Nat, owner : {None} \cup Attempts, commands : Nat, auto : BOOLEAN,
              mission : {"idle", "sampling", "paused", "surveying"}]
  /\ lock \in {"free"} \cup Threads
  /\ pump.owner \in {None, Web} \cup Attempts /\ pump.cutoff \in Nat /\ pump.gone \subseteq Attempts
  /\ \A a \in Attempts : told[a] \subseteq Outcomes /\ record[a] \in Outcomes \cup {"none"}

(* After a stop of everything is done, the pump runs no attempt of a       *)
(* command that had been given before it, even one that was still on its   *)
(* way; after a survey was stopped it runs no sample of that survey, but   *)
(* one whose flag the failure of a waypoint had taken away.                *)
StopHolds ==
  \A a \in Attempts : pump.owner = a =>
    /\ ctx[a].source \in {"manual", "fcu"} => ctx[a].asked >= stopped.before
    /\ ctx[a].source = "survey" => ctx[a].gen \notin stopped.surveys \/ a \in stopped.lost

(* The same of the samples of a survey whose command had been given before *)
(* a stop of everything: the stop waits for the reply to a start that is   *)
(* on its way and cleans up what it began.                                 *)
StopReachesSurveys ==
  \A a \in Attempts :
    pump.owner = a /\ ctx[a].source = "survey" => ctx[a].asked >= stopped.before

(* A record says succeeded only of an attempt that the pump completed.     *)
SuccessIsTrue ==
  \A a \in Attempts : (record[a] = "succeeded" \/ "succeeded" \in told[a]) => a \in stopped.completed

(* Nothing is under way: no thread is in a handler, no message is waiting, *)
(* and the pump runs nothing of the trigger.                               *)
AtRest == /\ \A t \in Threads : th[t].pc = "idle"
          /\ status = <<>> /\ pump.owner \notin Attempts

(* When everything is at rest, an attempt of a command whose start was put *)
(* to the pump was answered by a result, and any manual one, however its   *)
(* end, the reply to its start, a stop and the loss of the session fell    *)
(* together.  An FCU attempt that a stop overtakes before that is dropped  *)
(* without a result.                                                       *)
EveryAttemptIsReported ==
  AtRest => \A a \in Attempts :
    ctx[a].source = "manual" \/ (ctx[a].source = "fcu" /\ ctx[a].answered) => told[a] # {}

(* What is displayed as sampling or paused is being sampled, or somebody   *)
(* is still about to change the display; unless another client took the    *)
(* pump, since a waypoint refused for that reason stays on display.        *)
DisplaySettles ==
  AtRest /\ left.web = MaxWeb => trg.sampling \/ trg.mission \notin {"sampling", "paused"}

(* Everything that was begun comes to an end that somebody can see.        *)
EverythingIsReported == EveryAttemptIsReported /\ DisplaySettles

(* When everything is at rest a new attempt may be started, or a stop      *)
(* makes it possible.                                                      *)
RestIsReady == AtRest => ~trg.finishing
==============================================================================
