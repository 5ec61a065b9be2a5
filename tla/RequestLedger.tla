----------------------------- MODULE RequestLedger -----------------------------
(***************************************************************************)
(* The payload executor's request ledger in use (scripts/                  *)
(* mavlink_trigger_node.py): ground stations send and retry requests, the  *)
(* executor works on those the ledger admits and reports on them, from the *)
(* command lane and from the pump's status topic, in any order the two     *)
(* threads may take.                                                       *)
(*                                                                         *)
(* A plain request is over with its answer; a task (sampling, calibration) *)
(* has one attempt; a survey goes from attempt to attempt.  The request    *)
(* lanes, and so the reasons for a refusal, are in module CommandLanes.    *)
(* The rules tell a rejection, a failure and a cancellation apart nowhere: *)
(* one of them stands for the three.                                       *)
(***************************************************************************)
EXTENDS LedgerRules

CONSTANTS
  MaxNumber,      \* bound: request numbers of a sender
  MaxAttempts,    \* bound: attempts of a survey
  LateReports     \* whether the pump's status still names a request that is over

ASSUME BoundAssumption == MaxNumber \in Nat /\ MaxAttempts \in Nat \ {0}
ASSUME FlagAssumption == LateReports \in BOOLEAN

VARIABLES
  ledger,         \* the RequestLedger
  work,           \* what the executor is doing about a request
  attempt,        \* attempt_id of the work, 0 before the first
  answered,       \* whether the lane has answered the request
  asked,          \* history: what the executor took the request for
  admitted,       \* history: how often the request was admitted
  published       \* history: every event put on the event topic

vars == <<ledger, work, attempt, answered, asked, admitted, published>>

Requests == Senders \X (1..MaxNumber)
WorkStates == {"none", "queued", "running", "between", "over"}

EmptyLedger == [records |-> <<>>, order |-> <<>>, mark |-> [s \in Senders |-> 0]]

Init ==
  /\ ledger = EmptyLedger
  /\ work = [i \in Requests |-> "none"]
  /\ attempt = [i \in Requests |-> 0]
  /\ answered = [i \in Requests |-> FALSE]
  /\ asked = [i \in Requests |-> Unknown]
  /\ admitted = [i \in Requests |-> 0]
  /\ published = [i \in Requests |-> {}]

Kind(i) == KindOf[asked[i]]

\* _emit_request_event: an event is published when its number has moved on.
Emit(i, report) ==
  LET before == IF i \in Kept(ledger) THEN ledger.records[i].event.seq ELSE 0
      after == Report(ledger, i, Kind(i), report)
      event == after.records[i].event
  IN /\ ledger' = after
     /\ published' = IF event.seq > before
                     THEN [published EXCEPT ![i] = @ \cup {event}] ELSE published

(***************************************************************************)
(* A request arrives.  A conflict, a retired number or a sender too many   *)
(* is refused and changes nothing.                                         *)
(***************************************************************************)
TakeUp(i, ask) ==
  /\ Admits(ledger, i)
  /\ ledger' = Admit(ledger, i, ask)
  /\ work' = [work EXCEPT ![i] = "queued"]
  /\ asked' = [asked EXCEPT ![i] = ask]
  /\ admitted' = [admitted EXCEPT ![i] = @ + 1]
  /\ UNCHANGED <<attempt, answered, published>>

Replay(i, ask) ==
  /\ Replays(ledger, i, ask)
  /\ ledger' = Learn(ledger, i, ask)
  /\ UNCHANGED <<work, attempt, answered, asked, admitted, published>>

(***************************************************************************)
(* The command lane's answer: refused without any work, or what the        *)
(* handler returned.  For a task the handler has started the work by then, *)
(* and the pump's thread may have reported on it, or ended it, first.      *)
(***************************************************************************)
Refuse(i) ==
  /\ work[i] = "queued"
  /\ work' = [work EXCEPT ![i] = "over"]
  /\ answered' = [answered EXCEPT ![i] = TRUE]
  /\ Emit(i, [phase |-> "request", outcome |-> "rejected", attempt |-> 0])
  /\ UNCHANGED <<attempt, asked, admitted>>

DoPlain(i) ==
  /\ work[i] = "queued" /\ Kind(i) = "plain"
  /\ work' = [work EXCEPT ![i] = "over"]
  /\ answered' = [answered EXCEPT ![i] = TRUE]
  /\ Emit(i, [phase |-> "request", outcome |-> "accepted", attempt |-> 0])
  /\ UNCHANGED <<attempt, asked, admitted>>

Begin(i) ==
  /\ work[i] = "queued" /\ Kind(i) # "plain"
  /\ work' = [work EXCEPT ![i] = "running"]
  /\ attempt' = [attempt EXCEPT ![i] = 1]
  /\ UNCHANGED <<ledger, answered, asked, admitted, published>>

AnswerTask(i) ==
  /\ work[i] \in {"running", "between", "over"} /\ ~answered[i]
  /\ answered' = [answered EXCEPT ![i] = TRUE]
  /\ \E outcome \in {"accepted", "failed"} :
       /\ outcome = "failed" => work[i] = "over"
       /\ Emit(i, [phase |-> "request", outcome |-> outcome, attempt |-> 0])
  /\ UNCHANGED <<work, attempt, asked, admitted>>

(***************************************************************************)
(* Reports of the pump's status thread and the end of an attempt.          *)
(***************************************************************************)
Progress(i) ==
  /\ attempt[i] # 0
  /\ work[i] = "running" \/ LateReports
  /\ Emit(i, [phase |-> "progress", outcome |-> "", attempt |-> attempt[i]])
  /\ UNCHANGED <<work, attempt, answered, asked, admitted>>

Finish(i) ==
  /\ work[i] = "running"
  /\ \E outcome \in {"succeeded", "failed"} :
       /\ work' = [work EXCEPT ![i] = IF outcome = "succeeded" /\ Kind(i) = "survey"
                                      THEN "between" ELSE "over"]
       /\ Emit(i, [phase |-> "terminal", outcome |-> outcome, attempt |-> attempt[i]])
  /\ UNCHANGED <<attempt, answered, asked, admitted>>

NextAttempt(i) ==
  /\ work[i] = "between" /\ attempt[i] < MaxAttempts
  /\ work' = [work EXCEPT ![i] = "running"]
  /\ attempt' = [attempt EXCEPT ![i] = @ + 1]
  /\ UNCHANGED <<ledger, answered, asked, admitted, published>>

\* _stop_survey_locked ends the survey and reports nothing on its request.
StopSurvey(i) ==
  /\ work[i] \in {"running", "between"} /\ Kind(i) = "survey"
  /\ work' = [work EXCEPT ![i] = "over"]
  /\ UNCHANGED <<ledger, attempt, answered, asked, admitted, published>>

Executor(i) ==
  \/ Refuse(i) \/ DoPlain(i) \/ Begin(i) \/ AnswerTask(i)
  \/ Progress(i) \/ Finish(i) \/ NextAttempt(i) \/ StopSurvey(i)

Next ==
  \E i \in Requests :
    \/ \E ask \in Asks : TakeUp(i, ask) \/ Replay(i, ask)
    \/ Executor(i)

Spec == Init /\ [][Next]_vars

-----------------------------------------------------------------------------
TypeOK ==
  /\ Kept(ledger) \subseteq Requests
  /\ \A i \in Kept(ledger) : ledger.records[i] \in Records
  /\ ledger.mark \in [Senders -> 0..MaxNumber]
  /\ work \in [Requests -> WorkStates]
  /\ attempt \in [Requests -> 0..MaxAttempts]
  /\ answered \in [Requests -> BOOLEAN]
  /\ asked \in [Requests -> Asks \cup {Unknown}]
  /\ admitted \in [Requests -> Nat]

(***************************************************************************)
(* The two halves of the ordered dictionary agree: the order of arrival,   *)
(* which decides what is evicted, lists the records that are kept, each    *)
(* once.                                                                   *)
(***************************************************************************)
OrderMatches ==
  /\ {ledger.order[k] : k \in DOMAIN ledger.order} = Kept(ledger)
  /\ Len(ledger.order) = Cardinality(Kept(ledger))

(***************************************************************************)
(* A request is executed at most once, however often it is retried, with   *)
(* whatever parameters, before and after its record has been evicted.      *)
(***************************************************************************)
AtMostOnce == \A i \in Requests : admitted[i] <= 1

(***************************************************************************)
(* Work that is under way has its record, with the parameters it was       *)
(* admitted with: a retry finds the work it started, and a request with    *)
(* other parameters is refused.  (Surveys: see SurveyKept.)                *)
(***************************************************************************)
Correlated(i) == i \in Kept(ledger) /\ ledger.records[i].ask = asked[i]
InFlightKept ==
  \A i \in Requests :
    work[i] \in {"queued", "running"} /\ Kind(i) # "survey" => Correlated(i)

(***************************************************************************)
(* What the docstring of RequestLedger says of every routine that has not  *)
(* finished (payload_protocol.py:182).                                     *)
(***************************************************************************)
SurveyKept ==
  \A i \in Requests : work[i] \in {"queued", "running", "between"} => Correlated(i)

(***************************************************************************)
(* An observer that orders the events of a request by their number is      *)
(* never misled: no number is given twice to different events.             *)
(***************************************************************************)
NumbersTellApart ==
  \A i \in Requests : \A e, f \in published[i] : e.seq = f.seq => e = f

(***************************************************************************)
(* The result of an attempt is the last word on it: after a terminal event *)
(* nothing is published but, in a survey that goes on, about the attempts  *)
(* that follow, whatever late report or answer is still on its way.        *)
(***************************************************************************)
ResultStands ==
  \A i \in Requests : \A e, f \in published[i] :
    /\ e.phase = "terminal" /\ e.seq < f.seq
    => Kind(i) = "survey" /\ e.outcome = "succeeded" /\ f.attempt # e.attempt
===============================================================================
