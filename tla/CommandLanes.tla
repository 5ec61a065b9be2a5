----------------------------- MODULE CommandLanes ------------------------------
(***************************************************************************)
(* The two bounded lanes through which the trigger node executes remote    *)
(* commands (mavlink_trigger_node.py): an ordinary lane of one command and *)
(* a safety lane with a short queue, a worker thread each that comes and   *)
(* goes, and the generation number by which an admitted stop outdates the  *)
(* ordinary command that was admitted before it.                           *)
(*                                                                         *)
(* What a command does to the pump is left to its handler, which answers   *)
(* yes or no; only the survey flag, which admission itself reads and which *)
(* commands of both lanes write, is kept.                                  *)
(***************************************************************************)
EXTENDS Naturals, Sequences

CONSTANTS
  Commands,  \* the commands that arrive, each once: a repeat stops at the ledger
  Kind,      \* what each of them asks for
  Room,      \* the length of the safety lane's queue
  Nobody

StopKinds == {"stop", "stop_survey", "stop_detector"}
Kinds     == StopKinds \cup {"start_survey", "other"}

ASSUME KindAssumption == Kind \in [Commands -> Kinds]
ASSUME RoomAssumption == Room \in Nat \ {0}
ASSUME NobodyAssumption == Nobody \notin Commands

VARIABLES
  stage,       \* where each command is
  result,      \* how it was answered
  stamp,       \* the generation it was admitted under
  arrival,     \* its place in the order of admission, 0 before it (history)
  admissions,  \* how many were admitted (history)
  queue,       \* the lanes' queues
  busy,        \* the commands each lane has admitted and not finished
  thread,      \* the lanes' worker threads
  hand,        \* the command each worker is busy with
  marker,      \* the ordinary lane's command, as admission sees it
  generation,  \* _command_generation
  survey,      \* the command whose survey is active
  effective    \* the admitted stops that had something to stop (history)

lanes == <<queue, busy, thread, hand, marker>>
order == <<stamp, arrival, admissions>>
vars  == <<stage, result, order, lanes, generation, survey, effective>>

Lanes  == {"safety", "ordinary"}
Stages == {"new", "queued", "taken", "running", "ran", "answered"}
Results == {"none", "accepted", "failed", "rejected", "cancelled", "superseded"}

LaneOf(c) == IF Kind[c] \in StopKinds THEN "safety" ELSE "ordinary"
Surveys   == {c \in Commands : Kind[c] = "start_survey"}
(* The stops after which no survey may be left, 31011 and 31016.           *)
SurveyStops == {c \in Commands : Kind[c] \in {"stop", "stop_survey"}}
Unfinished(c) == stage[c] \in {"queued", "taken", "running", "ran"}
Before(c, d) == 0 < arrival[c] /\ arrival[c] < arrival[d]

TypeOK ==
  /\ stage \in [Commands -> Stages]
  /\ result \in [Commands -> Results]
  /\ stamp \in [Commands -> Nat]
  /\ arrival \in [Commands -> Nat]
  /\ admissions \in Nat
  /\ queue \in [Lanes -> Seq(Commands)]
  /\ Len(queue["safety"]) <= Room /\ Len(queue["ordinary"]) <= 1
  /\ busy \in [Lanes -> Nat]
  /\ thread \in [Lanes -> {"none", "waiting", "expired"}]
  /\ hand \in [Lanes -> Commands \cup {Nobody}]
  /\ marker \in Commands \cup {Nobody}
  /\ generation \in Nat
  /\ survey \in Surveys \cup {Nobody}
  /\ effective \subseteq Commands

Init ==
  /\ stage = [c \in Commands |-> "new"]
  /\ result = [c \in Commands |-> "none"]
  /\ stamp = [c \in Commands |-> 0]
  /\ arrival = [c \in Commands |-> 0]
  /\ admissions = 0
  /\ queue = [l \in Lanes |-> <<>>]
  /\ busy = [l \in Lanes |-> 0]
  /\ thread = [l \in Lanes |-> "none"]
  /\ hand = [l \in Lanes |-> Nobody]
  /\ marker = Nobody
  /\ generation = 0
  /\ survey = Nobody
  /\ effective = {}

-----------------------------------------------------------------------------
(* Admission, one critical section of _command_dispatch_lock.              *)

CancelsOnlyActive(c) == Kind[c] # "stop_survey" \/ survey # Nobody

(* A stop of the survey outdates the ordinary command only if there is a   *)
(* survey, or one that may still start.                                    *)
Cancels(c) ==
  \/ Kind[c] # "stop_survey"
  \/ survey # Nobody
  \/ marker \in Surveys

FitsOneMore(c) ==
  IF LaneOf(c) = "safety" THEN Len(queue["safety"]) <= Room
  ELSE busy["ordinary"] = 0 /\ busy["safety"] = 0

(* A safety command needs room in its queue. An ordinary one needs both    *)
(* lanes idle, its own queue is then empty.                                *)
Fits(c) ==
  IF LaneOf(c) = "safety" THEN Len(queue["safety"]) < Room
  ELSE busy["ordinary"] = 0 /\ busy["safety"] = 0

GenerationBeforePut(c) ==
  IF LaneOf(c) = "safety" /\ Cancels(c) THEN generation + 1 ELSE generation

(* The generation after c asked for admission: a refused stop changes it   *)
(* as little as an ordinary command does.                                  *)
NextGeneration(c) ==
  IF LaneOf(c) = "safety" /\ Fits(c) /\ Cancels(c) THEN generation + 1 ELSE generation

Admit(c) ==
  LET l == LaneOf(c) IN
  /\ stage[c] = "new" /\ Fits(c)
  /\ stage' = [stage EXCEPT ![c] = "queued"]
  /\ stamp' = [stamp EXCEPT ![c] = NextGeneration(c)]
  /\ arrival' = [arrival EXCEPT ![c] = admissions + 1]
  /\ admissions' = admissions + 1
  /\ queue' = [queue EXCEPT ![l] = Append(queue[l], c)]
  /\ busy' = [busy EXCEPT ![l] = busy[l] + 1]
  /\ thread' = [thread EXCEPT ![l] = IF thread[l] = "none" THEN "waiting" ELSE thread[l]]
  /\ marker' = IF l = "ordinary" THEN c ELSE marker
  /\ generation' = NextGeneration(c)
  /\ effective' = IF \/ Kind[c] \in {"stop", "stop_detector"}
                     \/ Kind[c] = "stop_survey" /\ survey # Nobody
                     \/ Kind[c] = "stop_survey" /\ \E d \in Surveys : Unfinished(d)
                  THEN effective \cup {c} ELSE effective
  /\ UNCHANGED <<result, hand, survey>>

(* The refused command is answered at once and never runs.                 *)
Refuse(c) ==
  /\ stage[c] = "new" /\ ~Fits(c)
  /\ stage' = [stage EXCEPT ![c] = "answered"]
  /\ result' = [result EXCEPT ![c] = "rejected"]
  /\ generation' = NextGeneration(c)
  /\ UNCHANGED <<order, lanes, survey, effective>>

-----------------------------------------------------------------------------
(* The worker thread of a lane, _command_loop.                             *)

Take(l) ==
  /\ thread[l] = "waiting" /\ hand[l] = Nobody /\ queue[l] # <<>>
  /\ hand' = [hand EXCEPT ![l] = Head(queue[l])]
  /\ queue' = [queue EXCEPT ![l] = Tail(queue[l])]
  /\ stage' = [stage EXCEPT ![Head(queue[l])] = "taken"]
  /\ UNCHANGED <<result, order, busy, thread, marker, generation, survey, effective>>

(* Half a second without a command.                                        *)
Expire(l) ==
  /\ thread[l] = "waiting" /\ hand[l] = Nobody /\ queue[l] = <<>>
  /\ thread' = [thread EXCEPT ![l] = "expired"]
  /\ UNCHANGED <<stage, result, order, queue, busy, hand, marker, generation, survey, effective>>

RetireUnchecked(l) ==
  /\ thread[l] = "expired"
  /\ thread' = [thread EXCEPT ![l] = "none"]
  /\ UNCHANGED <<stage, result, order, queue, busy, hand, marker, generation, survey, effective>>

(* The worker ends only if nothing was admitted since it gave up waiting.  *)
Retire(l) ==
  /\ thread[l] = "expired"
  /\ thread' = [thread EXCEPT ![l] = IF busy[l] = 0 THEN "none" ELSE "waiting"]
  /\ UNCHANGED <<stage, result, order, queue, busy, hand, marker, generation, survey, effective>>

(* An outdated ordinary command is answered without being executed.        *)
Begin(l) ==
  LET c == hand[l] IN
  /\ c # Nobody /\ stage[c] = "taken"
  /\ IF l = "safety" \/ stamp[c] = generation
     THEN /\ stage' = [stage EXCEPT ![c] = "running"]
          /\ result' = result
     ELSE /\ stage' = [stage EXCEPT ![c] = "answered"]
          /\ result' = [result EXCEPT ![c] = "cancelled"]
  /\ UNCHANGED <<order, lanes, generation, survey, effective>>

(* The handler of a command that leaves the survey alone succeeds or not.  *)
HandleOther(l) ==
  LET c == hand[l] IN
  /\ c # Nobody /\ stage[c] = "running" /\ Kind[c] \in {"other", "stop_detector"}
  /\ stage' = [stage EXCEPT ![c] = "ran"]
  /\ \E r \in {"accepted", "failed"} : result' = [result EXCEPT ![c] = r]
  /\ UNCHANGED <<order, lanes, generation, survey, effective>>

(* The generation is checked and the survey activated in one critical      *)
(* section of the lock that admits stops.                                  *)
MayActivate(c) == survey = Nobody /\ stamp[c] = generation

StartSurvey(l) ==
  LET c == hand[l] IN
  /\ c # Nobody /\ stage[c] = "running" /\ Kind[c] = "start_survey"
  /\ MayActivate(c)
  /\ survey' = c
  /\ stage' = [stage EXCEPT ![c] = "ran"]
  /\ result' = [result EXCEPT ![c] = "accepted"]
  /\ UNCHANGED <<order, lanes, generation, effective>>

(* Outdated, a survey or a point sample under way, or an exception.        *)
StartSurveyFails(l) ==
  LET c == hand[l] IN
  /\ c # Nobody /\ stage[c] = "running" /\ Kind[c] = "start_survey"
  /\ stage' = [stage EXCEPT ![c] = "ran"]
  /\ result' = [result EXCEPT ![c] = "failed"]
  /\ UNCHANGED <<order, lanes, generation, survey, effective>>

(* A stop claims the survey before it talks to the pump, and answers what  *)
(* the pump answered. A stop of no survey succeeds.                        *)
StopSurvey(l) ==
  LET c == hand[l] IN
  /\ c # Nobody /\ stage[c] = "running" /\ c \in SurveyStops
  /\ survey' = Nobody
  /\ stage' = [stage EXCEPT ![c] = "ran"]
  /\ \E r \in {"accepted", "failed"} :
       /\ r = "failed" => Kind[c] = "stop" \/ survey # Nobody
       /\ result' = [result EXCEPT ![c] = r]
  /\ UNCHANGED <<order, lanes, generation, effective>>

(* The answer: an ordinary success that a stop has overtaken is none.      *)
Answer(l) ==
  LET c == hand[l] IN
  /\ c # Nobody /\ stage[c] = "ran"
  /\ stage' = [stage EXCEPT ![c] = "answered"]
  /\ result' = IF l = "ordinary" /\ stamp[c] # generation /\ result[c] = "accepted"
               THEN [result EXCEPT ![c] = "superseded"] ELSE result
  /\ UNCHANGED <<order, lanes, generation, survey, effective>>

FinishClearsBusy(l) ==
  /\ hand[l] # Nobody /\ stage[hand[l]] = "answered"
  /\ busy' = [busy EXCEPT ![l] = 0]
  /\ marker' = IF l = "ordinary" THEN Nobody ELSE marker
  /\ hand' = [hand EXCEPT ![l] = Nobody]
  /\ UNCHANGED <<stage, result, order, queue, thread, generation, survey, effective>>

Finish(l) ==
  /\ hand[l] # Nobody /\ stage[hand[l]] = "answered"
  /\ busy' = [busy EXCEPT ![l] = busy[l] - 1]
  /\ marker' = IF l = "ordinary" THEN Nobody ELSE marker
  /\ hand' = [hand EXCEPT ![l] = Nobody]
  /\ UNCHANGED <<stage, result, order, queue, thread, generation, survey, effective>>

-----------------------------------------------------------------------------
(* A survey also ends without a command: a sample that fails, an operator  *)
(* stop that the pump reports, the scheduler that exits.                   *)
SurveyEnds ==
  /\ survey # Nobody /\ survey' = Nobody
  /\ UNCHANGED <<stage, result, order, lanes, generation, effective>>

Handle(l) ==
  HandleOther(l) \/ StartSurvey(l) \/ StartSurveyFails(l) \/ StopSurvey(l)

Worker(l) ==
  Take(l) \/ Retire(l) \/ Begin(l) \/ Handle(l) \/ Answer(l) \/ Finish(l)

Next ==
  \/ \E c \in Commands : Admit(c) \/ Refuse(c)
  \/ \E l \in Lanes :
       \/ Take(l) \/ Expire(l) \/ Retire(l) \/ Begin(l)
       \/ HandleOther(l) \/ StartSurvey(l) \/ StartSurveyFails(l) \/ StopSurvey(l)
       \/ Answer(l) \/ Finish(l)
  \/ SurveyEnds

Spec == Init /\ [][Next]_vars

(* The worker threads run, and their handlers return: every call they make *)
(* has a timeout.                                                          *)
FairSpec == Spec /\ \A l \in Lanes : WF_vars(Worker(l))

-----------------------------------------------------------------------------
(* No command waits in a queue that has no worker, whichever way the       *)
(* worker's half-second timeout and the next admission are interleaved.    *)
QueueIsServed ==
  \A l \in Lanes : queue[l] # <<>> \/ hand[l] # Nobody => thread[l] # "none"

(* Once a stop of the survey was answered, no survey is active that was    *)
(* asked for before it: the stop either finds the survey active or outdates*)
(* the command that was about to activate it (the two critical sections of *)
(* _command_dispatch_lock, _start_survey_locked).                          *)
StopBeatsSurvey ==
  \A s \in SurveyStops : stage[s] = "answered" /\ survey # Nobody => ~Before(survey, s)

(* An ordinary command is lost to a stop only if one that had something to *)
(* stop was admitted after it: a stop that found its queue full, and a     *)
(* survey stop without a survey, cancel nothing.                           *)
LossHasCause ==
  \A c \in Commands : result[c] \in {"cancelled", "superseded"}
                        => \E s \in effective : Before(c, s)

(* An ordinary command is admitted only when every stop admitted before it *)
(* was answered, so that no stop ever hits work that was asked for after   *)
(* it.                                                                     *)
StopsGoFirst ==
  \A c, s \in Commands :
    LaneOf(c) = "ordinary" /\ LaneOf(s) = "safety" /\ Before(s, c) => stage[s] = "answered"

(* Every admitted command is answered.                                     *)
EveryCommandIsAnswered ==
  \A c \in Commands : stage[c] = "queued" ~> stage[c] = "answered"
================================================================================
