--------------------------- MODULE RadioRequests ----------------------------
(***************************************************************************)
(* Requests of the ground station over the radio (lib/ros_radio.py): a     *)
(* request comes in fragments, any of which may be lost, late or double,   *)
(* is run by one of two workers (stops have their own) and its answer is   *)
(* kept to be fetched.  The records are few and forgotten in time, a       *)
(* broken link forgets them all, and no action may be run twice for that.  *)
(***************************************************************************)
EXTENDS Integers, Sequences, FiniteSets

CONSTANTS
  Requests,      \* the numbers of one session's requests
  Stops,         \* those that stop
  Fragments,     \* the count of each
  MaxRecords,    \* 32
  MaxBoots       \* bound: times the link is lost

RequestAssumption ==
  /\ Requests \subseteq Nat \ {0} /\ Stops \subseteq Requests
  /\ Fragments \in [Requests -> Nat \ {0}] /\ MaxRecords \in Nat \ {0}

VARIABLES
  issued,     \* the boot each request was issued for, 0 before; its frames may come ever after
  boot,       \* boot
  records,    \* records, by request: fragments, answer, running, old
  known,      \* the requests in records, which come and go in the order of their numbers
  highwater,  \* highwater
  queues,     \* the queue of each worker
  working,    \* what it runs, <<>> if nothing
  told,       \* the replies that were sent
  runs        \* how often each request was run (history)

vars == <<issued, boot, records, known, highwater, queues, working, told, runs>>

Workers == {"worker", "stop_worker"}
WorkerOf(r) == IF r \in Stops THEN "stop_worker" ELSE "worker"
Empty == [fragments |-> 0, answer |-> "none", running |-> FALSE, old |-> FALSE]

Init ==
  /\ issued = [r \in Requests |-> 0] /\ boot = 1
  /\ records = [r \in Requests |-> Empty] /\ known = {} /\ highwater = 0
  /\ queues = [w \in Workers |-> <<>>] /\ working = [w \in Workers |-> <<>>]
  /\ told = {} /\ runs = [r \in Requests |-> 0]

(* The ground numbers its requests, and issues each for a boot it has been *)
(* told of; it may have been told long ago.                                *)
Issue(r, b) ==
  /\ issued[r] = 0 /\ \A q \in Requests : q < r => issued[q] # 0
  /\ issued' = [issued EXCEPT ![r] = b]
  /\ UNCHANGED <<boot, records, known, highwater, queues, working, told, runs>>

-----------------------------------------------------------------------------
(* receive                                                                 *)

Tell(r, what) == told' = told \cup {[request |-> r, answer |-> what]}

Waiting(r) == ~records[r].running /\ records[r].answer = "none"
Cancelled(R) ==
  [q \in Requests |-> IF q \in R /\ Waiting(q) THEN [records[q] EXCEPT !.answer = "cancelled"] ELSE records[q]]

(* Room for one more: old records go, then the first that is answered.     *)
Kept == {q \in known : ~records[q].old \/ records[q].running}
Answered == {q \in Kept : records[q].answer # "none"}
Room == IF Cardinality(Kept) < MaxRecords THEN Kept ELSE Kept \ {q \in Answered : \A p \in Answered : q <= p}
Full == Cardinality(Kept) >= MaxRecords /\ Answered = {}

(* Which frames are those of this boot.  (A bug to look for: any.)         *)
AnyBoot(r) == issued[r] # 0
OfBoot(r) == issued[r] = boot

(* Whether a record may be made.  (A bug to look for: whenever there is    *)
(* none.)                                                                  *)
Missing(r) == r \notin known
Admissible(r) == r \notin known /\ r > highwater

Admit(r) ==
  /\ OfBoot(r) /\ Admissible(r) /\ highwater' = r
  /\ IF Full
     THEN known' = Kept /\ Tell(r, "full") /\ UNCHANGED records
     ELSE known' = Room \cup {r} /\ records' = [records EXCEPT ![r] = Empty] /\ UNCHANGED told
  /\ UNCHANGED <<issued, boot, queues, working, runs>>

Submit(r) == queues' = [queues EXCEPT ![WorkerOf(r)] = Append(@, [request |-> r, boot |-> boot])]

(* The next fragment of a request; one that was had is acknowledged again. *)
(* With the last one it is refused or goes to its worker, and a stop       *)
(* cancels the others.                                                     *)
Take(r) ==
  LET last == records[r].fragments + 1 = Fragments[r]
      others == IF r \in Stops THEN Cancelled(Requests \ {r}) ELSE records
  IN /\ OfBoot(r) /\ r \in known /\ ~records[r].old /\ records[r].fragments < Fragments[r]
     /\ \/ ~last /\ records' = [records EXCEPT ![r].fragments = @ + 1] /\ UNCHANGED queues
        \/ last /\ records' = [others EXCEPT ![r].fragments = @ + 1] /\ Submit(r)
        \/ last /\ records' = [records EXCEPT ![r].fragments = @ + 1, ![r].answer = "refused"] /\ UNCHANGED queues
     /\ UNCHANGED <<issued, boot, known, highwater, working, told, runs>>

(* FETCH: what was answered, or that nothing is known.                     *)
Fetch(r) ==
  /\ issued[r] # 0
  /\ IF ~OfBoot(r) \/ r \notin known THEN Tell(r, "unknown")
     ELSE records[r].answer # "none" /\ Tell(r, records[r].answer)
  /\ UNCHANGED <<issued, boot, records, known, highwater, queues, working, runs>>

-----------------------------------------------------------------------------
(* The workers: _execute.                                                  *)

Complete(r, answer) == records' = [records EXCEPT ![r].answer = answer]

(* (A bug to look for: a request that has its answer is run.)              *)
InRecords(job) == job.boot = boot /\ job.request \in known
StillWanted(job) == job.boot = boot /\ job.request \in known /\ records[job.request].answer = "none"

Start(w) ==
  LET job == Head(queues[w])
      r == job.request
  IN /\ working[w] = <<>> /\ queues[w] # <<>> /\ queues' = [queues EXCEPT ![w] = Tail(@)]
     /\ IF ~StillWanted(job) THEN UNCHANGED <<records, working, runs>>
        ELSE IF records[r].old THEN Complete(r, "expired") /\ UNCHANGED <<working, runs>>
        ELSE /\ records' = [records EXCEPT ![r].running = TRUE]
             /\ working' = [working EXCEPT ![w] = <<job>>] /\ runs' = [runs EXCEPT ![r] = @ + 1]
     /\ UNCHANGED <<issued, boot, known, highwater, told>>

(* The answer of the local server, or that it did not come in time.        *)
Finish(w) ==
  LET job == working[w][1]
  IN /\ working[w] # <<>> /\ working' = [working EXCEPT ![w] = <<>>]
     /\ IF job.boot = boot /\ job.request \in known
        THEN \E answer \in {"done", "uncertain"} : Complete(job.request, answer)
        ELSE UNCHANGED records
     /\ UNCHANGED <<issued, boot, known, highwater, queues, told, runs>>

-----------------------------------------------------------------------------
(* TIMEOUT passes for a record.                                            *)
Age(r) ==
  /\ r \in known /\ ~records[r].old /\ records' = [records EXCEPT ![r].old = TRUE]
  /\ UNCHANGED <<issued, boot, known, highwater, queues, working, told, runs>>

(* cancel_pending: a stop has come on another way.                         *)
CancelPending ==
  /\ records' = Cancelled(known) /\ records' # records
  /\ UNCHANGED <<issued, boot, known, highwater, queues, working, told, runs>>

(* reset: the link was lost.                                               *)
Reset ==
  /\ boot <= MaxBoots /\ boot' = boot + 1
  /\ records' = [r \in Requests |-> Empty] /\ known' = {} /\ highwater' = 0
  /\ UNCHANGED <<issued, queues, working, told, runs>>

Next ==
  \/ \E r \in Requests : \/ \E b \in 1..boot : Issue(r, b)
                         \/ Admit(r) \/ Take(r) \/ Fetch(r) \/ Age(r)
  \/ \E w \in Workers : Start(w) \/ Finish(w)
  \/ CancelPending \/ Reset

Spec == Init /\ [][Next]_vars

-----------------------------------------------------------------------------
(* No request is run twice, whatever comes twice, however late, and        *)
(* whatever was forgotten meanwhile.                                       *)
RunsOnce == \A r \in Requests : runs[r] <= 1

(* What is answered is true and stays so: a request that is told to be     *)
(* cancelled, expired or refused never runs, not even from the queue of    *)
(* its worker, and one that is told to be done has run.                    *)
AnswersAreTrue ==
  \A t \in told : /\ t.answer \in {"cancelled", "expired", "refused", "full"} => runs[t.request] = 0
                  /\ t.answer \in {"done", "uncertain"} => runs[t.request] = 1

(* A request that waits when a stop is taken does not start after it.      *)
StartsBeforeStops ==
  \A r \in Requests : runs'[r] # runs[r] =>
    \A s \in Stops :
      s > r /\ r \in known /\ s \in known /\ records[s].answer # "refused" => records[s].fragments < Fragments[s]
=============================================================================
