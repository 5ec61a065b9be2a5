----------------------------- MODULE LedgerRules -----------------------------
(***************************************************************************)
(* The rules of scripts/lib/payload_protocol.py, RequestLedger, as         *)
(* operators on the value of one ledger: the payload executor and the      *)
(* router bridge each keep one.  A request identity is a pair of sender    *)
(* and number; the code orders requests of a sender by (session, request), *)
(* which the number stands for.  What a request asks for, command and      *)
(* parameters, is a member of Asks: two requests with the same ask have    *)
(* the same signature.                                                     *)
(***************************************************************************)
EXTENDS Naturals, Sequences, FiniteSets

CONSTANTS
  Senders,        \* sender system and component
  Asks,           \* command with its parameters
  KindOf,         \* what the command of an ask is
  MaxReplies,     \* MAX_REPLIES
  MaxSenders      \* MAX_SENDERS

Kinds == {"plain", "task", "survey"}

ASSUME KindAssumption == KindOf \in [Asks -> Kinds]
ASSUME AskAssumption == "unknown" \notin Asks
ASSUME LimitAssumption == MaxReplies \in Nat /\ MaxSenders \in Nat \ {0}

Ids == Senders \X (Nat \ {0})
Sender(i) == i[1]
Number(i) == i[2]

\* No ask is known for a record that an out-of-band event made.
Unknown == "unknown"

Phases == {"request", "progress", "terminal"}
Outcomes == {"", "accepted", "rejected", "failed", "cancelled", "succeeded"}

\* What one report says, and the event it becomes; seq 0 is "no event yet".
Reports == [phase : Phases, outcome : Outcomes, attempt : Nat]
NoEvent == [seq |-> 0, phase |-> "none", outcome |-> "", attempt |-> 0]
Events == [seq : Nat \ {0}, phase : Phases, outcome : Outcomes, attempt : Nat] \cup {NoEvent}
Records == [ask : Asks \cup {Unknown}, event : Events, closed : BOOLEAN]

Kept(l) == DOMAIN l.records

\* A record that may go: it has an event and that event closed it.
Closable(l) == {i \in Kept(l) : l.records[i].event # NoEvent /\ l.records[i].closed}

Older(l, i) ==
  LET at == CHOOSE k \in DOMAIN l.order : l.order[k] = i
  IN {l.order[k] : k \in 1..(at - 1)}

\* A bug to look for: the oldest records go, whatever became of them.
VictimsByAge(l) == {i \in Kept(l) : MaxReplies + Cardinality(Older(l, i)) < Len(l.order)}

\* The oldest closable records, as many as there are too many records.
Victims(l) ==
  {i \in Closable(l) : MaxReplies + Cardinality(Older(l, i) \cap Closable(l)) < Len(l.order)}

\* A bug to look for: the order still lists the records that are gone.
EvictRecords(l) == [l EXCEPT !.records = [i \in Kept(l) \ Victims(l) |-> l.records[i]]]

Evict(l) ==
  LET stays(i) == i \notin Victims(l)
  IN IF Victims(l) = {} THEN l
     ELSE [records |-> [i \in Kept(l) \ Victims(l) |-> l.records[i]],
           order |-> SelectSeq(l.order, stays),
           mark |-> l.mark]

WithRecord(l, i, record) ==
  [records |-> [j \in Kept(l) \cup {i} |-> IF j = i THEN record ELSE l.records[j]],
   order |-> IF i \in Kept(l) THEN l.order ELSE Append(l.order, i),
   mark |-> l.mark]

\* A new record, and what its arrival drives out.
NewRecord(l, i, ask) ==
  Evict(WithRecord(l, i, [ask |-> ask, event |-> NoEvent, closed |-> FALSE]))

(***************************************************************************)
(* reserve: the four answers to a request, in the order the code asks.     *)
(***************************************************************************)
Conflicts(l, i, ask) == i \in Kept(l) /\ l.records[i].ask \notin {Unknown, ask}
Replays(l, i, ask) == i \in Kept(l) /\ l.records[i].ask \in {Unknown, ask}
Retired(l, i) == l.mark[Sender(i)] # 0 /\ Number(i) <= l.mark[Sender(i)]
SendersFull(l, i) ==
  /\ l.mark[Sender(i)] = 0
  /\ Cardinality({s \in Senders : l.mark[s] # 0}) >= MaxSenders
\* A bug to look for: the watermark is not asked.
AdmitsAgain(l, i) == i \notin Kept(l) /\ ~SendersFull(l, i)

Admits(l, i) == i \notin Kept(l) /\ ~Retired(l, i) /\ ~SendersFull(l, i)

\* A bug to look for: the watermark is one ahead and refuses the next request.
AdmitOneAhead(l, i, ask) ==
  LET new == NewRecord(l, i, ask)
  IN [new EXCEPT !.mark = [l.mark EXCEPT ![Sender(i)] = Number(i) + 1]]

Admit(l, i, ask) ==
  LET new == NewRecord(l, i, ask)
  IN [records |-> new.records, order |-> new.order,
      mark |-> [l.mark EXCEPT ![Sender(i)] = Number(i)]]
Learn(l, i, ask) == WithRecord(l, i, [l.records[i] EXCEPT !.ask = ask])

(***************************************************************************)
(* event: the next event of an identity, or the stored one again.          *)
(***************************************************************************)
Closes(report, kind) ==
  \/ report.phase = "terminal"
  \/ /\ report.phase = "request"
     /\ report.outcome \in {"accepted", "rejected", "failed", "cancelled"}
     /\ ~(report.outcome = "accepted" /\ kind # "plain")

\* A bug to look for: every success leaves the identity open to later reports.
LatchedUnlessDone(event, kind, report) ==
  event.phase = "terminal" /\ (event.outcome # "succeeded" \/ report.attempt = 0)

\* A terminal event stands, but for a survey that goes on to its next attempt.
Latched(event, kind, report) ==
  /\ event.phase = "terminal"
  /\ \/ kind # "survey"
     \/ event.outcome # "succeeded"
     \/ report.attempt = 0
     \/ report.attempt = event.attempt
     \/ report.phase \notin {"progress", "terminal"}

Says(event) == [phase |-> event.phase, outcome |-> event.outcome, attempt |-> event.attempt]

\* A bug to look for: every attempt numbers its events from one.
NextEventOfAttempt(event, report) ==
  [seq |-> IF event.attempt = report.attempt THEN event.seq + 1 ELSE 1, phase |-> report.phase,
   outcome |-> report.outcome, attempt |-> report.attempt]

NextEvent(event, report) ==
  [seq |-> event.seq + 1, phase |-> report.phase, outcome |-> report.outcome,
   attempt |-> report.attempt]

Recorded(l, i) == IF i \in Kept(l) THEN l ELSE NewRecord(l, i, Unknown)

Report(l, i, kind, report) ==
  LET known == Recorded(l, i)
      record == known.records[i]
  IN IF Latched(record.event, kind, report) \/ Says(record.event) = report
     THEN known
     ELSE WithRecord(known, i, [ask |-> record.ask, event |-> NextEvent(record.event, report),
                                closed |-> Closes(report, kind)])
===============================================================================
