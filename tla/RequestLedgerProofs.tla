-------------------------- MODULE RequestLedgerProofs --------------------------
(***************************************************************************)
(* At most once, and the correlation of work under way, for every number   *)
(* of senders, requests and records the ledger may hold.                   *)
(***************************************************************************)
EXTENDS RequestLedger, FiniteSetTheorems, TLAPS

(***************************************************************************)
(* What the four operations leave alone: a record that is not closed stays *)
(* as it is, whatever arrives, and nobody but a new request moves a        *)
(* watermark.                                                              *)
(***************************************************************************)
LEMMA EvictFacts ==
  ASSUME NEW l
  PROVE /\ Kept(Evict(l)) \subseteq Kept(l)
        /\ \A j \in Kept(Evict(l)) : Evict(l).records[j] = l.records[j]
        /\ \A j \in Kept(l) : (~l.records[j].closed \/ l.records[j].event = NoEvent) => j \in Kept(Evict(l))
        /\ Evict(l).mark = l.mark
BY DEF Evict, Kept, Victims, Closable

LEMMA WithFacts ==
  ASSUME NEW l, NEW i, NEW record
  PROVE /\ Kept(WithRecord(l, i, record)) = Kept(l) \cup {i}
        /\ WithRecord(l, i, record).records[i] = record
        /\ \A j \in Kept(l) : j # i => WithRecord(l, i, record).records[j] = l.records[j]
        /\ WithRecord(l, i, record).mark = l.mark
BY DEF WithRecord, Kept

LEMMA NewFacts ==
  ASSUME NEW l, NEW i, NEW ask, i \notin Kept(l)
  PROVE /\ Kept(NewRecord(l, i, ask)) \subseteq Kept(l) \cup {i}
        /\ i \in Kept(NewRecord(l, i, ask))
        /\ NewRecord(l, i, ask).records[i] = [ask |-> ask, event |-> NoEvent, closed |-> FALSE]
        /\ \A j \in Kept(NewRecord(l, i, ask)) : j # i => NewRecord(l, i, ask).records[j] = l.records[j]
        /\ \A j \in Kept(l) : ~l.records[j].closed => j \in Kept(NewRecord(l, i, ask))
        /\ NewRecord(l, i, ask).mark = l.mark
<1> DEFINE fresh == [ask |-> ask, event |-> NoEvent, closed |-> FALSE]
           with == WithRecord(l, i, fresh)
<1>1. /\ Kept(with) = Kept(l) \cup {i}
      /\ with.records[i] = fresh
      /\ \A j \in Kept(l) : j # i => with.records[j] = l.records[j]
      /\ with.mark = l.mark
  BY WithFacts
<1>2. ~fresh.closed
  OBVIOUS
<1>3. /\ Kept(Evict(with)) \subseteq Kept(with)
      /\ \A j \in Kept(Evict(with)) : Evict(with).records[j] = with.records[j]
      /\ \A j \in Kept(with) : ~with.records[j].closed => j \in Kept(Evict(with))
      /\ Evict(with).mark = with.mark
  BY EvictFacts
<1>4. NewRecord(l, i, ask) = Evict(with)
  BY DEF NewRecord
<1> HIDE DEF fresh, with
<1>5. i \in Kept(Evict(with)) /\ Evict(with).records[i] = fresh
  BY <1>1, <1>2, <1>3
<1>6. /\ \A j \in Kept(Evict(with)) : j # i => Evict(with).records[j] = l.records[j]
      /\ \A j \in Kept(l) : ~l.records[j].closed => j \in Kept(Evict(with))
  BY <1>1, <1>3, <1>5
<1> QED BY <1>1, <1>3, <1>4, <1>5, <1>6 DEF fresh

LEMMA RecordedFacts ==
  ASSUME NEW l, NEW i
  PROVE /\ Kept(Recorded(l, i)) \subseteq Kept(l) \cup {i}
        /\ i \in Kept(Recorded(l, i))
        /\ i \in Kept(l) => Recorded(l, i) = l
        /\ i \notin Kept(l) => Recorded(l, i).records[i] = [ask |-> Unknown, event |-> NoEvent, closed |-> FALSE]
        /\ \A j \in Kept(Recorded(l, i)) : j # i => Recorded(l, i).records[j] = l.records[j]
        /\ \A j \in Kept(l) : ~l.records[j].closed => j \in Kept(Recorded(l, i))
        /\ Recorded(l, i).mark = l.mark
<1>1. CASE i \in Kept(l)
  BY <1>1 DEF Recorded
<1>2. CASE i \notin Kept(l)
  BY <1>2, NewFacts DEF Recorded
<1> QED BY <1>1, <1>2

LEMMA FreshRecord ==
  ASSUME NEW ask \in Asks \cup {Unknown}
  PROVE [ask |-> ask, event |-> NoEvent, closed |-> FALSE] \in Records
<1>1. NoEvent \in Events
  BY DEF Events
<1> QED BY <1>1 DEF Records

LEMMA EventFacts ==
  ASSUME NEW event \in Events, NEW report \in Reports
  PROVE event.seq \in Nat /\ NextEvent(event, report) \in Events
<1>1. event.seq \in Nat
  <2>1. CASE event = NoEvent BY <2>1 DEF NoEvent
  <2>2. CASE event # NoEvent BY <2>2 DEF Events
  <2> QED BY <2>1, <2>2
<1> QED BY <1>1 DEF NextEvent, Events, Reports

LEMMA ReportFacts ==
  ASSUME NEW l, NEW i, NEW kind, NEW report \in Reports,
         \A j \in Kept(l) : l.records[j] \in Records
  PROVE /\ Kept(Report(l, i, kind, report)) \subseteq Kept(l) \cup {i}
        /\ i \in Kept(Report(l, i, kind, report))
        /\ \A j \in Kept(Report(l, i, kind, report)) : Report(l, i, kind, report).records[j] \in Records
        /\ \A j \in Kept(Report(l, i, kind, report)) :
             j # i => Report(l, i, kind, report).records[j] = l.records[j]
        /\ \A j \in Kept(l) : ~l.records[j].closed => j \in Kept(Report(l, i, kind, report))
        /\ i \in Kept(l) =>
             /\ Report(l, i, kind, report).records[i].ask = l.records[i].ask
             /\ ~l.records[i].closed /\ ~Closes(report, kind) =>
                  ~Report(l, i, kind, report).records[i].closed
        /\ Report(l, i, kind, report).mark = l.mark
<1> DEFINE known == Recorded(l, i)
           next == [ask |-> known.records[i].ask, event |-> NextEvent(known.records[i].event, report),
                    closed |-> Closes(report, kind)]
<1>1. /\ Kept(known) \subseteq Kept(l) \cup {i}
      /\ i \in Kept(known)
      /\ i \in Kept(l) => known = l
      /\ i \notin Kept(l) => known.records[i] = [ask |-> Unknown, event |-> NoEvent, closed |-> FALSE]
      /\ \A j \in Kept(known) : j # i => known.records[j] = l.records[j]
      /\ \A j \in Kept(l) : ~l.records[j].closed => j \in Kept(known)
      /\ known.mark = l.mark
  BY RecordedFacts
<1>2. known.records[i] \in Records
  <2>1. CASE i \in Kept(l) BY <2>1, <1>1
  <2>2. CASE i \notin Kept(l) BY <2>2, <1>1, FreshRecord
  <2> QED BY <2>1, <2>2
<1>3. \A j \in Kept(known) : known.records[j] \in Records
  BY <1>1, <1>2
<1>4. next \in Records
  <2>1. known.records[i].event \in Events /\ known.records[i].ask \in Asks \cup {Unknown}
    BY <1>2 DEF Records
  <2>2. NextEvent(known.records[i].event, report) \in Events
    BY <2>1, EventFacts
  <2>3. Closes(report, kind) \in BOOLEAN
    BY DEF Closes
  <2> QED BY <2>1, <2>2, <2>3 DEF Records
<1>5. /\ Kept(WithRecord(known, i, next)) = Kept(known) \cup {i}
      /\ WithRecord(known, i, next).records[i] = next
      /\ \A j \in Kept(known) : j # i => WithRecord(known, i, next).records[j] = known.records[j]
      /\ WithRecord(known, i, next).mark = known.mark
  BY WithFacts
<1>6. Report(l, i, kind, report) \in {known, WithRecord(known, i, next)}
  BY DEF Report
<1>7. next.ask = known.records[i].ask /\ next.closed = Closes(report, kind)
  OBVIOUS
<1> HIDE DEF known, next
<1>8. CASE Report(l, i, kind, report) = known
  BY <1>1, <1>3, <1>8
<1>9. CASE Report(l, i, kind, report) = WithRecord(known, i, next)
  BY <1>1, <1>3, <1>4, <1>5, <1>7, <1>9
<1> QED BY <1>6, <1>8, <1>9

-----------------------------------------------------------------------------
(***************************************************************************)
(* The inductive invariant.  A watermark is at least the number of every   *)
(* request that was ever admitted, so an evicted request is retired and    *)
(* not new; the record of work under way is not closed, so it is not       *)
(* evicted.                                                                *)
(***************************************************************************)
Counted == \A i \in Requests : admitted[i] = IF work[i] = "none" THEN 0 ELSE 1
Retiring == \A i \in Requests : work[i] # "none" => Number(i) <= ledger.mark[Sender(i)]
Understood == \A i \in Requests : work[i] # "none" => asked[i] \in Asks
Unbegun == \A i \in Requests : work[i] \in {"none", "queued"} => attempt[i] = 0
Tasked ==
  \A i \in Requests :
    /\ work[i] = "running" => Kind(i) # "plain"
    /\ work[i] = "between" => Kind(i) = "survey"
Open(i) == Correlated(i) /\ ~ledger.records[i].closed
OpenWhileWorking ==
  \A i \in Requests : work[i] \in {"queued", "running"} /\ Kind(i) # "survey" => Open(i)

IInv == TypeOK /\ Counted /\ Retiring /\ Understood /\ Unbegun /\ Tasked /\ OpenWhileWorking

USE KindAssumption, AskAssumption, LimitAssumption, BoundAssumption, FlagAssumption

LEMMA InitHolds == Init => IInv
<1> SUFFICES ASSUME Init PROVE IInv
  OBVIOUS
<1>1. Kept(ledger) = {} /\ ledger.mark = [s \in Senders |-> 0]
  BY DEF Init, EmptyLedger, Kept
<1>2. TypeOK
  BY <1>1 DEF Init, TypeOK, WorkStates
<1> QED
  BY <1>2 DEF Init, IInv, Counted, Retiring, Understood, Unbegun, Tasked, OpenWhileWorking

\* An event of one request touches neither the watermarks nor the open records of others.
LEMMA EmitFacts ==
  ASSUME TypeOK, NEW i \in Requests, NEW report \in Reports, Emit(i, report)
  PROVE /\ Kept(ledger') \subseteq Requests
        /\ \A j \in Kept(ledger') : ledger'.records[j] \in Records
        /\ ledger'.mark = ledger.mark
        /\ \A j \in Requests : j # i /\ Open(j) /\ asked'[j] = asked[j] => Open(j)'
        /\ Open(i) /\ ~Closes(report, Kind(i)) /\ asked'[i] = asked[i] => Open(i)'
<1>1. ledger' = Report(ledger, i, Kind(i), report)
  BY DEF Emit
<1>2. \A j \in Kept(ledger) : ledger.records[j] \in Records
  BY DEF TypeOK
<1> DEFINE after == Report(ledger, i, Kind(i), report)
<1>3. /\ Kept(after) \subseteq Kept(ledger) \cup {i}
      /\ i \in Kept(after)
      /\ \A j \in Kept(after) : after.records[j] \in Records
      /\ \A j \in Kept(after) : j # i => after.records[j] = ledger.records[j]
      /\ \A j \in Kept(ledger) : ~ledger.records[j].closed => j \in Kept(after)
      /\ i \in Kept(ledger) =>
           /\ after.records[i].ask = ledger.records[i].ask
           /\ ~ledger.records[i].closed /\ ~Closes(report, Kind(i)) => ~after.records[i].closed
      /\ after.mark = ledger.mark
  BY <1>2, ReportFacts
<1> HIDE DEF after
<1>4. ledger' = after
  BY <1>1 DEF after
<1> QED BY <1>3, <1>4 DEF TypeOK, Open, Correlated

\* One step per action; the reports of the executor share <2>1, the others <2>2.
LEMMA StepHolds == ASSUME IInv, [Next]_vars PROVE IInv'
<1> USE DEF IInv, Requests, Number, Sender
<1>1. ASSUME NEW i \in Requests, NEW ask \in Asks, TakeUp(i, ask) PROVE IInv'
  <2> DEFINE new == NewRecord(ledger, i, ask)
  <2>1. /\ Kept(new) \subseteq Kept(ledger) \cup {i}
        /\ i \in Kept(new)
        /\ new.records[i] = [ask |-> ask, event |-> NoEvent, closed |-> FALSE]
        /\ \A j \in Kept(new) : j # i => new.records[j] = ledger.records[j]
        /\ \A j \in Kept(ledger) : ~ledger.records[j].closed => j \in Kept(new)
    BY <1>1, NewFacts DEF TakeUp, Admits
  <2> HIDE DEF new
  <2>2. /\ ledger'.records = new.records
        /\ ledger'.mark = [ledger.mark EXCEPT ![i[1]] = i[2]]
    BY <1>1 DEF TakeUp, Admit, new
  <2>3. Kept(ledger') = Kept(new)
    BY <2>2 DEF Kept
  <2>4. work[i] = "none"
    BY <1>1 DEF TakeUp, Admits, Retired, Retiring, TypeOK
  <2>5. TypeOK'
    <3>1. \A j \in Kept(ledger') : ledger'.records[j] \in Records
      BY <2>1, <2>2, <2>3, FreshRecord DEF TypeOK
    <3> QED BY <1>1, <2>1, <2>2, <2>3, <3>1 DEF TypeOK, TakeUp, WorkStates
  <2>6. Retiring'
    BY <1>1, <2>2 DEF TakeUp, Admits, Retired, Retiring, TypeOK
  <2>7. Counted' /\ Understood' /\ Unbegun' /\ Tasked'
    BY <1>1, <2>4 DEF TakeUp, Counted, Understood, Unbegun, Tasked, Kind, TypeOK
  <2>8. OpenWhileWorking'
    <3> SUFFICES ASSUME NEW j \in Requests, work'[j] \in {"queued", "running"}, Kind(j)' # "survey"
                 PROVE Open(j)'
      BY DEF OpenWhileWorking
    <3>1. CASE j = i
      BY <1>1, <2>1, <2>2, <2>3, <3>1 DEF TakeUp, Open, Correlated, TypeOK
    <3>2. CASE j # i
      <4>1. Open(j) /\ asked'[j] = asked[j]
        BY <1>1, <3>2 DEF TakeUp, OpenWhileWorking, Kind, TypeOK
      <4> QED BY <4>1, <2>1, <2>2, <2>3, <3>2 DEF Open, Correlated
    <3> QED BY <3>1, <3>2
  <2> QED BY <2>5, <2>6, <2>7, <2>8
<1>2. ASSUME NEW i \in Requests, NEW ask \in Asks, Replay(i, ask) PROVE IInv'
  <2> DEFINE record == [ledger.records[i] EXCEPT !.ask = ask]
  <2>1. /\ Kept(WithRecord(ledger, i, record)) = Kept(ledger) \cup {i}
        /\ WithRecord(ledger, i, record).records[i] = record
        /\ \A j \in Kept(ledger) : j # i => WithRecord(ledger, i, record).records[j] = ledger.records[j]
        /\ WithRecord(ledger, i, record).mark = ledger.mark
    BY WithFacts
  <2>2. ledger' = WithRecord(ledger, i, record)
    BY <1>2 DEF Replay, Learn
  <2>3. i \in Kept(ledger) /\ ledger.records[i].ask \in {Unknown, ask} /\ ledger.records[i] \in Records
    BY <1>2 DEF Replay, Replays, TypeOK
  <2>4. record \in Records /\ record.closed = ledger.records[i].closed /\ record.ask = ask
    BY <2>3 DEF Records
  <2> HIDE DEF record
  <2>5. UNCHANGED <<work, attempt, answered, asked, admitted>>
    BY <1>2 DEF Replay
  <2>6. TypeOK'
    BY <2>1, <2>2, <2>3, <2>4, <2>5 DEF TypeOK
  <2>7. OpenWhileWorking'
    <3> SUFFICES ASSUME NEW j \in Requests, work[j] \in {"queued", "running"}, Kind(j) # "survey"
                 PROVE Open(j)'
      BY <2>5 DEF OpenWhileWorking, Kind
    <3>1. Open(j) /\ asked[j] \in Asks
      BY DEF OpenWhileWorking, Understood
    <3>2. j = i => asked[j] = ask
      BY <2>3, <3>1 DEF Open, Correlated, Unknown
    <3> QED BY <2>1, <2>2, <2>3, <2>4, <2>5, <3>1, <3>2 DEF Open, Correlated
  <2> QED
    BY <2>1, <2>2, <2>5, <2>6, <2>7 DEF Counted, Retiring, Understood, Unbegun, Tasked, Kind
<1>3. ASSUME NEW i \in Requests, Executor(i) PROVE IInv'
  <2>1. ASSUME NEW report \in Reports, Emit(i, report), UNCHANGED <<asked, admitted>>,
               work' \in [Requests -> WorkStates], attempt' \in [Requests -> 0..MaxAttempts],
               answered' \in [Requests -> BOOLEAN], work[i] # "none", work'[i] # "none",
               \A j \in Requests : j # i => work'[j] = work[j] /\ attempt'[j] = attempt[j],
               work'[i] # "queued",
               work'[i] = "running" => Kind(i) # "plain", work'[i] = "between" => Kind(i) = "survey",
               work'[i] = "running" => (work[i] = "running" /\ ~Closes(report, Kind(i))) \/ Kind(i) = "survey"
        PROVE IInv'
    <3>1. /\ Kept(ledger') \subseteq Requests
          /\ \A j \in Kept(ledger') : ledger'.records[j] \in Records
          /\ ledger'.mark = ledger.mark
          /\ \A j \in Requests : j # i /\ Open(j) => Open(j)'
          /\ Open(i) /\ ~Closes(report, Kind(i)) => Open(i)'
      BY <2>1, EmitFacts
    <3>2. TypeOK'
      BY <2>1, <3>1 DEF TypeOK
    <3>3. Counted' /\ Retiring' /\ Understood' /\ Unbegun' /\ Tasked'
      BY <2>1, <3>1 DEF Counted, Retiring, Understood, Unbegun, Tasked, Kind, TypeOK
    <3>4. OpenWhileWorking'
      BY <2>1, <3>1 DEF OpenWhileWorking, Kind
    <3> QED BY <3>2, <3>3, <3>4
  <2>2. ASSUME UNCHANGED <<ledger, answered, asked, admitted>>,
               work' \in [Requests -> WorkStates], attempt' \in [Requests -> 0..MaxAttempts],
               work[i] # "none", work'[i] \notin {"none", "queued"},
               work'[i] = "running" => Kind(i) # "plain", work'[i] = "between" => Kind(i) = "survey",
               work'[i] = "running" => work[i] = "queued" \/ Kind(i) = "survey",
               \A j \in Requests : j # i => work'[j] = work[j] /\ attempt'[j] = attempt[j]
        PROVE IInv'
    BY <2>2 DEF TypeOK, Counted, Retiring, Understood, Unbegun, Tasked, OpenWhileWorking, Open, Correlated, Kind
  <2>3. CASE Refuse(i)
    <3>1. [phase |-> "request", outcome |-> "rejected", attempt |-> 0] \in Reports
      BY DEF Reports, Phases, Outcomes
    <3> QED BY <2>1, <2>3, <3>1 DEF Refuse, TypeOK, WorkStates
  <2>4. CASE DoPlain(i)
    <3>1. [phase |-> "request", outcome |-> "accepted", attempt |-> 0] \in Reports
      BY DEF Reports, Phases, Outcomes
    <3> QED BY <2>1, <2>4, <3>1 DEF DoPlain, TypeOK, WorkStates
  <2>5. CASE Begin(i)
    BY <2>2, <2>5 DEF Begin, TypeOK, WorkStates
  <2>6. CASE AnswerTask(i)
    <3>1. PICK outcome \in {"accepted", "failed"} :
            /\ outcome = "failed" => work[i] = "over"
            /\ Emit(i, [phase |-> "request", outcome |-> outcome, attempt |-> 0])
      BY <2>6 DEF AnswerTask
    <3> DEFINE report == [phase |-> "request", outcome |-> outcome, attempt |-> 0]
    <3>2. report \in Reports
      BY DEF Reports, Phases, Outcomes
    <3>3. Kind(i) \in Kinds
      BY <2>6 DEF AnswerTask, Understood, Kind
    <3>4. work[i] = "running" => ~Closes(report, Kind(i))
      BY <3>1, <3>3 DEF Closes, Kinds, Tasked
    <3>5. UNCHANGED <<work, attempt, asked, admitted>> /\ answered' \in [Requests -> BOOLEAN]
      BY <2>6 DEF AnswerTask, TypeOK
    <3>6. work[i] \in {"running", "between", "over"}
      BY <2>6 DEF AnswerTask
    <3> HIDE DEF report
    <3>7. Emit(i, report)
      BY <3>1 DEF report
    <3> QED BY <2>1, <3>2, <3>4, <3>5, <3>6, <3>7 DEF TypeOK, Tasked
  <2>7. CASE Progress(i)
    <3> DEFINE report == [phase |-> "progress", outcome |-> "", attempt |-> attempt[i]]
    <3>1. report \in Reports
      <4>1. attempt[i] \in Nat
        BY DEF TypeOK
      <4> QED BY <4>1 DEF Reports, Phases, Outcomes
    <3>2. ~Closes(report, Kind(i))
      BY DEF Closes
    <3>3. /\ UNCHANGED <<work, attempt, answered, asked, admitted>>
          /\ work[i] \notin {"none", "queued"}
      BY <2>7 DEF Progress, Unbegun
    <3>4. Emit(i, report)
      BY <2>7 DEF Progress
    <3> HIDE DEF report
    <3> QED BY <2>1, <3>1, <3>2, <3>3, <3>4 DEF TypeOK, Tasked
  <2>8. CASE Finish(i)
    <3>1. PICK outcome \in {"succeeded", "failed"} :
            /\ work' = [work EXCEPT ![i] = IF outcome = "succeeded" /\ Kind(i) = "survey"
                                           THEN "between" ELSE "over"]
            /\ Emit(i, [phase |-> "terminal", outcome |-> outcome, attempt |-> attempt[i]])
      BY <2>8 DEF Finish
    <3> DEFINE report == [phase |-> "terminal", outcome |-> outcome, attempt |-> attempt[i]]
    <3>2. report \in Reports
      <4>1. attempt[i] \in Nat
        BY DEF TypeOK
      <4> QED BY <4>1 DEF Reports, Phases, Outcomes
    <3>3. /\ UNCHANGED <<attempt, answered, asked, admitted>>
          /\ work[i] = "running"
      BY <2>8 DEF Finish
    <3>4. Emit(i, report)
      BY <3>1
    <3> HIDE DEF report
    <3>5. /\ work' \in [Requests -> WorkStates]
          /\ work'[i] \in {"between", "over"}
          /\ \A j \in Requests : j # i => work'[j] = work[j]
          /\ work'[i] = "between" => Kind(i) = "survey"
      BY <3>1 DEF TypeOK, WorkStates
    <3> QED BY <2>1, <3>2, <3>3, <3>4, <3>5 DEF TypeOK
  <2>9. CASE NextAttempt(i)
    <3>1. Kind(i) = "survey"
      BY <2>9 DEF NextAttempt, Tasked
    <3> QED BY <2>2, <2>9, <3>1 DEF NextAttempt, TypeOK, WorkStates
  <2>10. CASE StopSurvey(i)
    BY <2>2, <2>10 DEF StopSurvey, TypeOK, WorkStates
  <2> QED
    BY <1>3, <2>3, <2>4, <2>5, <2>6, <2>7, <2>8, <2>9, <2>10 DEF Executor
<1>4. CASE UNCHANGED vars
  BY <1>4 DEF vars, TypeOK, Counted, Retiring, Understood, Unbegun, Tasked, OpenWhileWorking, Open,
     Correlated, Kind
<1> QED BY <1>1, <1>2, <1>3, <1>4 DEF Next

\* The ledger and the executor's bookkeeping keep their types.
THEOREM TypeCorrect == Spec => []TypeOK
<1>1. IInv => TypeOK
  BY DEF IInv
<1> QED BY <1>1, InitHolds, StepHolds, PTL DEF Spec

(***************************************************************************)
(* No request is executed twice, for any number of requests and any limit  *)
(* on the records kept: what the watermark is for.                         *)
(***************************************************************************)
THEOREM NeverTwice == Spec => []AtMostOnce
<1>1. IInv => AtMostOnce
  BY DEF IInv, Counted, AtMostOnce, TypeOK
<1> QED BY <1>1, InitHolds, StepHolds, PTL DEF Spec

(***************************************************************************)
(* Work under way keeps its record, its parameters and so its correlation, *)
(* whatever is evicted around it: what the closed flag is for.             *)
(***************************************************************************)
THEOREM WorkKeepsItsRecord == Spec => []InFlightKept
<1>1. IInv => InFlightKept
  BY DEF IInv, OpenWhileWorking, Open, InFlightKept
<1> QED BY <1>1, InitHolds, StepHolds, PTL DEF Spec

-----------------------------------------------------------------------------
(***************************************************************************)
(* The events of a request, while there is room for every record.  Then    *)
(* nothing is evicted, and the current event of a record is the latest     *)
(* that was published: its number is the highest, and what follows a       *)
(* result is of an attempt after it.  (An evicted record that a late       *)
(* report makes again numbers its events from one again.)                  *)
(***************************************************************************)
RoomForAll == IsFiniteSet(Requests) /\ Cardinality(Requests) <= MaxReplies

ProperEvents == Events \ {NoEvent}
Ordered(l) ==
  /\ Kept(l) \subseteq Requests
  /\ l.order \in Seq(Requests)
  /\ Len(l.order) = Cardinality(Kept(l))
EventOf(l, i) == IF i \in Kept(l) THEN l.records[i].event ELSE NoEvent
Current(i) == EventOf(ledger, i)

Followed(i, e) ==
  e.phase = "terminal" /\ e.seq < Current(i).seq
  => Kind(i) = "survey" /\ e.outcome = "succeeded" /\ e.attempt < attempt[i]

Told(i, e) ==
  /\ i \in Kept(ledger)
  /\ e.seq <= Current(i).seq
  /\ e.seq = Current(i).seq => e = Current(i)
  /\ e.attempt <= attempt[i]
  /\ e.phase = "terminal" => e.attempt # 0
  /\ Followed(i, e)

HistoryHolds == \A i \in Requests : \A e \in published[i] : Told(i, e)
Trying == \A i \in Requests : work[i] = "running" => attempt[i] # 0
EventInv ==
  /\ IInv
  /\ Ordered(ledger)
  /\ published \in [Requests -> SUBSET ProperEvents]
  /\ Trying /\ HistoryHolds /\ NumbersTellApart /\ ResultStands

\* A table that is not overfull evicts nothing.
LEMMA NothingEvicted ==
  ASSUME RoomForAll, NEW l, Ordered(l)
  PROVE Evict(l) = l
<1>1. IsFiniteSet(Kept(l)) /\ Cardinality(Kept(l)) <= Cardinality(Requests)
  BY FS_Subset DEF RoomForAll, Ordered
<1>2. Cardinality(Requests) \in Nat /\ Cardinality(Kept(l)) \in Nat
  BY <1>1, FS_CardinalityType DEF RoomForAll
<1>3. Len(l.order) <= MaxReplies /\ Len(l.order) \in Nat
  BY <1>1, <1>2 DEF RoomForAll, Ordered
<1>4. ASSUME NEW i \in Victims(l) PROVE FALSE
  <2>1. IsFiniteSet(Closable(l))
    BY <1>1, FS_Subset DEF Closable
  <2>2. IsFiniteSet(Older(l, i) \cap Closable(l))
    BY <2>1, FS_Subset
  <2>3. Cardinality(Older(l, i) \cap Closable(l)) \in Nat
    BY <2>2, FS_CardinalityType
  <2>4. MaxReplies + Cardinality(Older(l, i) \cap Closable(l)) < Len(l.order)
    BY <1>4 DEF Victims
  <2> QED BY <1>3, <2>3, <2>4
<1> QED BY <1>4 DEF Evict

LEMMA OrderedWith ==
  ASSUME RoomForAll, NEW l, Ordered(l), NEW i \in Requests, NEW record
  PROVE Ordered(WithRecord(l, i, record))
<1>1. IsFiniteSet(Kept(l))
  BY FS_Subset DEF RoomForAll, Ordered
<1>2. /\ IsFiniteSet(Kept(l) \cup {i})
      /\ Cardinality(Kept(l) \cup {i}) = IF i \in Kept(l) THEN Cardinality(Kept(l)) ELSE Cardinality(Kept(l)) + 1
  BY <1>1, FS_AddElement
<1>3. Kept(WithRecord(l, i, record)) = Kept(l) \cup {i}
  BY WithFacts
<1>4. WithRecord(l, i, record).order = IF i \in Kept(l) THEN l.order ELSE Append(l.order, i)
  BY DEF WithRecord
<1>5. /\ Append(l.order, i) \in Seq(Requests)
      /\ Len(Append(l.order, i)) = Len(l.order) + 1
  BY DEF Ordered
<1> QED BY <1>2, <1>3, <1>4, <1>5 DEF Ordered

\* With room for all a new record drives nothing out.
LEMMA NewIsWith ==
  ASSUME RoomForAll, NEW l, Ordered(l), NEW i \in Requests, NEW ask
  PROVE /\ Ordered(NewRecord(l, i, ask))
        /\ NewRecord(l, i, ask) = WithRecord(l, i, [ask |-> ask, event |-> NoEvent, closed |-> FALSE])
BY OrderedWith, NothingEvicted DEF NewRecord

LEMMA KnownFacts ==
  ASSUME RoomForAll, NEW l, Ordered(l), NEW i \in Requests
  PROVE /\ Ordered(Recorded(l, i))
        /\ Kept(Recorded(l, i)) = Kept(l) \cup {i}
        /\ \A j \in Kept(l) : Recorded(l, i).records[j] = l.records[j]
        /\ i \notin Kept(l) => Recorded(l, i).records[i].event = NoEvent
<1>1. CASE i \in Kept(l)
  BY <1>1 DEF Recorded
<1>2. CASE i \notin Kept(l)
  <2> DEFINE fresh == [ask |-> Unknown, event |-> NoEvent, closed |-> FALSE]
  <2>1. Recorded(l, i) = WithRecord(l, i, fresh) /\ Ordered(Recorded(l, i))
    BY <1>2, NewIsWith DEF Recorded
  <2>2. fresh.event = NoEvent
    OBVIOUS
  <2> HIDE DEF fresh
  <2> QED BY <1>2, <2>1, <2>2, WithFacts
<1> QED BY <1>1, <1>2

LEMMA ReportTells ==
  ASSUME RoomForAll, NEW l, Ordered(l), NEW i \in Requests, NEW kind, NEW report \in Reports
  PROVE /\ Ordered(Report(l, i, kind, report))
        /\ Kept(Report(l, i, kind, report)) = Kept(l) \cup {i}
        /\ \A j \in Kept(l) : j # i => Report(l, i, kind, report).records[j] = l.records[j]
        /\ \/ EventOf(Report(l, i, kind, report), i) = EventOf(l, i)
           \/ /\ ~Latched(EventOf(l, i), kind, report)
              /\ EventOf(Report(l, i, kind, report), i) = NextEvent(EventOf(l, i), report)
<1> DEFINE known == Recorded(l, i)
           next == [ask |-> known.records[i].ask, event |-> NextEvent(known.records[i].event, report),
                    closed |-> Closes(report, kind)]
           after == Report(l, i, kind, report)
<1>1. /\ Ordered(known)
      /\ Kept(known) = Kept(l) \cup {i}
      /\ \A j \in Kept(l) : known.records[j] = l.records[j]
      /\ i \notin Kept(l) => known.records[i].event = NoEvent
  BY KnownFacts
<1>2. EventOf(l, i) = known.records[i].event
  BY <1>1 DEF EventOf
<1>3. CASE Latched(known.records[i].event, kind, report) \/ Says(known.records[i].event) = report
  <2>1. after = known
    BY <1>3 DEF Report
  <2> HIDE DEF known, after
  <2> QED BY <1>1, <1>2, <2>1 DEF EventOf, after
<1>4. CASE ~(Latched(known.records[i].event, kind, report) \/ Says(known.records[i].event) = report)
  <2>1. after = WithRecord(known, i, next)
    BY <1>4 DEF Report
  <2>2. next.event = NextEvent(known.records[i].event, report)
    OBVIOUS
  <2> HIDE DEF known, next, after
  <2>3. Ordered(after)
    BY <1>1, <2>1, OrderedWith
  <2>4. /\ Kept(after) = Kept(l) \cup {i}
        /\ after.records[i] = next
        /\ \A j \in Kept(known) : j # i => after.records[j] = known.records[j]
    BY <1>1, <2>1, WithFacts
  <2>5. EventOf(after, i) = NextEvent(EventOf(l, i), report)
    BY <1>2, <2>2, <2>4 DEF EventOf
  <2>6. ~Latched(EventOf(l, i), kind, report)
    BY <1>2, <1>4
  <2>7. \A j \in Kept(l) : j # i => after.records[j] = l.records[j]
    BY <1>1, <2>4
  <2> QED BY <2>3, <2>4, <2>5, <2>6, <2>7 DEF after
<1> QED BY <1>3, <1>4

(***************************************************************************)
(* One report: the event it makes, if any, is the next in number, and what *)
(* is said of the events before it goes on to hold.  attempt is that of    *)
(* the request after the step.                                             *)
(***************************************************************************)
LEMMA EmitTells ==
  ASSUME RoomForAll, EventInv, NEW i \in Requests, NEW report \in Reports, Emit(i, report)
  PROVE /\ Ordered(ledger')
        /\ Kept(ledger') = Kept(ledger) \cup {i}
        /\ \A j \in Requests : j # i => Current(j)' = Current(j) /\ published'[j] = published[j]
        /\ published' \in [Requests -> SUBSET ProperEvents]
        /\ \/ Current(i)' = Current(i) /\ published' = published
           \/ /\ ~Latched(Current(i), Kind(i), report)
              /\ Current(i)' = NextEvent(Current(i), report)
              /\ published'[i] = published[i] \cup {NextEvent(Current(i), report)}
<1> DEFINE after == Report(ledger, i, Kind(i), report)
<1>1. /\ Ordered(after)
      /\ Kept(after) = Kept(ledger) \cup {i}
      /\ \A j \in Kept(ledger) : j # i => after.records[j] = ledger.records[j]
      /\ \/ EventOf(after, i) = EventOf(ledger, i)
         \/ /\ ~Latched(EventOf(ledger, i), Kind(i), report)
            /\ EventOf(after, i) = NextEvent(EventOf(ledger, i), report)
  BY ReportTells DEF EventInv
<1>2. /\ ledger' = after
      /\ published' = IF after.records[i].event.seq > (IF i \in Kept(ledger) THEN ledger.records[i].event.seq ELSE 0)
                      THEN [published EXCEPT ![i] = @ \cup {after.records[i].event}] ELSE published
  BY DEF Emit
<1>3. EventOf(ledger, i) \in Events
  <2>1. NoEvent \in Events
    BY DEF Events
  <2> QED BY <2>1 DEF EventInv, IInv, TypeOK, EventOf, Records
<1>4. /\ EventOf(ledger, i).seq \in Nat
      /\ NextEvent(EventOf(ledger, i), report) \in Events
  BY <1>3, EventFacts
<1>5. EventOf(ledger, i).seq = IF i \in Kept(ledger) THEN ledger.records[i].event.seq ELSE 0
  BY DEF EventOf, NoEvent
<1> HIDE DEF after
<1>6. after.records[i].event = EventOf(after, i)
  BY <1>1 DEF EventOf
<1>7. published' = IF EventOf(after, i).seq > EventOf(ledger, i).seq
                   THEN [published EXCEPT ![i] = @ \cup {EventOf(after, i)}] ELSE published
  BY <1>2, <1>5, <1>6
<1>8. \A j \in Requests : j # i => EventOf(after, j) = EventOf(ledger, j)
  BY <1>1 DEF EventOf
<1>9. published \in [Requests -> SUBSET ProperEvents]
  BY DEF EventInv
<1>10. CASE EventOf(after, i) = EventOf(ledger, i)
  <2>1. published' = published
    BY <1>4, <1>7, <1>10
  <2> QED BY <1>1, <1>2, <1>8, <1>9, <1>10, <2>1 DEF Current
<1>11. CASE EventOf(after, i) = NextEvent(EventOf(ledger, i), report) /\ ~Latched(EventOf(ledger, i), Kind(i), report)
  <2> DEFINE e == NextEvent(EventOf(ledger, i), report)
  <2>1. e.seq = EventOf(ledger, i).seq + 1
    BY DEF NextEvent
  <2>2. e \in ProperEvents
    <3>1. NoEvent.seq = 0 /\ e.seq # 0
      BY <2>1, <1>4 DEF NoEvent
    <3>2. e # NoEvent
      BY <3>1
    <3> QED BY <3>2, <1>4 DEF ProperEvents
  <2>3. e.seq > EventOf(ledger, i).seq
    BY <2>1, <1>4
  <2> HIDE DEF e
  <2>4. published' = [published EXCEPT ![i] = @ \cup {e}]
    BY <1>7, <1>11, <2>3 DEF e
  <2>5. /\ published' \in [Requests -> SUBSET ProperEvents]
        /\ published'[i] = published[i] \cup {e}
        /\ \A j \in Requests : j # i => published'[j] = published[j]
    BY <1>9, <2>2, <2>4
  <2> QED BY <1>1, <1>2, <1>8, <1>11, <2>5 DEF Current, e
<1> QED BY <1>1, <1>10, <1>11

\* What holds of the events beside IInv.
Telling ==
  /\ Ordered(ledger)
  /\ published \in [Requests -> SUBSET ProperEvents]
  /\ Trying /\ HistoryHolds /\ NumbersTellApart /\ ResultStands

\* A step that publishes nothing: records may come, attempts may go up.
LEMMA QuietKeeps ==
  ASSUME EventInv, Ordered(ledger'), Kept(ledger) \subseteq Kept(ledger'), UNCHANGED published, Trying',
         \A j \in Requests : Current(j)' = Current(j),
         \A j \in Requests : j \in Kept(ledger) => Kind(j)' = Kind(j),
         \A j \in Requests : attempt[j] \in Nat /\ attempt'[j] \in Nat /\ attempt[j] <= attempt'[j]
  PROVE Telling'
<1>1. \A j \in Requests : \A e \in published[j] : e.attempt \in Nat /\ Told(j, e)
  BY DEF EventInv, HistoryHolds, ProperEvents, Events
<1>2. ASSUME NEW j \in Requests, NEW e \in published[j] PROVE Told(j, e)'
  <2>1. /\ j \in Kept(ledger) /\ j \in Kept(ledger')
        /\ Current(j)' = Current(j) /\ Kind(j)' = Kind(j)
    BY <1>1, <1>2 DEF Told
  <2>2. e.attempt <= attempt'[j] /\ (e.attempt < attempt[j] => e.attempt < attempt'[j])
    BY <1>1, <1>2 DEF Told
  <2> QED BY <1>1, <1>2, <2>1, <2>2 DEF Told, Followed
<1>3. HistoryHolds'
  BY <1>2 DEF HistoryHolds
<1>4. NumbersTellApart'
  BY DEF EventInv, NumbersTellApart
<1>5. ResultStands'
  <2> SUFFICES ASSUME NEW j \in Requests, NEW e \in published[j], NEW f \in published[j],
                      e.phase = "terminal", e.seq < f.seq
               PROVE Kind(j)' = "survey" /\ e.outcome = "succeeded" /\ f.attempt # e.attempt
    BY DEF ResultStands
  <2>1. Kind(j)' = Kind(j)
    BY <1>1 DEF Told
  <2> QED BY <2>1 DEF EventInv, ResultStands
<1> QED BY <1>3, <1>4, <1>5 DEF Telling, EventInv

(***************************************************************************)
(* A step that reports: of no attempt or of the present one, and a result  *)
(* of an attempt only.                                                     *)
(***************************************************************************)
LEMMA SpeakKeeps ==
  ASSUME RoomForAll, EventInv, NEW i \in Requests, NEW report \in Reports, Emit(i, report),
         UNCHANGED <<attempt, asked>>, Trying',
         report.attempt \in {0, attempt[i]}, report.phase = "terminal" => report.attempt # 0
  PROVE Telling'
<1> DEFINE n == NextEvent(Current(i), report)
<1>1. /\ Ordered(ledger')
      /\ Kept(ledger') = Kept(ledger) \cup {i}
      /\ \A j \in Requests : j # i => Current(j)' = Current(j) /\ published'[j] = published[j]
      /\ published' \in [Requests -> SUBSET ProperEvents]
      /\ \/ Current(i)' = Current(i) /\ published' = published
         \/ /\ ~Latched(Current(i), Kind(i), report)
            /\ Current(i)' = n
            /\ published'[i] = published[i] \cup {n}
  BY EmitTells
<1>2. /\ attempt \in [Requests -> Nat]
      /\ \A j \in Requests : Kind(j)' = Kind(j)
  BY DEF EventInv, IInv, TypeOK, Kind
<1>3. CASE Current(i)' = Current(i) /\ published' = published
  BY <1>1, <1>2, <1>3, QuietKeeps
<1>4. CASE /\ ~Latched(Current(i), Kind(i), report)
           /\ Current(i)' = n
           /\ published'[i] = published[i] \cup {n}
  <2>1. /\ n.seq = Current(i).seq + 1 /\ n.phase = report.phase /\ n.outcome = report.outcome
        /\ n.attempt = report.attempt
    BY DEF NextEvent
  <2>2. report.attempt \in Nat /\ attempt[i] \in Nat /\ n.attempt <= attempt[i]
    BY <1>2, <2>1
  <2>3. Current(i).seq \in Nat
    <3>1. Current(i) \in Events
      <4>1. NoEvent \in Events
        BY DEF Events
      <4> QED BY <4>1 DEF EventInv, IInv, TypeOK, Current, EventOf, Records
    <3> QED BY <3>1, EventFacts
  <2> HIDE DEF n
  <2>4. ASSUME NEW e \in published[i]
        PROVE /\ e.seq \in Nat /\ e.attempt \in Nat /\ Told(i, e)
              /\ e.seq < n.seq
              /\ e.phase = "terminal" =>
                   /\ Kind(i) = "survey" /\ e.outcome = "succeeded"
                   /\ e.attempt < attempt[i] /\ n.attempt # e.attempt
    <3>1. e.seq \in Nat /\ e.attempt \in Nat /\ Told(i, e)
      BY DEF EventInv, HistoryHolds, ProperEvents, Events
    <3>2. e.seq < n.seq
      BY <2>1, <2>3, <3>1 DEF Told
    <3>3. ASSUME e.phase = "terminal", e.seq < Current(i).seq
          PROVE /\ Kind(i) = "survey" /\ e.outcome = "succeeded"
                /\ e.attempt < attempt[i] /\ n.attempt # e.attempt
      <4>1. Kind(i) = "survey" /\ e.outcome = "succeeded" /\ e.attempt < attempt[i] /\ e.attempt # 0
        BY <3>1, <3>3 DEF Told, Followed
      <4> QED BY <2>1, <2>2, <3>1, <4>1
    <3>4. ASSUME e.phase = "terminal", e.seq = Current(i).seq
          PROVE /\ Kind(i) = "survey" /\ e.outcome = "succeeded"
                /\ e.attempt < attempt[i] /\ n.attempt # e.attempt
      <4>1. e = Current(i) /\ e.attempt <= attempt[i]
        BY <3>1, <3>4 DEF Told
      <4>2. Kind(i) = "survey" /\ e.outcome = "succeeded" /\ report.attempt # 0 /\ report.attempt # e.attempt
        BY <1>4, <3>4, <4>1 DEF Latched
      <4> QED BY <2>1, <2>2, <3>1, <4>1, <4>2
    <3> QED BY <2>3, <3>1, <3>2, <3>3, <3>4 DEF Told
  <2>5. HistoryHolds'
    <3> SUFFICES ASSUME NEW j \in Requests, NEW e \in published'[j]
                 PROVE Told(j, e)'
      BY DEF HistoryHolds
    <3>1. CASE j # i
      <4>1. e \in published[j] /\ Current(j)' = Current(j)
        BY <1>1, <3>1
      <4>2. Told(j, e)
        BY <4>1 DEF EventInv, HistoryHolds
      <4> QED BY <1>1, <1>2, <4>1, <4>2 DEF Told, Followed
    <3>2. CASE j = i /\ e \in published[i]
      <4>1. i \in Kept(ledger') /\ Kind(i)' = Kind(i) /\ attempt' = attempt /\ Current(i)' = n
        BY <1>1, <1>2, <1>4
      <4>2. e.attempt <= attempt[i] /\ (e.phase = "terminal" => e.attempt # 0)
        BY <2>4, <3>2 DEF Told
      <4>3. e.seq <= n.seq /\ e.seq # n.seq
        BY <2>1, <2>3, <2>4, <3>2
      <4> QED BY <2>4, <3>2, <4>1, <4>2, <4>3 DEF Told, Followed
    <3>3. CASE j = i /\ e = n
      <4>1. i \in Kept(ledger') /\ attempt' = attempt /\ Current(i)' = n
        BY <1>1, <1>4
      <4>2. n.seq \in Nat
        BY <2>1, <2>3
      <4> QED BY <2>1, <2>2, <3>3, <4>1, <4>2 DEF Told, Followed
    <3> QED BY <1>4, <3>1, <3>2, <3>3
  <2>6. NumbersTellApart'
    <3> SUFFICES ASSUME NEW j \in Requests, NEW e \in published'[j], NEW f \in published'[j], e.seq = f.seq
                 PROVE e = f
      BY DEF NumbersTellApart
    <3>1. CASE j # i
      BY <1>1, <3>1 DEF EventInv, NumbersTellApart
    <3>2. CASE j = i /\ e \in published[i] /\ f \in published[i]
      BY <3>2 DEF EventInv, NumbersTellApart
    <3>3. CASE j = i /\ ~(e \in published[i] /\ f \in published[i])
      <4>1. e \in published[i] => e.seq \in Nat /\ e.seq < n.seq
        BY <2>4
      <4>2. f \in published[i] => f.seq \in Nat /\ f.seq < n.seq
        BY <2>4
      <4> QED BY <1>4, <2>1, <2>3, <3>3, <4>1, <4>2
    <3> QED BY <3>1, <3>2, <3>3
  <2>7. ResultStands'
    <3> SUFFICES ASSUME NEW j \in Requests, NEW e \in published'[j], NEW f \in published'[j],
                        e.phase = "terminal", e.seq < f.seq
                 PROVE Kind(j) = "survey" /\ e.outcome = "succeeded" /\ f.attempt # e.attempt
      BY <1>2 DEF ResultStands
    <3>1. CASE j # i
      BY <1>1, <3>1 DEF EventInv, ResultStands
    <3>2. CASE j = i /\ e \in published[i] /\ f \in published[i]
      BY <3>2 DEF EventInv, ResultStands
    <3>3. CASE j = i /\ e \in published[i] /\ f = n
      BY <2>4, <3>3
    <3>4. CASE j = i /\ e = n
      <4>1. f \in published[i] => f.seq \in Nat /\ f.seq < n.seq
        BY <2>4
      <4> QED BY <1>4, <2>1, <2>3, <3>4, <4>1
    <3> QED BY <1>4, <3>1, <3>2, <3>3, <3>4
  <2> QED BY <1>1, <2>5, <2>6, <2>7 DEF Telling
<1> QED BY <1>1, <1>3, <1>4

LEMMA EventsBegin == ASSUME RoomForAll, Init PROVE EventInv
<1>1. IInv
  BY InitHolds
<1>2. Kept(ledger) = {} /\ ledger.order = <<>>
  BY DEF Init, EmptyLedger, Kept
<1>3. Ordered(ledger)
  BY <1>2, FS_EmptySet DEF Ordered
<1> QED
  BY <1>1, <1>3 DEF Init, EventInv, Trying, HistoryHolds, NumbersTellApart, ResultStands

\* One step per action; the last four publish.
LEMMA EventsKept == ASSUME RoomForAll, EventInv, [Next]_vars PROVE EventInv'
<1> USE DEF EventInv
<1>1. IInv'
  BY StepHolds
<1>2. /\ attempt \in [Requests -> Nat]
      /\ \A j \in Requests : attempt'[j] \in Nat
  BY <1>1 DEF IInv, TypeOK
<1>3. ASSUME NEW i \in Requests, NEW ask \in Asks, TakeUp(i, ask) PROVE Telling'
  <2> DEFINE fresh == [ask |-> ask, event |-> NoEvent, closed |-> FALSE]
             new == NewRecord(ledger, i, ask)
  <2>1. Ordered(new) /\ new = WithRecord(ledger, i, fresh) /\ i \notin Kept(ledger)
    BY <1>3, NewIsWith DEF TakeUp, Admits
  <2>2. fresh.event = NoEvent
    OBVIOUS
  <2> HIDE DEF fresh, new
  <2>3. /\ Kept(new) = Kept(ledger) \cup {i}
        /\ new.records[i] = fresh
        /\ \A j \in Kept(ledger) : j # i => new.records[j] = ledger.records[j]
    BY <2>1, WithFacts
  <2>4. ledger'.records = new.records /\ ledger'.order = new.order
    BY <1>3 DEF TakeUp, Admit, new
  <2>5. Kept(ledger') = Kept(new) /\ Ordered(ledger')
    BY <2>1, <2>4 DEF Kept, Ordered
  <2>6. \A j \in Requests : Current(j)' = Current(j)
    BY <2>1, <2>2, <2>3, <2>4, <2>5 DEF Current, EventOf
  <2>7. /\ UNCHANGED <<published, attempt>> /\ Trying'
        /\ \A j \in Requests : j \in Kept(ledger) => Kind(j)' = Kind(j)
    BY <1>3, <2>1 DEF TakeUp, Trying, Kind, IInv, TypeOK
  <2> QED BY <1>2, <2>3, <2>5, <2>6, <2>7, QuietKeeps
<1>4. ASSUME NEW i \in Requests, NEW ask \in Asks, Replay(i, ask) PROVE Telling'
  <2> DEFINE record == [ledger.records[i] EXCEPT !.ask = ask]
  <2>1. /\ i \in Kept(ledger) /\ ledger.records[i] \in Records
        /\ ledger' = WithRecord(ledger, i, record)
        /\ UNCHANGED <<work, attempt, asked, published>>
    BY <1>4 DEF Replay, Replays, Learn, IInv, TypeOK
  <2>2. record.event = ledger.records[i].event
    BY <2>1 DEF Records
  <2> HIDE DEF record
  <2>3. Ordered(ledger')
    BY <2>1, OrderedWith
  <2>4. /\ Kept(ledger') = Kept(ledger) \cup {i}
        /\ ledger'.records[i] = record
        /\ \A j \in Kept(ledger) : j # i => ledger'.records[j] = ledger.records[j]
    BY <2>1, WithFacts
  <2>5. \A j \in Requests : Current(j)' = Current(j)
    BY <2>1, <2>2, <2>4 DEF Current, EventOf
  <2>6. Trying' /\ \A j \in Requests : Kind(j)' = Kind(j)
    BY <2>1 DEF Trying, Kind
  <2> QED BY <1>2, <2>1, <2>3, <2>4, <2>5, <2>6, QuietKeeps
<1>5. ASSUME NEW i \in Requests, Begin(i) \/ NextAttempt(i) \/ StopSurvey(i) PROVE Telling'
  <2>1. UNCHANGED <<ledger, asked, published>>
    BY <1>5 DEF Begin, NextAttempt, StopSurvey
  <2>2. Trying' /\ \A j \in Requests : attempt[j] <= attempt'[j]
    BY <1>2, <1>5 DEF Begin, NextAttempt, StopSurvey, Trying, IInv, TypeOK, Unbegun
  <2>3. \A j \in Requests : Current(j)' = Current(j) /\ Kind(j)' = Kind(j)
    BY <2>1 DEF Current, Kind
  <2> QED BY <1>2, <2>1, <2>2, <2>3, QuietKeeps
<1>6. ASSUME NEW i \in Requests, Refuse(i) \/ DoPlain(i) \/ AnswerTask(i) PROVE Telling'
  <2>1. PICK outcome \in {"accepted", "rejected", "failed"} :
          Emit(i, [phase |-> "request", outcome |-> outcome, attempt |-> 0])
    BY <1>6 DEF Refuse, DoPlain, AnswerTask
  <2> DEFINE report == [phase |-> "request", outcome |-> outcome, attempt |-> 0]
  <2>2. report \in Reports /\ report.attempt = 0 /\ report.phase # "terminal"
    BY DEF Reports, Phases, Outcomes
  <2>3. UNCHANGED <<attempt, asked>> /\ Trying'
    BY <1>6 DEF Refuse, DoPlain, AnswerTask, Trying, IInv, TypeOK
  <2>4. Emit(i, report)
    BY <2>1
  <2> HIDE DEF report
  <2> QED BY <2>2, <2>3, <2>4, SpeakKeeps
<1>7. ASSUME NEW i \in Requests, Progress(i) \/ Finish(i) PROVE Telling'
  <2>1. PICK phase \in {"progress", "terminal"}, outcome \in {"", "succeeded", "failed"} :
          /\ Emit(i, [phase |-> phase, outcome |-> outcome, attempt |-> attempt[i]])
          /\ phase = "terminal" => work[i] = "running"
    BY <1>7 DEF Progress, Finish
  <2> DEFINE report == [phase |-> phase, outcome |-> outcome, attempt |-> attempt[i]]
  <2>2. attempt[i] \in Nat /\ (phase = "terminal" => attempt[i] # 0)
    BY <1>2, <2>1 DEF Trying
  <2>3. report \in Reports /\ report.attempt = attempt[i] /\ report.phase = phase
    BY <2>2 DEF Reports, Phases, Outcomes
  <2>4. UNCHANGED <<attempt, asked>> /\ Trying'
    BY <1>7 DEF Progress, Finish, Trying, IInv, TypeOK
  <2>5. Emit(i, report)
    BY <2>1
  <2> HIDE DEF report
  <2> QED BY <2>2, <2>3, <2>4, <2>5, SpeakKeeps
<1>8. ASSUME UNCHANGED vars PROVE Telling'
  <2>1. Trying' /\ Ordered(ledger') /\ \A j \in Requests : Current(j)' = Current(j) /\ Kind(j)' = Kind(j)
    BY <1>8 DEF vars, Trying, Ordered, Kept, Current, EventOf, Kind
  <2>2. UNCHANGED <<ledger, published, attempt>>
    BY <1>8 DEF vars
  <2>3. \A j \in Requests : attempt[j] <= attempt'[j]
    BY <1>2, <2>2
  <2> QED BY <1>2, <2>1, <2>2, <2>3, QuietKeeps
<1>9. ASSUME NEW i \in Requests, Executor(i) PROVE Telling'
  BY <1>5, <1>6, <1>7, <1>9 DEF Executor
<1>10. Telling'
  <2>1. ASSUME Next PROVE Telling'
    <3>1. PICK i \in Requests : (\E ask \in Asks : TakeUp(i, ask) \/ Replay(i, ask)) \/ Executor(i)
      BY <2>1 DEF Next
    <3> QED BY <1>3, <1>4, <1>9, <3>1
  <2> QED BY <1>8, <2>1
<1> QED BY <1>1, <1>10 DEF Telling

(***************************************************************************)
(* With room for every request the number of an event is its own, and the  *)
(* result of an attempt is the last word on it, whatever late reports and  *)
(* late answers the two threads still have.                                *)
(***************************************************************************)
THEOREM EventsTrue == RoomForAll /\ Spec => [](NumbersTellApart /\ ResultStands)
<1>1. SUFFICES ASSUME RoomForAll PROVE Spec => [](NumbersTellApart /\ ResultStands)
  OBVIOUS
<1>2. Init => EventInv
  BY <1>1, EventsBegin
<1>3. EventInv /\ [Next]_vars => EventInv'
  BY <1>1, EventsKept
<1>4. EventInv => NumbersTellApart /\ ResultStands
  BY DEF EventInv
<1> QED BY <1>2, <1>3, <1>4, PTL DEF Spec


===============================================================================
