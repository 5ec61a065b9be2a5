-------------------------- MODULE PumpControlProofs ----------------------------
(***************************************************************************)
(* Proofs about PumpControl, for any requests of any kinds: the types, the *)
(* context of the threads, that a confirmed stop holds, and that every     *)
(* attempt is closed once. They rest on one inductive invariant.           *)
(***************************************************************************)
EXTENDS PumpControl, FiniteSetTheorems, TLAPS

(* Who is inside a critical section of _control_lock has it.               *)
Inside(r) == at[r] \in {"locked", "cleared", "loaded", "verified", "stopping"}
Exclusive ==
  /\ \A r \in Requests : Inside(r) => lock = r
  /\ doing.preparer = "handing" => lock = preparer

(* Only a start takes the stages of a start, and only a narrow stop skips  *)
(* the control lock.                                                       *)
StagesOfKind ==
  \A r \in Requests :
    /\ at[r] \in {"issued", "checked", "scoped", "locked", "cleared", "loaded", "verified"}
         => Kind[r] = "start"
    /\ at[r] \in {"asked_active", "asked_idle", "finishing"}
         => Kind[r] \in {"injection_off", "detector_stop"}
    /\ at[r] \in {"requested", "stopping"} => Kind[r] # "start"

(* The threads are those of an attempt that was answered.                  *)
ThreadsOfAnswered ==
  /\ preparer = Nobody <=> doing.preparer = "nothing"
  /\ worker = Nobody <=> doing.worker = "nothing"
  /\ preparer # Nobody => at[preparer] = "answered" /\ (prep.active \/ prep.cancelled)
  /\ worker # Nobody => at[worker] = "answered"

(* A start that was cleared is alone, and the context it loads its own.    *)
ClearedAlone ==
  \A r \in Requests :
    /\ at[r] \in {"cleared", "loaded", "verified"} => ~IsActive
    /\ at[r] \in {"loaded", "verified"} => owner = r
OwnerWasLoaded == owner # Nobody => at[owner] \in {"loaded", "verified", "answered"}

(* Between the two halves of a stop nothing runs.                          *)
StoppingHolds ==
  \A r \in Requests : at[r] = "stopping" => ~running /\ (preparer # Nobody => prep.cancelled)

(* _stop_requests counts the stops between their request and their finish. *)
Pending == {r \in Requests : /\ at[r] \in {"requested", "stopping", "finishing"}
                             /\ Kind[r] # "disconnect"}
CountsPending == IsFiniteSet(Pending) /\ stops = Cardinality(Pending)

Numbered == \A r \in Requests : issued[r] <= cutoff /\ since[r] <= cutoff

(* What a confirmed stop leaves of an attempt issued before it.            *)
Dead(a) ==
  /\ ~Inside(a) \/ at[a] = "locked"
  /\ preparer = a => prep.cancelled /\ doing.preparer # "handing"
  /\ worker = a => ~running
  /\ output # a
StopsKill ==
  \A s \in Requests, a \in Attempts :
    /\ Kind[s] \in {"stop", "cleanup"} /\ at[s] = "answered" /\ answer[s] = "ok"
    /\ at[a] # "new" /\ issued[a] < since[s]
    => Dead(a)

(* A record that is open is empty, and only an answered start has one.     *)
OpenIsEmpty ==
  /\ \A a \in Attempts : records[a] # {} => at[a] = "answered"
  /\ ~finalized /\ owner # Nobody => records[owner] = {}
OneReason == \A a \in Attempts : \E c \in Reasons : records[a] \subseteq {c}

IInv ==
  /\ TypeOK /\ CountsPending /\ Numbered
  /\ Exclusive /\ StagesOfKind /\ ThreadsOfAnswered
  /\ ContextOfThreads /\ ClearedAlone /\ OwnerWasLoaded /\ StoppingHolds
  /\ StopsKill /\ OpenIsEmpty /\ OneReason

-----------------------------------------------------------------------------
(* No step takes the control lock from who is inside its section.          *)
LEMMA Exclusion == IInv /\ [Next]_vars => Exclusive'
<1> SUFFICES ASSUME IInv, [Next]_vars PROVE Exclusive'
  OBVIOUS
<1> USE NobodyAssumption DEF IInv, TypeOK, Exclusive, Inside, Stages, ThreadsOfAnswered, Attempts
<1>1. ASSUME NEW r \in Requests,
             Issue(r) \/ Arrive(r) \/ Scope(r) \/ Clear(r) \/ Load(r) \/ Verify(r)
      PROVE  Exclusive'
  BY <1>1 DEF Issue, Arrive, Scope, Clear, Load, Verify, Move, Reply, halting, threads, verdict
<1>2. ASSUME NEW r \in Requests, Enter(r) PROVE Exclusive'
  BY <1>2 DEF Enter, Move, threads
<1>3. ASSUME NEW r \in Requests, Reject(r) \/ RejectUnready(r) \/ Launch(r) PROVE Exclusive'
  BY <1>3 DEF Reject, RejectUnready, Launch, Reply, threads
<1>4. ASSUME NEW r \in Requests,
             RequestStop(r) \/ RequestCleanup(r) \/ NoteCleanup(r) \/ Ask(r) \/ RequestWhole(r)
             \/ RequestPart(r) \/ FinishPart(r) \/ Disconnect(r) \/ SkipCleanup(r)
      PROVE  Exclusive'
  BY <1>4 DEF RequestStop, RequestCleanup, NoteCleanup, Ask, RequestWhole, RequestPart, FinishPart,
              Disconnect, SkipCleanup, Cut, Move, Reply, threads
<1>5. ASSUME NEW r \in Requests, StopBegin(r) \/ StopEnd(r) PROVE Exclusive'
  BY <1>5 DEF StopBegin, StopEnd, Move, Reply, threads
<1>6. CASE \/ Prepare \/ AbandonPreparation \/ PreparationRaises \/ FailPreparation
           \/ Work \/ WorkerEnds \/ WorkerReports
  BY <1>6 DEF Prepare, AbandonPreparation, PreparationRaises, FailPreparation, Work, WorkerEnds,
              WorkerReports, requests, threads
<1>7. CASE BeginHandOver \/ EndHandOver
  BY <1>7 DEF BeginHandOver, EndHandOver, requests
<1>8. CASE UNCHANGED vars
  BY <1>8 DEF vars, requests, threads
<1> QED
  BY <1>1, <1>2, <1>3, <1>4, <1>5, <1>6, <1>7, <1>8 DEF Next

(* A request never takes a stage of another kind.                          *)
LEMMA KindsStay == IInv /\ [Next]_vars => StagesOfKind'
<1> SUFFICES ASSUME IInv, [Next]_vars PROVE StagesOfKind'
  OBVIOUS
<1> USE NobodyAssumption DEF IInv, TypeOK, Stages, StagesOfKind
<1>1. ASSUME NEW r \in Requests,
             Issue(r) \/ Arrive(r) \/ Scope(r) \/ Enter(r) \/ Clear(r) \/ Load(r) \/ Verify(r)
      PROVE  StagesOfKind'
  BY <1>1 DEF Issue, Arrive, Scope, Enter, Clear, Load, Verify, Move, Reply, halting, threads, verdict
<1>2. ASSUME NEW r \in Requests, Reject(r) \/ RejectUnready(r) \/ Launch(r) PROVE StagesOfKind'
  BY <1>2 DEF Reject, RejectUnready, Launch, Reply, halting, threads, verdict
<1>3. ASSUME NEW r \in Requests,
             RequestStop(r) \/ RequestCleanup(r) \/ NoteCleanup(r) \/ Ask(r) \/ RequestWhole(r)
             \/ RequestPart(r) \/ FinishPart(r) \/ Disconnect(r) \/ SkipCleanup(r)
      PROVE  StagesOfKind'
  BY <1>3 DEF RequestStop, RequestCleanup, NoteCleanup, Ask, RequestWhole, RequestPart, FinishPart,
              Disconnect, SkipCleanup, Cut, Move, Reply, halting, threads, verdict
<1>4. ASSUME NEW r \in Requests, StopBegin(r) PROVE StagesOfKind'
  BY <1>4 DEF StopBegin, Move, threads
<1>5. ASSUME NEW r \in Requests, StopEnd(r) PROVE StagesOfKind'
  BY <1>5 DEF StopEnd, Record, Reply, threads
<1>6. CASE \/ Prepare \/ AbandonPreparation \/ PreparationRaises \/ FailPreparation
           \/ BeginHandOver
  BY <1>6 DEF Prepare, AbandonPreparation, PreparationRaises, FailPreparation, BeginHandOver, Wanted,
              Record, requests, halting, threads, verdict
<1>7. CASE EndHandOver
  BY <1>7 DEF EndHandOver, requests, halting, verdict
<1>8. CASE Work \/ WorkerEnds \/ WorkerReports
  BY <1>8 DEF Work, WorkerEnds, WorkerReports, Record, requests, halting, threads, verdict
<1>9. CASE UNCHANGED vars
  BY <1>9 DEF vars, requests, halting, threads, verdict
<1> QED
  BY <1>1, <1>2, <1>3, <1>4, <1>5, <1>6, <1>7, <1>8, <1>9 DEF Next

(* The threads belong to answered starts, and a thread whose preparation   *)
(* is no longer active was cancelled.                                      *)
LEMMA ThreadsStay == IInv /\ [Next]_vars => ThreadsOfAnswered'
<1> SUFFICES ASSUME IInv, [Next]_vars PROVE ThreadsOfAnswered'
  OBVIOUS
<1> USE NobodyAssumption
        DEF IInv, TypeOK, Stages, ThreadsOfAnswered, Exclusive, Inside, ClearedAlone, IsActive, Attempts
<1>1. ASSUME NEW r \in Requests,
             Issue(r) \/ Arrive(r) \/ Scope(r) \/ Enter(r) \/ Clear(r) \/ Load(r) \/ Verify(r)
      PROVE  ThreadsOfAnswered'
  BY <1>1 DEF Issue, Arrive, Scope, Enter, Clear, Load, Verify, Move, Reply, halting, threads, verdict
<1>2. ASSUME NEW r \in Requests, Reject(r) \/ RejectUnready(r) \/ Launch(r) PROVE ThreadsOfAnswered'
  BY <1>2 DEF Reject, RejectUnready, Launch, Reply, halting, threads, verdict
<1>3. ASSUME NEW r \in Requests,
             RequestStop(r) \/ RequestCleanup(r) \/ NoteCleanup(r) \/ Ask(r) \/ RequestWhole(r)
             \/ RequestPart(r) \/ FinishPart(r) \/ Disconnect(r) \/ SkipCleanup(r)
      PROVE  ThreadsOfAnswered'
  BY <1>3 DEF RequestStop, RequestCleanup, NoteCleanup, Ask, RequestWhole, RequestPart, FinishPart,
              Disconnect, SkipCleanup, Cut, Move, Reply, halting, threads, verdict
<1>4. ASSUME NEW r \in Requests, StopBegin(r) PROVE ThreadsOfAnswered'
  BY <1>4 DEF StopBegin, Move, threads
<1>5. ASSUME NEW r \in Requests, StopEnd(r) PROVE ThreadsOfAnswered'
  BY <1>5 DEF StopEnd, Record, Reply, threads
<1>6. CASE \/ Prepare \/ AbandonPreparation \/ PreparationRaises \/ FailPreparation
           \/ BeginHandOver
  BY <1>6 DEF Prepare, AbandonPreparation, PreparationRaises, FailPreparation, BeginHandOver, Wanted,
              Record, requests, halting, threads, verdict
<1>7. CASE EndHandOver
  BY <1>7 DEF EndHandOver, requests, halting, verdict
<1>8. CASE Work \/ WorkerEnds \/ WorkerReports
  BY <1>8 DEF Work, WorkerEnds, WorkerReports, Record, requests, halting, threads, verdict
<1>9. CASE UNCHANGED vars
  BY <1>9 DEF vars, requests, halting, threads, verdict
<1> QED
  BY <1>1, <1>2, <1>3, <1>4, <1>5, <1>6, <1>7, <1>8, <1>9 DEF Next

(* Only a start that is alone replaces the context or starts a thread.     *)
LEMMA ContextStays == IInv /\ [Next]_vars => ContextOfThreads'
<1> SUFFICES ASSUME IInv, [Next]_vars PROVE ContextOfThreads'
  OBVIOUS
<1> USE NobodyAssumption
        DEF IInv, TypeOK, Stages, ContextOfThreads, ThreadsOfAnswered, ClearedAlone, Exclusive, Inside,
            IsActive, Attempts
<1>1. ASSUME NEW r \in Requests,
             Issue(r) \/ Arrive(r) \/ Scope(r) \/ Enter(r) \/ Clear(r) \/ Load(r) \/ Verify(r)
      PROVE  ContextOfThreads'
  BY <1>1 DEF Issue, Arrive, Scope, Enter, Clear, Load, Verify, Move, Reply, halting, threads, verdict
<1>2. ASSUME NEW r \in Requests, Reject(r) \/ RejectUnready(r) \/ Launch(r) PROVE ContextOfThreads'
  BY <1>2 DEF Reject, RejectUnready, Launch, Reply, halting, threads, verdict
<1>3. ASSUME NEW r \in Requests,
             RequestStop(r) \/ RequestCleanup(r) \/ NoteCleanup(r) \/ Ask(r) \/ RequestWhole(r)
             \/ RequestPart(r) \/ FinishPart(r) \/ Disconnect(r) \/ SkipCleanup(r)
      PROVE  ContextOfThreads'
  BY <1>3 DEF RequestStop, RequestCleanup, NoteCleanup, Ask, RequestWhole, RequestPart, FinishPart,
              Disconnect, SkipCleanup, Cut, Move, Reply, halting, threads, verdict
<1>4. ASSUME NEW r \in Requests, StopBegin(r) PROVE ContextOfThreads'
  BY <1>4 DEF StopBegin, Move, threads
<1>5. ASSUME NEW r \in Requests, StopEnd(r) PROVE ContextOfThreads'
  BY <1>5 DEF StopEnd, Record, Reply, threads
<1>6. CASE \/ Prepare \/ AbandonPreparation \/ PreparationRaises \/ FailPreparation
           \/ BeginHandOver
  BY <1>6 DEF Prepare, AbandonPreparation, PreparationRaises, FailPreparation, BeginHandOver, Wanted,
              Record, requests, halting, threads, verdict
<1>7. CASE EndHandOver
  BY <1>7 DEF EndHandOver, requests, halting, verdict
<1>8. CASE Work \/ WorkerEnds \/ WorkerReports
  BY <1>8 DEF Work, WorkerEnds, WorkerReports, Record, requests, halting, threads, verdict
<1>9. CASE UNCHANGED vars
  BY <1>9 DEF vars, requests, halting, threads, verdict
<1> QED
  BY <1>1, <1>2, <1>3, <1>4, <1>5, <1>6, <1>7, <1>8, <1>9 DEF Next

(* Nothing is started next to a start that was cleared: it holds the lock. *)
LEMMA ClearedStaysAlone == IInv /\ [Next]_vars => ClearedAlone'
<1> SUFFICES ASSUME IInv, [Next]_vars PROVE ClearedAlone'
  OBVIOUS
<1> USE NobodyAssumption
        DEF IInv, TypeOK, Stages, ClearedAlone, Exclusive, Inside, ThreadsOfAnswered, MayClear, IsActive,
            Attempts
<1>1. ASSUME NEW r \in Requests,
             Issue(r) \/ Arrive(r) \/ Scope(r) \/ Enter(r) \/ Clear(r) \/ Load(r) \/ Verify(r)
      PROVE  ClearedAlone'
  BY <1>1 DEF Issue, Arrive, Scope, Enter, Clear, Load, Verify, Move, Reply, halting, threads, verdict
<1>2. ASSUME NEW r \in Requests, Reject(r) \/ RejectUnready(r) \/ Launch(r) PROVE ClearedAlone'
  BY <1>2 DEF Reject, RejectUnready, Launch, Reply, halting, threads, verdict
<1>3. ASSUME NEW r \in Requests,
             RequestStop(r) \/ RequestCleanup(r) \/ NoteCleanup(r) \/ Ask(r) \/ RequestWhole(r)
             \/ RequestPart(r) \/ FinishPart(r) \/ Disconnect(r) \/ SkipCleanup(r)
      PROVE  ClearedAlone'
  BY <1>3 DEF RequestStop, RequestCleanup, NoteCleanup, Ask, RequestWhole, RequestPart, FinishPart,
              Disconnect, SkipCleanup, Cut, Move, Reply, halting, threads, verdict
<1>4. ASSUME NEW r \in Requests, StopBegin(r) PROVE ClearedAlone'
  BY <1>4 DEF StopBegin, Move, threads
<1>5. ASSUME NEW r \in Requests, StopEnd(r) PROVE ClearedAlone'
  BY <1>5 DEF StopEnd, Record, Reply, threads
<1>6. CASE \/ Prepare \/ AbandonPreparation \/ PreparationRaises \/ FailPreparation
           \/ BeginHandOver
  BY <1>6 DEF Prepare, AbandonPreparation, PreparationRaises, FailPreparation, BeginHandOver, Wanted,
              Record, requests, halting, threads, verdict
<1>7. CASE EndHandOver
  BY <1>7 DEF EndHandOver, requests, halting, verdict
<1>8. CASE Work \/ WorkerEnds \/ WorkerReports
  BY <1>8 DEF Work, WorkerEnds, WorkerReports, Record, requests, halting, threads, verdict
<1>9. CASE UNCHANGED vars
  BY <1>9 DEF vars, requests, halting, threads, verdict
<1> QED
  BY <1>1, <1>2, <1>3, <1>4, <1>5, <1>6, <1>7, <1>8, <1>9 DEF Next

(* The context is always that of a start that got as far as loading it.    *)
LEMMA OwnerStays == IInv /\ [Next]_vars => OwnerWasLoaded'
<1> SUFFICES ASSUME IInv, [Next]_vars PROVE OwnerWasLoaded'
  OBVIOUS
<1> USE NobodyAssumption DEF IInv, TypeOK, Stages, OwnerWasLoaded, Exclusive, Inside, Attempts
<1>1. ASSUME NEW r \in Requests,
             Issue(r) \/ Arrive(r) \/ Scope(r) \/ Enter(r) \/ Clear(r) \/ Load(r) \/ Verify(r)
      PROVE  OwnerWasLoaded'
  BY <1>1 DEF Issue, Arrive, Scope, Enter, Clear, Load, Verify, Move, Reply, halting, threads, verdict
<1>2. ASSUME NEW r \in Requests, Reject(r) \/ RejectUnready(r) \/ Launch(r) PROVE OwnerWasLoaded'
  BY <1>2 DEF Reject, RejectUnready, Launch, Reply, halting, threads, verdict
<1>3. ASSUME NEW r \in Requests,
             RequestStop(r) \/ RequestCleanup(r) \/ NoteCleanup(r) \/ Ask(r) \/ RequestWhole(r)
             \/ RequestPart(r) \/ FinishPart(r) \/ Disconnect(r) \/ SkipCleanup(r)
      PROVE  OwnerWasLoaded'
  BY <1>3 DEF RequestStop, RequestCleanup, NoteCleanup, Ask, RequestWhole, RequestPart, FinishPart,
              Disconnect, SkipCleanup, Cut, Move, Reply, halting, threads, verdict
<1>4. ASSUME NEW r \in Requests, StopBegin(r) PROVE OwnerWasLoaded'
  BY <1>4 DEF StopBegin, Move, threads
<1>5. ASSUME NEW r \in Requests, StopEnd(r) PROVE OwnerWasLoaded'
  BY <1>5 DEF StopEnd, Record, Reply, threads
<1>6. CASE \/ Prepare \/ AbandonPreparation \/ PreparationRaises \/ FailPreparation
           \/ BeginHandOver
  BY <1>6 DEF Prepare, AbandonPreparation, PreparationRaises, FailPreparation, BeginHandOver, Wanted,
              Record, requests, halting, threads, verdict
<1>7. CASE EndHandOver
  BY <1>7 DEF EndHandOver, requests, halting, verdict
<1>8. CASE Work \/ WorkerEnds \/ WorkerReports
  BY <1>8 DEF Work, WorkerEnds, WorkerReports, Record, requests, halting, threads, verdict
<1>9. CASE UNCHANGED vars
  BY <1>9 DEF vars, requests, halting, threads, verdict
<1> QED
  BY <1>1, <1>2, <1>3, <1>4, <1>5, <1>6, <1>7, <1>8, <1>9 DEF Next

(* Between the halves of a stop nobody else can launch or hand over.       *)
LEMMA StoppingStays == IInv /\ [Next]_vars => StoppingHolds'
<1> SUFFICES ASSUME IInv, [Next]_vars PROVE StoppingHolds'
  OBVIOUS
<1> USE NobodyAssumption DEF IInv, TypeOK, Stages, StoppingHolds, Exclusive, Inside, ThreadsOfAnswered
<1>1. ASSUME NEW r \in Requests,
             Issue(r) \/ Arrive(r) \/ Scope(r) \/ Enter(r) \/ Clear(r) \/ Load(r) \/ Verify(r)
      PROVE  StoppingHolds'
  BY <1>1 DEF Issue, Arrive, Scope, Enter, Clear, Load, Verify, Move, Reply, halting, threads, verdict
<1>2. ASSUME NEW r \in Requests, Reject(r) \/ RejectUnready(r) \/ Launch(r) PROVE StoppingHolds'
  BY <1>2 DEF Reject, RejectUnready, Launch, Reply, halting, threads, verdict
<1>3. ASSUME NEW r \in Requests,
             RequestStop(r) \/ RequestCleanup(r) \/ NoteCleanup(r) \/ Ask(r) \/ RequestWhole(r)
             \/ RequestPart(r) \/ FinishPart(r) \/ Disconnect(r) \/ SkipCleanup(r)
      PROVE  StoppingHolds'
  BY <1>3 DEF RequestStop, RequestCleanup, NoteCleanup, Ask, RequestWhole, RequestPart, FinishPart,
              Disconnect, SkipCleanup, Cut, Move, Reply, halting, threads, verdict
<1>4. ASSUME NEW r \in Requests, StopBegin(r) PROVE StoppingHolds'
  BY <1>4 DEF StopBegin, Move, threads
<1>5. ASSUME NEW r \in Requests, StopEnd(r) PROVE StoppingHolds'
  BY <1>5 DEF StopEnd, Record, Reply, threads
<1>6. CASE \/ Prepare \/ AbandonPreparation \/ PreparationRaises \/ FailPreparation
           \/ BeginHandOver
  BY <1>6 DEF Prepare, AbandonPreparation, PreparationRaises, FailPreparation, BeginHandOver, Wanted,
              Record, requests, halting, threads, verdict
<1>7. CASE EndHandOver
  BY <1>7 DEF EndHandOver, requests, halting, verdict
<1>8. CASE Work \/ WorkerEnds \/ WorkerReports
  BY <1>8 DEF Work, WorkerEnds, WorkerReports, Record, requests, halting, threads, verdict
<1>9. CASE UNCHANGED vars
  BY <1>9 DEF vars, requests, halting, threads, verdict
<1> QED
  BY <1>1, <1>2, <1>3, <1>4, <1>5, <1>6, <1>7, <1>8, <1>9 DEF Next

(* No request is stamped with a cutoff that is still to come.              *)
LEMMA NumbersStay == IInv /\ [Next]_vars => Numbered'
<1> SUFFICES ASSUME IInv, [Next]_vars PROVE Numbered'
  OBVIOUS
<1> USE NobodyAssumption DEF IInv, TypeOK, Stages, Numbered
<1>1. ASSUME NEW r \in Requests,
             Issue(r) \/ Arrive(r) \/ Scope(r) \/ Enter(r) \/ Clear(r) \/ Load(r) \/ Verify(r)
      PROVE  Numbered'
  BY <1>1 DEF Issue, Arrive, Scope, Enter, Clear, Load, Verify, Move, Reply, halting, threads, verdict
<1>2. ASSUME NEW r \in Requests, Reject(r) \/ RejectUnready(r) \/ Launch(r) PROVE Numbered'
  BY <1>2 DEF Reject, RejectUnready, Launch, Reply, halting, threads, verdict
<1>3. ASSUME NEW r \in Requests,
             RequestStop(r) \/ RequestCleanup(r) \/ NoteCleanup(r) \/ Ask(r) \/ RequestWhole(r)
             \/ RequestPart(r) \/ FinishPart(r) \/ Disconnect(r) \/ SkipCleanup(r)
      PROVE  Numbered'
  BY <1>3 DEF RequestStop, RequestCleanup, NoteCleanup, Ask, RequestWhole, RequestPart, FinishPart,
              Disconnect, SkipCleanup, Cut, Move, Reply, halting, threads, verdict
<1>4. ASSUME NEW r \in Requests, StopBegin(r) PROVE Numbered'
  BY <1>4 DEF StopBegin, Move, threads
<1>5. ASSUME NEW r \in Requests, StopEnd(r) PROVE Numbered'
  BY <1>5 DEF StopEnd, Record, Reply, threads
<1>6. CASE \/ Prepare \/ AbandonPreparation \/ PreparationRaises \/ FailPreparation
           \/ BeginHandOver
  BY <1>6 DEF Prepare, AbandonPreparation, PreparationRaises, FailPreparation, BeginHandOver, Wanted,
              Record, requests, halting, threads, verdict
<1>7. CASE EndHandOver
  BY <1>7 DEF EndHandOver, requests, halting, verdict
<1>8. CASE Work \/ WorkerEnds \/ WorkerReports
  BY <1>8 DEF Work, WorkerEnds, WorkerReports, Record, requests, halting, threads, verdict
<1>9. CASE UNCHANGED vars
  BY <1>9 DEF vars, requests, halting, threads, verdict
<1> QED
  BY <1>1, <1>2, <1>3, <1>4, <1>5, <1>6, <1>7, <1>8, <1>9 DEF Next

(* Whoever loads an attempt opens a record that nothing was written to.    *)
LEMMA OpenStaysEmpty == IInv /\ [Next]_vars => OpenIsEmpty'
<1> SUFFICES ASSUME IInv, [Next]_vars PROVE OpenIsEmpty'
  OBVIOUS
<1> USE NobodyAssumption
        DEF IInv, TypeOK, Stages, OpenIsEmpty, Exclusive, Inside, ThreadsOfAnswered, ContextOfThreads,
            ClearedAlone, OwnerWasLoaded, StagesOfKind, Attempts
<1>1. ASSUME NEW r \in Requests,
             Issue(r) \/ Arrive(r) \/ Scope(r) \/ Enter(r) \/ Clear(r) \/ Load(r) \/ Verify(r)
      PROVE  OpenIsEmpty'
  BY <1>1 DEF Issue, Arrive, Scope, Enter, Clear, Load, Verify, Move, Reply, halting, threads, verdict
<1>2. ASSUME NEW r \in Requests, Reject(r) \/ RejectUnready(r) \/ Launch(r) PROVE OpenIsEmpty'
  BY <1>2 DEF Reject, RejectUnready, Launch, Reply, halting, threads, verdict
<1>3. ASSUME NEW r \in Requests,
             RequestStop(r) \/ RequestCleanup(r) \/ NoteCleanup(r) \/ Ask(r) \/ RequestWhole(r)
             \/ RequestPart(r) \/ FinishPart(r) \/ Disconnect(r) \/ SkipCleanup(r)
      PROVE  OpenIsEmpty'
  BY <1>3 DEF RequestStop, RequestCleanup, NoteCleanup, Ask, RequestWhole, RequestPart, FinishPart,
              Disconnect, SkipCleanup, Cut, Move, Reply, halting, threads, verdict
<1>4. ASSUME NEW r \in Requests, StopBegin(r) PROVE OpenIsEmpty'
  BY <1>4 DEF StopBegin, Move, threads
<1>5. ASSUME NEW r \in Requests, StopEnd(r) PROVE OpenIsEmpty'
  BY <1>5 DEF StopEnd, Record, Reply, threads
<1>6. CASE \/ Prepare \/ AbandonPreparation \/ PreparationRaises \/ FailPreparation
           \/ BeginHandOver
  BY <1>6 DEF Prepare, AbandonPreparation, PreparationRaises, FailPreparation, BeginHandOver, Wanted,
              Record, requests, halting, threads, verdict
<1>7. CASE EndHandOver
  BY <1>7 DEF EndHandOver, requests, halting, verdict
<1>8. CASE Work \/ WorkerEnds \/ WorkerReports
  BY <1>8 DEF Work, WorkerEnds, WorkerReports, Record, requests, halting, threads, verdict
<1>9. CASE UNCHANGED vars
  BY <1>9 DEF vars, requests, halting, threads, verdict
<1> QED
  BY <1>1, <1>2, <1>3, <1>4, <1>5, <1>6, <1>7, <1>8, <1>9 DEF Next

(* Only an open record is written, so it gets one reason.                  *)
LEMMA ReasonStays == IInv /\ [Next]_vars => OneReason'
<1> SUFFICES ASSUME IInv, [Next]_vars PROVE OneReason'
  OBVIOUS
<1> USE NobodyAssumption DEF IInv, TypeOK, Stages, OneReason, OpenIsEmpty, FirstReason, NoReason, Reasons
<1>1. ASSUME NEW r \in Requests,
             Issue(r) \/ Arrive(r) \/ Scope(r) \/ Enter(r) \/ Clear(r) \/ Load(r) \/ Verify(r)
      PROVE  OneReason'
  BY <1>1 DEF Issue, Arrive, Scope, Enter, Clear, Load, Verify, Move, Reply, halting, threads, verdict
<1>2. ASSUME NEW r \in Requests, Reject(r) \/ RejectUnready(r) \/ Launch(r) PROVE OneReason'
  BY <1>2 DEF Reject, RejectUnready, Launch, Reply, halting, threads, verdict
<1>3. ASSUME NEW r \in Requests,
             RequestStop(r) \/ RequestCleanup(r) \/ NoteCleanup(r) \/ Ask(r) \/ RequestWhole(r)
             \/ RequestPart(r) \/ FinishPart(r) \/ Disconnect(r) \/ SkipCleanup(r)
      PROVE  OneReason'
  BY <1>3 DEF RequestStop, RequestCleanup, NoteCleanup, Ask, RequestWhole, RequestPart, FinishPart,
              Disconnect, SkipCleanup, Cut, Move, Reply, halting, threads, verdict
<1>4. ASSUME NEW r \in Requests, StopBegin(r) PROVE OneReason'
  BY <1>4 DEF StopBegin, Move, threads
<1>5. ASSUME NEW r \in Requests, StopEnd(r) PROVE OneReason'
  BY <1>5 DEF StopEnd, Record, Reply, threads
<1>6. CASE \/ Prepare \/ AbandonPreparation \/ PreparationRaises \/ FailPreparation
           \/ BeginHandOver
  BY <1>6 DEF Prepare, AbandonPreparation, PreparationRaises, FailPreparation, BeginHandOver, Wanted,
              Record, requests, halting, threads, verdict
<1>7. CASE EndHandOver
  BY <1>7 DEF EndHandOver, requests, halting, verdict
<1>8. CASE Work \/ WorkerEnds \/ WorkerReports
  BY <1>8 DEF Work, WorkerEnds, WorkerReports, Record, requests, halting, threads, verdict
<1>9. CASE UNCHANGED vars
  BY <1>9 DEF vars, requests, halting, threads, verdict
<1> QED
  BY <1>1, <1>2, <1>3, <1>4, <1>5, <1>6, <1>7, <1>8, <1>9 DEF Next

(* A confirmed stop finds every earlier attempt dead, and no step revives  *)
(* one: a start that is not yet inside is turned away by the cutoff, a     *)
(* cancelled preparation is not wanted, a worker that is not running does  *)
(* not write.                                                              *)
LEMMA StopsStillKill == IInv /\ [Next]_vars => StopsKill'
<1> SUFFICES ASSUME IInv, [Next]_vars PROVE StopsKill'
  OBVIOUS
<1> USE NobodyAssumption
        DEF IInv, TypeOK, Stages, StopsKill, Dead, Exclusive, Inside, ThreadsOfAnswered, ClearedAlone,
            StoppingHolds, StagesOfKind, Numbered, MayClear, IsActive, Halted, Attempts
<1>1. ASSUME NEW r \in Requests,
             Issue(r) \/ Arrive(r) \/ Scope(r) \/ Enter(r) \/ Clear(r) \/ Load(r) \/ Verify(r)
      PROVE  StopsKill'
  BY <1>1 DEF Issue, Arrive, Scope, Enter, Clear, Load, Verify, Move, Reply, halting, threads, verdict
<1>2. ASSUME NEW r \in Requests, Reject(r) \/ RejectUnready(r) \/ Launch(r) PROVE StopsKill'
  BY <1>2 DEF Reject, RejectUnready, Launch, Reply, halting, threads, verdict
<1>3. ASSUME NEW r \in Requests,
             RequestStop(r) \/ RequestCleanup(r) \/ NoteCleanup(r) \/ Ask(r) \/ RequestWhole(r)
             \/ RequestPart(r) \/ FinishPart(r) \/ Disconnect(r) \/ SkipCleanup(r)
      PROVE  StopsKill'
  BY <1>3 DEF RequestStop, RequestCleanup, NoteCleanup, Ask, RequestWhole, RequestPart, FinishPart,
              Disconnect, SkipCleanup, Cut, Move, Reply, halting, threads, verdict
<1>4. ASSUME NEW r \in Requests, StopBegin(r) PROVE StopsKill'
  BY <1>4 DEF StopBegin, Move, threads
<1>5. ASSUME NEW r \in Requests, StopEnd(r) PROVE StopsKill'
  BY <1>5 DEF StopEnd, Record, Reply, threads
<1>6. CASE \/ Prepare \/ AbandonPreparation \/ PreparationRaises \/ FailPreparation
           \/ BeginHandOver
  BY <1>6 DEF Prepare, AbandonPreparation, PreparationRaises, FailPreparation, BeginHandOver, Wanted,
              Record, requests, halting, threads, verdict
<1>7. CASE EndHandOver
  BY <1>7 DEF EndHandOver, requests, halting, verdict
<1>8. CASE Work \/ WorkerEnds \/ WorkerReports
  BY <1>8 DEF Work, WorkerEnds, WorkerReports, Record, requests, halting, threads, verdict
<1>9. CASE UNCHANGED vars
  BY <1>9 DEF vars, requests, halting, threads, verdict
<1> QED
  BY <1>1, <1>2, <1>3, <1>4, <1>5, <1>6, <1>7, <1>8, <1>9 DEF Next

(* The types, in the parts in which they are proved.                       *)
RequestTypes ==
  /\ at \in [Requests -> Stages] /\ answer \in [Requests -> Answers]
  /\ issued \in [Requests -> Nat] /\ token \in [Requests -> Nat] /\ since \in [Requests -> Nat]
  /\ cutoff \in Nat /\ stopping \in BOOLEAN
  /\ cancelled \subseteq Attempts /\ lock \in Requests \cup {Nobody}
ThreadTypes ==
  /\ owner \in Attempts \cup {Nobody} /\ output \in Attempts \cup {Nobody}
  /\ preparer \in Attempts \cup {Nobody} /\ worker \in Attempts \cup {Nobody}
  /\ doing \in [preparer : {"nothing", "preparing", "handing", "failing"},
                worker : {"nothing", "working", "reporting"}]
  /\ outcome \in {"none", "finished", "failed", "stopped"} /\ runToken \in Nat
PrepTypes == prep \in [active : BOOLEAN, cancelled : BOOLEAN] /\ running \in BOOLEAN
VerdictTypes ==
  /\ fault \in {"none", "cleanup_failed", "disconnected"} /\ link \in BOOLEAN
  /\ reason \in Reasons \cup {NoReason} /\ finalized \in BOOLEAN
RecordTypes == records \in [Attempts -> SUBSET (Reasons \cup {NoReason})]

(* The parts are the type invariant.                                       *)
LEMMA TypeParts ==
  TypeOK <=> RequestTypes /\ ThreadTypes /\ PrepTypes /\ VerdictTypes /\ RecordTypes /\ stops \in Nat
BY DEF TypeOK, RequestTypes, ThreadTypes, PrepTypes, VerdictTypes, RecordTypes

(* What the requests and the cutoff are keeps its type.                    *)
LEMMA RequestsTyped == IInv /\ [Next]_vars => RequestTypes'
<1> SUFFICES ASSUME IInv, [Next]_vars PROVE RequestTypes'
  OBVIOUS
<1> USE NobodyAssumption DEF IInv, TypeOK, Stages, RequestTypes, Answers, Attempts
<1>0. \A r \in Requests : Kind[r] = "cleanup" => Target[r] \in Requests /\ Kind[Target[r]] = "start"
  BY TargetAssumption
<1>1. ASSUME NEW r \in Requests,
             Issue(r) \/ Arrive(r) \/ Scope(r) \/ Enter(r) \/ Clear(r) \/ Load(r) \/ Verify(r)
      PROVE  RequestTypes'
  BY <1>1 DEF Issue, Arrive, Scope, Enter, Clear, Load, Verify, Move, Reply, halting, threads, verdict
<1>2. ASSUME NEW r \in Requests, Reject(r) \/ RejectUnready(r) \/ Launch(r) PROVE RequestTypes'
  BY <1>2 DEF Reject, RejectUnready, Launch, Reply, halting, threads, verdict
<1>3. ASSUME NEW r \in Requests,
             NoteCleanup(r) \/ Ask(r) \/ FinishPart(r) \/ Disconnect(r) \/ SkipCleanup(r)
      PROVE  RequestTypes'
  <2>1. CASE NoteCleanup(r)
    <3>1. Target[r] \in Attempts
      BY <1>0, <2>1 DEF NoteCleanup
    <3>2. cancelled' \subseteq Attempts
      BY <3>1, <2>1 DEF NoteCleanup
    <3> QED BY <2>1, <3>2 DEF NoteCleanup, Reply, halting
  <2>2. CASE Ask(r)
    BY <2>2 DEF Ask, Move, halting
  <2>3. CASE FinishPart(r)
    BY <2>3 DEF FinishPart, Reply
  <2>4. CASE Disconnect(r)
    BY <2>4 DEF Disconnect, Move
  <2>5. CASE SkipCleanup(r)
    BY <2>5 DEF SkipCleanup, Reply
  <2> QED BY <1>3, <2>1, <2>2, <2>3, <2>4, <2>5
<1>10. ASSUME NEW r \in Requests,
              RequestStop(r) \/ RequestCleanup(r) \/ RequestWhole(r) \/ RequestPart(r)
       PROVE  RequestTypes'
  <2>1. CASE RequestCleanup(r)
    <3>1. Target[r] \in Attempts
      BY <1>0, <2>1 DEF RequestCleanup
    <3>2. cancelled' \subseteq Attempts
      BY <3>1, <2>1 DEF RequestCleanup
    <3> QED BY <2>1, <3>2 DEF RequestCleanup, Cut, Move
  <2>2. CASE RequestStop(r)
    BY <2>2 DEF RequestStop, Cut, Move
  <2>3. CASE RequestWhole(r)
    BY <2>3 DEF RequestWhole, Cut, Move
  <2>4. CASE RequestPart(r)
    BY <2>4 DEF RequestPart, Cut, Move
  <2> QED BY <1>10, <2>1, <2>2, <2>3, <2>4
<1>4. ASSUME NEW r \in Requests, StopBegin(r) PROVE RequestTypes'
  BY <1>4 DEF StopBegin, Move, threads
<1>5. ASSUME NEW r \in Requests, StopEnd(r) PROVE RequestTypes'
  BY <1>5 DEF StopEnd, Record, Reply, threads
<1>6. CASE \/ Prepare \/ AbandonPreparation \/ PreparationRaises \/ FailPreparation
           \/ BeginHandOver
  BY <1>6 DEF Prepare, AbandonPreparation, PreparationRaises, FailPreparation, BeginHandOver, Wanted, Attempts,
              Record, requests, halting, threads, verdict
<1>7. CASE EndHandOver
  BY <1>7 DEF EndHandOver, requests, halting, verdict
<1>8. CASE Work \/ WorkerEnds \/ WorkerReports
  BY <1>8 DEF Work, WorkerEnds, WorkerReports, Record, requests, halting, threads, verdict
<1>9. CASE UNCHANGED vars
  BY <1>9 DEF vars, requests, halting, threads, verdict
<1> QED
  BY <1>1, <1>2, <1>3, <1>4, <1>5, <1>6, <1>7, <1>8, <1>9, <1>10 DEF Next

(* What the threads are keeps its type.                                    *)
LEMMA ThreadsTyped == IInv /\ [Next]_vars => ThreadTypes'
<1> SUFFICES ASSUME IInv, [Next]_vars PROVE ThreadTypes'
  OBVIOUS
<1> USE NobodyAssumption DEF IInv, TypeOK, Stages, ThreadTypes, Attempts, Halted, ThreadsOfAnswered, StagesOfKind
<1>1. ASSUME NEW r \in Requests,
             Issue(r) \/ Arrive(r) \/ Scope(r) \/ Enter(r) \/ Clear(r) \/ Load(r) \/ Verify(r)
      PROVE  ThreadTypes'
  BY <1>1 DEF Issue, Arrive, Scope, Enter, Clear, Load, Verify, Move, Reply, halting, threads, verdict
<1>2. ASSUME NEW r \in Requests, Reject(r) \/ RejectUnready(r) \/ Launch(r) PROVE ThreadTypes'
  BY <1>2 DEF Reject, RejectUnready, Launch, Reply, halting, threads, verdict
<1>3. ASSUME NEW r \in Requests,
             RequestStop(r) \/ RequestCleanup(r) \/ NoteCleanup(r) \/ Ask(r) \/ RequestWhole(r)
             \/ RequestPart(r) \/ FinishPart(r) \/ Disconnect(r) \/ SkipCleanup(r)
      PROVE  ThreadTypes'
  BY <1>3 DEF RequestStop, RequestCleanup, NoteCleanup, Ask, RequestWhole, RequestPart, FinishPart,
              Disconnect, SkipCleanup, Cut, Move, Reply, halting, threads, verdict
<1>4. ASSUME NEW r \in Requests, StopBegin(r) PROVE ThreadTypes'
  BY <1>4 DEF StopBegin, Move, threads
<1>5. ASSUME NEW r \in Requests, StopEnd(r) PROVE ThreadTypes'
  BY <1>5 DEF StopEnd, Record, Reply, threads
<1>6. CASE \/ Prepare \/ AbandonPreparation \/ PreparationRaises \/ FailPreparation
           \/ BeginHandOver
  BY <1>6 DEF Prepare, AbandonPreparation, PreparationRaises, FailPreparation, BeginHandOver, Wanted,
              Record, requests, halting, threads, verdict
<1>7. CASE EndHandOver
  BY <1>7 DEF EndHandOver, requests, halting, verdict
<1>8. CASE Work \/ WorkerEnds \/ WorkerReports
  BY <1>8 DEF Work, WorkerEnds, WorkerReports, Record, requests, halting, threads, verdict
<1>9. CASE UNCHANGED vars
  BY <1>9 DEF vars, requests, halting, threads, verdict
<1> QED
  BY <1>1, <1>2, <1>3, <1>4, <1>5, <1>6, <1>7, <1>8, <1>9 DEF Next

(* The two flags of a preparation.                                         *)
LEMMA PrepStates ==
  \A x, y \in BOOLEAN : [active |-> x, cancelled |-> y] \in [active : BOOLEAN, cancelled : BOOLEAN]
OBVIOUS

(* The flags of the preparation and of the engine keep their type.         *)
LEMMA PrepTyped == IInv /\ [Next]_vars => PrepTypes'
<1> SUFFICES ASSUME IInv, [Next]_vars PROVE PrepTypes'
  OBVIOUS
<1> USE NobodyAssumption DEF IInv, TypeOK, Stages, PrepTypes
<1>1. ASSUME NEW r \in Requests,
             Issue(r) \/ Arrive(r) \/ Scope(r) \/ Enter(r) \/ Clear(r) \/ Verify(r)
      PROVE  PrepTypes'
  BY <1>1 DEF Issue, Arrive, Scope, Enter, Clear, Verify, Move, Reply, halting, threads, verdict
<1>2. ASSUME NEW r \in Requests, Reject(r) \/ RejectUnready(r) PROVE PrepTypes'
  BY <1>2 DEF Reject, RejectUnready, Reply, halting, threads, verdict
<1>10. ASSUME NEW r \in Requests, Load(r) \/ Launch(r) PROVE PrepTypes'
  <2>1. prep' = [active |-> FALSE, cancelled |-> FALSE] \/ prep' = [active |-> TRUE, cancelled |-> FALSE]
    BY <1>10 DEF Load, Launch
  <2>2. running' = running
    BY <1>10 DEF Load, Launch
  <2>3. prep' \in [active : BOOLEAN, cancelled : BOOLEAN]
    BY <2>1, PrepStates, Zenon
  <2>4. running' \in BOOLEAN
    BY <2>2, Zenon
  <2> QED BY <2>3, <2>4, Zenon
<1>3. ASSUME NEW r \in Requests,
             RequestStop(r) \/ RequestCleanup(r) \/ NoteCleanup(r) \/ Ask(r) \/ RequestWhole(r)
             \/ RequestPart(r) \/ FinishPart(r) \/ Disconnect(r) \/ SkipCleanup(r)
      PROVE  PrepTypes'
  BY <1>3 DEF RequestStop, RequestCleanup, NoteCleanup, Ask, RequestWhole, RequestPart, FinishPart,
              Disconnect, SkipCleanup, Cut, Move, Reply, halting, threads, verdict
<1>4. ASSUME NEW r \in Requests, StopBegin(r) PROVE PrepTypes'
  BY <1>4 DEF StopBegin, Move, threads
<1>5. ASSUME NEW r \in Requests, StopEnd(r) PROVE PrepTypes'
  BY <1>5 DEF StopEnd, Record, Reply, threads
<1>6. CASE \/ Prepare \/ AbandonPreparation \/ PreparationRaises \/ FailPreparation
           \/ BeginHandOver
  BY <1>6 DEF Prepare, AbandonPreparation, PreparationRaises, FailPreparation, BeginHandOver, Wanted,
              Record, requests, halting, threads, verdict
<1>7. CASE EndHandOver
  BY <1>7 DEF EndHandOver, requests, halting, verdict
<1>8. CASE Work \/ WorkerEnds \/ WorkerReports
  BY <1>8 DEF Work, WorkerEnds, WorkerReports, Record, requests, halting, threads, verdict
<1>9. CASE UNCHANGED vars
  BY <1>9 DEF vars, requests, halting, threads, verdict
<1> QED
  BY <1>1, <1>2, <1>3, <1>4, <1>5, <1>6, <1>7, <1>8, <1>9, <1>10 DEF Next

(* Fault, connection and terminal reason keep their type.                  *)
LEMMA VerdictTyped == IInv /\ [Next]_vars => VerdictTypes'
<1> SUFFICES ASSUME IInv, [Next]_vars PROVE VerdictTypes'
  OBVIOUS
<1> USE NobodyAssumption DEF IInv, TypeOK, Stages, VerdictTypes, Reasons, NoReason, FirstReason
<1>1. ASSUME NEW r \in Requests,
             Issue(r) \/ Arrive(r) \/ Scope(r) \/ Enter(r) \/ Clear(r) \/ Load(r) \/ Verify(r)
      PROVE  VerdictTypes'
  BY <1>1 DEF Issue, Arrive, Scope, Enter, Clear, Load, Verify, Move, Reply, halting, threads, verdict, trouble
<1>2. ASSUME NEW r \in Requests, Reject(r) \/ RejectUnready(r) \/ Launch(r) PROVE VerdictTypes'
  BY <1>2 DEF Reject, RejectUnready, Launch, Reply, halting, threads, verdict, trouble
<1>3. ASSUME NEW r \in Requests,
             RequestStop(r) \/ RequestCleanup(r) \/ NoteCleanup(r) \/ Ask(r) \/ RequestWhole(r)
             \/ RequestPart(r) \/ FinishPart(r) \/ Disconnect(r) \/ SkipCleanup(r)
      PROVE  VerdictTypes'
  BY <1>3 DEF RequestStop, RequestCleanup, NoteCleanup, Ask, RequestWhole, RequestPart, FinishPart,
              Disconnect, SkipCleanup, Cut, Move, Reply, halting, threads, verdict, trouble
<1>4. ASSUME NEW r \in Requests, StopBegin(r) PROVE VerdictTypes'
  BY <1>4 DEF StopBegin, trouble
<1>5. ASSUME NEW r \in Requests, StopEnd(r) PROVE VerdictTypes'
  BY <1>5 DEF StopEnd, Record, Reply, threads
<1>6. CASE \/ Prepare \/ AbandonPreparation \/ PreparationRaises \/ FailPreparation
           \/ BeginHandOver
  BY <1>6 DEF Prepare, AbandonPreparation, PreparationRaises, FailPreparation, BeginHandOver, Wanted,
              Record, requests, halting, threads, verdict, trouble
<1>7. CASE EndHandOver
  BY <1>7 DEF EndHandOver, requests, halting, verdict, trouble
<1>8. CASE Work \/ WorkerEnds \/ WorkerReports
  BY <1>8 DEF Work, WorkerEnds, WorkerReports, Record, requests, halting, threads, verdict, trouble
<1>9. CASE UNCHANGED vars
  BY <1>9 DEF vars, requests, halting, threads, verdict, trouble
<1> QED
  BY <1>1, <1>2, <1>3, <1>4, <1>5, <1>6, <1>7, <1>8, <1>9 DEF Next

(* Closing a record writes a reason.                                       *)
LEMMA RecordTyped ==
  ASSUME RecordTypes, reason \in Reasons \cup {NoReason}, NEW c \in Reasons, Record(c)
  PROVE  RecordTypes'
<1>1. FirstReason(c) \in Reasons \cup {NoReason}
  BY DEF FirstReason
<1>2. ASSUME NEW o \in Attempts PROVE records[o] \cup {FirstReason(c)} \in SUBSET (Reasons \cup {NoReason})
  BY <1>1 DEF RecordTypes
<1> QED
  BY <1>2 DEF RecordTypes, Record

(* The records keep their type.                                            *)
LEMMA RecordsTyped == IInv /\ [Next]_vars => RecordTypes'
<1> SUFFICES ASSUME IInv, [Next]_vars PROVE RecordTypes'
  OBVIOUS
<1> USE NobodyAssumption DEF IInv, TypeOK, Stages, RecordTypes
<1>0. {"operator_stop", "failed", "completed", "cleanup_failed", "unknown_error"} \subseteq Reasons
  BY DEF Reasons
<1>1. ASSUME NEW r \in Requests,
             Issue(r) \/ Arrive(r) \/ Scope(r) \/ Enter(r) \/ Clear(r) \/ Load(r) \/ Verify(r)
      PROVE  RecordTypes'
  BY <1>1 DEF Issue, Arrive, Scope, Enter, Clear, Load, Verify, Move, Reply, halting, threads, verdict
<1>2. ASSUME NEW r \in Requests, Reject(r) \/ RejectUnready(r) \/ Launch(r) PROVE RecordTypes'
  BY <1>2 DEF Reject, RejectUnready, Launch, Reply, halting, threads, verdict
<1>3. ASSUME NEW r \in Requests,
             RequestStop(r) \/ RequestCleanup(r) \/ NoteCleanup(r) \/ Ask(r) \/ RequestWhole(r)
             \/ RequestPart(r) \/ FinishPart(r) \/ Disconnect(r) \/ SkipCleanup(r)
      PROVE  RecordTypes'
  BY <1>3 DEF RequestStop, RequestCleanup, NoteCleanup, Ask, RequestWhole, RequestPart, FinishPart,
              Disconnect, SkipCleanup, Cut, Move, Reply, halting, threads, verdict
<1>4. ASSUME NEW r \in Requests, StopBegin(r) PROVE RecordTypes'
  BY <1>4 DEF StopBegin, Move, threads
<1>5. ASSUME NEW r \in Requests, StopEnd(r) PROVE RecordTypes'
  BY <1>5, RecordTyped, <1>0 DEF StopEnd
<1>6. CASE \/ Prepare \/ AbandonPreparation \/ PreparationRaises \/ FailPreparation
           \/ BeginHandOver
  BY <1>6, RecordTyped, <1>0
      DEF Prepare, AbandonPreparation, PreparationRaises, FailPreparation, BeginHandOver, requests, halting,
          threads, verdict
<1>7. CASE EndHandOver
  BY <1>7 DEF EndHandOver, requests, halting, verdict
<1>8. CASE Work \/ WorkerEnds \/ WorkerReports
  BY <1>8, RecordTyped, <1>0 DEF Work, WorkerEnds, WorkerReports, requests, halting, threads, verdict
<1>9. CASE UNCHANGED vars
  BY <1>9 DEF vars, requests, halting, threads, verdict
<1> QED
  BY <1>1, <1>2, <1>3, <1>4, <1>5, <1>6, <1>7, <1>8, <1>9 DEF Next

-----------------------------------------------------------------------------
(* A stop that is requested is one more pending.                           *)
LEMMA OneMore ==
  ASSUME CountsPending, NEW r \in Requests, r \notin Pending,
         Pending' = Pending \cup {r}, stops' = stops + 1
  PROVE  CountsPending' /\ stops' \in Nat
BY FS_AddElement, FS_CardinalityType DEF CountsPending

(* A finished stop is one less.                                            *)
LEMMA OneLess ==
  ASSUME CountsPending, NEW r \in Requests, r \in Pending,
         Pending' = Pending \ {r}, stops' = stops - 1
  PROVE  CountsPending' /\ stops' \in Nat
<1>1. IsFiniteSet(Pending') /\ Cardinality(Pending') = Cardinality(Pending) - 1
  BY FS_RemoveElement DEF CountsPending
<1> QED
  BY <1>1, FS_CardinalityType DEF CountsPending

(* The other steps leave the count and what it counts alone.               *)
LEMMA SameStops ==
  ASSUME CountsPending, Pending' = Pending, stops' = stops
  PROVE  CountsPending' /\ stops' \in Nat
BY FS_CardinalityType DEF CountsPending

(* The count of the stops is that of the stops that are pending.           *)
LEMMA CountsStay == IInv /\ [Next]_vars => CountsPending' /\ stops' \in Nat
<1> SUFFICES ASSUME IInv, [Next]_vars PROVE CountsPending' /\ stops' \in Nat
  OBVIOUS
<1> USE DEF IInv, TypeOK, Stages, StagesOfKind
<1>1. ASSUME NEW r \in Requests,
             Issue(r) \/ Arrive(r) \/ Scope(r) \/ Enter(r) \/ Clear(r) \/ Load(r) \/ Verify(r)
      PROVE  CountsPending' /\ stops' \in Nat
  <2>1. Pending' = Pending
    BY <1>1 DEF Pending, Issue, Arrive, Scope, Enter, Clear, Load, Verify, Move, Reply
  <2>2. stops' = stops
    BY <1>1 DEF Issue, Arrive, Scope, Enter, Clear, Load, Verify, halting
  <2> QED BY <2>1, <2>2, SameStops
<1>2. ASSUME NEW r \in Requests,
             Reject(r) \/ RejectUnready(r) \/ Launch(r) \/ NoteCleanup(r) \/ Ask(r)
             \/ Disconnect(r) \/ StopBegin(r)
      PROVE  CountsPending' /\ stops' \in Nat
  <2>1. Pending' = Pending
    BY <1>2 DEF Pending, Reject, RejectUnready, Launch, NoteCleanup, Ask, Disconnect, StopBegin,
                Move, Reply
  <2>2. stops' = stops
    BY <1>2 DEF Reject, RejectUnready, Launch, NoteCleanup, Ask, Disconnect, StopBegin, halting
  <2> QED BY <2>1, <2>2, SameStops
<1>3. ASSUME NEW r \in Requests,
             RequestStop(r) \/ RequestCleanup(r) \/ RequestWhole(r) \/ RequestPart(r)
      PROVE  CountsPending' /\ stops' \in Nat
  <2>1. r \notin Pending /\ Pending' = Pending \cup {r}
    BY <1>3 DEF Pending, RequestStop, RequestCleanup, RequestWhole, RequestPart, Move
  <2>2. stops' = stops + 1
    BY <1>3 DEF RequestStop, RequestCleanup, RequestWhole, RequestPart, Cut
  <2> QED BY <2>1, <2>2, OneMore
<1>4. ASSUME NEW r \in Requests, FinishPart(r) \/ SkipCleanup(r)
      PROVE  CountsPending' /\ stops' \in Nat
  <2>1. r \in Pending /\ Pending' = Pending \ {r}
    BY <1>4 DEF Pending, FinishPart, SkipCleanup, Reply
  <2>2. stops' = stops - 1
    BY <1>4 DEF FinishPart, SkipCleanup
  <2> QED BY <2>1, <2>2, OneLess
<1>5. ASSUME NEW r \in Requests, StopEnd(r) PROVE CountsPending' /\ stops' \in Nat
  <2>1. CASE Kind[r] = "disconnect"
    <3>1. Pending' = Pending
      BY <1>5, <2>1 DEF Pending, StopEnd, Reply
    <3>2. stops' = stops
      BY <1>5, <2>1 DEF StopEnd, RemainingStops
    <3> QED BY <3>1, <3>2, SameStops
  <2>2. CASE Kind[r] # "disconnect"
    <3>1. r \in Pending /\ Pending' = Pending \ {r}
      BY <1>5, <2>2 DEF Pending, StopEnd, Reply
    <3>2. stops' = stops - 1
      BY <1>5, <2>2 DEF StopEnd, RemainingStops
    <3> QED BY <3>1, <3>2, OneLess
  <2> QED BY <2>1, <2>2
<1>6. CASE \/ Prepare \/ AbandonPreparation \/ PreparationRaises \/ FailPreparation
           \/ BeginHandOver \/ EndHandOver \/ Work \/ WorkerEnds \/ WorkerReports
           \/ UNCHANGED vars
  <2>1. at' = at
    BY <1>6 DEF Prepare, AbandonPreparation, PreparationRaises, FailPreparation, BeginHandOver,
                EndHandOver, Work, WorkerEnds, WorkerReports, requests, vars
  <2>2. stops' = stops
    BY <1>6 DEF Prepare, AbandonPreparation, PreparationRaises, FailPreparation, BeginHandOver,
                EndHandOver, Work, WorkerEnds, WorkerReports, halting, vars
  <2>3. Pending' = Pending
    BY <2>1 DEF Pending
  <2> QED BY <2>2, <2>3, SameStops
<1> QED
  BY <1>1, <1>2, <1>3, <1>4, <1>5, <1>6 DEF Next

-----------------------------------------------------------------------------
(* The invariant holds when the node starts.                               *)
LEMMA InitInv == Init => IInv
<1> SUFFICES ASSUME Init PROVE IInv
  OBVIOUS
<1>1. TypeOK
  BY NobodyAssumption DEF Init, TypeOK, Stages, Answers, NoReason
<1>2. Pending = {}
  BY DEF Init, Pending
<1>3. CountsPending
  BY <1>2, FS_EmptySet DEF Init, CountsPending
<1>4. Numbered /\ Exclusive /\ StagesOfKind /\ ThreadsOfAnswered
  BY NobodyAssumption DEF Init, Numbered, Exclusive, Inside, StagesOfKind, ThreadsOfAnswered
<1>5. ContextOfThreads /\ ClearedAlone /\ OwnerWasLoaded /\ StoppingHolds
  BY DEF Init, ContextOfThreads, ClearedAlone, OwnerWasLoaded, StoppingHolds
<1>6. StopsKill
  BY DEF Init, StopsKill
<1>7. OpenIsEmpty /\ OneReason
  BY DEF Init, OpenIsEmpty, OneReason, Reasons
<1> QED
  BY <1>1, <1>3, <1>4, <1>5, <1>6, <1>7 DEF IInv

(* Every step keeps the invariant.                                         *)
LEMMA StepInv == IInv /\ [Next]_vars => IInv'
<1> SUFFICES ASSUME IInv, [Next]_vars PROVE IInv'
  OBVIOUS
<1>1. TypeOK'
  BY TypeParts, RequestsTyped, ThreadsTyped, PrepTyped, VerdictTyped, RecordsTyped, CountsStay
     DEF TypeOK, RequestTypes, ThreadTypes, PrepTypes, VerdictTypes, RecordTypes
<1> QED
  BY <1>1, CountsStay, NumbersStay, Exclusion, KindsStay, ThreadsStay, ContextStays,
     ClearedStaysAlone, OwnerStays, StoppingStays, StopsStillKill, OpenStaysEmpty, ReasonStays
     DEF IInv

(* The invariant holds throughout: the conjuncts need each other, the      *)
(* later properties only some of them.                                     *)
THEOREM InductiveInvariant == Spec => []IInv
BY InitInv, StepInv, PTL DEF Spec

(* Every variable keeps its type, the counts of stops and of cutoffs among *)
(* them: a stop that finishes never takes the count below zero, whichever  *)
(* of the ways to stop it came by.                                         *)
THEOREM TypeCorrect == Spec => []TypeOK
<1>1. IInv => TypeOK
  BY DEF IInv
<1> QED
  BY InductiveInvariant, <1>1, PTL

(* No attempt is loaded under a thread of another (_automation_is_active). *)
THEOREM ContextIsOfThreads == Spec => []ContextOfThreads
<1>1. IInv => ContextOfThreads
  BY DEF IInv
<1> QED
  BY InductiveInvariant, <1>1, PTL

(* After a confirmed stop nothing that was issued before it moves, for any *)
(* number of starts, stops and losses of the connection.                   *)
THEOREM ConfirmedStopHolds == Spec => []StoppedStaysQuiet
<1>1. IInv => StoppedStaysQuiet
  BY DEF IInv, StopsKill, StoppedStaysQuiet, Dead
<1> QED
  BY InductiveInvariant, <1>1, PTL

(* No attempt is closed twice, and none without a reason.                  *)
THEOREM ClosedAtMostOnce == Spec => []ClosedOnce
<1>1. ASSUME IInv, NEW a \in Attempts PROVE Cardinality(records[a]) <= 1 /\ NoReason \notin records[a]
  <2>1. PICK c \in Reasons : records[a] \subseteq {c}
    BY <1>1 DEF IInv, OneReason
  <2>2. records[a] = {} \/ records[a] = {c}
    BY <2>1
  <2>3. NoReason \notin Reasons
    BY DEF NoReason, Reasons
  <2>4. Cardinality({}) = 0 /\ Cardinality({c}) = 1
    BY FS_EmptySet, FS_Singleton
  <2> QED BY <2>1, <2>2, <2>3, <2>4
<1>2. IInv => ClosedOnce
  BY <1>1 DEF ClosedOnce
<1> QED
  BY InductiveInvariant, <1>2, PTL

-----------------------------------------------------------------------------
(* Who stops an abandoned preparation, and who may drive.  Both hold where *)
(* no injection_off and no detector_stop meets a start: these two may look *)
(* before the start is launched and act after it (see the README).         *)
NarrowStops == {"injection_off", "detector_stop"}
NoNarrowStop == \A r \in Requests : Kind[r] \notin NarrowStops

(* A stop that will still stop the preparation under the control lock: a   *)
(* cleanup will not if its attempt has lost the outputs by then.           *)
Comes(r) == at[r] = "requested" /\ Kind[r] # "start" /\ (Kind[r] = "cleanup" => owner = Target[r])
StopComes == \E r \in Requests : Comes(r)

(* A start that passed its last check is up to date, or a stop that came   *)
(* since is on its way; what it captured is what it was issued with.       *)
UpToDate ==
  /\ \A r \in Requests : at[r] = "verified" => (issued[r] = cutoff /\ stops = 0) \/ StopComes
  /\ \A r \in Requests : at[r] \in {"cleared", "loaded"} => issued[r] = token[r]
Captured == runToken <= cutoff /\ \A r \in Requests : token[r] <= cutoff

(* A preparation that is to be abandoned is one that a stop comes for.     *)
StopOwns ==
  /\ prep.active /\ (prep.cancelled \/ runToken # cutoff \/ stops # 0) => StopComes
  /\ prep.active => preparer # Nobody \/ StopComes
  /\ prep.active => ~finalized /\ worker = Nobody
  /\ \A r \in Requests : /\ at[r] = "stopping" => ~prep.active
                         /\ at[r] = "verified" => ~finalized

(* The threads carry the cutoff of their attempt.                          *)
CutoffOfThreads ==
  /\ preparer # Nobody => issued[preparer] = runToken \/ prep.cancelled \/ StopComes
  /\ doing.preparer = "handing" => issued[preparer] = runToken
  /\ worker # Nobody => issued[worker] = runToken

(* A lost connection is a fault, and only its loss makes the reader stop.  *)
LostIsFault ==
  /\ ~link => fault # "none"
  /\ \A r \in Requests : Kind[r] = "disconnect" /\ at[r] = "requested" => ~link

Strict == UpToDate /\ Captured /\ StopOwns /\ CutoffOfThreads /\ LostIsFault
SInv == IInv /\ (NoNarrowStop => Strict)

(* The steps of a narrow stop are not taken.                               *)
LEMMA NarrowNever ==
  ASSUME NoNarrowStop, IInv, NEW r \in Requests
  PROVE  ~Ask(r) /\ ~RequestWhole(r) /\ ~RequestPart(r) /\ ~FinishPart(r)
BY DEF IInv, NoNarrowStop, NarrowStops, StagesOfKind, Ask, RequestWhole, RequestPart, FinishPart

(* Whoever raises the cutoff comes to stop what it cut off.                *)
LEMMA CutComes ==
  ASSUME IInv, NEW r \in Requests, RequestStop(r) \/ RequestCleanup(r) \/ Disconnect(r)
  PROVE  StopComes'
<1>1. at'[r] = "requested" /\ Kind[r] # "start" /\ (Kind[r] = "cleanup" => owner' = Target[r])
  BY DEF IInv, TypeOK, Stages, RequestStop, RequestCleanup, Disconnect, Cut, Move
<1> QED
  BY <1>1 DEF StopComes, Comes

(* A pending stop is counted.                                              *)
LEMMA PendingCounts ==
  ASSUME CountsPending, NEW r \in Pending
  PROVE  stops # 0
BY FS_EmptySet DEF CountsPending

(* Where no stop is counted and nothing is wrong, no stop comes.           *)
LEMMA QuietIsFree ==
  ASSUME IInv, LostIsFault, stops = 0, fault = "none"
  PROVE  ~StopComes
<1> SUFFICES ASSUME NEW r \in Requests, Comes(r) PROVE FALSE
  BY DEF StopComes
<1>1. CASE Kind[r] = "disconnect"
  BY <1>1 DEF Comes, LostIsFault
<1>2. CASE Kind[r] # "disconnect"
  <2>1. r \in Pending
    BY <1>2 DEF Pending, Comes
  <2> QED BY <2>1, PendingCounts DEF IInv
<1> QED BY <1>1, <1>2

(* Nothing captures a cutoff that is still to come.                        *)
LEMMA CapturedStays ==
  ASSUME NoNarrowStop, IInv, Strict, [Next]_vars
  PROVE  Captured'
<1> USE NobodyAssumption DEF IInv, TypeOK, Stages, Strict, Captured
<1>1. ASSUME NEW r \in Requests,
             Issue(r) \/ Arrive(r) \/ Scope(r) \/ Enter(r) \/ Clear(r)
      PROVE  Captured'
  BY <1>1 DEF Issue, Arrive, Scope, Enter, Clear, Move, Reply, halting, threads, verdict, trouble
<1>2. ASSUME NEW r \in Requests, Load(r) PROVE Captured'
  BY <1>2 DEF Load, Move, halting, trouble
<1>3. ASSUME NEW r \in Requests, Verify(r) PROVE Captured'
  BY <1>3 DEF Verify, Move, halting, threads, trouble
<1>4. ASSUME NEW r \in Requests, Reject(r) \/ RejectUnready(r) PROVE Captured'
  BY <1>4 DEF Reject, RejectUnready, Reply, halting, threads, verdict, trouble
<1>5. ASSUME NEW r \in Requests, Launch(r) PROVE Captured'
  BY <1>5 DEF Launch, Reply, halting, verdict, trouble
<1>6. ASSUME NEW r \in Requests, RequestStop(r) \/ RequestCleanup(r) \/ Disconnect(r)
      PROVE  Captured'
  BY <1>6, CutComes DEF RequestStop, RequestCleanup, Disconnect, Cut, Move, threads
<1>7. ASSUME NEW r \in Requests, NoteCleanup(r) \/ SkipCleanup(r) PROVE Captured'
  BY <1>7 DEF NoteCleanup, SkipCleanup, Reply, halting, threads, verdict, trouble
<1>8. ASSUME NEW r \in Requests, StopBegin(r) PROVE Captured'
  BY <1>8 DEF StopBegin, Move, trouble
<1>9. ASSUME NEW r \in Requests, StopEnd(r) PROVE Captured'
  BY <1>9 DEF StopEnd, RemainingStops, Record, Reply, threads
<1>10. CASE \/ Prepare \/ AbandonPreparation \/ PreparationRaises \/ FailPreparation
  BY <1>10 DEF Prepare, AbandonPreparation, PreparationRaises, FailPreparation, Wanted, Record,
               requests, halting, threads, verdict, trouble
<1>11. CASE BeginHandOver \/ EndHandOver
  BY <1>11, QuietIsFree DEF BeginHandOver, EndHandOver, Wanted, requests, halting, verdict, trouble
<1>12. CASE Work \/ WorkerEnds \/ WorkerReports
  BY <1>12 DEF Work, WorkerEnds, WorkerReports, Record, requests, halting, threads, verdict, trouble
<1>13. CASE UNCHANGED vars
  BY <1>13 DEF vars, requests, halting, threads, verdict, trouble
<1> QED
  BY <1>1, <1>2, <1>3, <1>4, <1>5, <1>6, <1>7, <1>8, <1>9, <1>10, <1>11, <1>12, <1>13, NarrowNever
     DEF Next

(* A lost connection stays a fault: without it no stop is confirmed.       *)
LEMMA LossStaysFault ==
  ASSUME NoNarrowStop, IInv, Strict, [Next]_vars
  PROVE  LostIsFault'
<1> USE NobodyAssumption DEF IInv, TypeOK, Stages, Strict, LostIsFault, StagesOfKind, Confirms
<1>1. ASSUME NEW r \in Requests,
             Issue(r) \/ Arrive(r) \/ Scope(r) \/ Enter(r) \/ Clear(r)
      PROVE  LostIsFault'
  BY <1>1 DEF Issue, Arrive, Scope, Enter, Clear, Move, Reply, halting, threads, verdict, trouble
<1>2. ASSUME NEW r \in Requests, Load(r) PROVE LostIsFault'
  BY <1>2 DEF Load, Move, halting, trouble
<1>3. ASSUME NEW r \in Requests, Verify(r) PROVE LostIsFault'
  BY <1>3 DEF Verify, Move, halting, threads, trouble
<1>4. ASSUME NEW r \in Requests, Reject(r) \/ RejectUnready(r) PROVE LostIsFault'
  BY <1>4 DEF Reject, RejectUnready, Reply, halting, threads, verdict, trouble
<1>5. ASSUME NEW r \in Requests, Launch(r) PROVE LostIsFault'
  BY <1>5 DEF Launch, Reply, halting, verdict, trouble
<1>6. ASSUME NEW r \in Requests, RequestStop(r) \/ RequestCleanup(r) \/ Disconnect(r)
      PROVE  LostIsFault'
  BY <1>6, CutComes DEF RequestStop, RequestCleanup, Disconnect, Cut, Move, threads, trouble
<1>7. ASSUME NEW r \in Requests, NoteCleanup(r) \/ SkipCleanup(r) PROVE LostIsFault'
  BY <1>7 DEF NoteCleanup, SkipCleanup, Reply, halting, threads, verdict, trouble
<1>8. ASSUME NEW r \in Requests, StopBegin(r) PROVE LostIsFault'
  BY <1>8 DEF StopBegin, Move, trouble
<1>9. ASSUME NEW r \in Requests, StopEnd(r) PROVE LostIsFault'
  BY <1>9 DEF StopEnd, RemainingStops, Record, Reply, threads
<1>10. CASE \/ Prepare \/ AbandonPreparation \/ PreparationRaises \/ FailPreparation
  BY <1>10 DEF Prepare, AbandonPreparation, PreparationRaises, FailPreparation, Wanted, Record,
               requests, halting, threads, verdict, trouble
<1>11. CASE BeginHandOver \/ EndHandOver
  BY <1>11, QuietIsFree DEF BeginHandOver, EndHandOver, Wanted, requests, halting, verdict, trouble
<1>12. CASE Work \/ WorkerEnds \/ WorkerReports
  BY <1>12 DEF Work, WorkerEnds, WorkerReports, Record, requests, halting, threads, verdict, trouble
<1>13. CASE UNCHANGED vars
  BY <1>13 DEF vars, requests, halting, threads, verdict, trouble
<1> QED
  BY <1>1, <1>2, <1>3, <1>4, <1>5, <1>6, <1>7, <1>8, <1>9, <1>10, <1>11, <1>12, <1>13, NarrowNever
     DEF Next

(* A start that passed its last check stays up to date until a stop comes. *)
LEMMA StaysUpToDate ==
  ASSUME NoNarrowStop, IInv, Strict, [Next]_vars
  PROVE  UpToDate'
<1> USE NobodyAssumption
        DEF IInv, TypeOK, Stages, Strict, UpToDate, Captured, StopComes, Comes, Exclusive, Inside, MayClear,
            MayStart, TokenSet, StagesOfKind
<1>1. ASSUME NEW r \in Requests,
             Issue(r) \/ Arrive(r) \/ Scope(r) \/ Enter(r) \/ Clear(r)
      PROVE  UpToDate'
  BY <1>1 DEF Issue, Arrive, Scope, Enter, Clear, Move, Reply, halting, threads, verdict, trouble
<1>2. ASSUME NEW r \in Requests, Load(r) PROVE UpToDate'
  BY <1>2 DEF Load, Move, halting, trouble
<1>3. ASSUME NEW r \in Requests, Verify(r) PROVE UpToDate'
  BY <1>3 DEF Verify, Move, halting, threads, trouble
<1>4. ASSUME NEW r \in Requests, Reject(r) \/ RejectUnready(r) PROVE UpToDate'
  BY <1>4 DEF Reject, RejectUnready, Reply, halting, threads, verdict, trouble
<1>5. ASSUME NEW r \in Requests, Launch(r) PROVE UpToDate'
  BY <1>5 DEF Launch, Reply, halting, verdict, trouble
<1>6. ASSUME NEW r \in Requests, RequestStop(r) \/ RequestCleanup(r) \/ Disconnect(r)
      PROVE  UpToDate'
  <2>1. StopComes'
    BY <1>6, CutComes
  <2>2. issued' = issued /\ token' = token
    BY <1>6 DEF RequestStop, RequestCleanup, Disconnect, Cut
  <2>3. \A q \in Requests : at'[q] \in {"cleared", "loaded"} => at[q] = at'[q]
    BY <1>6 DEF RequestStop, RequestCleanup, Disconnect, Move
  <2> QED BY <2>1, <2>2, <2>3 DEF UpToDate
<1>7. ASSUME NEW r \in Requests, NoteCleanup(r) \/ SkipCleanup(r) PROVE UpToDate'
  BY <1>7 DEF NoteCleanup, SkipCleanup, Reply, halting, threads, verdict, trouble
<1>8. ASSUME NEW r \in Requests, StopBegin(r) PROVE UpToDate'
  BY <1>8 DEF StopBegin, Move, trouble
<1>9. ASSUME NEW r \in Requests, StopEnd(r) PROVE UpToDate'
  BY <1>9 DEF StopEnd, RemainingStops, Record, Reply, threads
<1>10. CASE \/ Prepare \/ AbandonPreparation \/ PreparationRaises \/ FailPreparation
  BY <1>10 DEF Prepare, AbandonPreparation, PreparationRaises, FailPreparation, Wanted, Record,
               requests, halting, threads, verdict, trouble
<1>11. CASE BeginHandOver \/ EndHandOver
  BY <1>11, QuietIsFree DEF BeginHandOver, EndHandOver, Wanted, requests, halting, verdict, trouble
<1>12. CASE Work \/ WorkerEnds \/ WorkerReports
  BY <1>12 DEF Work, WorkerEnds, WorkerReports, Record, requests, halting, threads, verdict, trouble
<1>13. CASE UNCHANGED vars
  BY <1>13 DEF vars, requests, halting, threads, verdict, trouble
<1> QED
  BY <1>1, <1>2, <1>3, <1>4, <1>5, <1>6, <1>7, <1>8, <1>9, <1>10, <1>11, <1>12, <1>13, NarrowNever
     DEF Next

(* A preparation is not left alone by the last stop that would stop it.    *)
LEMMA StopStillOwns ==
  ASSUME NoNarrowStop, IInv, Strict, [Next]_vars
  PROVE  StopOwns'
<1> USE NobodyAssumption
        DEF IInv, TypeOK, Stages, Strict, StopOwns, UpToDate, StopComes, Comes, Exclusive, Inside,
            ThreadsOfAnswered, ClearedAlone, IsActive, ContextOfThreads, TokenSet, Captured, StagesOfKind,
            OwnerWasLoaded
<1>1. ASSUME NEW r \in Requests,
             Issue(r) \/ Arrive(r) \/ Scope(r) \/ Enter(r) \/ Clear(r)
      PROVE  StopOwns'
  BY <1>1 DEF Issue, Arrive, Scope, Enter, Clear, Move, Reply, halting, threads, verdict, trouble
<1>2. ASSUME NEW r \in Requests, Load(r) PROVE StopOwns'
  BY <1>2 DEF Load, Move, halting, trouble
<1>3. ASSUME NEW r \in Requests, Verify(r) PROVE StopOwns'
  BY <1>3 DEF Verify, Move, halting, threads, trouble
<1>4. ASSUME NEW r \in Requests, Reject(r) \/ RejectUnready(r) PROVE StopOwns'
  BY <1>4 DEF Reject, RejectUnready, Reply, halting, threads, verdict, trouble
<1>5. ASSUME NEW r \in Requests, Launch(r) PROVE StopOwns'
  BY <1>5 DEF Launch, Reply, halting, verdict, trouble
<1>6. ASSUME NEW r \in Requests, RequestStop(r) \/ RequestCleanup(r) \/ Disconnect(r)
      PROVE  StopOwns'
  BY <1>6, CutComes DEF RequestStop, RequestCleanup, Disconnect, Cut, Move, threads
<1>7. ASSUME NEW r \in Requests, NoteCleanup(r) PROVE StopOwns'
  BY <1>7 DEF NoteCleanup, Reply, halting, threads, verdict, trouble
<1>14. ASSUME NEW r \in Requests, SkipCleanup(r) PROVE StopOwns'
  <2>1. r \in Pending
    BY <1>14 DEF SkipCleanup, Pending
  <2>2. stops # 0
    BY <2>1, PendingCounts
  <2> QED BY <1>14, <2>2 DEF SkipCleanup, Reply, halting, threads, verdict, trouble
<1>8. ASSUME NEW r \in Requests, StopBegin(r) PROVE StopOwns'
  BY <1>8 DEF StopBegin, Move, trouble
<1>9. ASSUME NEW r \in Requests, StopEnd(r) PROVE StopOwns'
  BY <1>9 DEF StopEnd, RemainingStops, Record, Reply, threads
<1>10. CASE \/ Prepare \/ AbandonPreparation \/ PreparationRaises \/ FailPreparation
  BY <1>10 DEF Prepare, AbandonPreparation, PreparationRaises, FailPreparation, Wanted, Record,
               requests, halting, threads, verdict, trouble
<1>11. CASE BeginHandOver \/ EndHandOver
  BY <1>11, QuietIsFree DEF BeginHandOver, EndHandOver, Wanted, requests, halting, verdict, trouble
<1>12. CASE Work \/ WorkerEnds \/ WorkerReports
  BY <1>12 DEF Work, WorkerEnds, WorkerReports, Record, requests, halting, threads, verdict, trouble
<1>13. CASE UNCHANGED vars
  BY <1>13 DEF vars, requests, halting, threads, verdict, trouble
<1> QED
  BY <1>1, <1>2, <1>3, <1>4, <1>5, <1>6, <1>7, <1>8, <1>9, <1>10, <1>11, <1>12, <1>13, <1>14, NarrowNever
     DEF Next

(* Who hands over to the engine hands over what is up to date.             *)
LEMMA ThreadsKeepCutoff ==
  ASSUME NoNarrowStop, IInv, Strict, [Next]_vars
  PROVE  CutoffOfThreads'
<1> USE NobodyAssumption
        DEF IInv, TypeOK, Stages, Strict, CutoffOfThreads, UpToDate, StopComes, Comes, Exclusive, Inside,
            ThreadsOfAnswered, ClearedAlone, IsActive, ContextOfThreads, StagesOfKind
<1>14. ASSUME NEW r \in Requests, Issue(r) PROVE CutoffOfThreads'
  BY <1>14 DEF Issue, Move, halting, threads
<1>1. ASSUME NEW r \in Requests,
             Arrive(r) \/ Scope(r) \/ Enter(r) \/ Clear(r)
      PROVE  CutoffOfThreads'
  BY <1>1 DEF Arrive, Scope, Enter, Clear, Move, Reply, halting, threads, verdict, trouble
<1>2. ASSUME NEW r \in Requests, Load(r) PROVE CutoffOfThreads'
  BY <1>2 DEF Load, Move, halting, trouble
<1>3. ASSUME NEW r \in Requests, Verify(r) PROVE CutoffOfThreads'
  BY <1>3 DEF Verify, Move, halting, threads, trouble
<1>4. ASSUME NEW r \in Requests, Reject(r) \/ RejectUnready(r) PROVE CutoffOfThreads'
  BY <1>4 DEF Reject, RejectUnready, Reply, halting, threads, verdict, trouble
<1>5. ASSUME NEW r \in Requests, Launch(r) PROVE CutoffOfThreads'
  BY <1>5 DEF Launch, Reply, halting, verdict, trouble
<1>6. ASSUME NEW r \in Requests, RequestStop(r) \/ RequestCleanup(r) \/ Disconnect(r)
      PROVE  CutoffOfThreads'
  BY <1>6, CutComes DEF RequestStop, RequestCleanup, Disconnect, Cut, Move, threads
<1>7. ASSUME NEW r \in Requests, NoteCleanup(r) \/ SkipCleanup(r) PROVE CutoffOfThreads'
  BY <1>7 DEF NoteCleanup, SkipCleanup, Reply, halting, threads, verdict, trouble
<1>8. ASSUME NEW r \in Requests, StopBegin(r) PROVE CutoffOfThreads'
  BY <1>8 DEF StopBegin, Move, trouble
<1>9. ASSUME NEW r \in Requests, StopEnd(r) PROVE CutoffOfThreads'
  BY <1>9 DEF StopEnd, RemainingStops, Record, Reply, threads
<1>10. CASE \/ Prepare \/ AbandonPreparation \/ PreparationRaises \/ FailPreparation
  BY <1>10 DEF Prepare, AbandonPreparation, PreparationRaises, FailPreparation, Wanted, Record,
               requests, halting, threads, verdict, trouble
<1>11. CASE BeginHandOver \/ EndHandOver
  BY <1>11, QuietIsFree DEF BeginHandOver, EndHandOver, Wanted, requests, halting, verdict, trouble
<1>12. CASE Work \/ WorkerEnds \/ WorkerReports
  BY <1>12 DEF Work, WorkerEnds, WorkerReports, Record, requests, halting, threads, verdict, trouble
<1>13. CASE UNCHANGED vars
  BY <1>13 DEF vars, requests, halting, threads, verdict, trouble
<1> QED
  BY <1>1, <1>2, <1>3, <1>4, <1>5, <1>6, <1>7, <1>8, <1>9, <1>10, <1>11, <1>12, <1>13, <1>14, NarrowNever
     DEF Next

(* The stronger invariant holds throughout.                                *)
LEMMA StrictInvariant == Spec => []SInv
<1>1. Init => SInv
  <2> SUFFICES ASSUME Init PROVE IInv /\ Strict
    BY DEF SInv
  <2> QED
    BY InitInv, NobodyAssumption DEF Init, Strict, UpToDate, Captured, StopOwns, CutoffOfThreads, LostIsFault
<1>2. SInv /\ [Next]_vars => SInv'
  <2> SUFFICES ASSUME SInv, [Next]_vars PROVE IInv' /\ (NoNarrowStop => Strict')
    BY DEF SInv, NoNarrowStop
  <2>1. IInv'
    BY StepInv DEF SInv
  <2>2. ASSUME NoNarrowStop PROVE Strict'
    BY <2>2, CapturedStays, LossStaysFault, StaysUpToDate, StopStillOwns, ThreadsKeepCutoff
       DEF SInv, Strict
  <2> QED BY <2>1, <2>2
<1> QED
  BY <1>1, <1>2, PTL DEF Spec

(* Where no narrower stop is asked for, a preparation that ended without a *)
(* word leaves someone behind who stops it (_run_preflight).               *)
THEOREM AbandonedAreStopped == NoNarrowStop => (Spec => []StopOwnsAbandoned)
<1>1. ASSUME NoNarrowStop, SInv PROVE StopOwnsAbandoned
  BY <1>1 DEF SInv, Strict, StopOwns, StopComes, Comes, StopOwnsAbandoned
<1>2. NoNarrowStop => [](SInv => StopOwnsAbandoned)
  <2> SUFFICES ASSUME NoNarrowStop PROVE [](SInv => StopOwnsAbandoned)
    OBVIOUS
  <2>1. SInv => StopOwnsAbandoned
    BY <1>1
  <2> QED BY <2>1, PTL
<1> QED
  BY <1>2, StrictInvariant, PTL

(* Nor does any write then move anything for an attempt issued before the  *)
(* latest cutoff: the preparation's last command and the engine's go       *)
(* through the check under serial_lock.                                    *)
THEOREM OutdatedDoNotDrive == NoNarrowStop => (Spec => OutdatedNeverDrives)
<1> SUFFICES ASSUME NoNarrowStop PROVE Spec => OutdatedNeverDrives
  OBVIOUS
<1>1. ASSUME SInv, [Next]_vars, output' # output, output' # Nobody PROVE issued[output'] = cutoff
  <2>1. CASE Prepare
    <3>1. ~StopComes
      BY <1>1, <2>1, QuietIsFree DEF SInv, Strict, Prepare, Wanted
    <3>2. issued[preparer] = runToken /\ runToken = cutoff
      BY <1>1, <2>1, <3>1 DEF SInv, IInv, TypeOK, Strict, CutoffOfThreads, Captured, Prepare, Wanted, TokenSet
    <3> QED BY <2>1, <3>2 DEF Prepare
  <2>2. CASE Work
    BY <1>1, <2>2 DEF SInv, IInv, TypeOK, Strict, CutoffOfThreads, Captured, Work, TokenSet
  <2>3. CASE UNCHANGED vars
    BY <1>1, <2>3 DEF vars
  <2>4. CASE ~Prepare /\ ~Work /\ Next
    BY <1>1, <2>4 DEF Next, Issue, Arrive, Scope, Enter, Clear, Load, Verify, Reject, RejectUnready,
       Launch, RequestStop, RequestCleanup, NoteCleanup, Ask, RequestWhole, RequestPart, FinishPart,
       Disconnect, Cut, StopBegin, SkipCleanup, StopEnd, AbandonPreparation, PreparationRaises,
       FailPreparation, BeginHandOver, EndHandOver, WorkerEnds, WorkerReports, Halted
  <2> QED BY <1>1, <2>1, <2>2, <2>3, <2>4
<1>2. SInv /\ [Next]_vars => [output' # output /\ output' # Nobody => issued[output'] = cutoff]_vars
  BY <1>1
<1> QED
  BY <1>2, StrictInvariant, PTL DEF Spec, OutdatedNeverDrives
================================================================================
