------------------------ MODULE SamplingControlProofs -------------------------
(***************************************************************************)
(* Proofs about SamplingControl, for any number of attempts, stops and     *)
(* troubles, any orders and any threads that handle ends: the types, that  *)
(* success is reported only of what the pump has completed, and that a     *)
(* stop is kept where no two starts mix.                                   *)
(***************************************************************************)
EXTENDS SamplingControl, FiniteSetTheorems, TLAPS

(* What the variables hold.                                                *)
Labels == {"idle", "check", "claim", "hold", "prepare", "guard", "call", "answer", "recanted",
           "refused", "enter", "flags", "look", "leave", "started", "act", "quit", "cleaning",
           "complete", "cleanup", "report", "stop", "halt", "join", "claimStop", "stopReport",
           "endSurvey", "reportSurvey", "paused", "closeManual", "closeWaypoint", "closeSurvey",
           "none"}
Orders == {"manual", "fcu", "survey", "waypoint", "pause", "resume"}
Kinds == Orders \cup {"none"}
Ends == {"done", "stop", "fault"}
MaybeAttempt == {None} \cup Attempts

NodeStates ==
  [sampling : BOOLEAN, finishing : BOOLEAN, current : MaybeAttempt, prepared : MaybeAttempt,
   survey : BOOLEAN, sample : BOOLEAN, gen : Nat, live : Nat, owner : MaybeAttempt, commands : Nat,
   auto : BOOLEAN, mission : {"idle", "sampling", "paused", "surveying"}]
ThreadStates ==
  [pc : Labels, a : MaybeAttempt, seen : MaybeAttempt, exp : MaybeAttempt, kind : Kinds,
   stamp : Nat, gen : Nat, ok : BOOLEAN, over : BOOLEAN, kept : BOOLEAN, saved : BOOLEAN,
   early : BOOLEAN, then : Labels, end : Ends \cup Outcomes \cup {"none"}]
Contexts ==
  [source : Kinds, cancel : BOOLEAN, started : BOOLEAN, reason : Ends \cup {"lost", "none"},
   pending : Ends \cup {"none"}, retries : Nat, answered : BOOLEAN, named : BOOLEAN, asked : Nat,
   issued : Nat, gen : Nat]
PumpStates == [owner : {None, Web} \cup Attempts, cutoff : Nat, gone : SUBSET Attempts]
Leftovers == [orders : Seq(Orders), stops : Nat, troubles : Nat, web : Nat]
Messages == [attempt : Attempts, kind : Ends]
Histories == [before : Nat, surveys : SUBSET Nat, lost : SUBSET Attempts, completed : SUBSET Attempts]

(* A thread knows the attempt that it claimed, that it asks the pump for,  *)
(* and whose end it handles, where to go on after a call of the pump, and  *)
(* the outcome it is about to report.                                      *)
Asks(x) == x.pc \in {"call", "answer"}
Claimed(x) ==
  \/ x.pc \in {"hold", "prepare", "guard", "call", "answer", "recanted", "refused"}
  \/ x.pc = "cleaning" /\ x.then = "recanted"
Placed(x) ==
  /\ Asks(x) \/ x.pc = "complete" => x.exp # None
  /\ x.kind = "fcu" /\ Claimed(x) => x.a # None
  /\ x.then \in {"none", "recanted", "closeManual", "closeWaypoint", "closeSurvey", "quit", "report",
                 "join", "stopReport", "reportSurvey"}
  /\ x.pc = "halt" => x.then \in {"join", "stopReport"}
  /\ x.pc \in {"cleanup", "report"} \/ (x.pc = "cleaning" /\ x.then = "report") => x.end \in Outcomes

(* A thread that handles a success handles one of the pump's.              *)
Sound(x, completed) ==
  /\ Placed(x)
  /\ x.end = "done" => x.pc = "complete" /\ x.exp \in completed
  /\ x.end = "succeeded" => /\ x.pc \in {"cleanup", "report"} \/ (x.pc = "cleaning" /\ x.then = "report")
                            /\ x.a \in completed
AllSound(threads, completed) ==
  /\ threads \in [Threads -> ThreadStates]
  /\ \A t \in Threads : Sound(threads[t], completed)

(* An end that waits in its context, or to be delivered, is what it says.  *)
EndsSound(contexts, completed) ==
  /\ contexts \in [Attempts -> Contexts]
  /\ \A a \in Attempts : contexts[a].pending = "done" => a \in completed
MessagesSound(messages, completed) ==
  /\ messages \in Seq(Messages)
  /\ \A i \in 1..Len(messages) : messages[i].kind = "done" => messages[i].attempt \in completed
BooksSound(outcomes, books, completed) ==
  /\ outcomes \in [Attempts -> SUBSET Outcomes]
  /\ books \in [Attempts -> Outcomes \cup {"none"}]
  /\ \A a \in Attempts : books[a] = "succeeded" \/ "succeeded" \in outcomes[a] => a \in completed

IInv ==
  /\ trg \in NodeStates /\ lock \in {"free"} \cup Threads
  /\ pump \in PumpStates /\ left \in Leftovers
  /\ stopped \in Histories
  /\ AllSound(th, stopped.completed)
  /\ EndsSound(ctx, stopped.completed)
  /\ MessagesSound(status, stopped.completed)
  /\ BooksSound(told, record, stopped.completed)

-----------------------------------------------------------------------------
(* Threads: what a step leaves in the one it takes.                        *)

(* Only these four places are those of a thread that handles an end.       *)
Ending == {"complete", "cleanup", "report", "cleaning"}

(* A thread that handles nothing, in its first state.                      *)
LEMMA IdleSound == Idle \in ThreadStates /\ Idle.end = "none" /\ Placed(Idle)
<1>1. Idle \in ThreadStates
  BY DEF Idle, ThreadStates, Labels, Kinds, MaybeAttempt
<1>2. Idle.end = "none" /\ Idle.pc = "idle" /\ Idle.then = "none" /\ Idle.kind = "none"
  BY DEF Idle
<1> QED BY <1>1, <1>2 DEF Placed, Claimed, Asks

(* Whoever handles no success is sound.                                    *)
LEMMA CalmIsSound ==
  ASSUME NEW x, NEW completed, x.end \notin {"done", "succeeded"}, Placed(x)
  PROVE  Sound(x, completed)
BY DEF Sound

(* Outside the four places no success is handled.                          *)
LEMMA ElsewhereIsCalm ==
  ASSUME NEW x, NEW completed, Sound(x, completed), x.pc \notin Ending
  PROVE  x.end \notin {"done", "succeeded"}
BY DEF Sound, Ending

(* One thread changes.                                                     *)
LEMMA OneChanges ==
  ASSUME NEW threads, NEW completed, AllSound(threads, completed),
         NEW t \in Threads, NEW x \in ThreadStates, Sound(x, completed)
  PROVE  AllSound([threads EXCEPT ![t] = x], completed)
BY DEF AllSound

(* An explicit change of one thread that handles no end.                   *)
LEMMA CalmChange ==
  ASSUME NEW completed, AllSound(th, completed), NEW t \in Threads, NEW x \in ThreadStates,
         th[t].pc \notin Ending, x.end = th[t].end, Placed(x), th' = [th EXCEPT ![t] = x]
  PROVE  AllSound(th', completed)
<1>1. x.end \notin {"done", "succeeded"}
  BY ElsewhereIsCalm DEF AllSound
<1> QED BY <1>1, CalmIsSound, OneChanges

(* A thread goes on to another place.                                      *)
LEMMA PlaceChanges ==
  ASSUME NEW x \in ThreadStates, NEW p \in Labels
  PROVE  /\ [x EXCEPT !.pc = p] \in ThreadStates
         /\ [x EXCEPT !.pc = p].end = x.end /\ [x EXCEPT !.pc = p].pc = p
         /\ [x EXCEPT !.pc = p].a = x.a /\ [x EXCEPT !.pc = p].then = x.then
         /\ [x EXCEPT !.pc = p].kind = x.kind /\ [x EXCEPT !.pc = p].exp = x.exp
BY DEF ThreadStates

(* Go takes a thread that handles no success somewhere else.               *)
LEMMA GoSound ==
  ASSUME NEW completed, AllSound(th, completed), NEW t \in Threads,
         NEW p \in Labels \ {"call", "answer", "complete", "halt", "cleaning", "cleanup", "report"},
         th[t].pc \notin Ending, p \in {"hold", "prepare", "guard", "recanted", "refused"} => Claimed(th[t]),
         Go(t, p)
  PROVE  AllSound(th', completed)
<1> DEFINE x == [th[t] EXCEPT !.pc = p]
<1>1. th[t] \in ThreadStates /\ Placed(th[t])
  BY DEF AllSound, Sound
<1>2. th' = [th EXCEPT ![t] = x]
  BY DEF Go, AllSound
<1>3. /\ x \in ThreadStates /\ x.end = th[t].end /\ x.pc = p /\ x.a = th[t].a
      /\ x.then = th[t].then /\ x.kind = th[t].kind
  BY <1>1, PlaceChanges
<1> HIDE DEF x
<1>4. Placed(x)
  BY <1>1, <1>3 DEF Placed, Claimed, Asks
<1> QED
  BY <1>2, <1>3, <1>4, CalmChange

(* A thread that is done handles nothing.                                  *)
LEMMA DoneSound ==
  ASSUME NEW completed, AllSound(th, completed), NEW t \in Threads, Done(t)
  PROVE  AllSound(th', completed)
BY IdleSound, CalmIsSound, OneChanges DEF Done

(* A thread becomes idle.                                                  *)
LEMMA IdleIsSound ==
  ASSUME NEW completed, AllSound(th, completed), NEW t \in Threads
  PROVE  AllSound([th EXCEPT ![t] = Idle], completed)
BY IdleSound, CalmIsSound, OneChanges

(* The thread of a cleanup keeps the end it handles.                       *)
LEMMA CleanupSound ==
  ASSUME NEW completed, AllSound(th, completed), trg \in NodeStates,
         NEW t \in Threads, NEW a \in MaybeAttempt,
         NEW then \in {"recanted", "closeManual", "closeWaypoint", "closeSurvey", "quit", "report",
                       "join", "stopReport", "reportSurvey"},
         th[t].pc # "complete",
         th[t].pc \in Ending => then = "report",
         then = "recanted" => Claimed(th[t]), then = "report" => th[t].pc = "cleanup",
         CleanupCall(t, a, then)
  PROVE  AllSound(th', completed)
<1>1. PICK c \in BOOLEAN :
        th' = [th EXCEPT ![t].pc = "cleaning", ![t].then = then, ![t].saved = trg.finishing,
                         ![t].seen = a, ![t].over = pump.owner \notin {None, a},
                         ![t].ok = c /\ pump.owner \in {None, a}]
  BY DEF CleanupCall
<1> DEFINE over == pump.owner \notin {None, a}
           ok == c /\ pump.owner \in {None, a}
           x == [th[t] EXCEPT !.pc = "cleaning", !.then = then, !.saved = trg.finishing,
                              !.seen = a, !.over = over, !.ok = ok]
<1>2. over \in BOOLEAN /\ ok \in BOOLEAN /\ trg.finishing \in BOOLEAN
  BY <1>1 DEF NodeStates
<1>3. th[t] \in ThreadStates /\ Sound(th[t], completed)
  BY DEF AllSound
<1>4. th' = [th EXCEPT ![t] = x]
  BY <1>1 DEF AllSound
<1>5. "cleaning" \in Labels /\ then \in Labels
  BY DEF Labels
<1> HIDE DEF over, ok
<1>6. x \in ThreadStates
  BY <1>2, <1>3, <1>5 DEF ThreadStates
<1>7. /\ x.end = th[t].end /\ x.pc = "cleaning" /\ x.then = then /\ x.a = th[t].a
      /\ x.kind = th[t].kind
  BY <1>3 DEF ThreadStates
<1> HIDE DEF x
<1>9. Placed(x)
  BY <1>3, <1>7 DEF Sound, Placed, Asks, Claimed
<1>8. Sound(x, completed)
  BY <1>3, <1>7, <1>9 DEF Sound, Ending
<1> QED
  BY <1>4, <1>6, <1>8, OneChanges

(* A thread that is spawned for a success is spawned for one of the pump's.*)
LEMMA SpawnSound ==
  ASSUME NEW completed, NEW threads, AllSound(threads, completed),
         NEW a \in Attempts, NEW kind \in Ends, kind = "done" => a \in completed,
         Spawn(a, kind, threads)
  PROVE  AllSound(th', completed)
<1>1. PICK d \in Dones : th' = [threads EXCEPT ![d] = [Idle EXCEPT !.pc = "complete", !.exp = a, !.end = kind]]
  BY DEF Spawn
<1> DEFINE x == [Idle EXCEPT !.pc = "complete", !.exp = a, !.end = kind]
<1>2. x \in ThreadStates
  BY IdleSound DEF ThreadStates, Labels, Ends, MaybeAttempt
<1>3. x.end = kind /\ x.pc = "complete" /\ x.exp = a /\ x.kind = "none" /\ x.then = "none"
  BY DEF Idle
<1>6. a # None
  BY DEF Attempts, None
<1> HIDE DEF x
<1>4. Sound(x, completed)
  BY <1>3, <1>6 DEF Sound, Ends, Asks, Placed, Claimed
<1>5. d \in Threads
  BY DEF Threads
<1> QED
  BY <1>1, <1>2, <1>4, <1>5, OneChanges DEF x

(* The retry of a waypoint starts from scratch.                            *)
LEMMA FailureSound ==
  ASSUME NEW completed, NEW threads, AllSound(threads, completed), trg \in NodeStates,
         EndsSound(ctx, completed), FailureAction(threads)
  PROVE  AllSound(th', completed)
<1>1. CASE th' = threads
  BY <1>1
<1>2. CASE th' # threads
  <2> DEFINE c == trg.current
             x == [Idle EXCEPT !.pc = "check", !.kind = "waypoint", !.stamp = ctx[c].retries - 1]
  <2>1. c # None /\ ctx[c].retries > 0 /\ th' = [threads EXCEPT !["retry"] = x]
    BY <1>2 DEF FailureAction
  <2>2. ctx[c].retries - 1 \in Nat
    BY <2>1 DEF NodeStates, MaybeAttempt, EndsSound, Contexts
  <2> HIDE DEF c
  <2>3. x \in ThreadStates
    BY <2>2, IdleSound DEF ThreadStates, Labels, Kinds, Orders
  <2>4. x.end = "none" /\ x.pc = "check" /\ x.kind = "waypoint" /\ x.then = "none"
    BY DEF Idle
  <2> HIDE DEF x
  <2>5. Sound(x, completed)
    BY <2>4 DEF Sound, Placed, Claimed, Asks
  <2>6. "retry" \in Threads
    BY DEF Threads
  <2> QED BY <2>1, <2>3, <2>5, <2>6, OneChanges DEF x
<1> QED BY <1>1, <1>2

(* The starts.                                                             *)
LEMMA StartingSound ==
  ASSUME IInv, NEW t \in Threads, Starting(t)
  PROVE  AllSound(th', stopped.completed)
<1> DEFINE C == stopped.completed
           X(p) == [th[t] EXCEPT !.pc = p]
<1>0. /\ AllSound(th, C) /\ trg \in NodeStates /\ EndsSound(ctx, C)
      /\ th[t] \in ThreadStates /\ Sound(th[t], C)
      /\ trg.current \in MaybeAttempt /\ trg.prepared \in MaybeAttempt
      /\ th[t].a \in MaybeAttempt /\ th[t].exp \in MaybeAttempt
  BY DEF IInv, AllSound, NodeStates, ThreadStates
<1> HIDE DEF C
<1>1. CASE Check(t) \/ Hold(t) \/ Recanted(t) \/ CloseManual(t) \/ CloseWaypoint(t) \/ CloseSurvey(t) \/ Quit(t)
  BY <1>0, <1>1, GoSound, DoneSound
     DEF Claimed, Check, Hold, Recanted, CloseManual, CloseWaypoint, CloseSurvey, Quit, Ending, Labels, C
<1>2. CASE ClaimPoint(t) \/ ClaimWaypoint(t)
  <2>1. PICK p \in {"prepare", "hold"} : /\ th' = [th EXCEPT ![t].pc = p, ![t].a = Fresh]
                                        /\ Fresh \in Attempts /\ th[t].pc = "claim"
    BY <1>2 DEF ClaimPoint, ClaimWaypoint
  <2> DEFINE x == [th[t] EXCEPT !.pc = p, !.a = Fresh]
  <2>2. th' = [th EXCEPT ![t] = x]
    BY <1>0, <2>1 DEF AllSound
  <2>3. /\ x \in ThreadStates /\ x.end = th[t].end /\ x.pc \in {"prepare", "hold"}
        /\ x.a = Fresh /\ x.then = th[t].then
    BY <1>0, <2>1, ZenonT(30) DEF ThreadStates, Labels, MaybeAttempt
  <2>4. Fresh # None
    BY <2>1 DEF Attempts, None
  <2> HIDE DEF x
  <2>5. Placed(x)
    BY <1>0, <2>3, <2>4 DEF Sound, Placed, Asks
  <2> QED BY <1>0, <2>1, <2>2, <2>3, <2>5, CalmChange DEF Ending, C
<1>3. CASE Prepare(t)
  <2>1. CASE th[t].kind = "fcu" /\ trg.current # th[t].a
    <3>1. CleanupCall(t, th[t].a, "quit") /\ th[t].pc = "prepare"
      BY <1>3, <2>1 DEF Prepare
    <3> QED BY <1>0, <3>1, CleanupSound DEF Labels, Ending, C
  <2>2. CASE ~(th[t].kind = "fcu" /\ trg.current # th[t].a)
    <3> DEFINE a == IF th[t].kind = "survey" THEN trg.current ELSE th[t].a
    <3>1. th' = [th EXCEPT ![t].pc = "guard", ![t].a = a]
      BY <1>0, <1>3, <2>2 DEF Prepare, AllSound, ThreadStates
    <3>6. a \in MaybeAttempt /\ (th[t].kind # "survey" => a = th[t].a)
      BY <1>0
    <3> HIDE DEF a
    <3> DEFINE x == [th[t] EXCEPT !.pc = "guard", !.a = a]
    <3>2. th' = [th EXCEPT ![t] = x]
      BY <1>0, <3>1 DEF AllSound
    <3>3. /\ x \in ThreadStates /\ x.end = th[t].end /\ x.pc = "guard" /\ x.a = a
          /\ x.kind = th[t].kind /\ x.then = th[t].then
      BY <1>0, <3>6 DEF ThreadStates, Labels
    <3>4. th[t].pc = "prepare"
      BY <1>3 DEF Prepare
    <3> HIDE DEF x
    <3>5. Placed(x)
      BY <1>0, <3>3, <3>4, <3>6 DEF Sound, Placed, Asks, Claimed
    <3> QED BY <1>0, <3>2, <3>3, <3>4, <3>5, CalmChange DEF Ending, C, x
  <2> QED BY <2>1, <2>2
<1>4. CASE Guard(t)
  <2>0. th[t].pc = "guard"
    BY <1>4 DEF Guard
  <2>1. CASE Go(t, "refused")
    BY <1>0, <2>0, <2>1, GoSound DEF Ending, Labels, C, Claimed
  <2>2. CASE ~Go(t, "refused")
    <3> DEFINE x == [th[t] EXCEPT !.pc = "call", !.exp = trg.current]
    <3>1. th' = [th EXCEPT ![t] = x]
      BY <1>0, <1>4, <2>2 DEF Guard, AllSound
    <3>2. /\ x \in ThreadStates /\ x.end = th[t].end /\ x.exp = trg.current /\ x.pc = "call"
          /\ x.kind = th[t].kind /\ x.a = th[t].a /\ x.then = th[t].then
      BY <1>0 DEF ThreadStates, Labels
    <3>3. trg.current # None
      BY <1>4, <2>2 DEF Guard
    <3> HIDE DEF x
    <3>4. Placed(x)
      BY <1>0, <2>0, <3>2, <3>3 DEF Sound, Placed, Asks, Claimed
    <3> QED BY <1>0, <2>0, <3>1, <3>2, <3>4, CalmChange DEF Ending, C, x
  <2> QED BY <2>1, <2>2
<1>5. CASE Call(t)
  <2>1. PICK b \in BOOLEAN, a \in MaybeAttempt :
          th' = [th EXCEPT ![t].pc = "answer", ![t].ok = b, ![t].seen = a]
    <3> DEFINE p == trg.prepared
               runs == p # None /\ Admits(p)
               seen == IF trg.current = p THEN p ELSE None
    <3>1. PICK admitted \in IF runs THEN BOOLEAN ELSE {FALSE},
               heard \in {TRUE} \cup (IF left.troubles > 0 THEN {FALSE} ELSE {}) :
            th' = [th EXCEPT ![t].pc = "answer", ![t].ok = admitted /\ heard, ![t].seen = seen]
      BY <1>5 DEF Call
    <3>2. (admitted /\ heard) \in BOOLEAN /\ seen \in MaybeAttempt
      BY <1>0 DEF MaybeAttempt
    <3> QED BY <3>1, <3>2
  <2> DEFINE x == [th[t] EXCEPT !.pc = "answer", !.ok = b, !.seen = a]
  <2>2. th' = [th EXCEPT ![t] = x]
    BY <1>0, <2>1 DEF AllSound
  <2>4. th[t].pc = "call"
    BY <1>5 DEF Call
  <2>3. /\ x \in ThreadStates /\ x.end = th[t].end /\ x.exp = th[t].exp /\ x.pc = "answer"
        /\ x.kind = th[t].kind /\ x.a = th[t].a /\ x.then = th[t].then
    BY <1>0 DEF ThreadStates, Labels
  <2> HIDE DEF x
  <2>5. Placed(x)
    BY <1>0, <2>3, <2>4 DEF Sound, Placed, Asks, Claimed
  <2> QED BY <1>0, <2>2, <2>3, <2>4, <2>5, CalmChange DEF Ending, C, x
<1>6. CASE Answer(t)
  <2> DEFINE a == th[t].exp
             back == [th EXCEPT ![t] = IF t = "loop" THEN [@ EXCEPT !.pc = "started"] ELSE Idle]
  <2>0. th[t].pc = "answer"
    BY <1>6 DEF Answer
  <2>1. CASE HandleEnd(a, back) /\ trg.current = a /\ th[t].ok
    <3>1. AllSound(back, C)
      <4> DEFINE x == IF t = "loop" THEN [th[t] EXCEPT !.pc = "started"] ELSE Idle
      <4>1. x \in ThreadStates /\ Sound(x, C)
        <5>1. "started" \in Labels /\ th[t].end \notin {"done", "succeeded"}
          BY <1>0, <2>0, ElsewhereIsCalm DEF Ending, Labels
        <5>2. CASE t = "loop"
          <6> DEFINE y == [th[t] EXCEPT !.pc = "started"]
          <6>1. /\ y \in ThreadStates /\ y.end = th[t].end /\ y.pc = "started"
                /\ y.then = th[t].then
            BY <1>0, <5>1, PlaceChanges
          <6> HIDE DEF y
          <6>2. Sound(y, C)
            BY <1>0, <5>1, <6>1 DEF Sound, Placed, Asks, Claimed
          <6> QED BY <5>2, <6>1, <6>2 DEF y
        <5>3. CASE t # "loop"
          BY <5>3, IdleSound, CalmIsSound
        <5> QED BY <5>2, <5>3
      <4>2. back = [th EXCEPT ![t] = x]
        BY <1>0 DEF AllSound
      <4> QED BY <1>0, <4>1, <4>2, OneChanges
    <3>2. CASE ctx[a].pending = "none"
      BY <2>1, <3>1, <3>2 DEF HandleEnd, C
    <3>3. CASE ctx[a].pending # "none"
      <4>1. Spawn(a, ctx[a].pending, back)
        BY <2>1, <3>3 DEF HandleEnd
      <4>2. a \in Attempts => ctx[a] \in Contexts /\ (ctx[a].pending = "done" => a \in C)
        BY <1>0 DEF EndsSound
      <4>3. a \in Attempts
        BY <1>0, <2>0 DEF Sound, Placed, Asks, MaybeAttempt
      <4>4. ctx[a].pending \in Ends /\ (ctx[a].pending = "done" => a \in C)
        BY <3>3, <4>2, <4>3 DEF Contexts
      <4> QED BY <1>0, <3>1, <4>1, <4>3, <4>4, SpawnSound DEF C
    <3> QED BY <3>2, <3>3
  <2>2. CASE CleanupCall(t, a, "recanted")
    BY <1>0, <2>0, <2>2, CleanupSound DEF Claimed, Ending, C
  <2>3. CASE Go(t, "refused")
    BY <1>0, <2>0, <2>3, GoSound DEF Labels, Claimed, Ending, C
  <2> QED BY <1>6, <2>1, <2>2, <2>3 DEF Answer
<1>7. CASE Refused(t)
  <2>0. th[t].pc = "refused"
    BY <1>7 DEF Refused
  <2>1. CASE \E then \in {"closeManual", "closeWaypoint", "closeSurvey"} : CleanupCall(t, th[t].a, then)
    BY <1>0, <2>0, <2>1, CleanupSound DEF Labels, Ending, C
  <2>2. CASE Go(t, "look")
    BY <1>0, <2>0, <2>2, GoSound DEF Labels, Ending, C
  <2>3. CASE th[t].kind = "fcu" /\ th' = [th EXCEPT ![t].pc = "complete", ![t].exp = th[t].a, ![t].end = "fault"]
    <3> DEFINE x == [th[t] EXCEPT !.pc = "complete", !.exp = th[t].a, !.end = "fault"]
    <3>1. th' = [th EXCEPT ![t] = x]
      BY <1>0, <2>3 DEF AllSound
    <3>2. /\ x \in ThreadStates /\ x.end = "fault" /\ x.pc = "complete" /\ x.exp = th[t].a
          /\ x.then = th[t].then
      BY <1>0 DEF ThreadStates, Labels, Ends
    <3>3. th[t].a # None
      BY <1>0, <2>0, <2>3 DEF Sound, Placed, Claimed
    <3> HIDE DEF x
    <3>4. Sound(x, C)
      BY <1>0, <3>2, <3>3 DEF Sound, Placed, Asks, Claimed
    <3> QED BY <1>0, <3>1, <3>2, <3>4, OneChanges DEF C, x
  <2> QED BY <1>7, <2>1, <2>2, <2>3 DEF Refused
<1>8. CASE Act(t)
  BY <1>0, <1>8, FailureSound, IdleIsSound DEF Act, C
<1> QED
  BY <1>1, <1>2, <1>3, <1>4, <1>5, <1>6, <1>7, <1>8 DEF Starting

(* The ends: the outcome is a success only if the pump said so.            *)
LEMMA CompletingSound ==
  ASSUME IInv, NEW t \in Threads, Completing(t)
  PROVE  AllSound(th', stopped.completed)
<1> DEFINE C == stopped.completed
<1>0. /\ AllSound(th, C) /\ trg \in NodeStates /\ EndsSound(ctx, C)
      /\ th[t] \in ThreadStates /\ Sound(th[t], C)
      /\ th[t].a \in MaybeAttempt /\ th[t].exp \in MaybeAttempt
  BY DEF IInv, AllSound, ThreadStates
<1> HIDE DEF C
<1>1. CASE Complete(t)
  <2> DEFINE a == th[t].exp
             outcome == OutcomeOf(ctx[a], th[t].end)
             broken == trg.sample /\ outcome # "succeeded"
             early == ~ctx[a].started /\ ctx[a].answered
             kind == IF trg.sample THEN "survey" ELSE ctx[a].source
             pc == IF trg.sample /\ ~broken THEN "report" ELSE "cleanup"
             x == [Idle EXCEPT !.pc = pc, !.a = a, !.kind = kind, !.early = early,
                               !.ok = TRUE, !.end = outcome]
  <2>1. CASE Done(t)
    BY <1>0, <2>1, DoneSound DEF C
  <2>2. CASE trg.sampling /\ trg.current = a /\ th' = [th EXCEPT ![t] = x]
    <3>0. th[t].pc = "complete"
      BY <1>1 DEF Complete
    <3>1. a # None
      BY <1>0, <3>0 DEF Sound, Placed
    <3>2. a \in Attempts /\ ctx[a] \in Contexts
      BY <1>0, <3>1 DEF MaybeAttempt, EndsSound
    <3>3. outcome \in Outcomes /\ (outcome = "succeeded" => th[t].end = "done")
      BY DEF OutcomeOf, Outcomes
    <3>4. outcome = "succeeded" => a \in C
      BY <1>0, <3>0, <3>3 DEF Sound
    <3>5. early \in BOOLEAN /\ kind \in Kinds /\ pc \in {"report", "cleanup"}
      BY <3>2 DEF Contexts, Kinds, Orders
    <3> HIDE DEF a, outcome, early, kind, pc
    <3>8. x \in ThreadStates
      BY <1>0, <3>2, <3>3, <3>5, IdleSound, ZenonT(30) DEF ThreadStates, Labels, MaybeAttempt
    <3>6. x.pc = pc /\ x.end = outcome /\ x.a = a /\ x.then = "none"
      BY DEF Idle
    <3> HIDE DEF x
    <3>7. Sound(x, C)
      BY <3>3, <3>4, <3>5, <3>6 DEF Sound, Placed, Asks, Claimed, Outcomes
    <3> QED BY <1>0, <2>2, <3>8, <3>7, OneChanges DEF C, x
  <2> QED BY <1>1, <2>1, <2>2 DEF Complete
<1>2. CASE CompletionCleanup(t)
  <2>1. th[t].pc = "cleanup" /\ CleanupCall(t, th[t].a, "report")
    BY <1>2 DEF CompletionCleanup
  <2> QED BY <1>0, <2>1, CleanupSound DEF C
<1>3. CASE CompletionReport(t)
  <2>1. Done(t) \/ FailureAction([th EXCEPT ![t] = Idle])
    BY <1>3 DEF CompletionReport
  <2> QED BY <1>0, <2>1, DoneSound, IdleIsSound, FailureSound DEF C
<1> QED BY <1>1, <1>2, <1>3 DEF Completing

(* The stops, and the return of a cleanup.                                 *)
LEMMA StoppingSound ==
  ASSUME IInv, NEW t \in Threads, Stopping(t) \/ CleanupReturn(t)
  PROVE  AllSound(th', stopped.completed)
<1> DEFINE C == stopped.completed
<1>0. /\ AllSound(th, C) /\ trg \in NodeStates /\ EndsSound(ctx, C)
      /\ th[t] \in ThreadStates /\ Sound(th[t], C)
      /\ th[t].a \in MaybeAttempt /\ th[t].then \in Labels /\ trg.current \in MaybeAttempt
      /\ trg.finishing \in BOOLEAN /\ pump.cutoff \in Nat
  BY DEF IInv, AllSound, ThreadStates, NodeStates, PumpStates
<1> HIDE DEF C
<1>1. CASE StopBegin(t)
  <2>0. th[t].pc = "stop"
    BY <1>1 DEF StopBegin
  <2>1. CASE Go(t, "claimStop") \/ Done(t)
    BY <1>0, <2>0, <2>1, GoSound, DoneSound DEF Labels, Ending, C
  <2>2. CASE ~(Go(t, "claimStop") \/ Done(t))
    <3> DEFINE c == trg.current
               kind == IF trg.survey THEN "survey" ELSE IF c = None THEN "none" ELSE ctx[c].source
               x == [th[t] EXCEPT !.pc = "halt", !.then = "join", !.a = c, !.kind = kind]
    <3>1. th' = [th EXCEPT ![t] = x]
      BY <1>0, <1>1, <2>2 DEF StopBegin, AllSound
    <3>2. kind \in Kinds
      BY <1>0 DEF Kinds, Orders, MaybeAttempt, EndsSound, Contexts
    <3> HIDE DEF kind
    <3>3. x \in ThreadStates /\ x.end = th[t].end /\ x.pc = "halt" /\ x.then = "join"
      BY <1>0, <3>2 DEF ThreadStates, Labels
    <3> HIDE DEF x
    <3>4. Placed(x)
      BY <3>3 DEF Placed, Asks, Claimed
    <3> QED BY <1>0, <2>0, <3>1, <3>3, <3>4, CalmChange DEF Ending, C, x
  <2> QED BY <2>1, <2>2
<1>2. CASE Halt(t)
  <2>0. th[t].pc = "halt"
    BY <1>2 DEF Halt
  <2>3. th[t].then \in {"join", "stopReport"}
    BY <1>0, <2>0 DEF Sound, Placed
  <2>1. CASE CleanupCall(t, th[t].a, th[t].then)
    BY <1>0, <2>0, <2>1, <2>3, CleanupSound DEF Ending, C
  <2>2. CASE ~CleanupCall(t, th[t].a, th[t].then)
    <3>1. PICK ok \in BOOLEAN :
            th' = [th EXCEPT ![t].pc = th[t].then, ![t].ok = ok, ![t].stamp = pump.cutoff + 1]
      BY <1>2, <2>2 DEF Halt
    <3> DEFINE x == [th[t] EXCEPT !.pc = th[t].then, !.ok = ok, !.stamp = pump.cutoff + 1]
    <3>2. th' = [th EXCEPT ![t] = x]
      BY <1>0, <3>1 DEF AllSound
    <3>5. pump.cutoff + 1 \in Nat
      BY <1>0
    <3>3. x \in ThreadStates /\ x.end = th[t].end /\ x.pc = th[t].then /\ x.then = th[t].then
      <4> DEFINE stamp == pump.cutoff + 1
                 place == th[t].then
      <4> SUFFICES LET y == [th[t] EXCEPT !.pc = place, !.ok = ok, !.stamp = stamp]
                   IN  y \in ThreadStates /\ y.end = th[t].end /\ y.pc = place /\ y.then = th[t].then
        OBVIOUS
      <4>1. stamp \in Nat /\ place \in Labels
        BY <1>0, <3>5
      <4> HIDE DEF stamp, place
      <4> QED BY <1>0, <4>1 DEF ThreadStates
    <3> HIDE DEF x
    <3>4. Placed(x)
      BY <2>3, <3>3 DEF Placed, Asks, Claimed
    <3> QED BY <1>0, <2>0, <3>2, <3>3, <3>4, CalmChange DEF Ending, C, x
  <2> QED BY <2>1, <2>2
<1>3. CASE Join(t)
  <2> DEFINE ok == th[t].ok \/ th[t].over
             x == [th[t] EXCEPT !.pc = "claimStop", !.ok = ok, !.over = FALSE]
  <2>0. th[t].pc = "join"
    BY <1>3 DEF Join
  <2>1. th' = [th EXCEPT ![t] = x]
    BY <1>0, <1>3 DEF Join, AllSound
  <2>2. ok \in BOOLEAN
    BY <1>0 DEF ThreadStates
  <2> HIDE DEF ok
  <2>3. x \in ThreadStates /\ x.end = th[t].end /\ x.pc = "claimStop" /\ x.then = th[t].then
    BY <1>0, <2>2, ZenonT(30) DEF ThreadStates, Labels
  <2> HIDE DEF x
  <2>4. Placed(x)
    BY <1>0, <2>3 DEF Sound, Placed, Asks, Claimed
  <2> QED BY <1>0, <2>0, <2>1, <2>3, <2>4, CalmChange DEF Ending, C, x
<1>4. CASE StopClaim(t)
  <2>0. th[t].pc = "claimStop"
    BY <1>4 DEF StopClaim
  <2>1. CASE Done(t)
    BY <1>0, <2>1, DoneSound DEF C
  <2>2. CASE ~Done(t)
    <3> DEFINE joined == th[t].then = "join"
               c == IF joined THEN th[t].a ELSE trg.current
               pc == IF joined THEN "stopReport" ELSE "halt"
               kind == IF c = None THEN "none" ELSE ctx[c].source
               x == [th[t] EXCEPT !.pc = pc, !.then = "stopReport", !.kept = trg.finishing,
                                  !.a = c, !.kind = kind]
    <3>1. th' = [th EXCEPT ![t] = x]
      BY <1>0, <1>4, <2>2 DEF StopClaim, AllSound
    <3>2. c \in MaybeAttempt /\ pc \in {"stopReport", "halt"}
      BY <1>0
    <3>3. kind \in Kinds
      BY <1>0, <3>2 DEF Kinds, Orders, MaybeAttempt, EndsSound, Contexts
    <3> HIDE DEF kind, c, pc
    <3>4. x \in ThreadStates /\ x.end = th[t].end /\ x.pc = pc /\ x.then = "stopReport"
      BY <1>0, <3>2, <3>3 DEF ThreadStates, Labels
    <3> HIDE DEF x
    <3>5. Placed(x)
      BY <3>2, <3>4 DEF Placed, Asks, Claimed
    <3> QED BY <1>0, <2>0, <3>1, <3>4, <3>5, CalmChange DEF Ending, C, x
  <2> QED BY <2>1, <2>2
<1>5. CASE StopReport(t)
  BY <1>0, <1>5, DoneSound DEF StopReport, C
<1>6. CASE CleanupReturn(t)
  <2> DEFINE x == [th[t] EXCEPT !.pc = th[t].then]
  <2>1. th' = [th EXCEPT ![t] = x] /\ th[t].pc = "cleaning"
    BY <1>0, <1>6 DEF CleanupReturn, Go, AllSound
  <2>2. /\ x \in ThreadStates /\ x.end = th[t].end /\ x.pc = th[t].then /\ x.a = th[t].a
        /\ x.then = th[t].then /\ x.kind = th[t].kind
    BY <1>0, PlaceChanges
  <2> HIDE DEF x
  <2>3. Sound(x, C)
    BY <1>0, <2>1, <2>2 DEF Sound, Placed, Asks, Claimed
  <2> QED BY <1>0, <2>1, <2>2, <2>3, OneChanges DEF C, x
<1> QED BY <1>1, <1>2, <1>3, <1>4, <1>5, <1>6 DEF Stopping

(* A thread that begins something new handles no end.                      *)
LEMMA NewSound ==
  ASSUME NEW completed, NEW x, x.end = "none", x.then = "none",
         x.pc \in {"check", "stop", "look", "endSurvey", "reportSurvey"}
  PROVE  Sound(x, completed)
BY DEF Sound, Placed, Asks, Claimed

(* The survey's loop, and what only one thread does.                       *)
LEMMA SurveySound ==
  ASSUME IInv, Surveying \/ StartSurvey \/ AskPump \/ NotePause \/ EndSurvey \/ ReportSurvey
  PROVE  AllSound(th', stopped.completed)
<1> DEFINE C == stopped.completed
<1>0. /\ AllSound(th, C) /\ trg \in NodeStates /\ EndsSound(ctx, C)
      /\ {"loop", "lane", "stop"} \subseteq Threads /\ trg.current \in MaybeAttempt
      /\ \A t \in Threads : th[t] \in ThreadStates /\ Sound(th[t], C)
      /\ th["stop"].a \in MaybeAttempt /\ trg.gen \in Nat
  BY DEF IInv, AllSound, ThreadStates, NodeStates, Threads
<1> HIDE DEF C
<1>1. CASE SurveyLook \/ SurveyEnter \/ SurveyStarted \/ SurveyLeave
  BY <1>0, <1>1, GoSound, DoneSound
     DEF SurveyLook, SurveyEnter, SurveyStarted, SurveyLeave, Labels, Ending, Claimed, C
<1>2. CASE SurveyFlags
  <2>0. th["loop"].pc = "flags"
    BY <1>2 DEF SurveyFlags
  <2>1. CASE Go("loop", "look")
    BY <1>0, <2>0, <2>1, GoSound DEF Labels, Ending, Claimed, C
  <2>2. CASE ~Go("loop", "look")
    <3> DEFINE y == th["loop"]
               f == Fresh
               x == [y EXCEPT !.pc = "prepare", !.a = f]
    <3>1. th' = [th EXCEPT !["loop"] = x] /\ f \in Attempts
      BY <1>0, <1>2, <2>2 DEF SurveyFlags, AllSound
    <3>3. f # None /\ f \in MaybeAttempt
      BY <3>1 DEF Attempts, None, MaybeAttempt
    <3>5. y \in ThreadStates
      BY <1>0
    <3> HIDE DEF y, f
    <3>2. /\ x \in ThreadStates /\ x.end = y.end /\ x.pc = "prepare" /\ x.a = f
          /\ x.then = y.then
      BY <3>3, <3>5 DEF ThreadStates, Labels
    <3> USE DEF y
    <3> HIDE DEF x
    <3>4. Placed(x)
      BY <1>0, <3>2, <3>3 DEF Sound, Placed, Asks, Claimed
    <3> QED BY <1>0, <2>0, <3>1, <3>2, <3>4, CalmChange DEF Ending, C, x
  <2> QED BY <2>1, <2>2
<1>3. CASE StartSurvey
  <2>1. CASE Done("lane")
    BY <1>0, <2>1, DoneSound DEF C
  <2>2. CASE ~Done("lane")
    <3> DEFINE gen == trg.gen + 1
               stamp == th["lane"].stamp
               x == [Idle EXCEPT !.pc = "look", !.kind = "survey", !.stamp = stamp, !.gen = gen]
               back == [th EXCEPT !["lane"] = Idle]
    <3>1. th' = [back EXCEPT !["loop"] = x]
      BY <1>3, <2>2 DEF StartSurvey
    <3>2. gen \in Nat /\ stamp \in Nat
      BY <1>0 DEF ThreadStates
    <3> HIDE DEF gen, stamp
    <3>3. x \in ThreadStates
      BY <3>2, IdleSound DEF ThreadStates, Labels, Kinds, Orders
    <3>4. x.end = "none" /\ x.pc = "look" /\ x.then = "none"
      BY DEF Idle
    <3> HIDE DEF x, back
    <3>5. AllSound(back, C)
      BY <1>0, IdleIsSound DEF back
    <3> QED BY <1>0, <3>1, <3>3, <3>4, <3>5, NewSound, OneChanges DEF C
  <2> QED BY <2>1, <2>2
<1>4. CASE AskPump
  <2>1. CASE Done("lane")
    BY <1>0, <2>1, DoneSound DEF C
  <2>2. CASE ~Done("lane")
    <3> DEFINE y == th["lane"]
               c == trg.current
               x == [y EXCEPT !.pc = "paused", !.exp = c]
    <3>1. th' = [th EXCEPT !["lane"] = x] /\ th["lane"].pc = "check"
      BY <1>0, <1>4, <2>2 DEF AskPump, AllSound
    <3>4. y \in ThreadStates /\ c \in MaybeAttempt
      BY <1>0
    <3> HIDE DEF y, c
    <3>2. x \in ThreadStates /\ x.end = y.end /\ x.pc = "paused" /\ x.then = y.then
      BY <3>4 DEF ThreadStates, Labels
    <3> USE DEF y
    <3> HIDE DEF x
    <3>3. Placed(x)
      BY <1>0, <3>2 DEF Sound, Placed, Asks, Claimed
    <3> QED BY <1>0, <3>1, <3>2, <3>3, CalmChange DEF Ending, C, x
  <2> QED BY <2>1, <2>2
<1>5. CASE NotePause \/ ReportSurvey
  BY <1>0, <1>5, DoneSound DEF NotePause, ReportSurvey, C
<1>6. CASE EndSurvey
  BY <1>0, <1>6, CleanupSound DEF EndSurvey, Ending, C
<1> QED BY <1>1, <1>2, <1>3, <1>4, <1>5, <1>6 DEF Surveying

(* What is asked for, and what is lost.                                    *)
LEMMA OrderSound ==
  ASSUME IInv, \/ Order \/ TriggerService \/ StopCommand \/ StopSurvey \/ SessionLost
               \/ FcuLost \/ FcuSilent
  PROVE  AllSound(th', stopped.completed)
<1> DEFINE C == stopped.completed
<1>0. /\ AllSound(th, C) /\ trg.current \in MaybeAttempt /\ trg.live \in Nat /\ trg.commands \in Nat
      /\ {"service", "lane", "stop", "watch"} \subseteq Threads
      /\ pump.cutoff \in Nat /\ trg.sampling \in BOOLEAN
  BY DEF IInv, NodeStates, Threads, PumpStates
<1> HIDE DEF C
<1>1. CASE Order
  <2> DEFINE kind == Head(left.orders)
             x == [Idle EXCEPT !.pc = "check", !.kind = kind, !.stamp = pump.cutoff, !.gen = trg.commands]
  <2>1. th' = [th EXCEPT !["lane"] = x]
    BY <1>1 DEF Order
  <2>2. kind \in Kinds
    <3>1. left.orders \in Seq(Orders) /\ left.orders # << >>
      BY <1>1 DEF IInv, Leftovers, Order
    <3> QED BY <3>1 DEF Kinds
  <2> HIDE DEF kind
  <2>3. x \in ThreadStates
    BY <1>0, <2>2, IdleSound DEF ThreadStates, Labels
  <2>4. x.end = "none" /\ x.pc = "check" /\ x.then = "none"
    BY DEF Idle
  <2> HIDE DEF x
  <2> QED BY <1>0, <2>1, <2>3, <2>4, NewSound, OneChanges DEF C
<1>2. CASE TriggerService
  <2> DEFINE x == [Idle EXCEPT !.pc = "check", !.kind = "waypoint", !.stamp = Retries]
  <2>1. th' = [th EXCEPT !["service"] = x]
    BY <1>2 DEF TriggerService
  <2>2. Retries \in Nat
    BY BoundsAreNat
  <2>3. x \in ThreadStates
    BY <2>2, IdleSound DEF ThreadStates, Labels, Kinds, Orders
  <2>4. x.end = "none" /\ x.pc = "check" /\ x.then = "none"
    BY DEF Idle
  <2> HIDE DEF x
  <2> QED BY <1>0, <2>1, <2>3, <2>4, NewSound, OneChanges DEF C
<1>3. CASE StopCommand \/ SessionLost
  <2> DEFINE x == [Idle EXCEPT !.pc = "stop"]
  <2>1. th' = [th EXCEPT !["stop"] = x]
    BY <1>3 DEF StopCommand, SessionLost
  <2>3. x \in ThreadStates
    BY IdleSound DEF ThreadStates, Labels
  <2>4. x.end = "none" /\ x.pc = "stop" /\ x.then = "none"
    BY DEF Idle
  <2> HIDE DEF x
  <2> QED BY <1>0, <2>1, <2>3, <2>4, NewSound, OneChanges DEF C
<1>4. CASE StopSurvey
  <2>1. CASE th' = th
    BY <1>0, <2>1 DEF C
  <2>2. CASE th' # th
    <3> DEFINE pc == IF trg.current # None /\ ctx[trg.current].named THEN "endSurvey" ELSE "reportSurvey"
               x == [Idle EXCEPT !.a = trg.current, !.gen = trg.live, !.ok = TRUE,
                                 !.early = trg.sampling, !.kind = "survey", !.pc = pc]
    <3>1. th' = [th EXCEPT !["stop"] = x]
      BY <1>4, <2>2 DEF StopSurvey
    <3>2. pc \in {"endSurvey", "reportSurvey"}
      OBVIOUS
    <3> HIDE DEF pc
    <3>3. x \in ThreadStates
      BY <1>0, <3>2, IdleSound DEF ThreadStates, Labels, Kinds, Orders
    <3>4. x.end = "none" /\ x.pc = pc /\ x.then = "none"
      BY DEF Idle
    <3> HIDE DEF x
    <3> QED BY <1>0, <3>1, <3>2, <3>3, <3>4, NewSound, OneChanges DEF C
  <2> QED BY <2>1, <2>2
<1>5. CASE FcuLost \/ FcuSilent
  <2>1. CASE th' = th
    BY <1>0, <2>1 DEF C
  <2>2. CASE th' # th
    <3> DEFINE x == [Idle EXCEPT !.pc = "stop", !.exp = trg.current]
    <3>1. th' = [th EXCEPT !["watch"] = x]
      BY <1>5, <2>2 DEF FcuLost, FcuSilent
    <3>3. x \in ThreadStates
      BY <1>0, IdleSound DEF ThreadStates, Labels
    <3>4. x.end = "none" /\ x.pc = "stop" /\ x.then = "none"
      BY DEF Idle
    <3> HIDE DEF x
    <3> QED BY <1>0, <3>1, <3>3, <3>4, NewSound, OneChanges DEF C
  <2> QED BY <2>1, <2>2
<1> QED BY <1>1, <1>2, <1>3, <1>4, <1>5

(* A message that is delivered spawns a thread for what it says.           *)
LEMMA DeliverSound ==
  ASSUME IInv, Deliver
  PROVE  AllSound(th', stopped.completed)
<1> DEFINE C == stopped.completed
           c == trg.current
           end == Head(status).kind
<1>0. AllSound(th, C) /\ trg.current \in MaybeAttempt /\ "watch" \in Threads
  BY DEF IInv, NodeStates, Threads
<1>1. Head(status) \in Messages /\ (end = "done" => Head(status).attempt \in C)
  <2>1. status \in Seq(Messages) /\ status # << >> /\ MessagesSound(status, C)
    BY DEF IInv, MessagesSound, Deliver
  <2>2. Head(status) = status[1] /\ Len(status) >= 1 /\ Head(status) \in Messages
    BY <2>1
  <2> QED BY <2>1, <2>2 DEF MessagesSound
<1>2. CASE th' = th
  BY <1>0, <1>2 DEF C
<1>3. CASE th' # th /\ th' = [th EXCEPT !["watch"] = [Idle EXCEPT !.pc = "stop", !.exp = c]]
  <2> DEFINE x == [Idle EXCEPT !.pc = "stop", !.exp = c]
  <2>3. x \in ThreadStates
    BY <1>0, IdleSound DEF ThreadStates, Labels
  <2>4. x.end = "none" /\ x.pc = "stop" /\ x.then = "none"
    BY DEF Idle
  <2> HIDE DEF x
  <2>5. th' = [th EXCEPT !["watch"] = x]
    BY <1>3 DEF x
  <2> QED BY <1>0, <2>3, <2>4, <2>5, NewSound, OneChanges DEF C
<1>4. CASE Spawn(c, end, th) /\ Head(status).attempt = c
  <2>1. c \in Attempts /\ end \in Ends /\ (end = "done" => c \in C)
    BY <1>1, <1>4 DEF Messages
  <2> HIDE DEF C, c, end
  <2> QED BY <1>0, <1>4, <2>1, SpawnSound DEF C
<1> QED BY <1>2, <1>3, <1>4 DEF Deliver, Concerns

(* Whatever happens, the threads stay sound.                               *)
LEMMA ThreadsStaySound ==
  ASSUME IInv, [Next]_vars
  PROVE  AllSound(th', stopped.completed)
<1>0. AllSound(th, stopped.completed)
  BY DEF IInv
<1>1. CASE \E t \in Threads : Steps(t)
  <2>1. PICK t \in Threads : Steps(t)
    BY <1>1
  <2> QED BY <2>1, StartingSound, CompletingSound, StoppingSound, SurveySound DEF Steps, Runs
<1>2. CASE Order \/ TriggerService \/ StopCommand \/ StopSurvey \/ SessionLost \/ FcuLost \/ FcuSilent
  BY <1>2, OrderSound
<1>3. CASE Deliver
  BY <1>3, DeliverSound
<1>4. CASE \/ \E end \in {"done", "fault"} : PumpEnds(end)
           \/ LeaseEnds \/ WebStarts \/ WebStops \/ WebEnds \/ UNCHANGED vars
  <2>1. th' = th
    BY <1>4 DEF PumpEnds, LeaseEnds, WebStarts, WebStops, WebEnds, vars
  <2> QED BY <1>0, <2>1
<1> QED BY <1>1, <1>2, <1>3, <1>4 DEF Next

-----------------------------------------------------------------------------
(* Contexts: no step makes up an end that waits.                           *)

(* One context changes, if it is one.                                      *)
LEMMA OneContext ==
  ASSUME NEW completed, EndsSound(ctx, completed), NEW a, NEW x,
         a \in Attempts => x \in Contexts /\ (x.pending = "done" => a \in completed)
  PROVE  EndsSound([ctx EXCEPT ![a] = x], completed)
BY DEF EndsSound

(* A context is changed in anything but the end that waits in it.          *)
LEMMA NotedContext ==
  ASSUME NEW completed, EndsSound(ctx, completed), NEW a, NEW x,
         a \in Attempts => x \in Contexts /\ x.pending = ctx[a].pending,
         ctx' = [ctx EXCEPT ![a] = x]
  PROVE  EndsSound(ctx', completed)
BY OneContext DEF EndsSound

(* A new attempt has no end.                                               *)
LEMMA NewContextSound ==
  ASSUME NEW completed, EndsSound(ctx, completed), trg \in NodeStates, NEW a,
         NEW source \in Kinds, NEW stamp \in Nat, NEW retries \in Nat,
         NewContext(a, source, stamp, retries)
  PROVE  EndsSound(ctx', completed)
<1> DEFINE gen == trg.gen
           named == source # "survey"
           x == [NoContext EXCEPT !.source = source, !.asked = stamp, !.gen = gen,
                                  !.retries = retries, !.named = named]
<1>1. ctx' = [ctx EXCEPT ![a] = x]
  BY DEF NewContext
<1>2. gen \in Nat /\ named \in BOOLEAN
  BY DEF NodeStates
<1> HIDE DEF gen, named
<1>3. x \in Contexts /\ x.pending = "none"
  BY <1>2 DEF NoContext, Contexts, Ends, Kinds, Orders
<1> HIDE DEF x
<1> QED BY <1>1, <1>3, OneContext

(* A retry is taken from a context.                                        *)
LEMMA FailureKeepsContexts ==
  ASSUME NEW completed, EndsSound(ctx, completed), trg \in NodeStates,
         NEW threads, FailureAction(threads)
  PROVE  EndsSound(ctx', completed)
<1> DEFINE c == trg.current
<1>1. CASE c # None /\ ctx[c].retries > 0
  <2> DEFINE n == ctx[c].retries - 1
             x == [ctx[c] EXCEPT !.retries = n]
  <2>1. c \in Attempts /\ ctx[c] \in Contexts
    BY <1>1 DEF NodeStates, MaybeAttempt, EndsSound
  <2>2. n \in Nat
    BY <1>1, <2>1 DEF Contexts
  <2>3. ctx' = [ctx EXCEPT ![c] = x]
    BY <1>1, <2>1 DEF FailureAction, EndsSound
  <2> HIDE DEF n, c
  <2>4. x \in Contexts /\ x.pending = ctx[c].pending
    BY <2>1, <2>2 DEF Contexts
  <2> QED BY <2>3, <2>4, NotedContext
<1>2. CASE ~(c # None /\ ctx[c].retries > 0)
  BY <1>2 DEF FailureAction
<1> QED BY <1>1, <1>2

(* The starts.                                                             *)
LEMMA StartingKeepsContexts ==
  ASSUME IInv, NEW t \in Threads, Starting(t)
  PROVE  EndsSound(ctx', stopped.completed)
<1> DEFINE C == stopped.completed
<1>0. /\ EndsSound(ctx, C) /\ trg \in NodeStates /\ th[t] \in ThreadStates
      /\ trg.current \in MaybeAttempt /\ th[t].stamp \in Nat /\ pump.cutoff \in Nat
      /\ \A a \in Attempts : ctx[a] \in Contexts
  BY DEF IInv, AllSound, NodeStates, ThreadStates, PumpStates, EndsSound
<1> HIDE DEF C
<1>1. CASE ctx' = ctx
  BY <1>0, <1>1 DEF C
<1>2. CASE ClaimPoint(t) \/ ClaimWaypoint(t)
  <2>1. PICK kind \in {"manual", "fcu", "waypoint"}, stamp \in Nat, n \in Nat :
          NewContext(Fresh, kind, stamp, n)
    BY <1>0, <1>2 DEF ClaimPoint, ClaimWaypoint
  <2> QED BY <1>0, <2>1, NewContextSound DEF Kinds, Orders, C
<1>3. CASE Prepare(t) /\ ctx' # ctx
  <2> DEFINE c == trg.current
             source == IF th[t].kind = "survey" THEN "survey" ELSE ctx[c].source
             stamp == Stamp(t)
             x == [ctx[c] EXCEPT !.started = FALSE, !.named = TRUE, !.source = source, !.issued = stamp]
  <2>1. c \in Attempts /\ ctx[c] \in Contexts
    BY <1>0, <1>3 DEF Prepare, MaybeAttempt
  <2>2. ctx' = [ctx EXCEPT ![c] = x]
    BY <1>0, <1>3, <2>1 DEF Prepare, EndsSound
  <2>3. source \in Kinds /\ stamp \in Nat
    BY <1>0, <2>1 DEF Stamp, Contexts, Kinds, Orders
  <2> HIDE DEF c, source, stamp
  <2>4. x \in Contexts /\ x.pending = ctx[c].pending
    BY <2>1, <2>3 DEF Contexts
  <2> HIDE DEF x
  <2> QED BY <1>0, <2>2, <2>4, NotedContext DEF C
<1>4. CASE Answer(t)
  <2> DEFINE a == th[t].exp
  <2>1. CASE ctx' = [ctx EXCEPT ![a].started = TRUE, ![a].pending = "none", ![a].answered = TRUE]
    <3> DEFINE x == [ctx[a] EXCEPT !.started = TRUE, !.pending = "none", !.answered = TRUE]
    <3>1. ctx' = [ctx EXCEPT ![a] = x]
      BY <1>0, <2>1 DEF EndsSound
    <3> HIDE DEF a
    <3>2. a \in Attempts => x \in Contexts /\ x.pending = "none"
      BY <1>0 DEF Contexts
    <3> HIDE DEF x
    <3> QED BY <1>0, <3>1, <3>2, OneContext DEF C
  <2>2. CASE ctx' = [ctx EXCEPT ![a].answered = TRUE]
    <3> DEFINE x == [ctx[a] EXCEPT !.answered = TRUE]
    <3>1. ctx' = [ctx EXCEPT ![a] = x]
      BY <1>0, <2>2 DEF EndsSound
    <3>2. a \in Attempts => x \in Contexts /\ x.pending = ctx[a].pending
      BY <1>0 DEF Contexts
    <3> HIDE DEF x, a
    <3> QED BY <1>0, <3>1, <3>2, NotedContext DEF C
  <2>3. CASE ctx' = Rejected(th[t].seen)
    <3> DEFINE s == th[t].seen
               reason == IF ctx[s].reason # "none" THEN ctx[s].reason
                         ELSE IF ctx[s].cancel THEN "stop" ELSE "fault"
               x == [ctx[s] EXCEPT !.answered = TRUE, !.reason = reason]
    <3>1. ctx' = [ctx EXCEPT ![s] = x]
      BY <1>0, <2>3 DEF EndsSound, Rejected, Contexts
    <3>2. s \in Attempts => reason \in Ends \cup {"lost", "none"}
      BY <1>0 DEF Contexts, Ends
    <3> HIDE DEF reason, s
    <3>3. s \in Attempts => x \in Contexts /\ x.pending = ctx[s].pending
      BY <1>0, <3>2 DEF Contexts
    <3> HIDE DEF x
    <3> QED BY <1>0, <3>1, <3>3, NotedContext DEF C
  <2> QED BY <1>1, <1>4, <2>1, <2>2, <2>3 DEF Answer
<1>5. CASE Refused(t) /\ ctx' # ctx
  <2> DEFINE s == th[t].a
             reason == IF ctx[s].reason # "none" THEN ctx[s].reason
                       ELSE IF ctx[s].cancel THEN "stop" ELSE "fault"
             x == [ctx[s] EXCEPT !.reason = reason]
  <2>1. ctx' = [ctx EXCEPT ![s] = x]
    BY <1>0, <1>5 DEF EndsSound, Refused, Contexts
  <2>2. s \in Attempts => reason \in Ends \cup {"lost", "none"}
    BY <1>0 DEF Contexts, Ends
  <2> HIDE DEF reason, s
  <2>3. s \in Attempts => x \in Contexts /\ x.pending = ctx[s].pending
    BY <1>0, <2>2 DEF Contexts
  <2> HIDE DEF x
  <2> QED BY <1>0, <2>1, <2>3, NotedContext DEF C
<1>6. CASE CloseWaypoint(t) /\ ctx' # ctx
  <2> DEFINE s == th[t].a
             x == [ctx[s] EXCEPT !.retries = 0]
  <2>1. ctx' = [ctx EXCEPT ![s] = x]
    BY <1>0, <1>6 DEF EndsSound, CloseWaypoint
  <2> HIDE DEF s
  <2>3. s \in Attempts => x \in Contexts /\ x.pending = ctx[s].pending
    BY <1>0 DEF Contexts
  <2> HIDE DEF x
  <2> QED BY <1>0, <2>1, <2>3, NotedContext DEF C
<1>7. CASE Act(t)
  BY <1>0, <1>7, FailureKeepsContexts DEF Act, C
<1> QED
  BY <1>1, <1>2, <1>3, <1>4, <1>5, <1>6, <1>7
     DEF Starting, Check, Hold, Guard, Call, Recanted, CloseManual, CloseSurvey, Quit

(* Whatever else notes something in a context.                             *)
LEMMA ContextsStaySound ==
  ASSUME IInv, [Next]_vars
  PROVE  EndsSound(ctx', stopped.completed)
<1> DEFINE C == stopped.completed
           c == trg.current
<1>0. /\ EndsSound(ctx, C) /\ trg \in NodeStates /\ c \in MaybeAttempt
      /\ \A a \in Attempts : ctx[a] \in Contexts
  BY DEF IInv, NodeStates, EndsSound
<1> HIDE DEF C
<1>1. CASE ctx' = ctx
  BY <1>0, <1>1 DEF C
<1>2. CASE \E t \in Threads : Starting(t)
  BY <1>2, StartingKeepsContexts
<1>3. CASE \E t \in Threads : Completing(t)
  <2>1. PICK t \in Threads : Completing(t)
    BY <1>3
  <2>2. CASE FailureAction([th EXCEPT ![t] = Idle])
    BY <1>0, <2>2, FailureKeepsContexts DEF C
  <2> QED BY <1>1, <2>1, <2>2 DEF Completing, Complete, CompletionCleanup, CompletionReport
<1>4. CASE (\E t \in Threads : Stopping(t)) \/ SessionLost \/ FcuLost
  <2>1. CASE ctx' # ctx
    <3>1. PICK r \in {"lost", "none"} :
            ctx' = [ctx EXCEPT ![c].cancel = TRUE,
                               ![c].reason = IF r = "lost" /\ @ = "none" THEN "lost" ELSE @]
      <4>1. CASE \E t \in Threads : Stopping(t)
        <5>0. PICK t \in Threads : Stopping(t)
          BY <4>1
        <5>3. StopBegin(t)
          <6>1. Join(t) \/ StopClaim(t) \/ StopReport(t) => UNCHANGED ctx
            BY DEF Join, StopClaim, StopReport
          <6>2. Halt(t) => UNCHANGED ctx
            BY DEF Halt, CleanupCall
          <6> QED BY <2>1, <5>0, <6>1, <6>2 DEF Stopping
        <5>1. ctx' = [ctx EXCEPT ![c].cancel = TRUE]
          BY <2>1, <5>3 DEF StopBegin
        <5>2. ctx' = [ctx EXCEPT ![c].cancel = TRUE,
                                 ![c].reason = IF "none" = "lost" /\ @ = "none" THEN "lost" ELSE @]
          BY <1>0, <5>1 DEF EndsSound, Contexts
        <5> QED BY <5>2
      <4>2. CASE SessionLost
        <5>1. ctx' = [ctx EXCEPT ![c].cancel = TRUE, ![c].reason = IF @ = "none" THEN "lost" ELSE @]
          BY <2>1, <4>2 DEF SessionLost
        <5> QED BY <5>1
      <4>3. CASE FcuLost
        <5>1. ctx' = [ctx EXCEPT ![c].cancel = TRUE]
          BY <2>1, <4>3 DEF FcuLost
        <5>2. ctx' = [ctx EXCEPT ![c].cancel = TRUE,
                                 ![c].reason = IF "none" = "lost" /\ @ = "none" THEN "lost" ELSE @]
          BY <1>0, <5>1 DEF EndsSound, Contexts
        <5> QED BY <5>2
      <4> QED BY <1>4, <4>1, <4>2, <4>3
    <3> DEFINE reason == IF r = "lost" /\ ctx[c].reason = "none" THEN "lost" ELSE ctx[c].reason
               x == [ctx[c] EXCEPT !.cancel = TRUE, !.reason = reason]
    <3>2. ctx' = [ctx EXCEPT ![c] = x]
      BY <1>0, <3>1 DEF EndsSound, Contexts
    <3>3. c \in Attempts => reason \in Ends \cup {"lost", "none"}
      BY <1>0 DEF Contexts
    <3> HIDE DEF c, reason
    <3>4. c \in Attempts => x \in Contexts /\ x.pending = ctx[c].pending
      BY <1>0, <3>3 DEF Contexts
    <3> HIDE DEF x
    <3> QED BY <1>0, <3>2, <3>4, NotedContext DEF C
  <2> QED BY <1>1, <2>1
<1>5. CASE Surveying /\ ctx' # ctx
  <2>1. NewContext(Fresh, "survey", th["loop"].stamp, 0)
    BY <1>5 DEF Surveying, SurveyLook, SurveyEnter, SurveyFlags, SurveyStarted, SurveyLeave
  <2>2. th["loop"].stamp \in Nat
    BY DEF IInv, AllSound, ThreadStates, Threads
  <2> QED BY <2>2, <1>0, <2>1, NewContextSound DEF Kinds, Orders, C
<1>6. CASE Deliver /\ ctx' # ctx
  <2> DEFINE a == Head(status).attempt
             end == Head(status).kind
             gap == c # None /\ ctx[c].source = "survey" /\ trg.survey /\ end = "stop"
             reason == IF ctx[c].reason = "none" THEN end ELSE ctx[c].reason
             cancel == ctx[c].cancel \/ gap
             noted == [ctx EXCEPT ![c].reason = IF @ = "none" THEN end ELSE @, ![c].cancel = @ \/ gap]
             pending == IF ctx[c].pending = "none" \/ end # "done" THEN end ELSE ctx[c].pending
             y == [ctx[c] EXCEPT !.reason = reason, !.cancel = cancel]
             z == [ctx[c] EXCEPT !.reason = reason, !.cancel = cancel, !.pending = pending]
  <2>1. Head(status) \in Messages /\ (end = "done" => a \in C)
    <3>1. status \in Seq(Messages) /\ status # << >> /\ MessagesSound(status, C)
      BY <1>6 DEF IInv, MessagesSound, Deliver, C
    <3>2. Head(status) = status[1] /\ Len(status) >= 1 /\ Head(status) \in Messages
      BY <3>1
    <3> QED BY <3>1, <3>2 DEF MessagesSound
  <2>2. c = a /\ c \in Attempts /\ end \in Ends
    BY <1>6, <2>1 DEF Deliver, Concerns, Messages
  <2>3. \/ ctx' = noted
        \/ ctx' = [noted EXCEPT ![c].pending = IF @ = "none" \/ end # "done" THEN end ELSE @]
    BY <1>6 DEF Deliver
  <2>4. ctx[c] \in Contexts /\ ctx[c].pending \in Ends \cup {"none"} /\ gap \in BOOLEAN
    BY <1>0, <2>2 DEF Contexts
  <2>5. noted = [ctx EXCEPT ![c] = y]
    BY <1>0, <2>2 DEF EndsSound, Contexts
  <2> HIDE DEF gap
  <2>6. reason \in Ends \cup {"lost", "none"} /\ cancel \in BOOLEAN /\ pending \in Ends \cup {"none"}
    BY <2>2, <2>4 DEF Contexts, Ends
  <2>7. pending = "done" => c \in C
    BY <1>0, <2>1, <2>2 DEF EndsSound
  <2>8. CASE ctx' = noted
    <3> HIDE DEF noted, reason, cancel, pending, c
    <3>1. y \in Contexts /\ y.pending = ctx[c].pending
      BY <2>4, <2>6 DEF Contexts
    <3> HIDE DEF y
    <3> QED BY <1>0, <2>5, <2>8, <3>1, NotedContext DEF C
  <2>9. CASE ctx' # noted
    <3>1. ctx' = [ctx EXCEPT ![c] = [y EXCEPT !.pending = IF @ = "none" \/ end # "done" THEN end ELSE @]]
      <4> HIDE DEF noted, reason, cancel, pending, c, y
      <4> QED BY <1>0, <2>2, <2>3, <2>5, <2>9 DEF EndsSound
    <3>3. y.pending = ctx[c].pending
      <4> HIDE DEF reason, cancel, c
      <4> QED BY <2>4 DEF Contexts
    <3>4. [y EXCEPT !.pending = IF @ = "none" \/ end # "done" THEN end ELSE @] = [y EXCEPT !.pending = pending]
      <4> HIDE DEF y
      <4> QED BY <3>3
    <3>5. ctx' = [ctx EXCEPT ![c] = [y EXCEPT !.pending = pending]]
      <4> HIDE DEF y, pending
      <4> QED BY <3>1, <3>4
    <3> HIDE DEF noted, reason, cancel, pending, c
    <3>2. [y EXCEPT !.pending = pending] \in Contexts /\ [y EXCEPT !.pending = pending].pending = pending
      BY <2>4, <2>6 DEF Contexts
    <3> HIDE DEF y
    <3> QED BY <1>0, <2>7, <3>2, <3>5, OneContext DEF C
  <2> QED BY <2>8, <2>9
<1>7. CASE (\E t \in Threads : CleanupReturn(t)) \/ StartSurvey \/ AskPump \/ NotePause \/ EndSurvey \/ ReportSurvey
  BY <1>1, <1>7 DEF CleanupReturn, StartSurvey, AskPump, NotePause, EndSurvey, ReportSurvey
<1>8. CASE \/ Order \/ TriggerService \/ StopCommand \/ StopSurvey \/ FcuSilent
           \/ \E end \in {"done", "fault"} : PumpEnds(end)
           \/ LeaseEnds \/ WebStarts \/ WebStops \/ WebEnds \/ UNCHANGED vars
  BY <1>1, <1>8 DEF Order, TriggerService, StopCommand, StopSurvey, FcuSilent, PumpEnds, LeaseEnds,
                    WebStarts, WebStops, WebEnds, vars
<1> QED BY <1>1, <1>2, <1>3, <1>4, <1>5, <1>6, <1>7, <1>8 DEF Next, Steps, Runs

-----------------------------------------------------------------------------
(* The pump, its messages, and what is left.                               *)

(* A call of the pump for one attempt.                                     *)
Calls(t) ==
  \E a \in MaybeAttempt : \E then \in Labels : CleanupCall(t, a, then)

(* The call that stops everything.                                         *)
StopsAll ==
  /\ pump' = [pump EXCEPT !.owner = None, !.cutoff = @ + 1]
  /\ status' = IF pump.owner \in Attempts
               THEN Append(status, [attempt |-> pump.owner, kind |-> "stop"]) ELSE status

(* The threads of the node turn to the pump in three ways.                 *)
LEMMA WhoCalls ==
  ASSUME IInv, NEW t \in Threads, Steps(t)
  PROVE  \/ Calls(t)
         \/ StopsAll
         \/ Call(t)
         \/ UNCHANGED <<pump, status>>
<1>0. th[t].a \in MaybeAttempt /\ th[t].exp \in MaybeAttempt /\ th[t].then \in Labels
  BY DEF IInv, AllSound, ThreadStates
<1>1. CASE Prepare(t) \/ Answer(t) \/ Refused(t)
  BY <1>0, <1>1 DEF Prepare, Answer, Refused, Calls, Labels
<1>2. CASE CompletionCleanup(t) \/ (t = "stop" /\ EndSurvey)
  BY <1>0, <1>2 DEF CompletionCleanup, EndSurvey, Calls, Labels
<1>3. CASE Halt(t)
  BY <1>0, <1>3 DEF Halt, StopsAll, Calls
<1>4. CASE Call(t)
  BY <1>4
<1>5. CASE \/ Check(t) \/ ClaimPoint(t) \/ ClaimWaypoint(t) \/ Hold(t) \/ Guard(t) \/ Recanted(t)
           \/ CloseManual(t) \/ CloseWaypoint(t) \/ CloseSurvey(t) \/ Act(t) \/ Quit(t)
           \/ Complete(t) \/ CompletionReport(t)
  BY <1>5 DEF Check, ClaimPoint, ClaimWaypoint, Hold, Guard, Recanted, CloseManual, CloseWaypoint,
              CloseSurvey, Act, Quit, Complete, CompletionReport
<1>6. CASE \/ StopBegin(t) \/ Join(t) \/ StopClaim(t) \/ StopReport(t) \/ CleanupReturn(t)
           \/ StartSurvey \/ AskPump \/ NotePause \/ ReportSurvey \/ Surveying
  BY <1>6 DEF StopBegin, Join, StopClaim, StopReport, CleanupReturn, StartSurvey, AskPump, NotePause,
              ReportSurvey, Surveying, SurveyLook, SurveyEnter, SurveyFlags, SurveyStarted, SurveyLeave
<1> QED
  BY <1>1, <1>2, <1>3, <1>4, <1>5, <1>6 DEF Steps, Runs, Starting, Completing, Stopping

(* The pump stays what it is; a message is added that says what the pump   *)
(* did, or one is taken.                                                   *)
LEMMA PumpAndMessages ==
  ASSUME IInv, [Next]_vars
  PROVE  /\ pump' \in PumpStates
         /\ \/ status' = status
            \/ status # << >> /\ status' = Tail(status)
            \/ \E m \in Messages : /\ status' = Append(status, m)
                                   /\ m.kind = "done" => m.attempt \in stopped'.completed
<1>0. /\ pump \in PumpStates /\ pump.cutoff + 1 \in Nat /\ trg.prepared \in MaybeAttempt
      /\ pump.gone \in SUBSET Attempts /\ pump.owner \in {None, Web} \cup Attempts
  BY DEF IInv, PumpStates, NodeStates
<1>1. \A a \in Attempts, k \in {"stop", "fault"} :
        LET m == [attempt |-> a, kind |-> k] IN m \in Messages /\ m.kind # "done"
  BY DEF Messages, Ends
<1>2. CASE UNCHANGED <<pump, status>>
  BY <1>0, <1>2
<1>3. CASE \E t \in Threads : Calls(t)
  <2>1. PICK t \in Threads, a \in MaybeAttempt, then \in Labels : CleanupCall(t, a, then)
    BY <1>3 DEF Calls
  <2>2. a \in Attempts /\ a # None
    BY <2>1 DEF CleanupCall, MaybeAttempt
  <2>3. pump' = [pump EXCEPT !.owner = IF @ = a THEN None ELSE @, !.gone = @ \cup {a}]
    BY <2>1 DEF CleanupCall
  <2>4. pump' \in PumpStates
    <3> DEFINE owner == IF pump.owner = a THEN None ELSE pump.owner
               gone == pump.gone \cup {a}
    <3>1. pump' = [pump EXCEPT !.owner = owner, !.gone = gone]
      BY <1>0, <2>3 DEF PumpStates
    <3>2. owner \in {None, Web} \cup Attempts /\ gone \in SUBSET Attempts
      BY <1>0, <2>2
    <3> HIDE DEF owner, gone
    <3> QED BY <1>0, <3>1, <3>2 DEF PumpStates
  <2>5. status' = IF pump.owner = a THEN Append(status, [attempt |-> a, kind |-> "fault"]) ELSE status
    BY <2>1 DEF CleanupCall
  <2> QED BY <1>1, <2>2, <2>4, <2>5
<1>4. CASE StopsAll
  BY <1>0, <1>1, <1>4 DEF StopsAll, PumpStates
<1>5. CASE \E t \in Threads : Call(t)
  <2>1. status' = status /\ (pump' = pump \/ pump' = [pump EXCEPT !.owner = trg.prepared])
    BY <1>5 DEF Call
  <2> QED BY <1>0, <2>1 DEF PumpStates, MaybeAttempt
<1>6. CASE \E t \in Threads : Steps(t)
  <2>1. PICK t \in Threads : Steps(t)
    BY <1>6
  <2> QED BY <1>2, <1>3, <1>4, <1>5, <2>1, WhoCalls
<1>7. CASE \E end \in {"done", "fault"} : PumpEnds(end)
  <2>1. PICK end \in {"done", "fault"} : PumpEnds(end)
    BY <1>7
  <2> DEFINE m == [attempt |-> pump.owner, kind |-> end]
  <2>2. m \in Messages /\ m.kind = end /\ m.attempt = pump.owner
    BY <2>1 DEF PumpEnds, Messages, Ends
  <2>3. pump' = [pump EXCEPT !.owner = None] /\ status' = Append(status, m)
    BY <2>1 DEF PumpEnds
  <2>4. end = "done" => pump.owner \in stopped'.completed
    <3>1. stopped \in Histories
      BY DEF IInv
    <3> QED BY <2>1, <3>1 DEF PumpEnds, Histories
  <2> HIDE DEF m
  <2> QED BY <1>0, <2>2, <2>3, <2>4 DEF PumpStates
<1>8. CASE LeaseEnds
  <2>1. PumpEnds("fault")
    BY <1>8 DEF LeaseEnds
  <2> QED BY <1>7, <2>1
<1>9. CASE WebStarts \/ WebEnds
  BY <1>0, <1>9 DEF WebStarts, WebEnds, PumpStates
<1>10. CASE WebStops
  BY <1>0, <1>1, <1>10 DEF WebStops, PumpStates
<1>11. CASE Deliver
  BY <1>0, <1>11 DEF Deliver
<1>12. CASE \/ Order \/ TriggerService \/ StopCommand \/ StopSurvey \/ SessionLost
            \/ FcuLost \/ FcuSilent \/ UNCHANGED vars
  BY <1>2, <1>12 DEF Order, TriggerService, StopCommand, StopSurvey, SessionLost, FcuLost, FcuSilent, vars
<1> QED BY <1>6, <1>7, <1>8, <1>9, <1>10, <1>11, <1>12 DEF Next

(* What was completed stays completed.                                     *)
LEMMA CompletedGrows ==
  ASSUME IInv, [Next]_vars
  PROVE  /\ stopped' \in Histories
         /\ stopped.completed \subseteq stopped'.completed
<1>0. /\ stopped \in Histories /\ trg.current \in MaybeAttempt /\ pump.owner \in {None, Web} \cup Attempts
      /\ \A t \in Threads : th[t].stamp \in Nat /\ th[t].gen \in Nat
      /\ "stop" \in Threads
  BY DEF IInv, AllSound, ThreadStates, Threads, PumpStates, NodeStates
<1>1. CASE stopped' = stopped
  BY <1>0, <1>1
<1>2. CASE \E n \in Nat : \/ stopped' = [stopped EXCEPT !.before = n]
                          \/ stopped' = [stopped EXCEPT !.surveys = @ \cup {n}]
  BY <1>0, <1>2 DEF Histories
<1>3. CASE \E a \in Attempts : stopped' = [stopped EXCEPT !.completed = @ \cup {a}]
  BY <1>0, <1>3 DEF Histories
<1>4. CASE \E t \in Threads : Starting(t)
  <2>1. PICK t \in Threads : Starting(t)
    BY <1>4
  <2>2. CASE CloseWaypoint(t)
    <3>1. stopped' = [stopped EXCEPT !.lost = @ \cup ({trg.current} \ {None, th[t].a})]
      BY <2>2 DEF CloseWaypoint
    <3>2. {trg.current} \ {None, th[t].a} \subseteq Attempts
      BY <1>0 DEF MaybeAttempt
    <3> QED BY <1>0, <3>1, <3>2 DEF Histories
  <2> QED
    BY <1>1, <2>1, <2>2, ZenonT(30)
       DEF Starting, Check, ClaimPoint, ClaimWaypoint, Hold, Prepare, Guard, Call, Answer, Recanted,
           Refused, CloseManual, CloseSurvey, Act, Quit
<1>5. CASE \E t \in Threads : Completing(t) \/ CleanupReturn(t)
  BY <1>1, <1>5 DEF Completing, Complete, CompletionCleanup, CompletionReport, CleanupReturn
<1>6. CASE \E t \in Threads : Stopping(t)
  <2>1. PICK t \in Threads : Stopping(t)
    BY <1>6
  <2>2. CASE StopReport(t)
    <3> DEFINE n == IF th[t].stamp > stopped.before THEN th[t].stamp ELSE stopped.before
    <3>1. n \in Nat
      BY <1>0 DEF Histories
    <3>2. stopped' = stopped \/ stopped' = [stopped EXCEPT !.before = n]
      BY <1>0, <2>2 DEF StopReport
    <3> QED BY <1>1, <1>2, <3>1, <3>2
  <2> QED BY <1>1, <2>1, <2>2 DEF Stopping, StopBegin, Halt, Join, StopClaim
<1>7. CASE ReportSurvey
  <2>1. stopped' = stopped \/ stopped' = [stopped EXCEPT !.surveys = @ \cup {th["stop"].gen}]
    BY <1>7 DEF ReportSurvey
  <2> QED BY <1>0, <1>1, <1>2, <2>1
<1>8. CASE StartSurvey \/ AskPump \/ NotePause \/ EndSurvey \/ Surveying
  BY <1>1, <1>8 DEF StartSurvey, AskPump, NotePause, EndSurvey, Surveying, SurveyLook, SurveyEnter,
       SurveyFlags, SurveyStarted, SurveyLeave
<1>9. CASE (\E end \in {"done", "fault"} : PumpEnds(end)) \/ LeaseEnds
  BY <1>1, <1>3, <1>9 DEF PumpEnds, LeaseEnds
<1>10. CASE \/ Order \/ TriggerService \/ StopCommand \/ StopSurvey \/ SessionLost \/ FcuLost \/ FcuSilent
            \/ Deliver \/ WebStarts \/ WebStops \/ WebEnds \/ UNCHANGED vars
  BY <1>1, <1>10 DEF Order, TriggerService, StopCommand, StopSurvey, SessionLost, FcuLost, FcuSilent,
       Deliver, WebStarts, WebStops, WebEnds, vars
<1> QED
  BY <1>4, <1>5, <1>6, <1>7, <1>8, <1>9, <1>10 DEF Next, Steps, Runs

(* Messages stay true.                                                     *)
LEMMA MessagesStaySound ==
  ASSUME IInv, [Next]_vars
  PROVE  MessagesSound(status', stopped'.completed)
<1> DEFINE C == stopped.completed
           D == stopped'.completed
<1>0. status \in Seq(Messages) /\ C \subseteq D
  BY CompletedGrows DEF IInv, MessagesSound
<1>1. \A i \in 1..Len(status) : status[i].kind = "done" => status[i].attempt \in D
  BY <1>0 DEF IInv, MessagesSound
<1> HIDE DEF C, D
<1>2. CASE status' = status
  BY <1>0, <1>1, <1>2 DEF MessagesSound, D
<1>3. CASE status # << >> /\ status' = Tail(status)
  <2>1. status' \in Seq(Messages) /\ Len(status') = Len(status) - 1 /\ Len(status) \in Nat
    BY <1>0, <1>3
  <2>2. \A i \in 1..Len(status') : status'[i] = status[i + 1] /\ i + 1 \in 1..Len(status)
    BY <1>0, <1>3, <2>1
  <2> QED BY <1>1, <2>1, <2>2 DEF MessagesSound, D
<1>4. ASSUME NEW m \in Messages, status' = Append(status, m), m.kind = "done" => m.attempt \in D
      PROVE  MessagesSound(status', D)
  <2>1. status' \in Seq(Messages) /\ Len(status') = Len(status) + 1 /\ Len(status) \in Nat
    BY <1>0, <1>4
  <2>2. \A i \in 1..Len(status') : status'[i] = IF i = Len(status) + 1 THEN m ELSE status[i]
    BY <1>0, <1>4
  <2>3. \A i \in 1..Len(status') : i # Len(status) + 1 => i \in 1..Len(status)
    BY <2>1
  <2> QED BY <1>1, <1>4, <2>1, <2>2, <2>3 DEF MessagesSound
<1> QED BY <1>2, <1>3, <1>4, PumpAndMessages DEF D

-----------------------------------------------------------------------------
(* What is published and recorded.                                         *)

(* One outcome is published, recorded, or both.                            *)
LEMMA ReportSound ==
  ASSUME NEW completed, BooksSound(told, record, completed), NEW a \in MaybeAttempt,
         NEW o \in Outcomes, NEW q \in Outcomes,
         o = "succeeded" \/ q = "succeeded" => a = None \/ a \in completed,
         Emit(a, o) \/ UNCHANGED record, Tell(a, q) \/ UNCHANGED told
  PROVE  BooksSound(told', record', completed)
<1>1. CASE a = None
  BY <1>1 DEF Emit, Tell, BooksSound
<1>2. CASE a # None
  <2>0. a \in Attempts
    BY <1>2 DEF MaybeAttempt
  <2>1. /\ record' \in [Attempts -> Outcomes \cup {"none"}]
        /\ \A b \in Attempts : record'[b] = "succeeded" => b \in completed
    BY <1>2, <2>0 DEF Emit, BooksSound
  <2>2. /\ told' \in [Attempts -> SUBSET Outcomes]
        /\ \A b \in Attempts : "succeeded" \in told'[b] => b \in completed
    BY <1>2, <2>0 DEF Tell, BooksSound
  <2> QED BY <2>1, <2>2 DEF BooksSound
<1> QED BY <1>1, <1>2

(* Only a thread with a success that the pump completed reports one.       *)
LEMMA BooksStaySound ==
  ASSUME IInv, [Next]_vars
  PROVE  BooksSound(told', record', stopped.completed)
<1> DEFINE C == stopped.completed
<1>0. /\ BooksSound(told, record, C) /\ "stop" \in Threads
      /\ \A t \in Threads : th[t].a \in MaybeAttempt /\ Sound(th[t], C)
      /\ {"failed", "cancelled"} \subseteq Outcomes
  BY DEF IInv, AllSound, ThreadStates, Threads, Outcomes
<1> HIDE DEF C
<1>1. CASE UNCHANGED <<told, record>>
  BY <1>0, <1>1 DEF BooksSound, C
<1>2. ASSUME NEW t \in Threads, CloseManual(t) \/ CloseWaypoint(t) \/ CloseSurvey(t)
      PROVE  BooksSound(told', record', C)
  BY <1>0, <1>2, ReportSound DEF CloseManual, CloseWaypoint, CloseSurvey, Report
<1>3. ASSUME NEW t \in Threads, CompletionReport(t)
      PROVE  BooksSound(told', record', C)
  <2> DEFINE a == th[t].a
             outcome == IF ~th[t].ok THEN "failed"
                        ELSE IF th[t].kind = "fcu" /\ ~trg.auto THEN "cancelled" ELSE th[t].end
  <2>1. outcome \in Outcomes /\ (outcome = "succeeded" => a \in C)
    BY <1>0, <1>3 DEF CompletionReport, Sound, Placed
  <2>2. CASE Report(a, outcome)
    <3> HIDE DEF a, outcome
    <3> QED BY <1>0, <2>1, <2>2, ReportSound DEF Report, a
  <2>3. CASE Report(a, "failed") \/ (Tell(a, "cancelled") /\ UNCHANGED record)
    BY <1>0, <2>3, ReportSound DEF Report
  <2> QED BY <1>3, <2>2, <2>3 DEF CompletionReport
<1>4. ASSUME NEW t \in Threads, StopReport(t)
      PROVE  BooksSound(told', record', C)
  BY <1>0, <1>4, ReportSound DEF StopReport, Report
<1>5. CASE ReportSurvey
  <2>1. \/ \E o \in {"cancelled", "failed"} : Emit(th["stop"].a, o)
        \/ UNCHANGED record
    BY <1>5 DEF ReportSurvey
  <2>2. UNCHANGED told
    BY <1>5 DEF ReportSurvey
  <2>3. CASE UNCHANGED record
    BY <1>1, <2>2, <2>3
  <2>4. ASSUME NEW o \in {"cancelled", "failed"}, Emit(th["stop"].a, o)
        PROVE  BooksSound(told', record', C)
    <3> DEFINE a == th["stop"].a
    <3>1. a \in MaybeAttempt /\ o \in Outcomes /\ o # "succeeded" /\ "failed" \in Outcomes
      BY <1>0, <2>4
    <3>2. Emit(a, o)
      BY <2>4
    <3> HIDE DEF a
    <3> QED BY <1>0, <2>2, <3>1, <3>2, ReportSound
  <2> QED BY <2>1, <2>3, <2>4 DEF C
<1>6. CASE \E t \in Threads : Starting(t)
  BY <1>1, <1>2, <1>6, ZenonT(30)
     DEF C, Starting, Check, ClaimPoint, ClaimWaypoint, Hold, Prepare, Guard, Call, Answer, Recanted,
         Refused, Act, Quit
<1>7. CASE \E t \in Threads : Completing(t) \/ CleanupReturn(t)
  BY <1>1, <1>3, <1>7 DEF C, Completing, Complete, CompletionCleanup, CleanupReturn
<1>8. CASE \E t \in Threads : Stopping(t)
  BY <1>1, <1>4, <1>8 DEF C, Stopping, StopBegin, Halt, Join, StopClaim
<1>9. CASE StartSurvey \/ AskPump \/ NotePause \/ EndSurvey \/ Surveying
  BY <1>1, <1>9 DEF StartSurvey, AskPump, NotePause, EndSurvey, Surveying, SurveyLook, SurveyEnter,
       SurveyFlags, SurveyStarted, SurveyLeave
<1>10. CASE \/ Order \/ TriggerService \/ StopCommand \/ StopSurvey \/ SessionLost \/ FcuLost \/ FcuSilent
            \/ Deliver \/ (\E end \in {"done", "fault"} : PumpEnds(end)) \/ LeaseEnds
            \/ WebStarts \/ WebStops \/ WebEnds \/ UNCHANGED vars
  BY <1>1, <1>10 DEF Order, TriggerService, StopCommand, StopSurvey, SessionLost, FcuLost, FcuSilent,
       Deliver, PumpEnds, LeaseEnds, WebStarts, WebStops, WebEnds, vars
<1> QED
  BY <1>5, <1>6, <1>7, <1>8, <1>9, <1>10 DEF Next, Steps, Runs, C

-----------------------------------------------------------------------------
(* The fields the threads share, the lock and the bounds.                  *)

(* The starts.                                                             *)
LEMMA StartingKeepsNode ==
  ASSUME IInv, NEW t \in Threads, Starting(t) \/ CleanupReturn(t)
  PROVE  trg' \in NodeStates
<1>0. trg \in NodeStates /\ th[t].saved \in BOOLEAN
  BY DEF IInv, AllSound, ThreadStates
<1>1. CASE trg' = trg
  BY <1>0, <1>1
<1>2. CASE trg' = [trg EXCEPT !.finishing = TRUE] \/ CleanupReturn(t)
  BY <1>0, <1>2 DEF NodeStates, CleanupReturn
<1>3. CASE ClaimPoint(t) \/ ClaimWaypoint(t)
  <2>1. Fresh \in MaybeAttempt
    BY <1>3 DEF ClaimPoint, ClaimWaypoint, MaybeAttempt
  <2> QED BY <1>0, <1>3, <2>1 DEF ClaimPoint, ClaimWaypoint, NodeStates
<1>4. CASE Prepare(t) /\ trg' # [trg EXCEPT !.finishing = TRUE]
  <2> DEFINE c == trg.current
             owner == IF th[t].kind = "survey" THEN c ELSE trg.owner
             sampling == trg.sampling \/ th[t].kind = "waypoint"
             mission == IF th[t].kind = "waypoint" THEN "sampling" ELSE trg.mission
  <2>1. trg' = [trg EXCEPT !.prepared = c, !.owner = owner, !.sampling = sampling, !.mission = mission]
    BY <1>0, <1>4 DEF Prepare, CleanupCall, NodeStates
  <2>2. /\ c \in MaybeAttempt /\ owner \in MaybeAttempt /\ sampling \in BOOLEAN
        /\ mission \in {"idle", "sampling", "paused", "surveying"}
    BY <1>0 DEF NodeStates
  <2> HIDE DEF c, owner, sampling, mission
  <2> QED BY <1>0, <2>1, <2>2 DEF NodeStates
<1>5. CASE Call(t)
  BY <1>0, <1>5 DEF Call, NodeStates, MaybeAttempt
<1>6. CASE CloseManual(t) \/ CloseSurvey(t)
  BY <1>0, <1>6, ZenonT(30) DEF CloseManual, CloseSurvey, NodeStates, MaybeAttempt
<1>7. CASE CloseWaypoint(t)
  <2> DEFINE mission == IF th[t].over THEN trg.mission ELSE "idle"
  <2>1. trg' = [trg EXCEPT !.sampling = FALSE, !.mission = mission]
    BY <1>0, <1>7 DEF CloseWaypoint, NodeStates
  <2>2. mission \in {"idle", "sampling", "paused", "surveying"}
    BY <1>0 DEF NodeStates
  <2> HIDE DEF mission
  <2> QED BY <1>0, <2>1, <2>2 DEF NodeStates
<1> QED
  BY <1>1, <1>2, <1>3, <1>4, <1>5, <1>6, <1>7
     DEF Starting, Check, Hold, Guard, Answer, Recanted, Refused, Act, Quit, CleanupCall

(* The ends and the stops.                                                 *)
LEMMA EndingKeepsNode ==
  ASSUME IInv, NEW t \in Threads, Completing(t) \/ Stopping(t)
  PROVE  trg' \in NodeStates
<1> DEFINE Shown == {"idle", "sampling", "paused", "surveying"}
<1>0. /\ trg \in NodeStates /\ th[t].kept \in BOOLEAN
      /\ trg.current \in MaybeAttempt /\ trg.owner \in MaybeAttempt /\ trg.live \in Nat
      /\ trg.mission \in Shown /\ None \in MaybeAttempt
      /\ trg.survey \in BOOLEAN /\ trg.sample \in BOOLEAN /\ trg.auto \in BOOLEAN
  BY DEF IInv, AllSound, ThreadStates, NodeStates, MaybeAttempt
<1>1. CASE trg' = trg \/ trg' = [trg EXCEPT !.finishing = TRUE] \/ trg' = [trg EXCEPT !.finishing = FALSE]
  BY <1>0, <1>1 DEF NodeStates
<1>2. CASE Complete(t)
  <2> DEFINE outcome == OutcomeOf(ctx[th[t].exp], th[t].end)
             broken == trg.sample /\ outcome # "succeeded"
             survey == trg.survey /\ ~broken
             current == IF broken \/ ctx[th[t].exp].source = "fcu" THEN None ELSE trg.current
  <2>1. trg' = trg \/ trg' = [trg EXCEPT !.sampling = FALSE, !.finishing = TRUE, !.sample = FALSE,
                                         !.survey = survey, !.current = current]
    BY <1>0, <1>2 DEF Complete, NodeStates
  <2>2. survey \in BOOLEAN /\ current \in MaybeAttempt
    BY <1>0
  <2> HIDE DEF survey, current
  <2> QED BY <1>0, <1>1, <2>1, <2>2, ZenonT(30) DEF NodeStates
<1>3. CASE CompletionReport(t)
  <2> DEFINE kind == th[t].kind
             outcome == IF ~th[t].ok THEN "failed"
                        ELSE IF kind = "fcu" /\ ~trg.auto THEN "cancelled" ELSE th[t].end
             current == IF kind = "manual" /\ outcome = "succeeded" THEN None ELSE trg.current
             survey == trg.survey /\ ~(kind = "survey" /\ outcome = "failed")
             mission == IF kind = "survey" /\ outcome = "succeeded" /\ trg.survey THEN "surveying" ELSE "idle"
             idle == [trg EXCEPT !.finishing = FALSE, !.current = current, !.survey = survey, !.mission = mission]
  <2>0. current \in MaybeAttempt /\ survey \in BOOLEAN /\ mission \in Shown
    BY <1>0
  <2>1. \/ trg' = [trg EXCEPT !.finishing = FALSE]
        \/ \E moved \in BOOLEAN : trg' = [idle EXCEPT !.auto = @ /\ ~moved]
    BY <1>0, <1>3 DEF CompletionReport, NodeStates
  <2> HIDE DEF current, survey, mission
  <2>2. idle \in NodeStates
    BY <1>0, <2>0 DEF NodeStates
  <2> HIDE DEF idle
  <2>3. \A moved \in BOOLEAN : [idle EXCEPT !.auto = @ /\ ~moved] \in NodeStates
    BY <2>2 DEF NodeStates
  <2> QED BY <1>1, <2>1, <2>3
<1>4. CASE StopClaim(t)
  <2>1. PICK survey \in BOOLEAN :
          \/ trg' = trg
          \/ trg' = [trg EXCEPT !.finishing = TRUE, !.sampling = FALSE, !.current = None,
                       !.prepared = None, !.survey = FALSE, !.sample = @ /\ ~survey,
                       !.live = IF survey THEN 0 ELSE @, !.owner = IF survey THEN None ELSE @]
    <3> DEFINE joined == th[t].then = "join"
               c == IF joined THEN th[t].a ELSE trg.current
               survey == trg.survey \/ (IF joined THEN th[t].kind = "survey"
                                        ELSE c # None /\ ctx[c].source = "survey")
    <3>1. survey \in BOOLEAN
      BY <1>0
    <3> QED BY <1>4, <3>1 DEF StopClaim
  <2> DEFINE sample == trg.sample /\ ~survey
             live == IF survey THEN 0 ELSE trg.live
             owner == IF survey THEN None ELSE trg.owner
  <2>2. \/ trg' = trg
        \/ trg' = [trg EXCEPT !.finishing = TRUE, !.sampling = FALSE, !.current = None,
                     !.prepared = None, !.survey = FALSE, !.sample = sample, !.live = live, !.owner = owner]
    BY <1>0, <2>1 DEF NodeStates
  <2>3. sample \in BOOLEAN /\ live \in Nat /\ owner \in MaybeAttempt
    BY <1>0
  <2> HIDE DEF sample, live, owner
  <2>4. [trg EXCEPT !.finishing = TRUE, !.sampling = FALSE, !.current = None, !.prepared = None,
                    !.survey = FALSE, !.sample = sample, !.live = live, !.owner = owner] \in NodeStates
    BY <1>0, <2>3 DEF NodeStates
  <2> QED BY <1>1, <2>2, <2>4
<1>5. CASE StopReport(t)
  <2>1. PICK moved \in BOOLEAN :
          trg' = [trg EXCEPT !.finishing = th[t].kept, !.auto = @ /\ ~moved,
                             !.mission = IF th[t].over THEN @ ELSE "idle",
                             !.current = IF th[t].kind = "manual" THEN None ELSE @]
    BY <1>5 DEF StopReport
  <2> DEFINE kept == th[t].kept
             auto == trg.auto /\ ~moved
             mission == IF th[t].over THEN trg.mission ELSE "idle"
             current == IF th[t].kind = "manual" THEN None ELSE trg.current
  <2>2. trg' = [trg EXCEPT !.finishing = kept, !.auto = auto, !.mission = mission, !.current = current]
    BY <1>0, <2>1 DEF NodeStates
  <2>3. kept \in BOOLEAN /\ auto \in BOOLEAN /\ mission \in Shown /\ current \in MaybeAttempt
    BY <1>0
  <2> HIDE DEF kept, auto, mission, current
  <2> QED BY <1>0, <2>2, <2>3 DEF NodeStates
<1> QED
  BY <1>1, <1>2, <1>3, <1>4, <1>5
     DEF Completing, Stopping, CompletionCleanup, StopBegin, Halt, Join, CleanupCall

(* The survey, the pauses and what comes from outside.                     *)
LEMMA OthersKeepNode ==
  ASSUME IInv,
         \/ StartSurvey \/ AskPump \/ NotePause \/ EndSurvey \/ ReportSurvey \/ Surveying
         \/ Order \/ TriggerService \/ StopCommand \/ StopSurvey \/ SessionLost \/ FcuLost \/ FcuSilent
         \/ Deliver \/ (\E end \in {"done", "fault"} : PumpEnds(end)) \/ LeaseEnds
         \/ WebStarts \/ WebStops \/ WebEnds \/ UNCHANGED vars
  PROVE  trg' \in NodeStates
<1> DEFINE Shown == {"idle", "sampling", "paused", "surveying"}
<1>0. /\ trg \in NodeStates /\ None \in MaybeAttempt /\ trg.commands \in Nat /\ trg.survey \in BOOLEAN
      /\ trg.gen + 1 \in Nat /\ trg.commands + 1 \in Nat
  BY DEF IInv, NodeStates, MaybeAttempt
<1>1. CASE trg' = trg
  BY <1>0, <1>1
<1>2. CASE StartSurvey
  <2> DEFINE gen == trg.gen + 1
  <2>1. trg' = trg \/ trg' = [trg EXCEPT !.survey = TRUE, !.current = None, !.owner = None,
                                         !.gen = gen, !.live = gen, !.mission = "surveying"]
    BY <1>0, <1>2 DEF StartSurvey, NodeStates
  <2>2. gen \in Nat
    BY <1>0
  <2> HIDE DEF gen
  <2> QED BY <1>0, <2>1, <2>2, ZenonT(30) DEF NodeStates
<1>3. CASE NotePause
  BY <1>0, <1>3 DEF NotePause, NodeStates
<1>4. CASE EndSurvey
  BY <1>0, <1>4 DEF EndSurvey, CleanupCall, NodeStates
<1>5. CASE ReportSurvey
  BY <1>0, <1>5 DEF ReportSurvey, NodeStates
<1>6. CASE Surveying
  <2>1. CASE SurveyFlags /\ trg' # trg
    <3>1. Fresh \in MaybeAttempt
      BY <2>1 DEF SurveyFlags, MaybeAttempt
    <3> QED BY <1>0, <2>1, <3>1 DEF SurveyFlags, NodeStates
  <2>2. CASE SurveyLeave
    BY <1>0, <2>2 DEF SurveyLeave, NodeStates
  <2> QED BY <1>1, <1>6, <2>1, <2>2 DEF Surveying, SurveyLook, SurveyEnter, SurveyStarted
<1>7. CASE StopCommand \/ SessionLost \/ StopSurvey
  <2> DEFINE n == trg.commands + 1
  <2>1. \/ trg' = trg
        \/ trg' = [trg EXCEPT !.commands = n]
        \/ trg' = [trg EXCEPT !.commands = n, !.survey = FALSE, !.sample = FALSE, !.live = 0,
                              !.owner = None, !.sampling = FALSE, !.current = None, !.prepared = None]
    BY <1>0, <1>7 DEF StopCommand, SessionLost, StopSurvey, NodeStates
  <2>2. n \in Nat
    BY <1>0
  <2> HIDE DEF n
  <2>3. [trg EXCEPT !.commands = n] \in NodeStates
    BY <1>0, <2>2 DEF NodeStates
  <2>4. [trg EXCEPT !.commands = n, !.survey = FALSE, !.sample = FALSE, !.live = 0, !.owner = None,
                    !.sampling = FALSE, !.current = None, !.prepared = None] \in NodeStates
    BY <1>0, <2>2 DEF NodeStates
  <2> QED BY <1>1, <2>1, <2>3, <2>4
<1>8. CASE FcuLost
  BY <1>0, <1>8 DEF FcuLost, NodeStates
<1>9. CASE Deliver
  <2>1. \/ trg' = trg
        \/ \E b \in BOOLEAN : trg' = [trg EXCEPT !.survey = b]
    <3> DEFINE gap == /\ trg.current # None /\ ctx[trg.current].source = "survey"
                      /\ trg.survey /\ Head(status).kind = "stop"
    <3>1. trg' = trg \/ trg' = [trg EXCEPT !.survey = FALSE] \/ trg' = [trg EXCEPT !.survey = trg.survey /\ ~gap]
      BY <1>0, <1>9 DEF Deliver, NodeStates
    <3>2. (trg.survey /\ ~gap) \in BOOLEAN
      BY <1>0
    <3> QED BY <3>1, <3>2
  <2> QED BY <1>0, <2>1 DEF NodeStates
<1>10. CASE \/ AskPump \/ Order \/ TriggerService \/ FcuSilent \/ LeaseEnds
            \/ (\E end \in {"done", "fault"} : PumpEnds(end))
            \/ WebStarts \/ WebStops \/ WebEnds \/ UNCHANGED vars
  BY <1>1, <1>10 DEF AskPump, Order, TriggerService, FcuSilent, LeaseEnds, PumpEnds, WebStarts, WebStops,
       WebEnds, vars
<1> QED BY <1>2, <1>3, <1>4, <1>5, <1>6, <1>7, <1>8, <1>9, <1>10

(* The fields that the threads share.                                      *)
LEMMA NodeStays ==
  ASSUME IInv, [Next]_vars
  PROVE  trg' \in NodeStates
BY StartingKeepsNode, EndingKeepsNode, OthersKeepNode DEF Next, Steps, Runs

(* The lock is free, or a thread's.                                        *)
LEMMA LockStays ==
  ASSUME IInv, [Next]_vars
  PROVE  lock' \in {"free"} \cup Threads
<1>0. lock \in {"free"} \cup Threads /\ "loop" \in Threads
  BY DEF IInv, Threads
<1>1. ASSUME NEW t \in Threads, Starting(t)
      PROVE  lock' \in {"free", "loop", t, lock}
  BY <1>1 DEF Starting, Check, ClaimPoint, ClaimWaypoint, Hold, Prepare, Guard, Call, Answer, Recanted,
       Refused, CloseManual, CloseWaypoint, CloseSurvey, Act, Quit
<1>2. ASSUME NEW t \in Threads, Completing(t) \/ Stopping(t) \/ CleanupReturn(t)
      PROVE  lock' \in {"free", t, lock}
  BY <1>2 DEF Completing, Complete, CompletionCleanup, CompletionReport, CleanupReturn, Stopping, StopBegin,
       Halt, Join, StopClaim, StopReport
<1>3. CASE StartSurvey \/ AskPump \/ NotePause \/ EndSurvey \/ ReportSurvey \/ Surveying
  BY <1>0, <1>3 DEF StartSurvey, AskPump, NotePause, EndSurvey, ReportSurvey, Surveying, SurveyLook,
       SurveyEnter, SurveyFlags, SurveyStarted, SurveyLeave
<1>4. CASE \/ Order \/ TriggerService \/ StopCommand \/ StopSurvey \/ SessionLost \/ FcuLost \/ FcuSilent
           \/ Deliver \/ (\E end \in {"done", "fault"} : PumpEnds(end)) \/ LeaseEnds
           \/ WebStarts \/ WebStops \/ WebEnds \/ UNCHANGED vars
  BY <1>0, <1>4 DEF Order, TriggerService, StopCommand, StopSurvey, SessionLost, FcuLost, FcuSilent,
       Deliver, PumpEnds, LeaseEnds, WebStarts, WebStops, WebEnds, vars
<1> QED BY <1>0, <1>1, <1>2, <1>3, <1>4 DEF Next, Steps, Runs

(* The bounds are used up.                                                 *)
LEMMA LeftStays ==
  ASSUME IInv, [Next]_vars
  PROVE  left' \in Leftovers
<1> DEFINE Fewer == [left EXCEPT !.troubles = @ - 1]
<1>0. /\ left \in Leftovers /\ left.orders \in Seq(Orders)
      /\ left.troubles \in Nat /\ left.stops \in Nat /\ left.web \in Nat
  BY DEF IInv, Leftovers
<1>1. CASE left' = left
  BY <1>0, <1>1
<1>2. CASE left.troubles > 0 /\ left' = Fewer
  BY <1>0, <1>2 DEF Leftovers
<1>3. CASE left.stops > 0 /\ left' = [left EXCEPT !.stops = @ - 1]
  BY <1>0, <1>3 DEF Leftovers
<1>4. CASE left.web > 0 /\ left' = [left EXCEPT !.web = @ - 1]
  BY <1>0, <1>4 DEF Leftovers
<1>5. CASE left.orders # << >> /\ left' = [left EXCEPT !.orders = Tail(@)]
  <2>1. Tail(left.orders) \in Seq(Orders)
    BY <1>0, <1>5
  <2> DEFINE rest == Tail(left.orders)
  <2> HIDE DEF rest
  <2>2. left' = [left EXCEPT !.orders = rest]
    BY <1>0, <1>5 DEF Leftovers, rest
  <2> QED BY <1>0, <2>1, <2>2 DEF Leftovers, rest
<1>6. ASSUME NEW t \in Threads, NEW a, NEW then, CleanupCall(t, a, then)
      PROVE  left' = left \/ (left.troubles > 0 /\ left' = Fewer)
  BY <1>6 DEF CleanupCall
<1>7. ASSUME NEW t \in Threads, Starting(t)
      PROVE  left' = left \/ (left.troubles > 0 /\ left' = Fewer)
  BY <1>6, <1>7 DEF Starting, Check, ClaimPoint, ClaimWaypoint, Hold, Prepare, Guard, Call, Answer, Recanted,
       Refused, CloseManual, CloseWaypoint, CloseSurvey, Act, Quit
<1>8. ASSUME NEW t \in Threads, Completing(t) \/ Stopping(t) \/ CleanupReturn(t)
      PROVE  left' = left \/ (left.troubles > 0 /\ left' = Fewer)
  BY <1>6, <1>8 DEF Completing, Complete, CompletionCleanup, CompletionReport, CleanupReturn, Stopping,
       StopBegin, Halt, Join, StopClaim, StopReport
<1>9. CASE StartSurvey \/ AskPump \/ NotePause \/ EndSurvey \/ ReportSurvey \/ Surveying
  <2>1. "stop" \in Threads
    BY DEF Threads
  <2>2. left' = left \/ (left.troubles > 0 /\ left' = Fewer)
    BY <1>6, <1>9, <2>1 DEF StartSurvey, AskPump, NotePause, EndSurvey, ReportSurvey, Surveying, SurveyLook,
         SurveyEnter, SurveyFlags, SurveyStarted, SurveyLeave
  <2> QED BY <1>1, <1>2, <2>2
<1>10. CASE \/ Order \/ TriggerService \/ StopCommand \/ StopSurvey \/ SessionLost \/ FcuLost \/ FcuSilent
            \/ Deliver \/ (\E end \in {"done", "fault"} : PumpEnds(end)) \/ LeaseEnds
            \/ WebStarts \/ WebStops \/ WebEnds \/ UNCHANGED vars
  BY <1>1, <1>2, <1>3, <1>4, <1>5, <1>10
     DEF Order, TriggerService, StopCommand, StopSurvey, SessionLost, FcuLost, FcuSilent, Deliver, PumpEnds,
         LeaseEnds, WebStarts, WebStops, WebEnds, vars
<1> QED BY <1>1, <1>2, <1>7, <1>8, <1>9, <1>10 DEF Next, Steps, Runs

-----------------------------------------------------------------------------
(* At first nothing is handled, waiting, published or recorded.            *)
LEMMA InitSound == Init => IInv
<1> SUFFICES ASSUME Init PROVE IInv
  OBVIOUS
<1>1. trg \in NodeStates /\ lock \in {"free"} \cup Threads
  BY DEF Init, NodeStates, MaybeAttempt
<1>2. pump \in PumpStates /\ stopped \in Histories
  BY DEF Init, PumpStates, Histories
<1>3. left \in Leftovers
  BY BoundsAreNat, ScriptsAreOrders DEF Init, Leftovers, Orders
<1>4. AllSound(th, stopped.completed)
  BY IdleSound, CalmIsSound DEF Init, AllSound
<1>5. EndsSound(ctx, stopped.completed)
  <2>1. NoContext \in Contexts /\ NoContext.pending = "none"
    BY DEF NoContext, Contexts, Kinds, Ends
  <2> QED BY <2>1 DEF Init, EndsSound
<1>6. MessagesSound(status, stopped.completed)
  <2>1. status = << >> /\ Len(<< >>) = 0
    BY DEF Init
  <2> QED BY <2>1 DEF MessagesSound
<1>7. BooksSound(told, record, stopped.completed)
  BY DEF Init, BooksSound
<1> QED BY <1>1, <1>2, <1>3, <1>4, <1>5, <1>6, <1>7 DEF IInv

(* One step, of any thread.                                                *)
LEMMA StepSound == IInv /\ [Next]_vars => IInv'
<1> SUFFICES ASSUME IInv, [Next]_vars PROVE IInv'
  OBVIOUS
<1>1. /\ stopped' \in Histories
      /\ stopped.completed \subseteq stopped'.completed
  BY CompletedGrows
<1>2. AllSound(th', stopped'.completed)
  BY <1>1, ThreadsStaySound DEF AllSound, Sound
<1>3. EndsSound(ctx', stopped'.completed)
  BY <1>1, ContextsStaySound DEF EndsSound
<1>4. BooksSound(told', record', stopped'.completed)
  BY <1>1, BooksStaySound DEF BooksSound
<1> QED
  BY <1>1, <1>2, <1>3, <1>4, MessagesStaySound, PumpAndMessages, NodeStays, LockStays, LeftStays DEF IInv

(* The invariant of every run of the node.                                 *)
LEMMA AlwaysSound == Spec => []IInv
BY InitSound, StepSound, PTL DEF Spec

(* Type correctness of the whole sampling side, whatever starts mix.       *)
THEOREM TypeCorrect == Spec => []TypeOK
<1>1. IInv => TypeOK
  BY DEF IInv, TypeOK, NodeStates, PumpStates, MaybeAttempt, BooksSound
<1> QED BY <1>1, AlwaysSound, PTL

(* Success is published or recorded only of an attempt that the pump has   *)
(* completed: through the message, the context in which it may wait for    *)
(* the reply, the thread that handles it, and the cleanup after it; and    *)
(* with any number of threads in the middle of a start.                    *)
THEOREM SuccessIsOfThePump == Spec => []SuccessIsTrue
<1>1. IInv => SuccessIsTrue
  BY DEF IInv, BooksSound, SuccessIsTrue
<1> QED BY <1>1, AlwaysSound, PTL

-----------------------------------------------------------------------------
(* What a step is to the stops: of the node, the contexts and the threads  *)
(* only what decides what the pump may run and who clears it away.         *)

Spoken(b) == \E i \in 1..Len(status) : status[i].attempt = b

Only(t) == \A u \in Threads \ {t} : th'[u] = th[u]
Moves(t, p, q) == Only(t) /\ th[t].pc \in p /\ th'[t].pc = q
Keeps(t) == /\ th'[t].a = th[t].a /\ th'[t].exp = th[t].exp
            /\ th'[t].kind = th[t].kind /\ th'[t].stamp = th[t].stamp
Blank(x) == x.a = None /\ x.then = "none" /\ ~x.kept /\ ~x.saved
Rested(x) == Blank(x) /\ x.pc = "idle" /\ x.exp = None /\ x.kind = "none" /\ x.stamp = 0

SameSample == trg'.sampling = trg.sampling /\ trg'.current = trg.current
SamePrepared == trg'.prepared = trg.prepared
SameFinishing == trg'.finishing = trg.finishing
SameSurvey == trg'.survey = trg.survey /\ trg'.gen = trg.gen /\ trg'.live = trg.live
LessSurvey == (trg'.survey => trg.survey) /\ trg'.gen = trg.gen /\ trg'.live = trg.live
SameNode == SameSample /\ SamePrepared /\ SameFinishing /\ SameSurvey
SameOrigin(b) ==
  ctx'[b].source = ctx[b].source /\ ctx'[b].asked = ctx[b].asked /\ ctx'[b].gen = ctx[b].gen
SameContext(b) ==
  /\ SameOrigin(b) /\ ctx'[b].issued = ctx[b].issued /\ ctx'[b].named = ctx[b].named
  /\ ctx'[b].pending = ctx[b].pending
SameContexts == \A b \in Attempts : SameContext(b)
SamePump == pump'.owner = pump.owner /\ pump'.cutoff = pump.cutoff
SameHistory ==
  /\ stopped'.before = stopped.before /\ stopped'.surveys = stopped.surveys
  /\ stopped'.lost = stopped.lost
Silent == \A b \in Attempts : Spoken(b)' => Spoken(b)
(* The pump speaks of whom it has had.                                     *)
Speaks == \A b \in Attempts : Spoken(b)' => Spoken(b) \/ (pump.owner = b /\ pump'.owner # b)
SameWorld == SamePump /\ Silent /\ SameHistory

(* A thread goes on without anything else being done.                      *)
Starts(t) ==
  \/ /\ Moves(t, {"check"}, "claim") /\ Keeps(t) /\ lock' = lock
     /\ MayStart(t) /\ ~trg.sampling /\ th[t].kind \in {"manual", "fcu", "waypoint"}
  \/ /\ \E q \in {"prepare", "act"} : Moves(t, {"hold"}, q)
     /\ Keeps(t) /\ lock' = lock
  \/ /\ Moves(t, {"guard"}, "call") /\ lock \in {"free", t} /\ lock' = t
     /\ th'[t].a = th[t].a /\ th'[t].kind = th[t].kind
     /\ th'[t].exp = trg.current /\ trg.current # None
  \/ Moves(t, {"guard"}, "refused") /\ Keeps(t) /\ lock' = lock
  \/ /\ Moves(t, {"answer", "recanted"}, "refused") /\ Keeps(t)
     /\ lock' \in IF t = "loop" THEN {lock, t} ELSE {"free"}
  \/ /\ Moves(t, {"refused"}, "complete") /\ th[t].kind = "fcu"
     /\ th'[t].a = th[t].a /\ th'[t].exp = th[t].a /\ lock' = lock
  \/ Moves(t, {"refused"}, "look") /\ th[t].kind = "survey" /\ Keeps(t) /\ lock' = "free"
JoinsLock(t) ==
  \/ Moves(t, {"stop", "join"}, "claimStop") /\ Keeps(t) /\ lock = "free" /\ lock' = t
  \/ /\ Moves(t, {"stop"}, "halt") /\ lock' = lock
     /\ th'[t].a = trg.current /\ th'[t].exp = th[t].exp /\ th'[t].then = "join"
     /\ th'[t].stamp = th[t].stamp
Loops ==
  /\ Keeps("loop")
  /\ \/ Moves("loop", {"look"}, "enter") /\ MayStart("loop") /\ ~trg.sampling /\ lock' = lock
     \/ Moves("loop", {"look"}, "leave") /\ lock' = lock
     \/ Moves("loop", {"enter"}, "flags") /\ ~trg.finishing /\ lock = "free" /\ lock' = "loop"
     \/ Moves("loop", {"enter"}, "look") /\ lock' = lock
     \/ Moves("loop", {"flags", "started"}, "look") /\ lock' = "free"
(* A thread begins or comes to its end.                                    *)
Wakes(t) ==
  /\ t # "loop" /\ lock' = lock
  /\ \E q \in {"check", "stop"} : Moves(t, {"idle"}, q)
  /\ Blank(th'[t])
  /\ th'[t].pc = "stop" => th'[t].stamp = 0 /\ th'[t].exp \in {None, trg.current}
  /\ th'[t].pc = "check" => th'[t].exp = None
Rests(t) ==
  /\ Moves(t, {"check", "quit", "stop", "complete", "paused", "claimStop"}, "idle") /\ Rested(th'[t])
  /\ lock' = IF th[t].pc = "claimStop" THEN "free" ELSE lock
Pauses ==
  /\ Moves("lane", {"check"}, "paused") /\ lock' = lock
  /\ th'["lane"].a = th["lane"].a /\ th'["lane"].exp = trg.current
Local(t) ==
  /\ SameNode /\ SameContexts /\ SameWorld
  /\ Starts(t) \/ JoinsLock(t) \/ (t = "loop" /\ Loops) \/ Wakes(t) \/ Rests(t) \/ (t = "lane" /\ Pauses)

(* A thread calls the pump to clear an attempt, and the call returns.      *)
Cleans(t) ==
  /\ SameSample /\ SamePrepared /\ SameSurvey /\ SameContexts /\ SameHistory /\ lock' = lock
  /\ trg'.finishing
  /\ \E a \in Attempts : /\ a = IF th[t].pc = "answer" THEN th[t].exp ELSE th[t].a
                         /\ pump'.owner = IF pump.owner = a THEN None ELSE pump.owner
  /\ pump'.cutoff = pump.cutoff /\ Speaks
  /\ Only(t) /\ th'[t].pc = "cleaning"
  /\ Keeps(t) /\ th'[t].gen = th[t].gen /\ th'[t].kept = th[t].kept /\ th'[t].saved = trg.finishing
  /\ \/ th[t].pc = "prepare" /\ th'[t].then = "quit" /\ th[t].kind = "fcu"
     \/ th[t].pc = "answer" /\ th'[t].then = "recanted"
     \/ th[t].pc = "refused" /\ th'[t].then = "closeManual" /\ th[t].kind = "manual"
     \/ th[t].pc = "refused" /\ th'[t].then = "closeWaypoint" /\ th[t].kind = "waypoint"
     \/ th[t].pc = "refused" /\ th'[t].then = "closeSurvey" /\ th[t].kind = "survey"
     \/ th[t].pc = "cleanup" /\ th'[t].then = "report"
     \/ th[t].pc = "halt" /\ th'[t].then = th[t].then
     \/ t = "stop" /\ th[t].pc = "endSurvey" /\ th'[t].then = "reportSurvey"
Returns(t) ==
  /\ SameSample /\ SamePrepared /\ SameSurvey /\ SameContexts /\ SameWorld /\ lock' = lock
  /\ trg'.finishing = th[t].saved
  /\ Moves(t, {"cleaning"}, th[t].then) /\ Keeps(t)
  /\ th'[t].gen = th[t].gen /\ th'[t].kept = th[t].kept /\ th'[t].then = th[t].then

(* An attempt is made, put to the pump and accepted.                       *)
Claims(t) ==
  /\ SamePrepared /\ SameFinishing /\ SameSurvey /\ SameWorld /\ lock' = lock
  /\ Fresh \in Attempts /\ trg'.current = Fresh
  /\ trg'.sampling \/ (th[t].kind = "waypoint" /\ trg'.sampling = trg.sampling)
  /\ \A b \in Attempts \ {Fresh} : SameContext(b)
  /\ ctx'[Fresh].gen = trg.gen /\ ctx'[Fresh].pending = "none"
  /\ ctx'[Fresh].source = IF th[t].pc = "flags" THEN "survey" ELSE th[t].kind
  /\ th[t].kind # "waypoint" => ctx'[Fresh].asked = th[t].stamp
  /\ Only(t) /\ th'[t].a = Fresh /\ th'[t].exp = th[t].exp /\ th'[t].stamp = th[t].stamp
  /\ th'[t].kind = th[t].kind
  /\ \/ th[t].pc = "claim" /\ th[t].kind \in {"manual", "fcu"} /\ th'[t].pc = "prepare"
     \/ th[t].pc = "claim" /\ th[t].kind = "waypoint" /\ th'[t].pc = "hold"
     \/ t = "loop" /\ th[t].pc = "flags" /\ trg.survey /\ th'[t].pc = "prepare"
Prepares(t) ==
  /\ SameFinishing /\ SameSurvey /\ SameWorld /\ lock' = lock
  /\ trg'.current = trg.current /\ trg'.prepared = trg.current
  /\ trg'.sampling <=> trg.sampling \/ th[t].kind = "waypoint"
  /\ \A b \in Attempts \ {trg.current} : SameContext(b)
  /\ \A b \in Attempts \cap {trg.current} :
       /\ ctx'[b].asked = ctx[b].asked /\ ctx'[b].gen = ctx[b].gen /\ ctx'[b].pending = ctx[b].pending
       /\ ctx'[b].issued = Stamp(t) /\ ctx'[b].named
       /\ ctx'[b].source = IF th[t].kind = "survey" THEN "survey" ELSE ctx[b].source
  /\ Moves(t, {"prepare"}, "guard") /\ th'[t].kind = th[t].kind /\ th'[t].exp = th[t].exp
  /\ th'[t].a = IF th[t].kind = "survey" THEN trg.current ELSE th[t].a
Asked(t) ==
  /\ SameSample /\ SameFinishing /\ SameSurvey /\ SameContexts /\ Silent /\ SameHistory /\ lock' = lock
  /\ trg'.prepared = None /\ pump'.cutoff = pump.cutoff
  /\ \/ pump'.owner = pump.owner
     \/ /\ trg.prepared # None /\ pump'.owner = trg.prepared /\ pump.owner = None
        /\ ctx[trg.prepared].issued >= pump.cutoff
  /\ Moves(t, {"call"}, "answer") /\ Keeps(t)
Waits(x) == Blank(x) /\ x.pc = "complete" /\ x.exp \in Attempts /\ (Spoken(x.exp) \/ ctx[x.exp].pending # "none")
Woken(u, x) ==
  /\ th[u].pc = "idle" /\ u # "loop" /\ Blank(x)
  /\ \/ x.pc = "check" /\ x.exp = None
     \/ x.pc = "stop" /\ x.stamp = 0 /\ x.exp = trg.current
     \/ Waits(x)
OnlyWakes(t) == \A u \in Threads \ {t} : th'[u] = th[u] \/ Woken(u, th'[u])
Accepted(t) ==
  /\ SameNode /\ SameWorld
  /\ \A b \in Attempts : /\ SameOrigin(b) /\ ctx'[b].issued = ctx[b].issued /\ ctx'[b].named = ctx[b].named
                         /\ ctx'[b].pending # "none" => ctx[b].pending # "none"
  /\ OnlyWakes(t) /\ th[t].pc = "answer"
  /\ \/ t = "loop" /\ th'[t].pc = "started" /\ Keeps(t) /\ lock' = "loop"
     \/ t # "loop" /\ (Rested(th'[t]) \/ Waits(th'[t])) /\ lock' = "free"

(* What is closed.                                                         *)
ClosesManual(t) ==
  /\ SamePrepared /\ SameFinishing /\ SameSurvey /\ SameContexts /\ SameWorld /\ lock' = lock
  /\ IF trg.current = th[t].a THEN ~trg'.sampling /\ trg'.current = None ELSE SameSample
  /\ Moves(t, {"closeManual"}, "idle") /\ Rested(th'[t])
ClosesWaypoint(t) ==
  /\ trg'.current = trg.current /\ ~trg'.sampling
  /\ SamePrepared /\ SameFinishing /\ SameSurvey /\ SameContexts /\ SamePump /\ Silent /\ lock' = lock
  /\ stopped'.before = stopped.before /\ stopped'.surveys = stopped.surveys
  /\ stopped'.lost = stopped.lost \cup ({trg.current} \ {None, th[t].a})
  /\ \/ Moves(t, {"closeWaypoint"}, "idle") /\ Rested(th'[t])
     \/ Moves(t, {"closeWaypoint"}, "act") /\ Keeps(t)
ClosesSurvey(t) ==
  /\ ~trg'.sampling /\ trg'.current = None /\ ~trg'.survey /\ trg'.gen = trg.gen
  /\ SamePrepared /\ SameFinishing /\ SameContexts /\ SameWorld /\ lock' = "free"
  /\ Moves(t, {"closeSurvey"}, "leave") /\ Keeps(t)
Acts(t) ==
  /\ SameNode /\ SameContexts /\ SameWorld /\ lock' = lock
  /\ OnlyWakes(t) /\ th[t].pc = "act"
  /\ Rested(th'[t]) \/ (t = "retry" /\ Blank(th'[t]) /\ th'[t].pc = "check" /\ th'[t].exp = None)
Ends1(t) ==
  /\ trg.sampling /\ ~trg.finishing /\ trg.current = th[t].exp /\ th[t].exp \in Attempts
  /\ ~trg'.sampling /\ trg'.finishing /\ trg'.current \in {None, trg.current} /\ LessSurvey /\ SamePrepared
  /\ SameContexts /\ SameWorld /\ lock' = lock
  /\ \E q \in {"report", "cleanup"} : Moves(t, {"complete"}, q)
  /\ th'[t].a = th[t].exp /\ th'[t].exp = None
Reports(t) ==
  /\ trg'.sampling = trg.sampling /\ trg'.current \in {None, trg.current} /\ ~trg'.finishing
  /\ LessSurvey /\ SamePrepared /\ SameContexts /\ SameWorld /\ lock' = lock
  /\ OnlyWakes(t) /\ th[t].pc = "report"
  /\ Rested(th'[t]) \/ (t = "retry" /\ Blank(th'[t]) /\ th'[t].pc = "check" /\ th'[t].exp = None)
Delivers ==
  /\ SameSample /\ SamePrepared /\ SameFinishing /\ LessSurvey /\ SameWorld /\ lock' = lock
  /\ \A b \in Attempts : /\ SameOrigin(b) /\ ctx'[b].issued = ctx[b].issued /\ ctx'[b].named = ctx[b].named
                         /\ ctx'[b].pending # "none" => ctx[b].pending # "none" \/ Spoken(b)
  /\ \A u \in Threads : th'[u] = th[u] \/ Woken(u, th'[u])

(* What stops.                                                             *)
HaltsAll(t) ==
  /\ SameNode /\ SameContexts /\ Speaks /\ SameHistory /\ lock' = lock
  /\ pump'.owner = None /\ pump'.cutoff = pump.cutoff + 1
  /\ Moves(t, {"halt"}, th[t].then) /\ th'[t].then = th[t].then /\ th'[t].kept = th[t].kept
  /\ th'[t].a = th[t].a /\ th'[t].exp = th[t].exp /\ th'[t].stamp = pump'.cutoff
StopsAll1(t) ==
  /\ trg'.finishing /\ ~trg'.sampling /\ trg'.current = None /\ trg'.prepared = None
  /\ ~trg'.survey /\ trg'.gen = trg.gen
  /\ SameContexts /\ SameWorld /\ lock' = lock
  /\ \E q \in {"stopReport", "halt"} : Moves(t, {"claimStop"}, q)
  /\ th'[t].then = "stopReport" /\ th'[t].kept = trg.finishing /\ th'[t].stamp = th[t].stamp
  /\ th'[t].a \in {th[t].a, trg.current} /\ th'[t].exp = th[t].exp
ReportsStop(t) ==
  /\ trg'.sampling = trg.sampling /\ trg'.current \in {None, trg.current} /\ trg'.finishing = th[t].kept
  /\ SameSurvey /\ SamePrepared /\ SameContexts /\ SamePump /\ Silent /\ lock' = "free"
  /\ Moves(t, {"stopReport"}, "idle") /\ Rested(th'[t])
  /\ stopped'.before \in {stopped.before, th[t].stamp}
  /\ stopped'.surveys = stopped.surveys /\ stopped'.lost = stopped.lost

(* The survey.                                                             *)
StartsSurvey ==
  /\ ~trg.survey /\ ~trg.sampling /\ lock = "free"
  /\ trg'.survey /\ trg'.current = None /\ trg'.gen = trg.gen + 1 /\ trg'.live = trg'.gen
  /\ trg'.sampling = trg.sampling /\ SamePrepared /\ SameFinishing /\ SameContexts /\ SameWorld /\ lock' = lock
  /\ th["lane"].pc = "check" /\ th["loop"].pc \in {"idle", "look", "leave"}
  /\ \A u \in Threads \ {"lane", "loop"} : th'[u] = th[u]
  /\ Rested(th'["lane"])
  /\ Blank(th'["loop"]) /\ th'["loop"].pc = "look" /\ th'["loop"].exp = None /\ th'["loop"].kind = "survey"
LeavesSurvey ==
  /\ SameSample /\ SamePrepared /\ SameFinishing /\ LessSurvey /\ SameContexts /\ SameWorld
  /\ lock = "free" /\ lock' = lock
  /\ Moves("loop", {"leave"}, "idle") /\ Rested(th'["loop"])
StopsSurvey ==
  /\ trg.survey /\ ~trg'.survey /\ trg'.gen = trg.gen /\ ~trg'.sampling /\ trg'.current = None
  /\ trg'.prepared = None /\ SameFinishing /\ SameContexts /\ SameWorld /\ lock' = lock
  /\ Only("stop") /\ th["stop"].pc = "idle"
  /\ th'["stop"].pc = IF trg.current # None /\ ctx[trg.current].named THEN "endSurvey" ELSE "reportSurvey"
  /\ th'["stop"].a = trg.current /\ th'["stop"].exp = None /\ th'["stop"].gen = trg.live
ReportsSurvey ==
  /\ SameNode /\ SameContexts /\ SamePump /\ Silent /\ lock' = lock
  /\ stopped'.before = stopped.before /\ stopped'.lost = stopped.lost
  /\ stopped'.surveys \subseteq stopped.surveys \cup {th["stop"].gen}
  /\ Moves("stop", {"reportSurvey"}, "idle") /\ Rested(th'["stop"])

(* The pump, or nobody.                                                    *)
PumpMoves ==
  /\ trg' = trg /\ th' = th /\ ctx' = ctx /\ lock' = lock /\ SameHistory /\ Speaks
  /\ pump'.owner \in {None, Web} /\ pump'.cutoff >= pump.cutoff
Stands ==
  SameNode /\ SameContexts /\ SameWorld /\ th' = th /\ lock' = lock

ThreadMoves(t) ==
  \/ Local(t) \/ Cleans(t) \/ Returns(t) \/ Claims(t) \/ Prepares(t) \/ Asked(t) \/ Accepted(t)
  \/ ClosesManual(t) \/ ClosesWaypoint(t) \/ ClosesSurvey(t) \/ Acts(t) \/ Ends1(t) \/ Reports(t)
  \/ HaltsAll(t) \/ StopsAll1(t) \/ ReportsStop(t)
Moved ==
  \/ \E t \in Threads : ThreadMoves(t)
  \/ Delivers \/ StartsSurvey \/ LeavesSurvey \/ StopsSurvey \/ ReportsSurvey \/ PumpMoves \/ Stands

-----------------------------------------------------------------------------
(* The shapes of the variables.                                            *)
LEMMA Shapes ==
  ASSUME IInv
  PROVE  /\ trg \in NodeStates /\ lock \in {"free"} \cup Threads
         /\ th \in [Threads -> ThreadStates] /\ ctx \in [Attempts -> Contexts]
         /\ pump \in PumpStates /\ stopped \in Histories /\ status \in Seq(Messages)
         /\ \A t \in Threads : Placed(th[t])
         /\ {"lane", "stop", "watch", "service", "retry", "loop"} \subseteq Threads
         /\ Dones \subseteq Threads
BY DEF IInv, AllSound, Sound, EndsSound, MessagesSound, Threads

(* A thread goes to another place, and keeps what it has.                  *)
LEMMA GoMoves ==
  ASSUME th \in [Threads -> ThreadStates], NEW t \in Threads, NEW p, Go(t, p)
  PROVE  /\ Only(t) /\ th'[t].pc = p /\ Keeps(t)
         /\ th'[t].gen = th[t].gen /\ th'[t].kept = th[t].kept /\ th'[t].then = th[t].then
BY DEF Go, Only, Keeps, ThreadStates

(* A thread comes to its end.                                              *)
LEMMA DoneMoves ==
  ASSUME th \in [Threads -> ThreadStates], NEW t \in Threads, Done(t)
  PROVE  Only(t) /\ Rested(th'[t])
BY DEF Done, Only, Rested, Blank, Idle

(* An idle thread is at rest.                                              *)
LEMMA RestedIsIdle == Rested(Idle)
BY DEF Rested, Blank, Idle

(* A thread is changed as a whole.                                         *)
LEMMA OneMoves ==
  ASSUME th \in [Threads -> ThreadStates], NEW t \in Threads, NEW x, th' = [th EXCEPT ![t] = x]
  PROVE  Only(t) /\ th'[t] = x
BY DEF Only

(* The contexts stay what they are, but for notes.                         *)
LEMMA NotesOnly ==
  ASSUME ctx \in [Attempts -> Contexts], NEW a, NEW x, ctx' = [ctx EXCEPT ![a] = x],
         a \in Attempts => /\ x.source = ctx[a].source /\ x.asked = ctx[a].asked /\ x.gen = ctx[a].gen
                           /\ x.issued = ctx[a].issued /\ x.named = ctx[a].named
                           /\ x.pending = ctx[a].pending
  PROVE  SameContexts
BY DEF SameContexts, SameContext, SameOrigin

(* The contexts stay as they are.                                          *)
LEMMA NothingNoted ==
  ASSUME ctx' = ctx
  PROVE  SameContexts
BY DEF SameContexts, SameContext, SameOrigin

(* Neither the pump nor what is known of it changes.                       *)
LEMMA NothingElse ==
  ASSUME UNCHANGED <<pump, status, stopped>>
  PROVE  SameWorld
BY DEF SameWorld, SamePump, Silent, SameHistory, Spoken

(* The fields of the node stay as they are.                                *)
LEMMA NodeUnmoved ==
  ASSUME trg' = trg
  PROVE  SameNode
BY DEF SameNode, SameSample, SamePrepared, SameFinishing, SameSurvey

(* A message that is added is about the attempt that it names.             *)
LEMMA OneMessage ==
  ASSUME status \in Seq(Messages), NEW m \in Messages, status' = Append(status, m)
  PROVE  \A b \in Attempts : Spoken(b)' => Spoken(b) \/ b = m.attempt
BY DEF Spoken

(* What is left after a message is taken was there before.                 *)
LEMMA MessageTaken ==
  ASSUME status \in Seq(Messages), status # <<>>, status' = Tail(status)
  PROVE  Silent /\ (Head(status).attempt \in Attempts /\ Spoken(Head(status).attempt))
<1>1. Head(status) = status[1] /\ 1 \in 1..Len(status) /\ status[1] \in Messages
  OBVIOUS
<1>2. ASSUME NEW b \in Attempts, Spoken(b)'
      PROVE  Spoken(b)
  <2>1. PICK i \in 1..Len(status') : status'[i].attempt = b
    BY <1>2 DEF Spoken
  <2>2. status'[i] = status[i + 1] /\ i + 1 \in 1..Len(status)
    BY <2>1
  <2> QED BY <2>1, <2>2 DEF Spoken
<1> QED BY <1>1, <1>2 DEF Silent, Spoken, Messages

(* A cleanup.                                                              *)
LEMMA CleanupMoves ==
  ASSUME IInv, NEW t \in Threads, NEW a \in Attempts, NEW then, CleanupCall(t, a, then)
  PROVE  /\ SameSample /\ SamePrepared /\ SameSurvey /\ trg'.finishing
         /\ pump'.owner = (IF pump.owner = a THEN None ELSE pump.owner) /\ pump'.cutoff = pump.cutoff
         /\ Speaks
         /\ Only(t) /\ th'[t].pc = "cleaning" /\ th'[t].then = then
         /\ Keeps(t) /\ th'[t].gen = th[t].gen /\ th'[t].kept = th[t].kept
         /\ th'[t].saved = trg.finishing
<1>0. /\ trg \in NodeStates /\ th \in [Threads -> ThreadStates] /\ pump \in PumpStates
      /\ status \in Seq(Messages) /\ a # None
  BY Shapes DEF CleanupCall
<1>1. SameSample /\ SamePrepared /\ SameSurvey /\ trg'.finishing
  <2>1. trg' = [trg EXCEPT !.finishing = TRUE]
    BY DEF CleanupCall
  <2> QED BY <1>0, <2>1 DEF NodeStates, SameSample, SamePrepared, SameSurvey
<1>2. /\ pump'.owner = (IF pump.owner = a THEN None ELSE pump.owner)
      /\ pump'.cutoff = pump.cutoff
  <2>1. pump' = [pump EXCEPT !.owner = IF @ = a THEN None ELSE @, !.gone = @ \cup {a}]
    BY DEF CleanupCall
  <2> QED BY <1>0, <2>1 DEF PumpStates
<1>3. Speaks
  <2> DEFINE m == [attempt |-> a, kind |-> "fault"]
  <2>1. status' = IF pump.owner = a THEN Append(status, m) ELSE status
    BY DEF CleanupCall
  <2>2. m \in Messages /\ m.attempt = a
    BY DEF Messages, Ends
  <2> HIDE DEF m
  <2>3. CASE pump.owner = a
    <3>1. \A b \in Attempts : Spoken(b)' => Spoken(b) \/ b = a
      BY <1>0, <2>1, <2>2, <2>3, OneMessage
    <3> QED BY <1>0, <1>2, <2>3, <3>1 DEF Speaks
  <2>4. CASE pump.owner # a
    BY <2>1, <2>4 DEF Speaks, Spoken
  <2> QED BY <2>3, <2>4
<1>4. /\ Only(t) /\ th'[t].pc = "cleaning" /\ th'[t].then = then
      /\ Keeps(t) /\ th'[t].gen = th[t].gen /\ th'[t].kept = th[t].kept
      /\ th'[t].saved = trg.finishing
  <2>1. PICK c \in BOOLEAN :
          th' = [th EXCEPT ![t].pc = "cleaning", ![t].then = then, ![t].saved = trg.finishing,
                           ![t].seen = a, ![t].over = pump.owner \notin {None, a},
                           ![t].ok = c /\ pump.owner \in {None, a}]
    BY DEF CleanupCall
  <2> DEFINE over == pump.owner \notin {None, a}
             ok == c /\ pump.owner \in {None, a}
             saved == trg.finishing
             x == [th[t] EXCEPT !.pc = "cleaning", !.then = then, !.saved = saved,
                                !.seen = a, !.over = over, !.ok = ok]
  <2>2. th' = [th EXCEPT ![t] = x]
    BY <1>0, <2>1
  <2>3. Only(t) /\ th'[t] = x
    BY <1>0, <2>2, OneMoves
  <2>4. th[t] \in ThreadStates
    BY <1>0
  <2> HIDE DEF over, ok, saved
  <2>5. /\ x.pc = "cleaning" /\ x.then = then /\ x.saved = saved /\ x.a = th[t].a
        /\ x.exp = th[t].exp /\ x.kind = th[t].kind /\ x.stamp = th[t].stamp
        /\ x.gen = th[t].gen /\ x.kept = th[t].kept
    BY <2>4 DEF ThreadStates
  <2> HIDE DEF x
  <2> QED BY <2>3, <2>5 DEF Keeps, saved
<1> QED BY <1>1, <1>2, <1>3, <1>4

(* The starts.                                                             *)
LEMMA StartsMove ==
  ASSUME IInv, NEW t \in Threads, Check(t) \/ Hold(t) \/ Guard(t) \/ Recanted(t) \/ Quit(t)
  PROVE  Local(t)
<1>0. th \in [Threads -> ThreadStates] /\ trg \in NodeStates
  BY Shapes
<1>1. SameContexts /\ SameWorld /\ SameNode
  BY NothingNoted, NothingElse, NodeUnmoved DEF Check, Hold, Guard, Recanted, Quit
<1>2. CASE Check(t)
  <2>0. th[t].pc = "check" /\ lock' = lock
    BY <1>2 DEF Check
  <2>1. CASE Done(t)
    BY <1>0, <1>1, <2>0, <2>1, DoneMoves DEF Local, Rests, Rested, Moves
  <2>2. CASE ~Done(t)
    <3>1. Go(t, "claim") /\ ~trg.sampling /\ MayStart(t) /\ th[t].kind \in {"manual", "fcu", "waypoint"}
      BY <1>2, <2>2 DEF Check
    <3> QED BY <1>0, <1>1, <2>0, <3>1, GoMoves DEF Local, Starts, Moves
  <2> QED BY <2>1, <2>2
<1>3. CASE Hold(t)
  BY <1>0, <1>1, <1>3, GoMoves DEF Hold, Local, Starts, Moves
<1>4. CASE Guard(t)
  <2>1. CASE UNCHANGED lock /\ Go(t, "refused")
    BY <1>0, <1>1, <1>4, <2>1, GoMoves DEF Guard, Local, Starts, Moves
  <2>2. CASE ~(UNCHANGED lock /\ Go(t, "refused"))
    <3> DEFINE c == trg.current
               x == [th[t] EXCEPT !.pc = "call", !.exp = c]
    <3>1. th' = [th EXCEPT ![t] = x] /\ c # None /\ lock' = t /\ Free(t) /\ th[t].pc = "guard"
      BY <1>0, <1>4, <2>2 DEF Guard
    <3>2. Only(t) /\ th'[t] = x
      BY <1>0, <3>1, OneMoves
    <3>3. x.pc = "call" /\ x.exp = c /\ x.a = th[t].a /\ x.kind = th[t].kind
      BY <1>0 DEF ThreadStates
    <3> HIDE DEF x
    <3> QED BY <1>1, <3>1, <3>2, <3>3 DEF Local, Starts, Moves, Free
  <2> QED BY <2>1, <2>2
<1>5. CASE Recanted(t)
  BY <1>0, <1>1, <1>5, GoMoves DEF Recanted, Local, Starts, Moves
<1>6. CASE Quit(t)
  BY <1>0, <1>1, <1>6, DoneMoves DEF Quit, Local, Rests, Rested, Moves
<1> QED BY <1>2, <1>3, <1>4, <1>5, <1>6

(* An attempt is claimed.                                                  *)
LEMMA ClaimsMove ==
  ASSUME IInv, NEW t \in Threads, ClaimPoint(t) \/ ClaimWaypoint(t) \/ (t = "loop" /\ SurveyFlags)
  PROVE  Claims(t) \/ Local(t)
<1>0. /\ th \in [Threads -> ThreadStates] /\ trg \in NodeStates /\ th[t] \in ThreadStates
      /\ ctx \in [Attempts -> Contexts]
  BY Shapes
<1>1. CASE SurveyFlags /\ lock' = "free" /\ Go("loop", "look") /\ UNCHANGED <<trg, ctx>> /\ t = "loop"
  <2>1. SameContexts /\ SameWorld /\ SameNode
    BY <1>1, NothingNoted, NothingElse, NodeUnmoved DEF SurveyFlags
  <2> QED BY <1>0, <1>1, <2>1, GoMoves DEF SurveyFlags, Local, Loops, Moves
<1>2. ASSUME Fresh \in Attempts, UNCHANGED <<lock, pump, status, told, record, stopped, left>>,
             NEW source, NEW stamp, NEW retries, NewContext(Fresh, source, stamp, retries),
             NEW p, th' = [th EXCEPT ![t].pc = p, ![t].a = Fresh]
      PROVE  /\ lock' = lock /\ SameWorld /\ \A b \in Attempts \ {Fresh} : SameContext(b)
             /\ ctx'[Fresh].gen = trg.gen /\ ctx'[Fresh].pending = "none"
             /\ ctx'[Fresh].source = source /\ ctx'[Fresh].asked = stamp
             /\ Only(t) /\ th'[t].a = Fresh /\ th'[t].pc = p /\ th'[t].exp = th[t].exp
             /\ th'[t].stamp = th[t].stamp /\ th'[t].kind = th[t].kind
  <2> DEFINE f == Fresh
             x == [th[t] EXCEPT !.pc = p, !.a = f]
  <2>1. th' = [th EXCEPT ![t] = x]
    BY <1>0, <1>2
  <2>2. Only(t) /\ th'[t] = x
    BY <1>0, <2>1, OneMoves
  <2>3. /\ x.a = f /\ x.pc = p /\ x.exp = th[t].exp /\ x.stamp = th[t].stamp
        /\ x.kind = th[t].kind
    <3> HIDE DEF f
    <3> QED BY <1>0 DEF ThreadStates
  <2>4. /\ \A b \in Attempts \ {Fresh} : SameContext(b)
        /\ ctx'[Fresh].gen = trg.gen /\ ctx'[Fresh].pending = "none"
        /\ ctx'[Fresh].source = source /\ ctx'[Fresh].asked = stamp
    <3> DEFINE named == source # "survey"
               gen == trg.gen
               y == [NoContext EXCEPT !.source = source, !.asked = stamp, !.gen = gen,
                                      !.retries = retries, !.named = named]
    <3>1. ctx' = [ctx EXCEPT ![f] = y]
      BY <1>2 DEF NewContext
    <3>2. y.gen = gen /\ y.pending = "none" /\ y.source = source /\ y.asked = stamp
      <4> HIDE DEF named, gen
      <4> QED BY DEF NoContext
    <3> HIDE DEF y
    <3>3. ctx'[f] = y /\ \A b \in Attempts \ {f} : ctx'[b] = ctx[b]
      BY <1>0, <1>2, <3>1
    <3> QED BY <3>2, <3>3 DEF SameContext, SameOrigin
  <2>5. SameWorld
    BY <1>2, NothingElse
  <2> HIDE DEF x
  <2> QED BY <1>2, <2>2, <2>3, <2>4, <2>5
<1>3. CASE ClaimPoint(t)
  <2>1. /\ trg'.current = Fresh /\ trg'.sampling /\ trg'.prepared = trg.prepared
        /\ trg'.finishing = trg.finishing /\ trg'.survey = trg.survey /\ trg'.gen = trg.gen
        /\ trg'.live = trg.live
    <3> DEFINE f == Fresh
    <3>1. trg' = [trg EXCEPT !.current = f, !.sampling = TRUE, !.mission = "sampling"]
      BY <1>3 DEF ClaimPoint
    <3> HIDE DEF f
    <3>2. /\ trg'.current = f /\ trg'.sampling /\ trg'.prepared = trg.prepared
          /\ trg'.finishing = trg.finishing /\ trg'.survey = trg.survey /\ trg'.gen = trg.gen
          /\ trg'.live = trg.live
      BY <1>0, <3>1 DEF NodeStates
    <3> QED BY <3>2 DEF f
  <2>2. /\ Fresh \in Attempts /\ UNCHANGED <<lock, pump, status, told, record, stopped, left>>
        /\ NewContext(Fresh, th[t].kind, th[t].stamp, 0)
        /\ th' = [th EXCEPT ![t].pc = "prepare", ![t].a = Fresh]
        /\ th[t].pc = "claim" /\ th[t].kind \in {"manual", "fcu"}
    BY <1>3 DEF ClaimPoint
  <2>3. /\ lock' = lock /\ SameWorld /\ \A b \in Attempts \ {Fresh} : SameContext(b)
        /\ ctx'[Fresh].gen = trg.gen /\ ctx'[Fresh].pending = "none"
        /\ ctx'[Fresh].source = th[t].kind /\ ctx'[Fresh].asked = th[t].stamp
        /\ Only(t) /\ th'[t].a = Fresh /\ th'[t].pc = "prepare" /\ th'[t].exp = th[t].exp
        /\ th'[t].stamp = th[t].stamp /\ th'[t].kind = th[t].kind
    BY <1>2, <2>2
  <2> QED BY <2>1, <2>2, <2>3 DEF Claims, SamePrepared, SameFinishing, SameSurvey
<1>4. CASE ClaimWaypoint(t)
  <2>1. /\ trg'.current = Fresh /\ trg'.sampling = trg.sampling /\ trg'.prepared = trg.prepared
        /\ trg'.finishing = trg.finishing /\ trg'.survey = trg.survey /\ trg'.gen = trg.gen
        /\ trg'.live = trg.live
    <3> DEFINE f == Fresh
    <3>1. trg' = [trg EXCEPT !.current = f, !.mission = "idle"]
      BY <1>4 DEF ClaimWaypoint
    <3> HIDE DEF f
    <3>2. /\ trg'.current = f /\ trg'.sampling = trg.sampling /\ trg'.prepared = trg.prepared
          /\ trg'.finishing = trg.finishing /\ trg'.survey = trg.survey /\ trg'.gen = trg.gen
          /\ trg'.live = trg.live
      BY <1>0, <3>1 DEF NodeStates
    <3> QED BY <3>2 DEF f
  <2>2. /\ Fresh \in Attempts /\ UNCHANGED <<lock, pump, status, told, record, stopped, left>>
        /\ NewContext(Fresh, "waypoint", 0, th[t].stamp)
        /\ th' = [th EXCEPT ![t].pc = "hold", ![t].a = Fresh]
        /\ th[t].pc = "claim" /\ th[t].kind = "waypoint"
    BY <1>4 DEF ClaimWaypoint
  <2>3. /\ lock' = lock /\ SameWorld /\ \A b \in Attempts \ {Fresh} : SameContext(b)
        /\ ctx'[Fresh].gen = trg.gen /\ ctx'[Fresh].pending = "none"
        /\ ctx'[Fresh].source = "waypoint"
        /\ Only(t) /\ th'[t].a = Fresh /\ th'[t].pc = "hold" /\ th'[t].exp = th[t].exp
        /\ th'[t].stamp = th[t].stamp /\ th'[t].kind = th[t].kind
    BY <1>2, <2>2
  <2> QED BY <2>1, <2>2, <2>3 DEF Claims, SamePrepared, SameFinishing, SameSurvey
<1>5. CASE /\ SurveyFlags /\ trg.survey /\ Fresh \in Attempts /\ t = "loop"
           /\ NewContext(Fresh, "survey", th["loop"].stamp, 0)
           /\ trg' = [trg EXCEPT !.sampling = TRUE, !.sample = TRUE, !.current = Fresh]
           /\ th' = [th EXCEPT !["loop"].pc = "prepare", !["loop"].a = Fresh]
           /\ UNCHANGED lock
  <2>1. /\ trg'.current = Fresh /\ trg'.sampling /\ trg'.prepared = trg.prepared
        /\ trg'.finishing = trg.finishing /\ trg'.survey = trg.survey /\ trg'.gen = trg.gen
        /\ trg'.live = trg.live
    <3> DEFINE f == Fresh
    <3>1. trg' = [trg EXCEPT !.sampling = TRUE, !.sample = TRUE, !.current = f]
      BY <1>5
    <3> HIDE DEF f
    <3>2. /\ trg'.current = f /\ trg'.sampling /\ trg'.prepared = trg.prepared
          /\ trg'.finishing = trg.finishing /\ trg'.survey = trg.survey /\ trg'.gen = trg.gen
          /\ trg'.live = trg.live
      BY <1>0, <3>1 DEF NodeStates
    <3> QED BY <3>2 DEF f
  <2>2. UNCHANGED <<lock, pump, status, told, record, stopped, left>> /\ th[t].pc = "flags"
    BY <1>5 DEF SurveyFlags
  <2>3. /\ lock' = lock /\ SameWorld /\ \A b \in Attempts \ {Fresh} : SameContext(b)
        /\ ctx'[Fresh].gen = trg.gen /\ ctx'[Fresh].pending = "none"
        /\ ctx'[Fresh].source = "survey" /\ ctx'[Fresh].asked = th[t].stamp
        /\ Only(t) /\ th'[t].a = Fresh /\ th'[t].pc = "prepare" /\ th'[t].exp = th[t].exp
        /\ th'[t].stamp = th[t].stamp /\ th'[t].kind = th[t].kind
    BY <1>2, <1>5, <2>2
  <2> QED BY <1>5, <2>1, <2>2, <2>3 DEF Claims, SamePrepared, SameFinishing, SameSurvey
<1> QED BY <1>1, <1>3, <1>4, <1>5 DEF SurveyFlags

(* The payload of a start is made, or the start is given up.               *)
LEMMA PrepareMoves ==
  ASSUME IInv, NEW t \in Threads, Prepare(t)
  PROVE  Prepares(t) \/ Cleans(t)
<1>0. /\ th \in [Threads -> ThreadStates] /\ trg \in NodeStates /\ th[t] \in ThreadStates
      /\ ctx \in [Attempts -> Contexts] /\ trg.current \in {None} \cup Attempts
      /\ th[t].pc = "prepare" /\ th[t].a \in {None} \cup Attempts
  BY Shapes DEF Prepare, NodeStates, ThreadStates, MaybeAttempt
<1>1. CASE th[t].kind = "fcu" /\ trg.current # th[t].a
  <2>1. CleanupCall(t, th[t].a, "quit") /\ UNCHANGED <<lock, ctx, told, record, stopped>>
    BY <1>1 DEF Prepare
  <2>2. th[t].a \in Attempts
    BY <1>0, <2>1 DEF CleanupCall
  <2>3. SameContexts /\ SameHistory
    BY <2>1, NothingNoted DEF SameHistory
  <2> QED BY <1>0, <1>1, <2>1, <2>2, <2>3, CleanupMoves DEF Cleans
<1>2. CASE ~(th[t].kind = "fcu" /\ trg.current # th[t].a)
  <2> DEFINE c == trg.current
             survey == th[t].kind = "survey"
             a == IF survey THEN c ELSE th[t].a
             waypoint == th[t].kind = "waypoint"
  <2>1. UNCHANGED <<lock, pump, status, told, record, stopped, left>>
    BY <1>2 DEF Prepare
  <2>2. /\ trg'.current = c /\ trg'.prepared = c /\ SameFinishing /\ SameSurvey
        /\ trg'.sampling <=> trg.sampling \/ waypoint
    <3> DEFINE owner == IF survey THEN c ELSE trg.owner
               sampling == trg.sampling \/ waypoint
               mission == IF waypoint THEN "sampling" ELSE trg.mission
    <3>1. trg' = [trg EXCEPT !.prepared = c, !.owner = owner, !.sampling = sampling, !.mission = mission]
      BY <1>0, <1>2 DEF Prepare, NodeStates
    <3> HIDE DEF owner, sampling, mission
    <3>2. /\ trg'.current = c /\ trg'.prepared = c /\ SameFinishing /\ SameSurvey
          /\ trg'.sampling = sampling
      BY <1>0, <3>1 DEF NodeStates, SameFinishing, SameSurvey
    <3> QED BY <3>2 DEF sampling
  <2>3. Only(t) /\ th'[t].pc = "guard" /\ th'[t].a = a /\ th'[t].kind = th[t].kind /\ th'[t].exp = th[t].exp
    <3>1. th' = [th EXCEPT ![t].pc = "guard", ![t].a = a]
      BY <1>0, <1>2 DEF Prepare, ThreadStates
    <3> HIDE DEF a
    <3> DEFINE x == [th[t] EXCEPT !.pc = "guard", !.a = a]
    <3>4. th' = [th EXCEPT ![t] = x]
      BY <1>0, <3>1
    <3>2. Only(t) /\ th'[t] = x
      BY <1>0, <3>4, OneMoves
    <3>3. x.pc = "guard" /\ x.a = a /\ x.kind = th[t].kind /\ x.exp = th[t].exp
      BY <1>0 DEF ThreadStates
    <3> HIDE DEF x
    <3> QED BY <3>2, <3>3
  <2>4. /\ \A b \in Attempts \ {c} : SameContext(b)
        /\ c \in Attempts => /\ ctx'[c].asked = ctx[c].asked /\ ctx'[c].gen = ctx[c].gen
                             /\ ctx'[c].pending = ctx[c].pending
                             /\ ctx'[c].issued = Stamp(t) /\ ctx'[c].named
                             /\ ctx'[c].source = IF survey THEN "survey" ELSE ctx[c].source
    <3>1. CASE c = None
      <4>1. ctx' = ctx
        BY <1>2, <3>1 DEF Prepare
      <4> QED BY <3>1, <4>1, NothingNoted DEF SameContexts, None, Attempts
    <3>2. CASE c # None
      <4> DEFINE source == IF survey THEN "survey" ELSE ctx[c].source
                 stamp == Stamp(t)
                 y == [ctx[c] EXCEPT !.started = FALSE, !.named = TRUE, !.source = source, !.issued = stamp]
      <4>1. c \in Attempts
        BY <1>0, <3>2
      <4>2. ctx' = [ctx EXCEPT ![c] = y]
        BY <1>0, <1>2, <3>2, <4>1 DEF Prepare, Contexts
      <4>3. ctx'[c] = y /\ \A b \in Attempts \ {c} : ctx'[b] = ctx[b]
        BY <1>0, <4>1, <4>2
      <4>4. ctx[c] \in Contexts
        BY <1>0, <4>1
      <4>5. /\ y.asked = ctx[c].asked /\ y.gen = ctx[c].gen /\ y.pending = ctx[c].pending
            /\ y.issued = stamp /\ y.named /\ y.source = source
        <5> HIDE DEF source, stamp
        <5> QED BY <4>4 DEF Contexts
      <4> HIDE DEF y
      <4> QED BY <4>3, <4>5 DEF SameContext, SameOrigin
    <3> QED BY <3>1, <3>2
  <2>5. SameWorld
    BY <2>1, NothingElse
  <2> QED BY <1>0, <2>1, <2>2, <2>3, <2>4, <2>5 DEF Prepares, Moves
<1> QED BY <1>1, <1>2

(* The pump is asked, with what was prepared.                              *)
LEMMA CallMoves ==
  ASSUME IInv, NEW t \in Threads, Call(t)
  PROVE  Asked(t)
<1>0. /\ th \in [Threads -> ThreadStates] /\ trg \in NodeStates /\ th[t] \in ThreadStates
      /\ pump \in PumpStates
  BY Shapes
<1>1. SameSample /\ SameFinishing /\ SameSurvey /\ trg'.prepared = None
  <2>1. trg' = [trg EXCEPT !.prepared = None]
    BY DEF Call
  <2> QED BY <1>0, <2>1 DEF NodeStates, SameSample, SameFinishing, SameSurvey
<1>2. UNCHANGED <<lock, ctx, status, stopped>>
  BY DEF Call
<1>3. SameContexts /\ Silent /\ SameHistory
  BY <1>2, NothingNoted DEF Silent, SameHistory, Spoken
<1> DEFINE p == trg.prepared
<1>4. PICK admitted \in IF p # None /\ Admits(p) THEN BOOLEAN ELSE {FALSE},
           heard \in {TRUE} \cup (IF left.troubles > 0 THEN {FALSE} ELSE {}) :
        /\ pump' = IF admitted THEN [pump EXCEPT !.owner = p] ELSE pump
        /\ th' = [th EXCEPT ![t].pc = "answer", ![t].ok = admitted /\ heard,
                            ![t].seen = IF trg.current = p THEN p ELSE None]
  BY DEF Call
<1>5. /\ pump'.cutoff = pump.cutoff
      /\ \/ pump'.owner = pump.owner
         \/ p # None /\ pump'.owner = p /\ pump.owner = None /\ ctx[p].issued >= pump.cutoff
  <2> HIDE DEF p
  <2> QED BY <1>0, <1>4 DEF PumpStates, Admits
<1>6. Only(t) /\ th'[t].pc = "answer" /\ Keeps(t)
  <2> DEFINE ok == admitted /\ heard
             seen == IF trg.current = p THEN p ELSE None
             x == [th[t] EXCEPT !.pc = "answer", !.ok = ok, !.seen = seen]
  <2>1. th' = [th EXCEPT ![t] = x]
    BY <1>0, <1>4
  <2>2. Only(t) /\ th'[t] = x
    BY <1>0, <2>1, OneMoves
  <2> HIDE DEF ok, seen
  <2>3. /\ x.pc = "answer" /\ x.a = th[t].a /\ x.exp = th[t].exp /\ x.kind = th[t].kind
        /\ x.stamp = th[t].stamp
    BY <1>0 DEF ThreadStates
  <2> HIDE DEF x
  <2> QED BY <2>2, <2>3 DEF Keeps
<1>7. th[t].pc = "call"
  BY DEF Call
<1> HIDE DEF p
<1> QED BY <1>1, <1>2, <1>3, <1>5, <1>6, <1>7 DEF Asked, Moves, p

(* A thread that is woken for the end of an attempt.                       *)
LEMMA SpawnWakes ==
  ASSUME NEW threads, threads \in [Threads -> ThreadStates], NEW a \in Attempts, NEW kind,
         Spawn(a, kind, threads), Spoken(a) \/ ctx[a].pending # "none"
  PROVE  \E d \in Threads \ {"loop"} :
           /\ threads[d].pc = "idle" /\ Waits(th'[d])
           /\ \A u \in Threads \ {d} : th'[u] = threads[u]
<1> DEFINE x == [Idle EXCEPT !.pc = "complete", !.exp = a, !.end = kind]
<1>1. PICK d \in Dones : threads[d].pc = "idle" /\ th' = [threads EXCEPT ![d] = x]
  BY DEF Spawn
<1>2. d \in Threads \ {"loop"}
  BY DonesAreApart DEF Threads
<1>3. Waits(x)
  BY DEF Waits, Blank, Idle
<1> HIDE DEF x
<1>4. th'[d] = x /\ \A u \in Threads \ {d} : th'[u] = threads[u]
  BY <1>1, <1>2
<1> QED BY <1>1, <1>2, <1>3, <1>4

(* The retry of a waypoint is woken, or nobody.                            *)
LEMMA FailureWakes ==
  ASSUME IInv, NEW t \in Threads, FailureAction([th EXCEPT ![t] = Idle])
  PROVE  /\ OnlyWakes(t) /\ SameContexts
         /\ Rested(th'[t]) \/ (t = "retry" /\ Blank(th'[t]) /\ th'[t].pc = "check" /\ th'[t].exp = None)
<1>0. /\ th \in [Threads -> ThreadStates] /\ ctx \in [Attempts -> Contexts] /\ "retry" \in Threads
      /\ trg.current \in MaybeAttempt
  BY Shapes DEF NodeStates
<1> DEFINE threads == [th EXCEPT ![t] = Idle]
           c == trg.current
<1>1. threads[t] = Idle /\ \A u \in Threads \ {t} : threads[u] = th[u]
  BY <1>0
<1>2. CASE c # None /\ ctx[c].retries > 0
  <2> DEFINE x == [Idle EXCEPT !.pc = "check", !.kind = "waypoint", !.stamp = ctx[c].retries - 1]
             y == [ctx[c] EXCEPT !.retries = ctx[c].retries - 1]
  <2>1. /\ threads["retry"].pc = "idle" /\ th' = [threads EXCEPT !["retry"] = x]
        /\ ctx' = [ctx EXCEPT ![c] = y]
    BY <1>2 DEF FailureAction
  <2>2. Blank(x) /\ x.pc = "check" /\ x.exp = None
    BY DEF Blank, Idle
  <2>3. ctx[c] \in Contexts
    BY <1>0, <1>2 DEF MaybeAttempt
  <2>4. /\ y.source = ctx[c].source /\ y.asked = ctx[c].asked /\ y.gen = ctx[c].gen
        /\ y.issued = ctx[c].issued /\ y.named = ctx[c].named /\ y.pending = ctx[c].pending
    BY <2>3 DEF Contexts
  <2> HIDE DEF x, y
  <2>5. SameContexts
    BY <1>0, <2>1, <2>4, NotesOnly
  <2>6. th'["retry"] = x /\ \A u \in Threads \ {"retry"} : th'[u] = threads[u]
    BY <1>0, <2>1
  <2>7. OnlyWakes(t)
    BY <1>0, <1>1, <2>1, <2>2, <2>6 DEF OnlyWakes, Woken
  <2> QED BY <1>1, <2>2, <2>5, <2>6, <2>7, RestedIsIdle
<1>3. CASE ~(c # None /\ ctx[c].retries > 0)
  <2>1. th' = threads /\ ctx' = ctx
    BY <1>3 DEF FailureAction
  <2> QED BY <1>1, <2>1, NothingNoted, RestedIsIdle DEF OnlyWakes
<1> QED BY <1>2, <1>3

(* A start is answered.                                                    *)
LEMMA AnswerMoves ==
  ASSUME IInv, NEW t \in Threads, Answer(t)
  PROVE  Accepted(t) \/ Cleans(t) \/ Local(t)
<1> DEFINE a == th[t].exp
           held == IF t = "loop" THEN t ELSE "free"
           mine == trg.sampling /\ trg.current = a /\ ~ctx[a].cancel
<1>0. /\ th \in [Threads -> ThreadStates] /\ trg \in NodeStates /\ th[t] \in ThreadStates
      /\ ctx \in [Attempts -> Contexts] /\ th[t].pc = "answer" /\ a \in Attempts
      /\ UNCHANGED <<told, record, stopped>> /\ th[t].seen \in MaybeAttempt
  BY Shapes DEF Answer, Placed, Asks, ThreadStates, MaybeAttempt
<1>1. CASE th[t].ok /\ mine
  <2> DEFINE back == [th EXCEPT ![t] = IF t = "loop" THEN [@ EXCEPT !.pc = "started"] ELSE Idle]
             y == [ctx[a] EXCEPT !.started = TRUE, !.pending = "none", !.answered = TRUE]
  <2>1. /\ ctx' = [ctx EXCEPT ![a].started = TRUE, ![a].pending = "none", ![a].answered = TRUE]
        /\ HandleEnd(a, back) /\ lock' = held /\ UNCHANGED <<trg, pump, status, left>>
    BY <1>0, <1>1 DEF Answer
  <2>2. SameNode /\ SameWorld
    BY <1>0, <2>1, NodeUnmoved, NothingElse
  <2>3. \A b \in Attempts : /\ SameOrigin(b) /\ ctx'[b].issued = ctx[b].issued /\ ctx'[b].named = ctx[b].named
                            /\ ctx'[b].pending # "none" => ctx[b].pending # "none"
    <3>1. ctx' = [ctx EXCEPT ![a] = y]
      BY <1>0, <2>1
    <3>2. /\ y.source = ctx[a].source /\ y.asked = ctx[a].asked /\ y.gen = ctx[a].gen
          /\ y.issued = ctx[a].issued /\ y.named = ctx[a].named /\ y.pending = "none"
      BY <1>0 DEF Contexts
    <3> HIDE DEF y, a
    <3>3. ctx'[a] = y /\ \A b \in Attempts \ {a} : ctx'[b] = ctx[b]
      BY <1>0, <3>1
    <3> QED BY <3>2, <3>3 DEF SameOrigin
  <2>4. /\ \A u \in Threads \ {t} : back[u] = th[u]
        /\ back[t] = IF t = "loop" THEN [th[t] EXCEPT !.pc = "started"] ELSE Idle
    BY <1>0
  <2>5. IF t = "loop" THEN /\ back[t].pc = "started" /\ back[t].a = th[t].a /\ back[t].exp = th[t].exp
                           /\ back[t].kind = th[t].kind /\ back[t].stamp = th[t].stamp
                      ELSE Rested(back[t])
    BY <1>0, <2>4, RestedIsIdle DEF ThreadStates
  <2>6. back \in [Threads -> ThreadStates]
    BY <1>0, IdleSound DEF ThreadStates, Labels
  <2> HIDE DEF back
  <2>7. CASE th' = back
    BY <1>0, <2>1, <2>2, <2>3, <2>4, <2>5, <2>7 DEF Accepted, OnlyWakes, Keeps
  <2>8. CASE th' # back
    <3>1. Spawn(a, ctx[a].pending, back) /\ ctx[a].pending # "none"
      BY <2>1, <2>8 DEF HandleEnd
    <3>2. PICK d \in Threads \ {"loop"} : /\ back[d].pc = "idle" /\ Waits(th'[d])
                                          /\ \A u \in Threads \ {d} : th'[u] = back[u]
      BY <1>0, <2>6, <3>1, SpawnWakes
    <3>3. OnlyWakes(t)
      BY <2>4, <3>2 DEF OnlyWakes, Woken, Waits
    <3>4. t # "loop" => Rested(th'[t]) \/ Waits(th'[t])
      BY <2>5, <3>2
    <3>5. t = "loop" => th'[t].pc = "started" /\ Keeps(t)
      BY <2>5, <3>2 DEF Keeps
    <3> QED BY <1>0, <2>1, <2>2, <2>3, <3>3, <3>4, <3>5 DEF Accepted
  <2> QED BY <2>7, <2>8
<1>2. CASE th[t].ok /\ ~mine
  <2> DEFINE y == [ctx[a] EXCEPT !.answered = TRUE]
  <2>1. CleanupCall(t, a, "recanted") /\ ctx' = [ctx EXCEPT ![a].answered = TRUE] /\ UNCHANGED lock
    BY <1>0, <1>2 DEF Answer
  <2>2. ctx' = [ctx EXCEPT ![a] = y]
    BY <1>0, <2>1
  <2>3. /\ y.source = ctx[a].source /\ y.asked = ctx[a].asked /\ y.gen = ctx[a].gen
        /\ y.issued = ctx[a].issued /\ y.named = ctx[a].named /\ y.pending = ctx[a].pending
    BY <1>0 DEF Contexts
  <2> HIDE DEF y
  <2>4. SameContexts
    BY <1>0, <2>2, <2>3, NotesOnly
  <2>5. SameHistory
    BY <1>0 DEF SameHistory
  <2> QED BY <1>0, <2>1, <2>4, <2>5, CleanupMoves DEF Cleans
<1>3. CASE ~th[t].ok
  <2>1. /\ ctx' = (IF th[t].seen = None THEN ctx ELSE Rejected(th[t].seen)) /\ lock' = held
        /\ Go(t, "refused") /\ UNCHANGED <<trg, pump, status, left>>
    BY <1>0, <1>3 DEF Answer
  <2>2. SameNode /\ SameWorld
    BY <1>0, <2>1, NodeUnmoved, NothingElse
  <2>3. SameContexts
    <3>1. CASE th[t].seen = None
      BY <2>1, <3>1, NothingNoted
    <3>2. CASE th[t].seen # None
      <4> DEFINE s == th[t].seen
                 reason == IF ctx[s].reason # "none" THEN ctx[s].reason
                           ELSE IF ctx[s].cancel THEN "stop" ELSE "fault"
                 y == [ctx[s] EXCEPT !.answered = TRUE, !.reason = reason]
      <4>1. s \in Attempts /\ ctx[s] \in Contexts
        BY <1>0, <3>2 DEF MaybeAttempt
      <4>2. ctx' = [ctx EXCEPT ![s] = y]
        BY <1>0, <2>1, <3>2, <4>1 DEF Rejected, Contexts
      <4> HIDE DEF reason
      <4>3. /\ y.source = ctx[s].source /\ y.asked = ctx[s].asked /\ y.gen = ctx[s].gen
            /\ y.issued = ctx[s].issued /\ y.named = ctx[s].named /\ y.pending = ctx[s].pending
        BY <4>1 DEF Contexts
      <4> HIDE DEF y, s
      <4> QED BY <1>0, <4>2, <4>3, NotesOnly
    <3> QED BY <3>1, <3>2
  <2> QED BY <1>0, <2>1, <2>2, <2>3, GoMoves DEF Local, Starts, Moves
<1> QED BY <1>1, <1>2, <1>3

(* A start that was refused is cleared away.                               *)
LEMMA RefusedMoves ==
  ASSUME IInv, NEW t \in Threads, Refused(t)
  PROVE  Cleans(t) \/ Local(t)
<1> DEFINE a == th[t].a
<1>0. /\ th \in [Threads -> ThreadStates] /\ trg \in NodeStates /\ th[t] \in ThreadStates
      /\ ctx \in [Attempts -> Contexts] /\ th[t].pc = "refused" /\ a \in MaybeAttempt
      /\ UNCHANGED <<told, record, stopped>>
  BY Shapes DEF Refused, ThreadStates
<1>1. ASSUME NEW then, CleanupCall(t, a, then)
      PROVE  a \in Attempts
  BY <1>0, <1>1 DEF CleanupCall, MaybeAttempt
<1>2. SameHistory
  BY <1>0 DEF SameHistory
<1>3. CASE th[t].kind = "manual"
  <2> DEFINE reason == IF ctx[a].reason # "none" THEN ctx[a].reason
                       ELSE IF ctx[a].cancel THEN "stop" ELSE "fault"
             y == [ctx[a] EXCEPT !.reason = reason]
  <2>1. /\ CleanupCall(t, a, "closeManual") /\ UNCHANGED lock
        /\ ctx' = [ctx EXCEPT ![a].reason =
             IF @ # "none" THEN @ ELSE IF ctx[a].cancel THEN "stop" ELSE "fault"]
    BY <1>0, <1>3 DEF Refused
  <2>2. a \in Attempts /\ ctx[a] \in Contexts
    BY <1>0, <1>1, <2>1
  <2>3. ctx' = [ctx EXCEPT ![a] = y]
    BY <1>0, <2>1, <2>2 DEF Contexts
  <2> HIDE DEF reason
  <2>4. /\ y.source = ctx[a].source /\ y.asked = ctx[a].asked /\ y.gen = ctx[a].gen
        /\ y.issued = ctx[a].issued /\ y.named = ctx[a].named /\ y.pending = ctx[a].pending
    BY <2>2 DEF Contexts
  <2> HIDE DEF y
  <2>5. SameContexts
    BY <1>0, <2>3, <2>4, NotesOnly
  <2> QED BY <1>0, <1>2, <1>3, <2>1, <2>2, <2>5, CleanupMoves DEF Cleans
<1>4. CASE th[t].kind = "waypoint"
  <2>1. CleanupCall(t, a, "closeWaypoint") /\ UNCHANGED <<ctx, lock>>
    BY <1>0, <1>4 DEF Refused
  <2> QED BY <1>0, <1>1, <1>2, <1>4, <2>1, CleanupMoves, NothingNoted DEF Cleans
<1>5. CASE th[t].kind = "fcu"
  <2> DEFINE x == [th[t] EXCEPT !.pc = "complete", !.exp = a, !.end = "fault"]
  <2>1. /\ th' = [th EXCEPT ![t].pc = "complete", ![t].exp = a, ![t].end = "fault"]
        /\ UNCHANGED <<ctx, lock, trg, pump, status, left>>
    BY <1>0, <1>5 DEF Refused
  <2>2. th' = [th EXCEPT ![t] = x]
    BY <1>0, <2>1
  <2>3. Only(t) /\ th'[t] = x
    BY <1>0, <2>2, OneMoves
  <2>4. x.pc = "complete" /\ x.exp = a /\ x.a = a
    <3> HIDE DEF a
    <3>1. x.pc = "complete" /\ x.exp = a /\ x.a = th[t].a
      BY <1>0 DEF ThreadStates
    <3> QED BY <3>1 DEF a
  <2> HIDE DEF x
  <2>5. SameNode /\ SameWorld /\ SameContexts
    BY <1>0, <2>1, NodeUnmoved, NothingElse, NothingNoted
  <2> QED BY <1>0, <1>5, <2>1, <2>3, <2>4, <2>5 DEF Local, Starts, Moves
<1>6. CASE th[t].kind = "survey"
  <2>1. CASE trg.survey /\ trg.current = a /\ a # None
    <3>1. CleanupCall(t, a, "closeSurvey") /\ UNCHANGED <<lock, ctx>>
      BY <1>0, <1>6, <2>1 DEF Refused
    <3> QED BY <1>0, <1>1, <1>2, <1>6, <3>1, CleanupMoves, NothingNoted DEF Cleans
  <2>2. CASE ~(trg.survey /\ trg.current = a /\ a # None)
    <3>1. Go(t, "look") /\ lock' = "free" /\ UNCHANGED <<trg, pump, status, left, ctx>>
      BY <1>0, <1>6, <2>2 DEF Refused
    <3>2. SameNode /\ SameWorld /\ SameContexts
      BY <1>0, <3>1, NodeUnmoved, NothingElse, NothingNoted
    <3> QED BY <1>0, <1>6, <3>1, <3>2, GoMoves DEF Local, Starts, Moves
  <2> QED BY <2>1, <2>2
<1> QED BY <1>0, <1>3, <1>4, <1>5, <1>6 DEF Refused

(* What is closed, and the failure that is acted on.                       *)
LEMMA ClosesMove ==
  ASSUME IInv, NEW t \in Threads, CloseManual(t) \/ CloseWaypoint(t) \/ CloseSurvey(t) \/ Act(t)
  PROVE  ThreadMoves(t)
<1>0. /\ th \in [Threads -> ThreadStates] /\ trg \in NodeStates /\ th[t] \in ThreadStates
      /\ ctx \in [Attempts -> Contexts] /\ stopped \in Histories
  BY Shapes
<1>1. CASE CloseManual(t)
  <2>1. /\ th[t].pc = "closeManual" /\ Done(t) /\ UNCHANGED <<lock, ctx, pump, status, stopped, left>>
        /\ trg' = IF trg.current # th[t].a THEN trg
                  ELSE [trg EXCEPT !.sampling = FALSE, !.current = None, !.mission = "idle"]
    BY <1>1 DEF CloseManual
  <2>2. SameContexts /\ SameWorld
    BY <2>1, NothingNoted, NothingElse
  <2>3. /\ SamePrepared /\ SameFinishing /\ SameSurvey
        /\ IF trg.current = th[t].a THEN ~trg'.sampling /\ trg'.current = None ELSE SameSample
    <3>1. CASE trg.current # th[t].a
      BY <2>1, <3>1, NodeUnmoved DEF SameNode
    <3>2. CASE trg.current = th[t].a
      <4>1. trg' = [trg EXCEPT !.sampling = FALSE, !.current = None, !.mission = "idle"]
        BY <2>1, <3>2
      <4> QED BY <1>0, <3>2, <4>1 DEF NodeStates, SamePrepared, SameFinishing, SameSurvey
    <3> QED BY <3>1, <3>2
  <2>4. ClosesManual(t)
    BY <1>0, <2>1, <2>2, <2>3, DoneMoves DEF ClosesManual, Moves, Rested
  <2> QED BY <2>4 DEF ThreadMoves
<1>2. CASE CloseWaypoint(t)
  <2>1. /\ th[t].pc = "closeWaypoint" /\ UNCHANGED <<lock, pump, status, told, left>>
        /\ trg' = [trg EXCEPT !.sampling = FALSE, !.mission = IF th[t].over THEN @ ELSE "idle"]
        /\ ctx' = IF th[t].over \/ th[t].ok THEN ctx ELSE [ctx EXCEPT ![th[t].a].retries = 0]
        /\ stopped' = [stopped EXCEPT !.lost = @ \cup ({trg.current} \ {None, th[t].a})]
        /\ Done(t) \/ Go(t, "act")
    BY <1>2 DEF CloseWaypoint
  <2>2. /\ trg'.current = trg.current /\ ~trg'.sampling
        /\ SamePrepared /\ SameFinishing /\ SameSurvey
    <3> DEFINE mission == IF th[t].over THEN trg.mission ELSE "idle"
    <3>1. trg' = [trg EXCEPT !.sampling = FALSE, !.mission = mission]
      BY <1>0, <2>1 DEF NodeStates
    <3> HIDE DEF mission
    <3> QED BY <1>0, <3>1 DEF NodeStates, SamePrepared, SameFinishing, SameSurvey
  <2>3. SameContexts
    <3>1. CASE ctx' = ctx
      BY <3>1, NothingNoted
    <3>2. CASE ctx' # ctx
      <4> DEFINE s == th[t].a
                 y == [ctx[s] EXCEPT !.retries = 0]
      <4>1. ctx' = [ctx EXCEPT ![s] = y]
        BY <2>1, <3>2
      <4>2. s \in Attempts => ctx[s] \in Contexts
        BY <1>0
      <4>3. s \in Attempts => /\ y.source = ctx[s].source /\ y.asked = ctx[s].asked /\ y.gen = ctx[s].gen
                              /\ y.issued = ctx[s].issued /\ y.named = ctx[s].named
                              /\ y.pending = ctx[s].pending
        BY <4>2 DEF Contexts
      <4> HIDE DEF y, s
      <4> QED BY <1>0, <4>1, <4>3, NotesOnly
    <3> QED BY <3>1, <3>2
  <2>4. /\ stopped'.before = stopped.before /\ stopped'.surveys = stopped.surveys
        /\ stopped'.lost = stopped.lost \cup ({trg.current} \ {None, th[t].a})
    BY <1>0, <2>1 DEF Histories
  <2>5. SamePump /\ Silent
    BY <2>1 DEF SamePump, Silent, Spoken
  <2>6. \/ Moves(t, {"closeWaypoint"}, "idle") /\ Rested(th'[t])
        \/ Moves(t, {"closeWaypoint"}, "act") /\ Keeps(t)
    BY <1>0, <2>1, DoneMoves, GoMoves DEF Moves, Rested
  <2>7. ClosesWaypoint(t)
    BY <2>1, <2>2, <2>3, <2>4, <2>5, <2>6 DEF ClosesWaypoint
  <2> QED BY <2>7 DEF ThreadMoves
<1>3. CASE CloseSurvey(t)
  <2>1. /\ th[t].pc = "closeSurvey" /\ lock' = "free" /\ Go(t, "leave")
        /\ UNCHANGED <<ctx, pump, status, stopped, left>>
        /\ trg' = [trg EXCEPT !.sampling = FALSE, !.sample = FALSE, !.current = None,
                              !.survey = FALSE, !.mission = "idle"]
    BY <1>3 DEF CloseSurvey
  <2>2. SameContexts /\ SameWorld
    BY <2>1, NothingNoted, NothingElse
  <2>3. /\ ~trg'.sampling /\ trg'.current = None /\ ~trg'.survey /\ trg'.gen = trg.gen
        /\ SamePrepared /\ SameFinishing
    BY <1>0, <2>1 DEF NodeStates, SamePrepared, SameFinishing
  <2>4. ClosesSurvey(t)
    BY <1>0, <2>1, <2>2, <2>3, GoMoves DEF ClosesSurvey, Moves
  <2> QED BY <2>4 DEF ThreadMoves
<1>4. CASE Act(t)
  <2>1. th[t].pc = "act" /\ FailureAction([th EXCEPT ![t] = Idle])
        /\ UNCHANGED <<trg, lock, pump, status, told, record, stopped, left>>
    BY <1>4 DEF Act
  <2>2. Acts(t)
    BY <2>1, FailureWakes, NodeUnmoved, NothingElse DEF Acts
  <2> QED BY <2>2 DEF ThreadMoves
<1> QED BY <1>1, <1>2, <1>3, <1>4

(* The end of an attempt.                                                  *)
LEMMA CompletingMoves ==
  ASSUME IInv, NEW t \in Threads, Completing(t)
  PROVE  ThreadMoves(t)
<1>0. /\ th \in [Threads -> ThreadStates] /\ trg \in NodeStates /\ th[t] \in ThreadStates
      /\ ctx \in [Attempts -> Contexts] /\ Placed(th[t])
  BY Shapes
<1>1. CASE Complete(t)
  <2> DEFINE a == th[t].exp
             outcome == OutcomeOf(ctx[a], th[t].end)
             broken == trg.sample /\ outcome # "succeeded"
  <2>1. th[t].pc = "complete" /\ UNCHANGED <<lock, ctx, pump, status, told, record, stopped, left>>
    BY <1>1 DEF Complete
  <2>2. SameContexts /\ SameWorld
    BY <2>1, NothingNoted, NothingElse
  <2>3. CASE ~trg.sampling \/ trg.finishing \/ trg.current # a
    <3>1. Done(t) /\ trg' = trg
      BY <1>1, <2>3 DEF Complete
    <3>2. Local(t)
      BY <1>0, <2>1, <2>2, <3>1, DoneMoves, NodeUnmoved DEF Local, Rests, Moves, Rested
    <3> QED BY <3>2 DEF ThreadMoves
  <2>4. CASE ~(~trg.sampling \/ trg.finishing \/ trg.current # a)
    <3> DEFINE survey == trg.survey /\ ~broken
               current == IF broken \/ ctx[a].source = "fcu" THEN None ELSE trg.current
               pc == IF trg.sample /\ ~broken THEN "report" ELSE "cleanup"
               kind == IF trg.sample THEN "survey" ELSE ctx[a].source
               early == ~ctx[a].started /\ ctx[a].answered
               x == [Idle EXCEPT !.pc = pc, !.a = a, !.kind = kind, !.early = early,
                                 !.ok = TRUE, !.end = outcome]
    <3>1. /\ trg' = [trg EXCEPT !.sampling = FALSE, !.finishing = TRUE, !.sample = FALSE,
                                !.survey = survey, !.current = current]
          /\ th' = [th EXCEPT ![t] = x]
      BY <1>0, <1>1, <2>4 DEF Complete, NodeStates
    <3>2. trg.sampling /\ ~trg.finishing /\ trg.current = a /\ a \in Attempts
      BY <1>0, <2>1, <2>4 DEF Placed, ThreadStates, MaybeAttempt
    <3>3. (survey => trg.survey) /\ current \in {None, trg.current} /\ pc \in {"report", "cleanup"}
      OBVIOUS
    <3> HIDE DEF survey, current, pc, kind, early, outcome, broken, a
    <3>4. /\ ~trg'.sampling /\ trg'.finishing /\ trg'.current = current
          /\ trg'.survey = survey /\ trg'.gen = trg.gen /\ trg'.live = trg.live /\ SamePrepared
      BY <1>0, <3>1 DEF NodeStates, SamePrepared
    <3>5. Only(t) /\ th'[t] = x
      BY <1>0, <3>1, OneMoves
    <3>6. x.pc = pc /\ x.a = a /\ x.exp = None
      BY DEF Idle
    <3> HIDE DEF x
    <3>7. LessSurvey
      BY <3>3, <3>4 DEF LessSurvey
    <3>8. \E q \in {"report", "cleanup"} : Moves(t, {"complete"}, q)
      BY <2>1, <3>3, <3>5, <3>6 DEF Moves
    <3>9. Ends1(t)
      BY <2>1, <2>2, <3>2, <3>3, <3>4, <3>5, <3>6, <3>7, <3>8 DEF Ends1, a
    <3> QED BY <3>9 DEF ThreadMoves
  <2> QED BY <2>3, <2>4
<1>2. CASE CompletionCleanup(t)
  <2>1. /\ th[t].pc = "cleanup" /\ CleanupCall(t, th[t].a, "report")
        /\ UNCHANGED <<lock, ctx, told, record, stopped>>
    BY <1>2 DEF CompletionCleanup
  <2>2. th[t].a \in Attempts
    BY <1>0, <2>1 DEF CleanupCall, ThreadStates, MaybeAttempt
  <2>3. SameContexts /\ SameHistory
    BY <2>1, NothingNoted DEF SameHistory
  <2>4. Cleans(t)
    BY <2>1, <2>2, <2>3, CleanupMoves DEF Cleans
  <2> QED BY <2>4 DEF ThreadMoves
<1>3. CASE CompletionReport(t)
  <2>1. th[t].pc = "report" /\ UNCHANGED <<lock, pump, status, stopped, left>>
    BY <1>3 DEF CompletionReport
  <2>2. SameWorld
    BY <2>1, NothingElse
  <2>3. /\ trg'.sampling = trg.sampling /\ trg'.current \in {None, trg.current} /\ ~trg'.finishing
        /\ LessSurvey /\ SamePrepared
    <3>1. CASE trg' = [trg EXCEPT !.finishing = FALSE]
      BY <1>0, <3>1 DEF NodeStates, LessSurvey, SamePrepared
    <3>2. CASE trg' # [trg EXCEPT !.finishing = FALSE]
      <4> DEFINE kind == th[t].kind
                 outcome == IF ~th[t].ok THEN "failed"
                            ELSE IF kind = "fcu" /\ ~trg.auto THEN "cancelled" ELSE th[t].end
                 current == IF kind = "manual" /\ outcome = "succeeded" THEN None ELSE trg.current
                 survey == trg.survey /\ ~(kind = "survey" /\ outcome = "failed")
                 mission == IF kind = "survey" /\ outcome = "succeeded" /\ trg.survey
                            THEN "surveying" ELSE "idle"
      <4>1. \E moved \in BOOLEAN : trg' = [trg EXCEPT !.finishing = FALSE, !.current = current,
                 !.survey = survey, !.mission = mission, !.auto = trg.auto /\ ~moved]
        BY <1>0, <1>3, <3>2 DEF CompletionReport, NodeStates
      <4>2. PICK auto : trg' = [trg EXCEPT !.finishing = FALSE, !.current = current,
                 !.survey = survey, !.mission = mission, !.auto = auto]
        BY <4>1
      <4>3. current \in {None, trg.current} /\ (survey => trg.survey)
        OBVIOUS
      <4> HIDE DEF current, survey, mission
      <4>4. /\ trg'.sampling = trg.sampling /\ trg'.current = current /\ ~trg'.finishing
            /\ trg'.survey = survey /\ trg'.gen = trg.gen /\ trg'.live = trg.live /\ SamePrepared
        BY <1>0, <4>2 DEF NodeStates, SamePrepared
      <4> QED BY <4>3, <4>4 DEF LessSurvey
    <3> QED BY <3>1, <3>2
  <2>4. (Done(t) /\ ctx' = ctx) \/ FailureAction([th EXCEPT ![t] = Idle])
    BY <1>3 DEF CompletionReport
  <2>5. /\ OnlyWakes(t) /\ SameContexts
        /\ Rested(th'[t]) \/ (t = "retry" /\ Blank(th'[t]) /\ th'[t].pc = "check" /\ th'[t].exp = None)
    <3>1. CASE Done(t) /\ ctx' = ctx
      BY <1>0, <3>1, DoneMoves, NothingNoted DEF OnlyWakes, Only
    <3>2. CASE FailureAction([th EXCEPT ![t] = Idle])
      BY <3>2, FailureWakes
    <3> QED BY <2>4, <3>1, <3>2
  <2>6. Reports(t)
    BY <2>1, <2>2, <2>3, <2>5 DEF Reports
  <2> QED BY <2>6 DEF ThreadMoves
<1> QED BY <1>1, <1>2, <1>3 DEF Completing

(* What stops.                                                             *)
LEMMA StoppingMoves ==
  ASSUME IInv, NEW t \in Threads, Stopping(t) \/ CleanupReturn(t)
  PROVE  ThreadMoves(t)
<1>0. /\ th \in [Threads -> ThreadStates] /\ trg \in NodeStates /\ th[t] \in ThreadStates
      /\ pump \in PumpStates /\ status \in Seq(Messages) /\ stopped \in Histories
  BY Shapes
<1>1. CASE StopBegin(t)
  <2> DEFINE c == trg.current
             kind == IF trg.survey THEN "survey" ELSE IF c = None THEN "none" ELSE ctx[c].source
             x == [th[t] EXCEPT !.pc = "halt", !.then = "join", !.a = c, !.kind = kind]
  <2>1. th[t].pc = "stop" /\ UNCHANGED <<trg, pump, status, told, record, stopped, left>>
    BY <1>1 DEF StopBegin
  <2>2. SameNode /\ SameWorld
    BY <2>1, NodeUnmoved, NothingElse
  <2>3. CASE lock = "free"
    <3>1. lock' = t /\ Go(t, "claimStop") /\ ctx' = ctx
      BY <1>1, <2>3 DEF StopBegin
    <3>2. Local(t)
      BY <1>0, <2>1, <2>2, <2>3, <3>1, GoMoves, NothingNoted DEF Local, JoinsLock, Moves
    <3> QED BY <3>2 DEF ThreadMoves
  <2>4. CASE lock # "free" /\ th[t].exp # None /\ c # th[t].exp
    <3>1. lock' = lock /\ Done(t) /\ ctx' = ctx
      BY <1>1, <2>4 DEF StopBegin
    <3>2. Local(t)
      BY <1>0, <2>1, <2>2, <3>1, DoneMoves, NothingNoted DEF Local, Rests, Moves, Rested
    <3> QED BY <3>2 DEF ThreadMoves
  <2>5. CASE lock # "free" /\ ~(th[t].exp # None /\ c # th[t].exp)
    <3>1. /\ lock' = lock /\ ctx' = (IF c = None THEN ctx ELSE [ctx EXCEPT ![c].cancel = TRUE])
          /\ th' = [th EXCEPT ![t].pc = "halt", ![t].then = "join", ![t].a = c, ![t].kind = kind]
      BY <1>1, <2>5 DEF StopBegin
    <3>2. SameContexts
      <4>1. CASE c = None
        BY <3>1, <4>1, NothingNoted
      <4>2. CASE c # None
        <5> DEFINE y == [ctx[c] EXCEPT !.cancel = TRUE]
        <5>1. ctx' = [ctx EXCEPT ![c] = y]
          BY <3>1, <4>2
        <5>2. ctx \in [Attempts -> Contexts]
          BY Shapes
        <5>3. c \in Attempts => ctx[c] \in Contexts
          BY <5>2
        <5>4. c \in Attempts => /\ y.source = ctx[c].source /\ y.asked = ctx[c].asked /\ y.gen = ctx[c].gen
                                /\ y.issued = ctx[c].issued /\ y.named = ctx[c].named
                                /\ y.pending = ctx[c].pending
          BY <5>3 DEF Contexts
        <5> HIDE DEF y, c
        <5> QED BY <5>1, <5>2, <5>4, NotesOnly
      <4> QED BY <4>1, <4>2
    <3>3. th' = [th EXCEPT ![t] = x]
      BY <1>0, <3>1
    <3>4. Only(t) /\ th'[t] = x
      BY <1>0, <3>3, OneMoves
    <3>5. x.pc = "halt" /\ x.then = "join" /\ x.a = c /\ x.exp = th[t].exp /\ x.stamp = th[t].stamp
      <4> HIDE DEF c, kind
      <4> QED BY <1>0 DEF ThreadStates
    <3> HIDE DEF x
    <3>6. Local(t)
      BY <2>1, <2>2, <3>1, <3>2, <3>4, <3>5 DEF Local, JoinsLock, Moves
    <3> QED BY <3>6 DEF ThreadMoves
  <2> QED BY <2>3, <2>4, <2>5
<1>2. CASE Halt(t)
  <2>1. CASE th[t].exp # None /\ th[t].a # None
    <3>1. /\ CleanupCall(t, th[t].a, th[t].then) /\ UNCHANGED <<lock, ctx, told, record, stopped>>
          /\ th[t].pc = "halt"
      BY <1>2, <2>1 DEF Halt
    <3>2. th[t].a \in Attempts
      BY <1>0, <2>1 DEF ThreadStates, MaybeAttempt
    <3>3. SameContexts /\ SameHistory
      BY <3>1, NothingNoted DEF SameHistory
    <3>4. Cleans(t)
      BY <3>1, <3>2, <3>3, CleanupMoves DEF Cleans
    <3> QED BY <3>4 DEF ThreadMoves
  <2>2. CASE ~(th[t].exp # None /\ th[t].a # None)
    <3>1. /\ th[t].pc = "halt" /\ UNCHANGED <<trg, lock, ctx, told, record, stopped>>
          /\ pump' = [pump EXCEPT !.owner = None, !.cutoff = @ + 1]
          /\ status' = IF pump.owner \in Attempts
                       THEN Append(status, [attempt |-> pump.owner, kind |-> "stop"]) ELSE status
      BY <1>2, <2>2 DEF Halt
    <3>2. PICK c \in BOOLEAN :
            th' = [th EXCEPT ![t].pc = th[t].then, ![t].ok = c, ![t].stamp = pump.cutoff + 1]
      BY <1>2, <2>2 DEF Halt
    <3> DEFINE stamp == pump.cutoff + 1
               then == th[t].then
               x == [th[t] EXCEPT !.pc = then, !.ok = c, !.stamp = stamp]
    <3>3. pump'.owner = None /\ pump'.cutoff = stamp /\ pump.cutoff \in Nat
      BY <1>0, <3>1 DEF PumpStates
    <3>4. th' = [th EXCEPT ![t] = x]
      BY <1>0, <3>2
    <3>5. Only(t) /\ th'[t] = x
      BY <1>0, <3>4, OneMoves
    <3>6. /\ x.pc = then /\ x.stamp = stamp /\ x.then = th[t].then /\ x.kept = th[t].kept
          /\ x.a = th[t].a /\ x.exp = th[t].exp
      <4> HIDE DEF stamp, then
      <4> QED BY <1>0 DEF ThreadStates
    <3> HIDE DEF x
    <3>7. Speaks
      <4>1. CASE pump.owner \in Attempts
        <5> DEFINE m == [attempt |-> pump.owner, kind |-> "stop"]
        <5>1. m \in Messages /\ m.attempt = pump.owner
          BY <4>1 DEF Messages, Ends
        <5>2. status' = Append(status, m)
          BY <3>1, <4>1
        <5> HIDE DEF m
        <5>3. \A b \in Attempts : Spoken(b)' => Spoken(b) \/ b = m.attempt
          BY <1>0, <5>1, <5>2, OneMessage
        <5>4. pump'.owner \notin Attempts
          BY <3>3 DEF Attempts, None
        <5> QED BY <5>1, <5>3, <5>4 DEF Speaks
      <4>2. CASE pump.owner \notin Attempts
        BY <3>1, <4>2 DEF Speaks, Spoken
      <4> QED BY <4>1, <4>2
    <3>8. SameNode /\ SameContexts /\ SameHistory
      BY <3>1, NodeUnmoved, NothingNoted DEF SameHistory
    <3>9. HaltsAll(t)
      BY <3>1, <3>3, <3>5, <3>6, <3>7, <3>8 DEF HaltsAll, Moves
    <3> QED BY <3>9 DEF ThreadMoves
  <2> QED BY <2>1, <2>2
<1>3. CASE Join(t)
  <2> DEFINE ok == th[t].ok \/ th[t].over
             x == [th[t] EXCEPT !.pc = "claimStop", !.ok = ok, !.over = FALSE]
  <2>1. /\ th[t].pc = "join" /\ lock = "free" /\ lock' = t
        /\ th' = [th EXCEPT ![t].pc = "claimStop", ![t].ok = @ \/ th[t].over, ![t].over = FALSE]
        /\ UNCHANGED <<trg, ctx, pump, status, told, record, stopped, left>>
    BY <1>3 DEF Join
  <2>2. th' = [th EXCEPT ![t] = x]
    BY <1>0, <2>1 DEF ThreadStates
  <2>3. Only(t) /\ th'[t] = x
    BY <1>0, <2>2, OneMoves
  <2> HIDE DEF ok
  <2>4. /\ x.pc = "claimStop" /\ x.a = th[t].a /\ x.exp = th[t].exp /\ x.kind = th[t].kind
        /\ x.stamp = th[t].stamp
    BY <1>0 DEF ThreadStates
  <2> HIDE DEF x
  <2>5. Local(t)
    BY <2>1, <2>3, <2>4, NodeUnmoved, NothingNoted, NothingElse DEF Local, JoinsLock, Moves, Keeps
  <2> QED BY <2>5 DEF ThreadMoves
<1>4. CASE StopClaim(t)
  <2> DEFINE joined == th[t].then = "join"
             c == IF joined THEN th[t].a ELSE trg.current
             survey == trg.survey \/ (IF joined THEN th[t].kind = "survey"
                                      ELSE c # None /\ ctx[c].source = "survey")
  <2>1. th[t].pc = "claimStop" /\ UNCHANGED <<ctx, pump, status, told, record, stopped, left>>
    BY <1>4 DEF StopClaim
  <2>2. SameContexts /\ SameWorld
    BY <2>1, NothingNoted, NothingElse
  <2>3. CASE th[t].exp # None /\ trg.current # th[t].exp
    <3>1. Done(t) /\ lock' = "free" /\ trg' = trg
      BY <1>4, <2>3 DEF StopClaim
    <3>2. Local(t)
      BY <1>0, <2>1, <2>2, <3>1, DoneMoves, NodeUnmoved DEF Local, Rests, Moves, Rested
    <3> QED BY <3>2 DEF ThreadMoves
  <2>4. CASE ~(th[t].exp # None /\ trg.current # th[t].exp)
    <3> DEFINE sample == trg.sample /\ ~survey
               live == IF survey THEN 0 ELSE trg.live
               owner == IF survey THEN None ELSE trg.owner
               pc == IF joined THEN "stopReport" ELSE "halt"
               kept == trg.finishing
               kind == IF c = None THEN "none" ELSE ctx[c].source
               x == [th[t] EXCEPT !.pc = pc, !.then = "stopReport", !.kept = kept, !.a = c, !.kind = kind]
    <3>1. /\ trg' = [trg EXCEPT !.finishing = TRUE, !.sampling = FALSE, !.current = None,
                       !.prepared = None, !.survey = FALSE, !.sample = sample, !.live = live, !.owner = owner]
          /\ th' = [th EXCEPT ![t].pc = pc, ![t].then = "stopReport", ![t].kept = kept, ![t].a = c,
                              ![t].kind = kind]
          /\ lock' = lock
      BY <1>0, <1>4, <2>4 DEF StopClaim, NodeStates
    <3>2. c \in {th[t].a, trg.current} /\ pc \in {"stopReport", "halt"}
      OBVIOUS
    <3>3. th' = [th EXCEPT ![t] = x]
      BY <1>0, <3>1
    <3>4. Only(t) /\ th'[t] = x
      BY <1>0, <3>3, OneMoves
    <3> HIDE DEF c, survey, sample, live, owner, pc, kept, kind
    <3>5. /\ x.pc = pc /\ x.then = "stopReport" /\ x.kept = kept /\ x.a = c /\ x.exp = th[t].exp
          /\ x.stamp = th[t].stamp
      BY <1>0 DEF ThreadStates
    <3> HIDE DEF x
    <3>6. /\ trg'.finishing /\ ~trg'.sampling /\ trg'.current = None /\ trg'.prepared = None
          /\ ~trg'.survey /\ trg'.gen = trg.gen
      BY <1>0, <3>1 DEF NodeStates
    <3>7. \E q \in {"stopReport", "halt"} : Moves(t, {"claimStop"}, q)
      BY <2>1, <3>2, <3>4, <3>5 DEF Moves
    <3>8. StopsAll1(t)
      BY <2>1, <2>2, <3>1, <3>2, <3>4, <3>5, <3>6, <3>7 DEF StopsAll1, kept
    <3> QED BY <3>8 DEF ThreadMoves
  <2> QED BY <2>3, <2>4
<1>5. CASE StopReport(t)
  <2>1. /\ th[t].pc = "stopReport" /\ lock' = "free" /\ Done(t) /\ UNCHANGED <<ctx, pump, status, left>>
        /\ stopped' = IF th[t].exp = None /\ th[t].ok
                      THEN [stopped EXCEPT !.before = IF th[t].stamp > @ THEN th[t].stamp ELSE @]
                      ELSE stopped
    BY <1>5 DEF StopReport
  <2>2. SameContexts /\ SamePump /\ Silent
    BY <2>1, NothingNoted DEF SamePump, Silent, Spoken
  <2>3. /\ stopped'.before \in {stopped.before, th[t].stamp}
        /\ stopped'.surveys = stopped.surveys /\ stopped'.lost = stopped.lost
    BY <1>0, <2>1 DEF Histories
  <2>4. /\ trg'.sampling = trg.sampling /\ trg'.current \in {None, trg.current} /\ trg'.finishing = th[t].kept
        /\ SameSurvey /\ SamePrepared
    <3> DEFINE current == IF th[t].kind = "manual" THEN None ELSE trg.current
               mission == IF th[t].over THEN trg.mission ELSE "idle"
               kept == th[t].kept
    <3>1. \E moved \in BOOLEAN :
            trg' = [trg EXCEPT !.finishing = kept, !.auto = trg.auto /\ ~moved,
                               !.mission = mission, !.current = current]
      BY <1>0, <1>5 DEF StopReport, NodeStates
    <3>2. PICK auto :
            trg' = [trg EXCEPT !.finishing = kept, !.auto = auto, !.mission = mission, !.current = current]
      BY <3>1
    <3>3. current \in {None, trg.current}
      OBVIOUS
    <3> HIDE DEF current, mission, kept
    <3>4. /\ trg'.sampling = trg.sampling /\ trg'.current = current /\ trg'.finishing = kept
          /\ SameSurvey /\ SamePrepared
      BY <1>0, <3>2 DEF NodeStates, SameSurvey, SamePrepared
    <3> QED BY <3>3, <3>4 DEF kept
  <2>5. ReportsStop(t)
    BY <1>0, <2>1, <2>2, <2>3, <2>4, DoneMoves DEF ReportsStop, Moves, Rested
  <2> QED BY <2>5 DEF ThreadMoves
<1>6. CASE CleanupReturn(t)
  <2> DEFINE saved == th[t].saved
  <2>1. /\ th[t].pc = "cleaning" /\ trg' = [trg EXCEPT !.finishing = saved] /\ Go(t, th[t].then)
        /\ UNCHANGED <<lock, ctx, pump, status, told, record, stopped, left>>
    BY <1>6 DEF CleanupReturn
  <2>2. SameContexts /\ SameWorld
    BY <2>1, NothingNoted, NothingElse
  <2> HIDE DEF saved
  <2>3. SameSample /\ SamePrepared /\ SameSurvey /\ trg'.finishing = saved
    BY <1>0, <2>1 DEF NodeStates, SameSample, SamePrepared, SameSurvey
  <2>4. Returns(t)
    BY <1>0, <2>1, <2>2, <2>3, GoMoves DEF Returns, Moves, saved
  <2> QED BY <2>4 DEF ThreadMoves
<1> QED BY <1>1, <1>2, <1>3, <1>4, <1>5, <1>6 DEF Stopping

(* The survey's loop.                                                      *)
LEMMA LoopMoves ==
  ASSUME IInv, SurveyLook \/ SurveyEnter \/ SurveyStarted \/ SurveyLeave
  PROVE  Local("loop") \/ LeavesSurvey
<1>0. th \in [Threads -> ThreadStates] /\ trg \in NodeStates /\ "loop" \in Threads
  BY Shapes
<1>1. CASE SurveyLook \/ SurveyEnter \/ SurveyStarted
  <2>1. SameNode /\ SameContexts /\ SameWorld
    BY <1>1, NodeUnmoved, NothingNoted, NothingElse DEF SurveyLook, SurveyEnter, SurveyStarted
  <2>2. Loops
    <3>1. CASE SurveyLook
      BY <1>0, <3>1, GoMoves DEF SurveyLook, Loops, Moves
    <3>2. CASE SurveyEnter
      BY <1>0, <3>2, GoMoves DEF SurveyEnter, Loops, Moves
    <3>3. CASE SurveyStarted
      BY <1>0, <3>3, GoMoves DEF SurveyStarted, Loops, Moves
    <3> QED BY <1>1, <3>1, <3>2, <3>3
  <2> QED BY <2>1, <2>2 DEF Local
<1>2. CASE SurveyLeave
  <2>1. /\ th["loop"].pc = "leave" /\ lock = "free" /\ Done("loop")
        /\ trg' = IF th["loop"].gen = trg.live THEN [trg EXCEPT !.survey = FALSE] ELSE trg
        /\ UNCHANGED <<lock, ctx, pump, status, told, record, stopped, left>>
    BY <1>2 DEF SurveyLeave
  <2>2. SameSample /\ SamePrepared /\ SameFinishing /\ LessSurvey
    BY <1>0, <2>1 DEF NodeStates, SameSample, SamePrepared, SameFinishing, LessSurvey
  <2> QED BY <1>0, <2>1, <2>2, DoneMoves, NothingNoted, NothingElse DEF LeavesSurvey, Moves, Rested
<1> QED BY <1>1, <1>2

(* A survey is started.                                                    *)
LEMMA StartSurveyMoves ==
  ASSUME IInv, StartSurvey
  PROVE  Local("lane") \/ StartsSurvey
<1>0. /\ th \in [Threads -> ThreadStates] /\ trg \in NodeStates /\ "loop" \in Threads /\ "lane" \in Threads
      /\ th["lane"].pc = "check" /\ lock = "free"
      /\ UNCHANGED <<lock, ctx, pump, status, told, record, stopped, left>>
  BY Shapes DEF StartSurvey
<1>1. SameContexts /\ SameWorld
  BY <1>0, NothingNoted, NothingElse
<1>2. CASE trg.survey \/ trg.sampling \/ trg.finishing \/ th["lane"].gen # trg.commands
  <2>1. Done("lane") /\ trg' = trg
    BY <1>2 DEF StartSurvey
  <2> QED BY <1>0, <1>1, <2>1, DoneMoves, NodeUnmoved DEF Local, Rests, Moves, Rested
<1>3. CASE ~(trg.survey \/ trg.sampling \/ trg.finishing \/ th["lane"].gen # trg.commands)
  <2> DEFINE gen == trg.gen + 1
             stamp == th["lane"].stamp
             x == [Idle EXCEPT !.pc = "look", !.kind = "survey", !.stamp = stamp, !.gen = gen]
  <2>1. /\ th["loop"].pc \in {"idle", "look", "leave"}
        /\ trg' = [trg EXCEPT !.survey = TRUE, !.current = None, !.owner = None,
                              !.gen = gen, !.live = gen, !.mission = "surveying"]
        /\ th' = [th EXCEPT !["lane"] = Idle, !["loop"] = x]
    BY <1>0, <1>3 DEF StartSurvey, NodeStates
  <2>2. x.pc = "look" /\ x.kind = "survey" /\ x.exp = None /\ Blank(x)
    BY DEF Idle, Blank
  <2>3. /\ trg'.survey /\ trg'.current = None /\ trg'.gen = gen /\ trg'.live = gen
        /\ trg'.sampling = trg.sampling /\ SamePrepared /\ SameFinishing
    <3> HIDE DEF gen
    <3> QED BY <1>0, <2>1 DEF NodeStates, SamePrepared, SameFinishing
  <2> HIDE DEF x
  <2>4. /\ th'["lane"] = Idle /\ th'["loop"] = x /\ \A u \in Threads \ {"lane", "loop"} : th'[u] = th[u]
    BY <1>0, <2>1
  <2> QED BY <1>0, <1>1, <1>3, <2>1, <2>2, <2>3, <2>4, RestedIsIdle DEF StartsSurvey
<1> QED BY <1>2, <1>3

(* The lane asks the pump, and notes its answer.                           *)
LEMMA LaneMoves ==
  ASSUME IInv, AskPump \/ NotePause
  PROVE  Local("lane")
<1>0. th \in [Threads -> ThreadStates] /\ trg \in NodeStates /\ th["lane"] \in ThreadStates /\ "lane" \in Threads
  BY Shapes
<1>1. CASE AskPump
  <2>1. SameNode /\ SameContexts /\ SameWorld /\ th["lane"].pc = "check" /\ lock' = lock
    BY <1>1, NodeUnmoved, NothingNoted, NothingElse DEF AskPump
  <2>2. CASE Done("lane")
    BY <1>0, <2>1, <2>2, DoneMoves DEF Local, Rests, Moves, Rested
  <2>3. CASE ~Done("lane")
    <3> DEFINE c == trg.current
               x == [th["lane"] EXCEPT !.pc = "paused", !.exp = c]
    <3>1. th' = [th EXCEPT !["lane"] = x]
      BY <1>0, <1>1, <2>3 DEF AskPump
    <3>2. Only("lane") /\ th'["lane"] = x
      BY <1>0, <3>1, OneMoves
    <3> HIDE DEF c
    <3>3. x.pc = "paused" /\ x.exp = c /\ x.a = th["lane"].a
      BY <1>0 DEF ThreadStates
    <3> HIDE DEF x
    <3> QED BY <2>1, <3>2, <3>3 DEF Local, Pauses, Moves, c
  <2> QED BY <2>2, <2>3
<1>2. CASE NotePause
  <2>1. th["lane"].pc = "paused" /\ Done("lane") /\ UNCHANGED <<lock, ctx, pump, status, told, record, stopped, left>>
    BY <1>2 DEF NotePause
  <2>2. SameNode
    <3>1. CASE trg' = trg
      BY <3>1, NodeUnmoved
    <3>2. CASE trg' # trg
      <4> DEFINE m == IF th["lane"].kind = "pause" THEN "paused" ELSE "sampling"
      <4>1. trg' = [trg EXCEPT !.mission = m]
        BY <1>2, <3>2 DEF NotePause
      <4> HIDE DEF m
      <4> QED BY <1>0, <4>1 DEF NodeStates, SameNode, SameSample, SamePrepared, SameFinishing, SameSurvey
    <3> QED BY <3>1, <3>2
  <2> QED BY <1>0, <2>1, <2>2, DoneMoves, NothingNoted, NothingElse DEF Local, Rests, Moves, Rested
<1> QED BY <1>1, <1>2

(* A survey is stopped, and that is reported.                              *)
LEMMA SurveyStopMoves ==
  ASSUME IInv, StopSurvey \/ EndSurvey \/ ReportSurvey
  PROVE  StopsSurvey \/ Stands \/ Cleans("stop") \/ ReportsSurvey
<1>0. /\ th \in [Threads -> ThreadStates] /\ trg \in NodeStates /\ "stop" \in Threads
      /\ th["stop"] \in ThreadStates /\ stopped \in Histories
  BY Shapes
<1>1. CASE StopSurvey
  <2>1. th["stop"].pc = "idle" /\ UNCHANGED <<lock, ctx, pump, status, told, record, stopped>>
    BY <1>1 DEF StopSurvey
  <2>2. SameContexts /\ SameWorld
    BY <2>1, NothingNoted, NothingElse
  <2>3. CASE ~trg.survey
    <3>1. trg' = trg /\ th' = th
      BY <1>1, <2>3 DEF StopSurvey
    <3> QED BY <2>1, <2>2, <3>1, NodeUnmoved DEF Stands
  <2>4. CASE trg.survey
    <3> DEFINE c == trg.current
               commands == trg.commands + 1
               pc == IF c # None /\ ctx[c].named THEN "endSurvey" ELSE "reportSurvey"
               live == trg.live
               early == trg.sampling
               x == [Idle EXCEPT !.a = c, !.gen = live, !.ok = TRUE, !.early = early, !.kind = "survey", !.pc = pc]
    <3>1. /\ trg' = [trg EXCEPT !.commands = commands, !.survey = FALSE, !.sample = FALSE, !.live = 0,
                                !.owner = None, !.sampling = FALSE, !.current = None, !.prepared = None]
          /\ th' = [th EXCEPT !["stop"] = x]
      BY <1>0, <1>1, <2>4 DEF StopSurvey, NodeStates
    <3>2. Only("stop") /\ th'["stop"] = x
      BY <1>0, <3>1, OneMoves
    <3> HIDE DEF c, commands, pc, live, early
    <3>3. x.pc = pc /\ x.a = c /\ x.exp = None /\ x.gen = live
      BY DEF Idle
    <3> HIDE DEF x
    <3>4. /\ ~trg'.survey /\ trg'.gen = trg.gen /\ ~trg'.sampling /\ trg'.current = None
          /\ trg'.prepared = None /\ SameFinishing
      BY <1>0, <3>1 DEF NodeStates, SameFinishing
    <3> QED BY <2>1, <2>2, <2>4, <3>2, <3>3, <3>4 DEF StopsSurvey, c, pc, live
  <2> QED BY <2>3, <2>4
<1>2. CASE EndSurvey
  <2>1. /\ th["stop"].pc = "endSurvey" /\ CleanupCall("stop", th["stop"].a, "reportSurvey")
        /\ UNCHANGED <<lock, ctx, told, record, stopped>>
    BY <1>2 DEF EndSurvey
  <2>2. th["stop"].a \in Attempts
    BY <1>0, <2>1 DEF CleanupCall, ThreadStates, MaybeAttempt
  <2>3. SameContexts /\ SameHistory
    BY <2>1, NothingNoted DEF SameHistory
  <2> QED BY <1>0, <2>1, <2>2, <2>3, CleanupMoves DEF Cleans
<1>3. CASE ReportSurvey
  <2> DEFINE s == th["stop"]
  <2>1. /\ s.pc = "reportSurvey" /\ Done("stop") /\ UNCHANGED <<lock, ctx, pump, status, told, left>>
        /\ trg' = IF s.over THEN trg ELSE [trg EXCEPT !.mission = "idle"]
        /\ stopped' = IF s.ok THEN [stopped EXCEPT !.surveys = @ \cup {s.gen}] ELSE stopped
    BY <1>3 DEF ReportSurvey
  <2>2. SameContexts /\ SamePump /\ Silent
    BY <2>1, NothingNoted DEF SamePump, Silent, Spoken
  <2>3. SameNode
    BY <1>0, <2>1 DEF NodeStates, SameNode, SameSample, SamePrepared, SameFinishing, SameSurvey
  <2>4. /\ stopped'.before = stopped.before /\ stopped'.lost = stopped.lost
        /\ stopped'.surveys \subseteq stopped.surveys \cup {s.gen}
    BY <1>0, <2>1 DEF Histories
  <2> QED BY <1>0, <2>1, <2>2, <2>3, <2>4, DoneMoves DEF ReportsSurvey, Moves, Rested
<1> QED BY <1>1, <1>2, <1>3

(* What is asked of the node.                                              *)
LEMMA AskedMoves ==
  ASSUME IInv, Order \/ TriggerService \/ StopCommand \/ SessionLost \/ FcuLost \/ FcuSilent
  PROVE  \/ \E t \in {"lane", "service", "stop", "watch"} : Local(t)
         \/ Stands
<1>0. /\ th \in [Threads -> ThreadStates] /\ trg \in NodeStates /\ ctx \in [Attempts -> Contexts]
      /\ {"lane", "service", "stop", "watch"} \subseteq Threads
  BY Shapes
<1>1. ASSUME NEW t \in {"lane", "service", "stop", "watch"}, NEW x, th' = [th EXCEPT ![t] = x],
             th[t].pc = "idle", lock' = lock, Blank(x),
             \/ x.pc = "check" /\ x.exp = None
             \/ x.pc = "stop" /\ x.stamp = 0 /\ x.exp \in {None, trg.current},
             SameNode, SameContexts, SameWorld
      PROVE  Local(t)
  <2>1. Only(t) /\ th'[t] = x
    BY <1>0, <1>1, OneMoves
  <2> QED BY <1>1, <2>1 DEF Local, Wakes, Moves
<1>2. CASE Order
  <2> DEFINE kind == Head(left.orders)
             stamp == pump.cutoff
             gen == trg.commands
             x == [Idle EXCEPT !.pc = "check", !.kind = kind, !.stamp = stamp, !.gen = gen]
  <2>1. x.pc = "check" /\ x.exp = None /\ Blank(x)
    BY DEF Idle, Blank
  <2>2. th' = [th EXCEPT !["lane"] = x] /\ th["lane"].pc = "idle" /\ lock' = lock
    BY <1>2 DEF Order
  <2>3. SameNode /\ SameContexts /\ SameWorld
    BY <1>2, NodeUnmoved, NothingNoted, NothingElse DEF Order
  <2> HIDE DEF x
  <2> QED BY <1>1, <2>1, <2>2, <2>3
<1>3. CASE TriggerService
  <2> DEFINE x == [Idle EXCEPT !.pc = "check", !.kind = "waypoint", !.stamp = Retries]
  <2>1. x.pc = "check" /\ x.exp = None /\ Blank(x)
    BY DEF Idle, Blank
  <2>2. th' = [th EXCEPT !["service"] = x] /\ th["service"].pc = "idle" /\ lock' = lock
    BY <1>3 DEF TriggerService
  <2>3. SameNode /\ SameContexts /\ SameWorld
    BY <1>3, NodeUnmoved, NothingNoted, NothingElse DEF TriggerService
  <2> HIDE DEF x
  <2> QED BY <1>1, <2>1, <2>2, <2>3
<1>4. CASE StopCommand \/ SessionLost
  <2> DEFINE x == [Idle EXCEPT !.pc = "stop"]
  <2>1. x.pc = "stop" /\ x.exp = None /\ x.stamp = 0 /\ Blank(x)
    BY DEF Idle, Blank
  <2>2. /\ th' = [th EXCEPT !["stop"] = x] /\ th["stop"].pc = "idle" /\ lock' = lock
        /\ trg' = [trg EXCEPT !.commands = @ + 1] /\ UNCHANGED <<pump, status, stopped>>
    BY <1>4 DEF StopCommand, SessionLost
  <2>3. SameNode
    BY <1>0, <2>2 DEF NodeStates, SameNode, SameSample, SamePrepared, SameFinishing, SameSurvey
  <2>4. SameContexts
    <3>1. CASE ctx' = ctx
      BY <3>1, NothingNoted
    <3>2. CASE ctx' # ctx
      <4> DEFINE c == trg.current
                 reason == IF ctx[c].reason = "none" THEN "lost" ELSE ctx[c].reason
                 y == [ctx[c] EXCEPT !.cancel = TRUE, !.reason = reason]
      <4>1. c \in Attempts
        BY <1>0, <1>4, <3>2 DEF StopCommand, SessionLost, NodeStates, MaybeAttempt
      <4>2. ctx[c] \in Contexts
        BY <1>0, <4>1
      <4>3. ctx' = [ctx EXCEPT ![c] = y]
        BY <1>0, <1>4, <3>2, <4>1, <4>2 DEF StopCommand, SessionLost, Contexts
      <4> HIDE DEF reason
      <4>4. /\ y.source = ctx[c].source /\ y.asked = ctx[c].asked /\ y.gen = ctx[c].gen
            /\ y.issued = ctx[c].issued /\ y.named = ctx[c].named /\ y.pending = ctx[c].pending
        BY <4>2 DEF Contexts
      <4> HIDE DEF y, c
      <4> QED BY <1>0, <4>3, <4>4, NotesOnly
    <3> QED BY <3>1, <3>2
  <2>5. SameWorld
    BY <2>2, NothingElse
  <2> HIDE DEF x
  <2> QED BY <1>1, <2>1, <2>2, <2>3, <2>4, <2>5
<1>5. CASE FcuLost \/ FcuSilent
  <2> DEFINE c == trg.current
             x == [Idle EXCEPT !.pc = "stop", !.exp = c]
  <2>1. x.pc = "stop" /\ x.exp = c /\ x.stamp = 0 /\ Blank(x)
    BY DEF Idle, Blank
  <2>2. lock' = lock /\ UNCHANGED <<pump, status, stopped>>
    BY <1>5 DEF FcuLost, FcuSilent
  <2>3. SameWorld
    BY <2>2, NothingElse
  <2>4. SameNode
    <3>1. trg' = [trg EXCEPT !.auto = FALSE] \/ trg' = trg
      BY <1>5 DEF FcuLost, FcuSilent
    <3> QED BY <1>0, <3>1 DEF NodeStates, SameNode, SameSample, SamePrepared, SameFinishing, SameSurvey
  <2>5. SameContexts
    <3>1. CASE ctx' = ctx
      BY <3>1, NothingNoted
    <3>2. CASE ctx' # ctx
      <4> DEFINE y == [ctx[c] EXCEPT !.cancel = TRUE]
      <4>1. c \in Attempts
        BY <1>0, <1>5, <3>2 DEF FcuLost, FcuSilent, NodeStates, MaybeAttempt
      <4>2. ctx[c] \in Contexts
        BY <1>0, <4>1
      <4>3. ctx' = [ctx EXCEPT ![c] = y]
        BY <1>5, <3>2 DEF FcuLost, FcuSilent
      <4>4. /\ y.source = ctx[c].source /\ y.asked = ctx[c].asked /\ y.gen = ctx[c].gen
            /\ y.issued = ctx[c].issued /\ y.named = ctx[c].named /\ y.pending = ctx[c].pending
        BY <4>2 DEF Contexts
      <4> HIDE DEF y, c
      <4> QED BY <1>0, <4>3, <4>4, NotesOnly
    <3> QED BY <3>1, <3>2
  <2>6. CASE th' = th
    BY <2>2, <2>3, <2>4, <2>5, <2>6 DEF Stands
  <2>7. CASE th' # th
    <3>1. th' = [th EXCEPT !["watch"] = x] /\ th["watch"].pc = "idle"
      BY <1>5, <2>7 DEF FcuLost, FcuSilent
    <3> HIDE DEF x
    <3> QED BY <1>1, <2>1, <2>2, <2>3, <2>4, <2>5, <3>1
  <2> QED BY <2>6, <2>7
<1> QED BY <1>2, <1>3, <1>4, <1>5

(* A message of the pump.                                                  *)
LEMMA DeliverMoves ==
  ASSUME IInv, Deliver
  PROVE  Delivers
<1> DEFINE a == Head(status).attempt
           end == Head(status).kind
           c == trg.current
           gap == c # None /\ ctx[c].source = "survey" /\ trg.survey /\ end = "stop"
           reason == IF ctx[c].reason = "none" THEN end ELSE ctx[c].reason
           cancel == ctx[c].cancel \/ gap
           y == [ctx[c] EXCEPT !.reason = reason, !.cancel = cancel]
           noted == [ctx EXCEPT ![c] = y]
           pending == IF ctx[c].pending = "none" \/ end # "done" THEN end ELSE ctx[c].pending
           z == [y EXCEPT !.pending = pending]
           watch == [Idle EXCEPT !.pc = "stop", !.exp = c]
<1>0. /\ th \in [Threads -> ThreadStates] /\ trg \in NodeStates /\ ctx \in [Attempts -> Contexts]
      /\ status \in Seq(Messages) /\ status # <<>> /\ status' = Tail(status)
      /\ UNCHANGED <<lock, pump, told, record, stopped, left>> /\ "watch" \in Threads
  BY Shapes DEF Deliver
<1>1. Silent /\ a \in Attempts /\ Spoken(a)
  BY <1>0, MessageTaken
<1>2. SameWorld
  BY <1>0, <1>1 DEF SameWorld, SamePump, SameHistory
<1>3. CASE UNCHANGED <<trg, ctx, th>>
  <2>1. SameNode /\ SameContexts
    BY <1>3, NodeUnmoved, NothingNoted
  <2> QED BY <1>0, <1>2, <1>3, <2>1
          DEF Delivers, SameNode, SameContexts, SameContext, LessSurvey, SameSurvey
<1>4. CASE ~UNCHANGED <<trg, ctx, th>>
  <2>0. c = a /\ c \in Attempts /\ ctx[c] \in Contexts
    BY <1>0, <1>1, <1>4 DEF Deliver, Concerns
  <2>1. /\ y.source = ctx[c].source /\ y.asked = ctx[c].asked /\ y.gen = ctx[c].gen
        /\ y.issued = ctx[c].issued /\ y.named = ctx[c].named /\ y.pending = ctx[c].pending
        /\ z.source = ctx[c].source /\ z.asked = ctx[c].asked /\ z.gen = ctx[c].gen
        /\ z.issued = ctx[c].issued /\ z.named = ctx[c].named
    <3> HIDE DEF reason, cancel, pending, c
    <3> QED BY <2>0 DEF Contexts
  <2>2. ctx' \in {noted, [ctx EXCEPT ![c] = z]}
    <3>1. noted = [ctx EXCEPT ![c].reason = reason, ![c].cancel = cancel]
      BY <2>0, <1>0
    <3>2. [ctx EXCEPT ![c] = z] = [noted EXCEPT ![c].pending = pending]
      <4> HIDE DEF y, pending
      <4> QED BY <2>0, <1>0
    <3>3. noted[c].pending = ctx[c].pending
      <4> HIDE DEF y
      <4> QED BY <2>0, <2>1, <1>0
    <3>4. \/ ctx' = [ctx EXCEPT ![c].reason = IF @ = "none" THEN end ELSE @, ![c].cancel = @ \/ gap]
          \/ ctx' = [[ctx EXCEPT ![c].reason = IF @ = "none" THEN end ELSE @, ![c].cancel = @ \/ gap]
                       EXCEPT ![c].pending = IF @ = "none" \/ end # "done" THEN end ELSE @]
      BY <1>4 DEF Deliver
    <3>5. [ctx EXCEPT ![c].reason = IF @ = "none" THEN end ELSE @, ![c].cancel = @ \/ gap] = noted
      BY <1>0, <2>0 DEF Contexts
    <3>6. [noted EXCEPT ![c].pending = IF @ = "none" \/ end # "done" THEN end ELSE @]
            = [noted EXCEPT ![c].pending = pending]
      <4> HIDE DEF noted
      <4> QED BY <3>3
    <3> HIDE DEF noted, pending, z
    <3> QED BY <3>2, <3>4, <3>5, <3>6
  <2>3. \A b \in Attempts : /\ SameOrigin(b) /\ ctx'[b].issued = ctx[b].issued /\ ctx'[b].named = ctx[b].named
                            /\ ctx'[b].pending # "none" => ctx[b].pending # "none" \/ Spoken(b)
    <3> HIDE DEF y, z, a, c
    <3>1. /\ \A b \in Attempts \ {c} : ctx'[b] = ctx[b]
          /\ ctx'[c] \in {y, z}
      BY <1>0, <2>0, <2>2
    <3>2. ctx'[c].pending # "none" => ctx[c].pending # "none" \/ Spoken(c)
      BY <1>1, <2>0
    <3>3. SameOrigin(c) /\ ctx'[c].issued = ctx[c].issued /\ ctx'[c].named = ctx[c].named
      BY <2>1, <3>1 DEF SameOrigin
    <3> QED BY <3>1, <3>2, <3>3 DEF SameOrigin
  <2>4. SameSample /\ SamePrepared /\ SameFinishing /\ LessSurvey
    <3>1. \E survey \in {FALSE, trg.survey} : trg' = [trg EXCEPT !.survey = survey]
      <4>1. trg' = [trg EXCEPT !.survey = FALSE] \/ trg' = [trg EXCEPT !.survey = @ /\ ~gap]
        BY <1>4 DEF Deliver
      <4>2. trg' = [trg EXCEPT !.survey = FALSE] \/ trg' = [trg EXCEPT !.survey = trg.survey /\ ~gap]
        BY <1>0, <4>1 DEF NodeStates
      <4>3. (trg.survey /\ ~gap) \in {FALSE, trg.survey}
        BY <1>0 DEF NodeStates
      <4> QED BY <4>2, <4>3
    <3> QED BY <1>0, <3>1 DEF NodeStates, SameSample, SamePrepared, SameFinishing, LessSurvey
  <2>5. \A u \in Threads : th'[u] = th[u] \/ Woken(u, th'[u])
    <3>1. CASE th["watch"].pc = "idle" /\ th' = [th EXCEPT !["watch"] = watch]
      <4>1. watch.pc = "stop" /\ watch.exp = c /\ watch.stamp = 0 /\ Blank(watch)
        BY DEF Idle, Blank
      <4> HIDE DEF watch
      <4>2. Only("watch") /\ th'["watch"] = watch
        BY <1>0, <3>1, OneMoves
      <4> QED BY <3>1, <4>1, <4>2 DEF Woken, Only
    <3>2. CASE th' = th
      BY <3>2
    <3>3. CASE Spawn(c, end, th)
      <4>1. PICK d \in Threads \ {"loop"} : /\ th[d].pc = "idle" /\ Waits(th'[d])
                                            /\ \A u \in Threads \ {d} : th'[u] = th[u]
        BY <1>0, <1>1, <2>0, <3>3, SpawnWakes
      <4> QED BY <4>1 DEF Woken, Waits
    <3> QED BY <1>4, <3>1, <3>2, <3>3 DEF Deliver
  <2> QED BY <1>0, <1>2, <2>3, <2>4, <2>5 DEF Delivers
<1> QED BY <1>3, <1>4

(* The pump, and its other client.                                         *)
LEMMA PumpMovesAlone ==
  ASSUME IInv,
         (\E end \in {"done", "fault"} : PumpEnds(end)) \/ LeaseEnds \/ WebStarts \/ WebStops \/ WebEnds
  PROVE  PumpMoves
<1>0. pump \in PumpStates /\ status \in Seq(Messages) /\ stopped \in Histories
  BY Shapes
<1>1. UNCHANGED <<trg, th, ctx, lock>>
  BY DEF PumpEnds, LeaseEnds, WebStarts, WebStops, WebEnds
<1>2. SameHistory
  BY <1>0 DEF PumpEnds, LeaseEnds, WebStarts, WebStops, WebEnds, SameHistory, Histories
<1>3. pump'.owner \in {None, Web} /\ pump'.cutoff >= pump.cutoff
  <2>1. \E owner \in {None, Web} : \/ pump' = [pump EXCEPT !.owner = owner]
                                  \/ pump' = [pump EXCEPT !.owner = owner, !.cutoff = @ + 1]
    BY DEF PumpEnds, LeaseEnds, WebStarts, WebStops, WebEnds
  <2>2. pump.cutoff \in Nat
    BY <1>0 DEF PumpStates
  <2>3. pump'.owner \in {None, Web} /\ pump'.cutoff \in {pump.cutoff, pump.cutoff + 1}
    BY <1>0, <2>1 DEF PumpStates
  <2> QED BY <2>2, <2>3
<1>4. Speaks
  <2>1. CASE status' = status
    BY <2>1 DEF Speaks, Spoken
  <2>2. CASE status' # status
    <3>1. PICK end \in Ends : /\ pump.owner \in Attempts
                              /\ status' = Append(status, [attempt |-> pump.owner, kind |-> end])
      BY <2>2 DEF PumpEnds, LeaseEnds, WebStarts, WebStops, WebEnds, Ends
    <3> DEFINE m == [attempt |-> pump.owner, kind |-> end]
    <3>2. m \in Messages /\ m.attempt = pump.owner
      BY <3>1 DEF Messages
    <3>3. status' = Append(status, m)
      BY <3>1
    <3> HIDE DEF m
    <3>4. \A b \in Attempts : Spoken(b)' => Spoken(b) \/ b = m.attempt
      BY <1>0, <3>2, <3>3, OneMessage
    <3>5. pump'.owner \notin Attempts
      BY <1>3, BoundsAreNat DEF Attempts, None, Web
    <3> QED BY <3>1, <3>2, <3>4, <3>5 DEF Speaks
  <2> QED BY <2>1, <2>2
<1> QED BY <1>1, <1>2, <1>3, <1>4 DEF PumpMoves

(* Every step is one of these.                                             *)
LEMMA EveryStepMoves == IInv /\ [Next]_vars => Moved
<1> SUFFICES ASSUME IInv, [Next]_vars
             PROVE  Moved
  OBVIOUS
<1>1. CASE UNCHANGED vars
  BY <1>1, NodeUnmoved, NothingNoted, NothingElse DEF vars, Moved, Stands
<1>2. CASE Order \/ TriggerService \/ StopCommand \/ SessionLost \/ FcuLost \/ FcuSilent
  BY <1>2, AskedMoves, Shapes DEF Moved, ThreadMoves
<1>3. CASE StopSurvey
  BY <1>3, SurveyStopMoves, Shapes DEF Moved, ThreadMoves
<1>4. ASSUME NEW t \in Threads, Steps(t)
      PROVE  Moved
  <2>1. CASE Starting(t)
    <3>1. ThreadMoves(t)
      BY <2>1, StartsMove, ClaimsMove, PrepareMoves, CallMoves, AnswerMoves, RefusedMoves, ClosesMove
         DEF Starting, ThreadMoves
    <3> QED BY <3>1 DEF Moved
  <2>2. CASE Completing(t) \/ Stopping(t) \/ CleanupReturn(t)
    BY <2>2, CompletingMoves, StoppingMoves DEF Moved
  <2>3. CASE t = "lane" /\ (StartSurvey \/ AskPump \/ NotePause)
    BY <2>3, StartSurveyMoves, LaneMoves DEF Moved, ThreadMoves
  <2>4. CASE t = "stop" /\ (EndSurvey \/ ReportSurvey)
    BY <2>4, SurveyStopMoves DEF Moved, ThreadMoves
  <2>5. CASE t = "loop" /\ Surveying
    <3>1. CASE SurveyFlags
      BY <2>5, <3>1, ClaimsMove DEF Moved, ThreadMoves
    <3>2. CASE ~SurveyFlags
      BY <2>5, <3>2, LoopMoves DEF Surveying, Moved, ThreadMoves
    <3> QED BY <3>1, <3>2
  <2> QED BY <1>4, <2>1, <2>2, <2>3, <2>4, <2>5 DEF Steps, Runs
<1>5. CASE Deliver
  BY <1>5, DeliverMoves DEF Moved
<1>6. CASE (\E end \in {"done", "fault"} : PumpEnds(end)) \/ LeaseEnds \/ WebStarts \/ WebStops \/ WebEnds
  BY <1>6, PumpMovesAlone DEF Moved
<1> QED BY <1>1, <1>2, <1>3, <1>4, <1>5, <1>6 DEF Next

-----------------------------------------------------------------------------
(* The invariant.                                                          *)

(* Attempts are used in their order, and nothing is about one that is not. *)
InUse == {None} \cup Used
UsedHolds ==
  /\ \E k \in 0..MaxAttempts : Used = 1..k
  /\ trg.current \in InUse /\ trg.prepared \in InUse /\ pump.owner \in InUse \cup {Web}
  /\ \A t \in Threads : th[t].a \in InUse /\ th[t].exp \in InUse
  /\ \A b \in Attempts : Spoken(b) \/ ctx[b].pending # "none" => b \in Used

(* One thread at a time is in the middle of a start.                       *)
OneHolds == \A t, u \in Threads : th[t].pc \in StartPart /\ th[u].pc \in StartPart => t = u

(* The survey's loop, and only it, is where a loop is.                     *)
LoopOnly == {"look", "enter", "flags", "started", "leave", "closeSurvey"}
Own(x) ==
  \/ x.pc \in {"claim", "hold", "prepare", "guard", "call", "answer", "recanted", "refused"}
  \/ x.pc = "cleaning" /\ x.then = "recanted"
RolesHold ==
  /\ LET x == th["loop"] IN
     /\ x.pc \in {"idle", "look", "enter", "flags", "prepare", "guard", "call", "answer", "recanted", "refused",
                  "closeSurvey", "started", "leave", "cleaning"}
     /\ x.pc = "cleaning" => x.then \in {"recanted", "closeSurvey"}
     /\ x.pc # "idle" => x.kind = "survey"
  /\ \A t \in Threads \ {"loop"} :
       /\ th[t].pc \notin LoopOnly /\ (th[t].pc = "cleaning" => th[t].then # "closeSurvey")
       /\ Own(th[t]) => th[t].kind \in {"manual", "fcu", "waypoint"}

(* Who holds the transaction lock; with a stop's context taken away there  *)
(* is no survey until the stop is reported.                                *)
Stops(x) == x.pc \in {"halt", "cleaning", "stopReport"} /\ (x.pc # "stopReport" => x.then = "stopReport")
Holds(t) ==
  \/ th[t].pc \in {"flags", "call", "answer", "recanted", "started", "claimStop", "closeSurvey"}
  \/ th[t].pc = "cleaning" /\ th[t].then \in {"recanted", "closeSurvey"}
  \/ t = "loop" /\ th[t].pc \in {"prepare", "guard", "refused"}
  \/ Stops(th[t])
LockHolds ==
  \A t \in Threads : /\ Holds(t) => lock = t
                     /\ Stops(th[t]) => ~trg.survey

(* A thread that starts an attempt starts its own.                         *)
ClosesOwn(x) ==
  \/ x.pc \in {"closeManual", "closeWaypoint"}
  \/ x.pc = "cleaning" /\ x.then \in {"closeManual", "closeWaypoint"}
Settled(x) == x.pc \in {"hold", "prepare"}
StartsHold ==
  \A t \in Threads :
    /\ ClosesOwn(th[t]) => th[t].kind \in {"manual", "waypoint"}
    /\ (Own(th[t]) /\ th[t].pc # "claim" /\ th[t].kind # "survey") \/ ClosesOwn(th[t]) \/ Settled(th[t]) =>
         th[t].a \in Attempts /\ ctx[th[t].a].source = th[t].kind
    /\ Settled(th[t]) =>
         /\ trg.current \in {None, th[t].a} /\ trg.prepared # th[t].a /\ pump.owner # th[t].a
         /\ th[t].kind \in {"manual", "fcu"} => ctx[th[t].a].asked = th[t].stamp
    /\ th[t].pc \in {"claim", "enter", "flags"} => ~trg.sampling

(* What the pump is asked for and runs, bears the time of its command.     *)
StopPart(x) ==
  \/ x.pc \in {"stop", "halt", "join", "claimStop", "stopReport"}
  \/ x.pc = "cleaning" /\ x.then \in {"join", "stopReport"}
TimesHold ==
  /\ stopped.before <= pump.cutoff
  /\ \A t \in Threads : StopPart(th[t]) => th[t].stamp <= pump.cutoff
  /\ \A b \in Attempts :
       /\ (trg.prepared = b \/ pump.owner = b) /\ ctx[b].source \in {"manual", "fcu"} => ctx[b].issued = ctx[b].asked
       /\ pump.owner = b => ctx[b].issued >= pump.cutoff

(* Surveys are numbered, and none of the stopped ones is active.           *)
NumbersHold ==
  /\ \A b \in Attempts : ctx[b].gen <= trg.gen
  /\ trg.survey => trg.live = trg.gen
  /\ \A g \in stopped.surveys : g <= trg.gen /\ (trg.survey => g # trg.gen)

(* A sample of a survey that the pump may run.                             *)
Preparing(b) == \E t \in Threads : th[t].pc = "prepare" /\ th[t].kind = "survey" /\ th[t].a = b
Live(b) == pump.owner = b \/ trg.prepared = b \/ (Preparing(b) /\ trg.current = b)
Sampled(b) == ctx[b].source = "survey" /\ b \notin stopped.lost

(* It has no end yet, and is at one place.                                 *)
Ended(b) ==
  \/ Spoken(b)
  \/ ctx[b].pending # "none"
  \/ \E t \in Threads : th[t].pc = "complete" /\ th[t].exp = b
SamplesHold ==
  \A b \in Attempts :
    /\ ~(pump.owner = b /\ trg.prepared = b)
    /\ ctx[b].source = "survey" /\ (pump.owner = b \/ trg.prepared = b \/ Preparing(b)) => ~Ended(b)

(* Who has set `finishing' is one, and it is set.                          *)
Completes(x) == x.pc \in {"cleanup", "report"} \/ (x.pc = "cleaning" /\ x.then = "report")
Finishes(x) == Completes(x) \/ (Stops(x) /\ ~x.kept) \/ (x.pc = "cleaning" /\ ~x.saved)
FinishHolds ==
  /\ \A t, u \in Threads : Finishes(th[t]) /\ Finishes(th[u]) => t = u
  /\ \A t \in Threads : Finishes(th[t]) => trg.finishing
  /\ \A t \in Threads :
       th[t].pc = "cleaning" /\ (Completes(th[t]) \/ (Stops(th[t]) /\ ~th[t].kept)) => th[t].saved

(* While the end of an attempt is handled, no sample is under way.         *)
EndsHold ==
  \A t \in Threads : Completes(th[t]) =>
    /\ \A u \in Threads : th[u].pc # "flags"
    /\ \A b \in Attempts : ~(Preparing(b) /\ trg.current = b)
    /\ \A b \in Attempts : trg.survey /\ Sampled(b) /\ ctx[b].gen = trg.gen => ~Live(b)

(* A sample of the active survey is the current attempt.                   *)
CurrentHolds ==
  \A b \in Attempts : Sampled(b) /\ ctx[b].gen = trg.gen /\ trg.survey /\ Live(b) =>
    /\ trg.current = b /\ trg.sampling
    /\ pump.owner = b \/ trg.prepared = b => ctx[b].named

(* Of a survey that was stopped nothing is left, and of the one that is    *)
(* being stopped what is to be cleared away.                               *)
StopsOne == th["stop"].pc \in {"endSurvey", "reportSurvey"}
            \/ (th["stop"].pc = "cleaning" /\ th["stop"].then = "reportSurvey")
SurveysHold ==
  /\ \A b \in Attempts : Sampled(b) /\ ctx[b].gen \in stopped.surveys => ~Live(b)
  /\ StopsOne =>
       /\ th["stop"].gen <= trg.gen /\ (trg.survey => th["stop"].gen # trg.gen)
       /\ \A b \in Attempts : Sampled(b) /\ ctx[b].gen = th["stop"].gen /\ Live(b) =>
            /\ pump.owner = b /\ th["stop"].pc = "endSurvey" /\ th["stop"].a = b
            /\ trg.prepared # b /\ ~(Preparing(b) /\ trg.current = b)

StopParts ==
  /\ UsedHolds /\ OneHolds /\ RolesHold /\ LockHolds /\ StartsHold /\ TimesHold
  /\ NumbersHold /\ SamplesHold /\ FinishHolds /\ EndsHold /\ CurrentHolds /\ SurveysHold

-----------------------------------------------------------------------------
(* A thread stays where it is, is woken, or does the step.                 *)
Turn(u) ==
  \/ ThreadMoves(u)
  \/ StartsSurvey /\ u \in {"lane", "loop"}
  \/ LeavesSurvey /\ u = "loop"
  \/ (StopsSurvey \/ ReportsSurvey) /\ u = "stop"

(* A thread that changes does the step, or is woken by it.                 *)
LEMMA WhoTurns ==
  ASSUME Moved, NEW u \in Threads
  PROVE  th'[u] = th[u] \/ Woken(u, th'[u]) \/ Turn(u)
<1>1. ASSUME NEW t \in Threads, ThreadMoves(t), t # u
      PROVE  th'[u] = th[u] \/ Woken(u, th'[u])
  <2>1. CASE \/ Local(t) \/ Cleans(t) \/ Returns(t) \/ Claims(t) \/ Prepares(t) \/ Asked(t)
             \/ ClosesManual(t) \/ ClosesWaypoint(t) \/ ClosesSurvey(t) \/ Ends1(t)
             \/ HaltsAll(t) \/ StopsAll1(t) \/ ReportsStop(t)
    <3>1. Only(t)
      BY <2>1 DEF Local, Starts, JoinsLock, Loops, Wakes, Rests, Pauses, Cleans, Returns, Claims, Prepares,
                  Asked, ClosesManual, ClosesWaypoint, ClosesSurvey, Ends1, HaltsAll, StopsAll1, ReportsStop,
                  Moves
    <3> QED BY <1>1, <3>1 DEF Only
  <2>2. CASE Accepted(t) \/ Acts(t) \/ Reports(t)
    BY <1>1, <2>2 DEF Accepted, Acts, Reports, OnlyWakes
  <2> QED BY <1>1, <2>1, <2>2 DEF ThreadMoves
<1>2. CASE Delivers \/ PumpMoves \/ Stands
  BY <1>2 DEF Delivers, PumpMoves, Stands
<1>3. CASE StartsSurvey
  BY <1>3 DEF StartsSurvey, Turn
<1>4. CASE LeavesSurvey \/ StopsSurvey \/ ReportsSurvey
  BY <1>4 DEF LeavesSurvey, StopsSurvey, ReportsSurvey, Turn, Moves, Only
<1> QED BY <1>1, <1>2, <1>3, <1>4 DEF Moved, Turn

(* Where a thread is woken.                                                *)
LEMMA WokenAt ==
  ASSUME NEW u, NEW x, Woken(u, x)
  PROVE  /\ x.pc \in {"check", "stop", "complete"} /\ th[u].pc = "idle" /\ u # "loop"
         /\ x.a = None /\ x.then = "none" /\ ~x.kept /\ ~x.saved /\ (x.pc = "stop" => x.stamp = 0)
BY DEF Woken, Waits, Blank

-----------------------------------------------------------------------------
(* One thread at a time starts.                                            *)
LEMMA StartsBegin ==
  ASSUME IInv, NEW u \in Threads, Turn(u), th'[u].pc \in StartPart
  PROVE  th[u].pc \in StartPart \/ MayStart(u)
<1>0. Placed(th[u]) /\ th[u] \in ThreadStates
  BY Shapes
<1>1. CASE Local(u)
  BY <1>1 DEF Local, Starts, JoinsLock, Loops, Wakes, Rests, Pauses, Moves, StartPart, Rested
<1>2. CASE \/ Cleans(u) \/ Returns(u) \/ Claims(u) \/ Prepares(u) \/ Asked(u)
  BY <1>0, <1>2 DEF Cleans, Returns, Claims, Prepares, Asked, StartPart, Moves, Placed
<1>3. CASE \/ Accepted(u) \/ ClosesManual(u) \/ ClosesWaypoint(u) \/ ClosesSurvey(u) \/ Acts(u)
           \/ Ends1(u) \/ Reports(u)
  BY <1>0, <1>3 DEF Accepted, ClosesManual, ClosesWaypoint, ClosesSurvey, Acts, Ends1, Reports, StartPart,
                    Moves, Rested, Waits
<1>4. CASE HaltsAll(u) \/ StopsAll1(u) \/ ReportsStop(u)
  BY <1>0, <1>4 DEF HaltsAll, StopsAll1, ReportsStop, StartPart, Moves, Placed
<1>5. CASE ~ThreadMoves(u)
  BY <1>5 DEF Turn, StartsSurvey, LeavesSurvey, StopsSurvey, ReportsSurvey, Rested, StartPart, Moves
<1> QED BY <1>1, <1>2, <1>3, <1>4, <1>5 DEF ThreadMoves

(* Two threads move only where a survey is started, by the lane, which is  *)
(* not in the middle of a start.                                           *)
LEMMA OneTurns ==
  ASSUME Moved, NEW t \in Threads, NEW u \in Threads, t # u, Turn(t), Turn(u)
  PROVE  th'[t] = th[t] \/ Woken(t, th'[t]) \/ th'[u] = th[u] \/ Woken(u, th'[u]) \/ StartsSurvey
<1>1. CASE ThreadMoves(t)
  <2>1. CASE \/ Local(t) \/ Cleans(t) \/ Returns(t) \/ Claims(t) \/ Prepares(t) \/ Asked(t)
             \/ ClosesManual(t) \/ ClosesWaypoint(t) \/ ClosesSurvey(t) \/ Ends1(t)
             \/ HaltsAll(t) \/ StopsAll1(t) \/ ReportsStop(t)
    <3>1. Only(t)
      BY <2>1 DEF Local, Starts, JoinsLock, Loops, Wakes, Rests, Pauses, Cleans, Returns, Claims, Prepares,
                  Asked, ClosesManual, ClosesWaypoint, ClosesSurvey, Ends1, HaltsAll, StopsAll1, ReportsStop,
                  Moves
    <3> QED BY <3>1 DEF Only
  <2>2. CASE Accepted(t) \/ Acts(t) \/ Reports(t)
    BY <2>2 DEF Accepted, Acts, Reports, OnlyWakes
  <2> QED BY <1>1, <2>1, <2>2 DEF ThreadMoves
<1>2. CASE ~ThreadMoves(t) /\ ~StartsSurvey
  BY <1>2 DEF Turn, LeavesSurvey, StopsSurvey, ReportsSurvey, Moves, Only
<1> QED BY <1>1, <1>2

(* One thread at a time starts, in every step.                             *)
LEMMA OneStays ==
  ASSUME OneStarter, IInv, OneHolds, Moved
  PROVE  OneHolds'
<1> SUFFICES ASSUME NEW t \in Threads, NEW u \in Threads, t # u,
                    th'[t].pc \in StartPart, th'[u].pc \in StartPart
             PROVE  FALSE
  BY DEF OneHolds
<1>1. ~Woken(t, th'[t]) /\ ~Woken(u, th'[u])
  BY WokenAt DEF StartPart
<1>2. ~StartsSurvey
  <2>1. StartsSurvey => th'[t] = th[t] /\ th'[u] = th[u]
    BY DEF StartsSurvey, StartPart, Rested
  <2> QED BY <2>1 DEF OneHolds
<1>3. CASE th'[t] = th[t]
  <2>1. th'[u] # th[u]
    BY <1>3 DEF OneHolds
  <2>2. Turn(u)
    BY <1>1, <2>1, WhoTurns
  <2>3. th[u].pc \in StartPart \/ MayStart(u)
    BY <2>2, StartsBegin
  <2> QED BY <1>3, <2>3 DEF OneHolds, MayStart
<1>4. CASE th'[u] = th[u]
  <2>1. th'[t] # th[t]
    BY <1>4 DEF OneHolds
  <2>2. Turn(t)
    BY <1>1, <2>1, WhoTurns
  <2>3. th[t].pc \in StartPart \/ MayStart(t)
    BY <2>2, StartsBegin
  <2> QED BY <1>4, <2>3 DEF OneHolds, MayStart
<1>5. CASE th'[t] # th[t] /\ th'[u] # th[u]
  BY <1>1, <1>2, <1>5, WhoTurns, OneTurns
<1> QED BY <1>3, <1>4, <1>5

(* The loop is where a loop is.                                            *)
LEMMA LoopStays ==
  ASSUME IInv, RolesHold, Moved
  PROVE  LET x == th'["loop"] IN
         /\ x.pc \in {"idle", "look", "enter", "flags", "prepare", "guard", "call", "answer", "recanted",
                      "refused", "closeSurvey", "started", "leave", "cleaning"}
         /\ x.pc = "cleaning" => x.then \in {"recanted", "closeSurvey"}
         /\ x.pc # "idle" => x.kind = "survey"
<1> DEFINE w == th["loop"]
           x == th'["loop"]
<1>0. /\ "loop" \in Threads /\ ~Woken("loop", th'["loop"])
      /\ w.pc \in {"idle", "look", "enter", "flags", "prepare", "guard", "call", "answer", "recanted",
                   "refused", "closeSurvey", "started", "leave", "cleaning"}
      /\ w.pc = "cleaning" => w.then \in {"recanted", "closeSurvey"}
      /\ w.pc # "idle" => w.kind = "survey"
  BY Shapes, WokenAt DEF RolesHold
<1>1. CASE x = w
  BY <1>0, <1>1
<1>2. CASE Local("loop")
  BY <1>0, <1>2 DEF Local, Starts, JoinsLock, Loops, Wakes, Rests, Pauses, Moves, Rested, Keeps
<1>3. CASE Cleans("loop") \/ Returns("loop") \/ Claims("loop") \/ Prepares("loop") \/ Asked("loop")
  BY <1>0, <1>3 DEF Cleans, Returns, Claims, Prepares, Asked, Moves, Keeps
<1>4. CASE \/ Accepted("loop") \/ ClosesManual("loop") \/ ClosesWaypoint("loop") \/ ClosesSurvey("loop")
           \/ Acts("loop") \/ Ends1("loop") \/ Reports("loop")
  BY <1>0, <1>4 DEF Accepted, ClosesManual, ClosesWaypoint, ClosesSurvey, Acts, Ends1, Reports, Moves, Keeps
<1>5. CASE HaltsAll("loop") \/ StopsAll1("loop") \/ ReportsStop("loop")
  BY <1>0, <1>5 DEF HaltsAll, StopsAll1, ReportsStop, Moves
<1>6. CASE Turn("loop") /\ ~ThreadMoves("loop")
  BY <1>0, <1>6 DEF Turn, StartsSurvey, LeavesSurvey, StopsSurvey, ReportsSurvey, Rested, Moves, Only
<1> QED BY <1>0, <1>1, <1>2, <1>3, <1>4, <1>5, <1>6, WhoTurns DEF ThreadMoves

(* The loop is where a loop is, and no other thread is there.              *)
LEMMA RolesStay ==
  ASSUME IInv, RolesHold, Moved
  PROVE  RolesHold'
<1> DEFINE Fits(x) == /\ x.pc \notin LoopOnly /\ (x.pc = "cleaning" => x.then # "closeSurvey")
                      /\ Own(x) => x.kind \in {"manual", "fcu", "waypoint"}
<1>1. ASSUME NEW t \in Threads \ {"loop"}
      PROVE  Fits(th'[t])
  <2>0. Fits(th[t]) /\ Placed(th[t]) /\ th[t] \in ThreadStates
    BY Shapes DEF RolesHold
  <2>1. CASE th'[t] = th[t]
    BY <2>0, <2>1
  <2>2. CASE Woken(t, th'[t])
    BY <2>2, WokenAt DEF LoopOnly, Own
  <2>3. CASE Local(t)
    BY <1>1, <2>0, <2>3 DEF Local, Starts, JoinsLock, Loops, Wakes, Rests, Pauses, Moves, Rested, Keeps,
                            LoopOnly, Own
  <2>4. CASE Cleans(t) \/ Returns(t) \/ Claims(t) \/ Prepares(t) \/ Asked(t)
    BY <1>1, <2>0, <2>4 DEF Cleans, Returns, Claims, Prepares, Asked, Moves, Keeps, LoopOnly, Own, Placed
  <2>5. CASE \/ Accepted(t) \/ ClosesManual(t) \/ ClosesWaypoint(t) \/ ClosesSurvey(t)
             \/ Acts(t) \/ Ends1(t) \/ Reports(t)
    BY <1>1, <2>0, <2>5 DEF Accepted, ClosesManual, ClosesWaypoint, ClosesSurvey, Acts, Ends1, Reports, Moves,
                            Keeps, Rested, Waits, LoopOnly, Own
  <2>6. CASE HaltsAll(t) \/ StopsAll1(t) \/ ReportsStop(t)
    BY <1>1, <2>0, <2>6 DEF HaltsAll, StopsAll1, ReportsStop, Moves, Rested, LoopOnly, Own, Placed
  <2>7. CASE Turn(t) /\ ~ThreadMoves(t)
    BY <1>1, <2>0, <2>7 DEF Turn, StartsSurvey, LeavesSurvey, StopsSurvey, ReportsSurvey, Rested, Moves, Only,
                            LoopOnly, Own
  <2> QED BY <2>1, <2>2, <2>3, <2>4, <2>5, <2>6, <2>7, WhoTurns DEF ThreadMoves
<1> QED BY <1>1, LoopStays DEF RolesHold

-----------------------------------------------------------------------------
(* Who holds the lock has it, and takes it only when it is free.           *)
LEMMA TurnHolds ==
  ASSUME IInv, RolesHold, LockHolds, NEW t \in Threads, Turn(t)
  PROVE  /\ Holds(t)' => lock' = t
         /\ lock' # lock => lock \in {"free", t}
         /\ Stops(th'[t]) => Stops(th[t]) \/ ~trg'.survey
<1>0. /\ Placed(th[t]) /\ th[t] \in ThreadStates
      /\ Holds(t) => lock = t
      /\ t # "loop" => /\ th[t].pc \notin LoopOnly /\ (th[t].pc = "cleaning" => th[t].then # "closeSurvey")
                       /\ Own(th[t]) => th[t].kind \in {"manual", "fcu", "waypoint"}
      /\ t = "loop" => /\ th[t].pc \notin {"claim", "hold", "check", "complete"}
                       /\ th[t].pc # "idle" => th[t].kind = "survey"
  BY Shapes DEF LockHolds, RolesHold
<1>1. CASE Local(t)
  <2>1. CASE Starts(t)
    BY <1>0, <2>1 DEF Starts, Moves, Keeps, Own, Holds, Stops
  <2>2. CASE JoinsLock(t) \/ Wakes(t) \/ Rests(t) \/ (t = "lane" /\ Pauses)
    BY <1>0, <2>2 DEF JoinsLock, Wakes, Rests, Pauses, Moves, Rested, Holds, Stops
  <2>3. CASE t = "loop" /\ Loops
    BY <1>0, <2>3 DEF Loops, Moves, Holds, Stops
  <2> QED BY <1>1, <2>1, <2>2, <2>3 DEF Local
<1>2. CASE Cleans(t)
  BY <1>0, <1>2 DEF Cleans, Moves, Keeps, LoopOnly, Own, Holds, Stops, Placed
<1>3. CASE Returns(t)
  BY <1>0, <1>3 DEF Returns, Moves, Keeps, LoopOnly, Own, Holds, Stops, Placed
<1>4. CASE Claims(t) \/ Prepares(t) \/ Asked(t)
  BY <1>0, <1>4 DEF Claims, Prepares, Asked, Moves, Holds, Stops
<1>5. CASE \/ Accepted(t) \/ ClosesManual(t) \/ ClosesWaypoint(t) \/ ClosesSurvey(t)
           \/ Acts(t) \/ Ends1(t) \/ Reports(t)
  BY <1>0, <1>5 DEF Accepted, ClosesManual, ClosesWaypoint, ClosesSurvey, Acts, Ends1, Reports, Moves,
                    Keeps, Rested, Waits, Holds, Stops
<1>6. CASE HaltsAll(t)
  BY <1>0, <1>6 DEF HaltsAll, Moves, Holds, Stops, Placed
<1>7. CASE StopsAll1(t) \/ ReportsStop(t)
  BY <1>0, <1>7 DEF StopsAll1, ReportsStop, Moves, Rested, Holds, Stops
<1>8. CASE ~ThreadMoves(t)
  BY <1>0, <1>8 DEF Turn, StartsSurvey, LeavesSurvey, StopsSurvey, ReportsSurvey, Rested, Moves, Only,
                    Holds, Stops
<1> QED BY <1>1, <1>2, <1>3, <1>4, <1>5, <1>6, <1>7, <1>8 DEF ThreadMoves

(* A survey begins with the lock free only.                                *)
LEMMA SurveyBegins ==
  ASSUME Moved, trg'.survey
  PROVE  StartsSurvey \/ (trg.survey /\ trg'.gen = trg.gen /\ trg'.live = trg.live)
<1>1. ASSUME NEW t \in Threads, ThreadMoves(t)
      PROVE  trg.survey /\ trg'.gen = trg.gen /\ trg'.live = trg.live
  <2>1. CASE Local(t) \/ Cleans(t) \/ Returns(t) \/ Claims(t) \/ Prepares(t) \/ Asked(t) \/ Accepted(t)
    BY <2>1 DEF Local, Cleans, Returns, Claims, Prepares, Asked, Accepted, SameNode, SameSurvey
  <2>2. CASE ClosesManual(t) \/ ClosesWaypoint(t) \/ ClosesSurvey(t) \/ Acts(t) \/ Ends1(t) \/ Reports(t)
    BY <2>2 DEF ClosesManual, ClosesWaypoint, ClosesSurvey, Acts, Ends1, Reports, SameNode, SameSurvey, LessSurvey
  <2>3. CASE HaltsAll(t) \/ StopsAll1(t) \/ ReportsStop(t)
    BY <2>3 DEF HaltsAll, StopsAll1, ReportsStop, SameNode, SameSurvey
  <2> QED BY <1>1, <2>1, <2>2, <2>3 DEF ThreadMoves
<1>2. CASE ~\E t \in Threads : ThreadMoves(t)
  BY <1>2 DEF Moved, Delivers, LeavesSurvey, StopsSurvey, ReportsSurvey, PumpMoves, Stands,
              SameNode, SameSurvey, LessSurvey
<1> QED BY <1>1, <1>2

(* The lock passes only by the step of a thread.                           *)
LEMMA LockPasses ==
  ASSUME Moved
  PROVE  lock' = lock \/ \E t \in Threads : Turn(t)
BY DEF Moved, Turn, Delivers, StartsSurvey, LeavesSurvey, StopsSurvey, ReportsSurvey, PumpMoves, Stands

(* Who holds the lock has it, in every step.                               *)
LEMMA LockStaysHeld ==
  ASSUME IInv, RolesHold, LockHolds, Moved
  PROVE  LockHolds'
<1>0. "free" \notin Threads
  BY DonesAreApart DEF Threads
<1>1. ASSUME NEW v \in Threads, Holds(v)'
      PROVE  lock' = v
  <2>1. CASE Turn(v)
    BY <1>1, <2>1, TurnHolds
  <2>2. CASE Woken(v, th'[v])
    BY <1>1, <2>2, WokenAt DEF Holds, Stops
  <2>3. CASE th'[v] = th[v] /\ ~Turn(v)
    <3>1. Holds(v) /\ lock = v
      BY <1>1, <2>3 DEF Holds, LockHolds
    <3>2. CASE lock' # lock
      <4>1. PICK t \in Threads : Turn(t)
        BY <3>2, LockPasses
      <4>2. lock \in {"free", t}
        BY <3>2, <4>1, TurnHolds
      <4> QED BY <1>0, <2>3, <3>1, <4>1, <4>2
    <3> QED BY <3>1, <3>2
  <2> QED BY <2>1, <2>2, <2>3, WhoTurns
<1>2. ASSUME NEW v \in Threads, Stops(th'[v])
      PROVE  ~trg'.survey
  <2>1. CASE Stops(th[v])
    <3>1. lock = v /\ ~trg.survey
      BY <2>1 DEF LockHolds, Holds
    <3>2. ~StartsSurvey
      BY <1>0, <3>1 DEF StartsSurvey
    <3> QED BY <3>1, <3>2, SurveyBegins
  <2>2. CASE ~Stops(th[v])
    <3>1. ~Woken(v, th'[v])
      BY <1>2, WokenAt DEF Stops
    <3>2. Turn(v)
      BY <1>2, <2>2, <3>1, WhoTurns
    <3> QED BY <1>2, <2>2, <3>2, TurnHolds
  <2> QED BY <2>1, <2>2
<1> QED BY <1>1, <1>2 DEF LockHolds

-----------------------------------------------------------------------------
(* Attempts are used in their order.                                       *)
LEMMA FreshIsNext ==
  ASSUME UsedHolds
  PROVE  /\ Fresh \in Nat /\ Fresh \notin InUse
         /\ Fresh \in Attempts => /\ Used \cup {Fresh} = 1..Fresh /\ Fresh \in 0..MaxAttempts
                                  /\ Fresh # Web /\ ctx[Fresh].source = "none"
<1>1. PICK k \in 0..MaxAttempts : Used = 1..k
  BY DEF UsedHolds
<1>2. k \in Nat /\ Cardinality(1..k) = k
  <2>1. k \in Nat /\ 1 \in Int /\ k \in Int
    BY BoundsAreNat, <1>1
  <2>2. Cardinality(1..k) = IF 1 > k THEN 0 ELSE k - 1 + 1
    BY <2>1, FS_Interval
  <2> QED BY <2>1, <2>2
<1>3. Fresh = k + 1
  BY <1>1, <1>2 DEF Fresh
<1>4. Fresh \notin InUse
  BY <1>1, <1>2, <1>3 DEF InUse, None
<1>5. Fresh \in Attempts => Used \cup {Fresh} = 1..Fresh /\ Fresh \in 0..MaxAttempts /\ Fresh # Web
  BY <1>1, <1>2, <1>3, BoundsAreNat DEF Attempts, Web
<1>6. Fresh \in Attempts => ctx[Fresh].source = "none"
  BY <1>4 DEF InUse, Used
<1> QED BY <1>2, <1>3, <1>4, <1>5, <1>6

(* A step that claims no attempt leaves the origins of all, but where the  *)
(* payload of a start is made.                                             *)
Claiming == \E t \in Threads : Claims(t)
LEMMA OriginsStay ==
  ASSUME IInv, Moved, ~Claiming
  PROVE  \/ \A b \in Attempts : SameOrigin(b)
         \/ \E t \in Threads : Prepares(t)
<1>1. ASSUME NEW t \in Threads, ThreadMoves(t), ~Prepares(t)
      PROVE  \A b \in Attempts : SameOrigin(b)
  <2>1. CASE Local(t) \/ Cleans(t) \/ Returns(t) \/ Asked(t) \/ Accepted(t)
    BY <2>1 DEF Local, Cleans, Returns, Asked, Accepted, SameContexts, SameContext
  <2>2. CASE ClosesManual(t) \/ ClosesWaypoint(t) \/ ClosesSurvey(t) \/ Acts(t) \/ Ends1(t) \/ Reports(t)
    BY <2>2 DEF ClosesManual, ClosesWaypoint, ClosesSurvey, Acts, Ends1, Reports, SameContexts, SameContext
  <2>3. CASE HaltsAll(t) \/ StopsAll1(t) \/ ReportsStop(t)
    BY <2>3 DEF HaltsAll, StopsAll1, ReportsStop, SameContexts, SameContext
  <2> QED BY <1>1, <2>1, <2>2, <2>3 DEF ThreadMoves, Claiming
<1>2. CASE ~\E t \in Threads : ThreadMoves(t)
  BY <1>2 DEF Moved, Delivers, StartsSurvey, LeavesSurvey, StopsSurvey, ReportsSurvey, PumpMoves, Stands,
              SameContexts, SameContext, SameOrigin
<1> QED BY <1>1, <1>2

(* What a step that claims no attempt is about, was about before.          *)
LEMMA NobodyNew ==
  ASSUME IInv, Moved, ~Claiming
  PROVE  /\ trg'.current \in {None, trg.current}
         /\ trg'.prepared \in {None, trg.prepared} \/ (\E t \in Threads : Prepares(t) /\ trg'.prepared = trg.current)
         /\ pump'.owner \in {None, Web, pump.owner} \/ (\E t \in Threads : Asked(t) /\ pump'.owner = trg.prepared)
         /\ pump'.owner = pump.owner \/ trg'.prepared \in {None, trg.prepared}
         /\ \A b \in Attempts : Spoken(b)' => Spoken(b) \/ (pump.owner = b /\ pump'.owner # b)
         /\ \A b \in Attempts : ctx'[b].pending # "none" => ctx[b].pending # "none" \/ Spoken(b)
<1>0. ctx \in [Attempts -> Contexts]
  BY Shapes
<1>1. ASSUME NEW t \in Threads, ThreadMoves(t)
      PROVE  /\ trg'.current \in {None, trg.current}
             /\ trg'.prepared \in {None, trg.prepared} \/ (Prepares(t) /\ trg'.prepared = trg.current)
             /\ pump'.owner \in {None, Web, pump.owner} \/ (Asked(t) /\ pump'.owner = trg.prepared)
             /\ pump'.owner = pump.owner \/ trg'.prepared \in {None, trg.prepared}
             /\ \A b \in Attempts : Spoken(b)' => Spoken(b) \/ (pump.owner = b /\ pump'.owner # b)
             /\ \A b \in Attempts : ctx'[b].pending # "none" => ctx[b].pending # "none" \/ Spoken(b)
  <2>1. CASE Local(t)
    BY <2>1 DEF Local, SameNode, SameSample, SamePrepared, SameWorld, SamePump, Silent, SameContexts, SameContext
  <2>2. CASE Cleans(t) \/ Returns(t)
    BY <2>2 DEF Cleans, Returns, SameSample, SamePrepared, SameWorld, SamePump, Silent, Speaks, SameContexts,
                SameContext
  <2>3. CASE Prepares(t)
    BY <2>3 DEF Prepares, SameWorld, SamePump, Silent, SameContext
  <2>4. CASE Asked(t)
    BY <2>4 DEF Asked, SameSample, Silent, SameContexts, SameContext
  <2>5. CASE Accepted(t)
    BY <2>5 DEF Accepted, SameNode, SameSample, SamePrepared, SameWorld, SamePump, Silent
  <2>6. CASE ClosesManual(t) \/ ClosesWaypoint(t) \/ ClosesSurvey(t)
    BY <2>6 DEF ClosesManual, ClosesWaypoint, ClosesSurvey, SameSample, SamePrepared, SameWorld, SamePump, Silent,
                SameContexts, SameContext
  <2>7. CASE Acts(t) \/ Ends1(t) \/ Reports(t)
    BY <2>7 DEF Acts, Ends1, Reports, SameNode, SameSample, SamePrepared, SameWorld, SamePump, Silent,
                SameContexts, SameContext
  <2>8. CASE HaltsAll(t) \/ StopsAll1(t) \/ ReportsStop(t)
    BY <2>8 DEF HaltsAll, StopsAll1, ReportsStop, SameNode, SameSample, SamePrepared, SameWorld, SamePump, Silent,
                Speaks, SameContexts, SameContext
  <2> QED BY <1>1, <2>1, <2>2, <2>3, <2>4, <2>5, <2>6, <2>7, <2>8 DEF ThreadMoves, Claiming
<1>2. CASE ~\E t \in Threads : ThreadMoves(t)
  <2>1. CASE Delivers
    BY <2>1 DEF Delivers, SameSample, SamePrepared, SameWorld, SamePump, Silent
  <2>2. CASE StartsSurvey \/ LeavesSurvey \/ StopsSurvey \/ ReportsSurvey
    BY <2>2 DEF StartsSurvey, LeavesSurvey, StopsSurvey, ReportsSurvey, SameNode, SameSample, SamePrepared,
                SameWorld, SamePump, Silent, SameContexts, SameContext
  <2>3. CASE PumpMoves \/ Stands
    BY <2>3 DEF PumpMoves, Stands, SameNode, SameSample, SamePrepared, SameWorld, SamePump, Silent, Speaks,
                SameContexts, SameContext
  <2> QED BY <1>2, <2>1, <2>2, <2>3 DEF Moved
<1> QED BY <1>1, <1>2

(* A thread is about what it was about, or what another handler shows it.  *)
LEMMA ThreadsAboutOld ==
  ASSUME IInv, Moved, NEW u \in Threads, th'[u].a # Fresh \/ ~Claims(u)
  PROVE  /\ th'[u].a \in {None, trg.current, th[u].a, th[u].exp}
         /\ \/ th'[u].exp \in {None, trg.current, th[u].a, th[u].exp}
            \/ th'[u].exp \in Attempts /\ (Spoken(th'[u].exp) \/ ctx[th'[u].exp].pending # "none")
<1>1. CASE th'[u] = th[u]
  BY <1>1
<1>2. CASE Woken(u, th'[u])
  BY <1>2 DEF Woken, Waits, Blank
<1>3. CASE Local(u)
  BY <1>3 DEF Local, Starts, JoinsLock, Loops, Wakes, Rests, Pauses, Moves, Rested, Keeps, Blank
<1>4. CASE Cleans(u) \/ Returns(u) \/ Prepares(u) \/ Asked(u) \/ Claims(u)
  BY <1>4 DEF Cleans, Returns, Prepares, Asked, Keeps, Claims
<1>5. CASE Accepted(u) \/ ClosesManual(u) \/ ClosesWaypoint(u) \/ ClosesSurvey(u)
  BY <1>5 DEF Accepted, ClosesManual, ClosesWaypoint, ClosesSurvey, Keeps, Rested, Blank, Waits
<1>6. CASE Acts(u) \/ Ends1(u) \/ Reports(u) \/ HaltsAll(u) \/ StopsAll1(u) \/ ReportsStop(u)
  BY <1>6 DEF Acts, Ends1, Reports, HaltsAll, StopsAll1, ReportsStop, Rested, Blank
<1>7. CASE Turn(u) /\ ~ThreadMoves(u)
  BY <1>7 DEF Turn, StartsSurvey, LeavesSurvey, StopsSurvey, ReportsSurvey, Rested, Blank
<1> QED BY <1>1, <1>2, <1>3, <1>4, <1>5, <1>6, <1>7, WhoTurns DEF ThreadMoves

(* Attempts are used in their order, in every step.                        *)
LEMMA UsedStays ==
  ASSUME IInv, UsedHolds, RolesHold, Moved
  PROVE  UsedHolds' /\ Used \subseteq Used'
<1>0. /\ ctx \in [Attempts -> Contexts]
      /\ trg.current \in InUse /\ trg.prepared \in InUse /\ pump.owner \in InUse \cup {Web}
      /\ \A t \in Threads : th[t].a \in InUse /\ th[t].exp \in InUse
      /\ \A b \in Attempts : Spoken(b) \/ ctx[b].pending # "none" => b \in Used
  BY Shapes DEF UsedHolds
<1>1. CASE ~Claiming
  <2>1. Used' = Used
    <3>1. CASE \A b \in Attempts : SameOrigin(b)
      BY <3>1 DEF Used, SameOrigin
    <3>2. ASSUME NEW t \in Threads, Prepares(t)
          PROVE  Used' = Used
      <4>1. \A b \in Attempts \ {trg.current} : ctx'[b].source = ctx[b].source
        BY <3>2 DEF Prepares, SameContext, SameOrigin
      <4>2. trg.current \in Attempts => /\ ctx[trg.current].source # "none"
                                        /\ ctx'[trg.current].source \in {"survey", ctx[trg.current].source}
        BY <1>0, <3>2 DEF Prepares, InUse, Used, None, Attempts
      <4> QED BY <4>1, <4>2 DEF Used
    <3> QED BY <1>1, <3>1, <3>2, OriginsStay
  <2>2. InUse' = InUse
    BY <2>1 DEF InUse
  <2>3. trg'.current \in InUse /\ trg'.prepared \in InUse /\ pump'.owner \in InUse \cup {Web}
    BY <1>0, <1>1, NobodyNew DEF InUse
  <2>4. ASSUME NEW u \in Threads
        PROVE  th'[u].a \in InUse /\ th'[u].exp \in InUse
    <3>1. ~Claims(u)
      BY <1>1 DEF Claiming
    <3> QED BY <1>0, <3>1, ThreadsAboutOld DEF InUse
  <2>5. \A b \in Attempts : Spoken(b)' \/ ctx'[b].pending # "none" => b \in Used
    <3>1. ASSUME NEW b \in Attempts, pump.owner = b
          PROVE  b \in Used
      BY <1>0, <3>1, BoundsAreNat DEF InUse, None, Attempts, Web
    <3> QED BY <1>0, <1>1, <3>1, NobodyNew
  <2>6. \E k \in 0..MaxAttempts : Used = 1..k
    BY DEF UsedHolds
  <2> QED BY <2>1, <2>2, <2>3, <2>4, <2>5, <2>6 DEF UsedHolds
<1>2. CASE Claiming
  <2>1. PICK t \in Threads : Claims(t)
    BY <1>2 DEF Claiming
  <2>2. Fresh \in Attempts /\ Fresh \notin InUse /\ Used \cup {Fresh} = 1..Fresh /\ Fresh \in 0..MaxAttempts
    BY <2>1, FreshIsNext DEF Claims
  <2>3. Used' = Used \cup {Fresh}
    <3>1. \A b \in Attempts \ {Fresh} : ctx'[b].source = ctx[b].source
      BY <2>1 DEF Claims, SameContext, SameOrigin
    <3>2. ctx'[Fresh].source # "none"
      <4>1. (th[t].pc = "claim" /\ th[t].kind \in {"manual", "fcu", "waypoint"}) \/ th[t].pc = "flags"
        BY <2>1 DEF Claims
      <4> QED BY <2>1, <4>1 DEF Claims
    <3> HIDE DEF Fresh
    <3> QED BY <2>2, <3>1, <3>2 DEF Used
  <2>4. InUse \subseteq InUse' /\ Fresh \in InUse'
    BY <2>3 DEF InUse
  <2>5. trg'.current = Fresh /\ trg'.prepared = trg.prepared /\ pump'.owner = pump.owner
    BY <2>1 DEF Claims, SamePrepared, SameWorld, SamePump
  <2>6. ASSUME NEW u \in Threads
        PROVE  th'[u].a \in InUse' /\ th'[u].exp \in InUse'
    <3>1. CASE u = t
      BY <1>0, <2>1, <2>4, <3>1 DEF Claims
    <3>2. CASE u # t
      BY <1>0, <2>1, <2>4, <3>2 DEF Claims, Only
    <3> QED BY <3>1, <3>2
  <2>7. \A b \in Attempts : Spoken(b)' \/ ctx'[b].pending # "none" => b \in Used
    <3>1. \A b \in Attempts : Spoken(b)' => Spoken(b)
      BY <2>1 DEF Claims, SameWorld, Silent
    <3>2. ctx'[Fresh].pending = "none" /\ \A b \in Attempts \ {Fresh} : ctx'[b].pending = ctx[b].pending
      BY <2>1 DEF Claims, SameContext
    <3> HIDE DEF Fresh
    <3> QED BY <1>0, <3>1, <3>2
  <2>8. \E k \in 0..MaxAttempts : Used' = 1..k
    BY <2>2, <2>3
  <2>9. \A b \in Attempts : Spoken(b)' \/ ctx'[b].pending # "none" => b \in Used'
    BY <2>3, <2>7
  <2> QED BY <1>0, <2>3, <2>4, <2>5, <2>6, <2>8, <2>9 DEF UsedHolds
<1> QED BY <1>1, <1>2

-----------------------------------------------------------------------------
(* A thread that starts an attempt starts its own.                         *)
LEMMA OriginKept ==
  ASSUME IInv, UsedHolds, StartsHold, Moved, NEW b \in Used
  PROVE  SameOrigin(b)
<1>0. b \in Attempts
  BY DEF Used
<1>1. ASSUME NEW t \in Threads, Claims(t)
      PROVE  SameOrigin(b)
  <2>1. b # Fresh
    BY <1>1, FreshIsNext DEF Claims, InUse
  <2> QED BY <1>0, <1>1, <2>1 DEF Claims, SameContext
<1>2. ASSUME NEW t \in Threads, Prepares(t)
      PROVE  SameOrigin(b)
  <2>1. CASE b # trg.current
    BY <1>0, <1>2, <2>1 DEF Prepares, SameContext
  <2>2. CASE b = trg.current
    <3>1. Settled(th[t])
      BY <1>2 DEF Prepares, Moves, Settled
    <3>2. ctx[b].source = th[t].kind
      BY <1>0, <2>2, <3>1 DEF StartsHold, None, Attempts
    <3> QED BY <1>0, <1>2, <2>2, <3>2 DEF Prepares, SameOrigin
  <2> QED BY <2>1, <2>2
<1> QED BY <1>0, <1>1, <1>2, OriginsStay DEF Claiming

(* Something is sampled only from a claim or a preparation on.             *)
LEMMA SamplingBegins ==
  ASSUME Moved, trg'.sampling
  PROVE  trg.sampling \/ \E t \in Threads : Claims(t) \/ Prepares(t)
<1>1. ASSUME NEW t \in Threads, ThreadMoves(t), ~Claims(t), ~Prepares(t)
      PROVE  trg.sampling
  <2>1. CASE Local(t) \/ Cleans(t) \/ Returns(t) \/ Asked(t) \/ Accepted(t)
    BY <2>1 DEF Local, Cleans, Returns, Asked, Accepted, SameNode, SameSample
  <2>2. CASE ClosesManual(t) \/ ClosesWaypoint(t) \/ ClosesSurvey(t) \/ Acts(t) \/ Ends1(t) \/ Reports(t)
    BY <2>2 DEF ClosesManual, ClosesWaypoint, ClosesSurvey, Acts, Ends1, Reports, SameNode, SameSample
  <2>3. CASE HaltsAll(t) \/ StopsAll1(t) \/ ReportsStop(t)
    BY <2>3 DEF HaltsAll, StopsAll1, ReportsStop, SameNode, SameSample
  <2> QED BY <1>1, <2>1, <2>2, <2>3 DEF ThreadMoves
<1>2. CASE ~\E t \in Threads : ThreadMoves(t)
  BY <1>2 DEF Moved, Delivers, StartsSurvey, LeavesSurvey, StopsSurvey, ReportsSurvey, PumpMoves, Stands,
              SameNode, SameSample
<1> QED BY <1>1, <1>2

Started(t) ==
  /\ ClosesOwn(th[t]) => th[t].kind \in {"manual", "waypoint"}
  /\ (Own(th[t]) /\ th[t].pc # "claim" /\ th[t].kind # "survey") \/ ClosesOwn(th[t]) \/ Settled(th[t]) =>
       th[t].a \in Attempts /\ ctx[th[t].a].source = th[t].kind
  /\ Settled(th[t]) =>
       /\ trg.current \in {None, th[t].a} /\ trg.prepared # th[t].a /\ pump.owner # th[t].a
       /\ th[t].kind \in {"manual", "fcu"} => ctx[th[t].a].asked = th[t].stamp
  /\ th[t].pc \in {"claim", "enter", "flags"} => ~trg.sampling

(* A thread that is left alone.                                            *)
LEMMA StandsStarted ==
  ASSUME IInv, UsedHolds, OneHolds, RolesHold, StartsHold, Moved, NEW u \in Threads, th'[u] = th[u]
  PROVE  Started(u)'
<1>0. Started(u) /\ th[u].a \in InUse
  BY DEF StartsHold, Started, UsedHolds
<1>1. th[u].a \in Attempts => SameOrigin(th[u].a)
  BY <1>0, OriginKept DEF InUse, None, Attempts
<1>2. ASSUME NEW t \in Threads, Claims(t) \/ Prepares(t), th[u].pc \in StartPart
      PROVE  FALSE
  <2>1. th[t].pc \in StartPart /\ th'[t].pc # th[t].pc
    BY <1>2 DEF Claims, Prepares, Moves, StartPart
  <2> QED BY <1>2, <2>1 DEF OneHolds
<1>3. ASSUME Settled(th[u])
      PROVE  trg'.current \in {None, th[u].a} /\ trg'.prepared # th[u].a /\ pump'.owner # th[u].a
  <2>1. ~Claiming /\ ~\E t \in Threads : Prepares(t)
    BY <1>2, <1>3 DEF Claiming, Settled, StartPart
  <2>2. th[u].a \in Attempts
    BY <1>0, <1>3 DEF Started
  <2>3. th[u].a # None /\ th[u].a # Web
    BY <2>2, BoundsAreNat DEF None, Attempts, Web
  <2> QED BY <1>0, <1>3, <2>1, <2>3, NobodyNew DEF Started
<1>4. th[u].pc \in {"claim", "enter", "flags"} => ~trg'.sampling
  BY <1>0, <1>2, SamplingBegins DEF Started, StartPart
<1> QED BY <1>0, <1>1, <1>3, <1>4 DEF Started, SameOrigin

(* A thread that claims an attempt claims a fresh one.                     *)
LEMMA ClaimsStarted ==
  ASSUME IInv, UsedHolds, RolesHold, StartsHold, NEW u \in Threads, Claims(u)
  PROVE  Started(u)'
<1>1. /\ Fresh \in Attempts /\ trg.prepared # Fresh /\ pump.owner # Fresh
  BY FreshIsNext DEF Claims, UsedHolds
<1>2. /\ th'[u].a = Fresh /\ trg'.current = Fresh /\ trg'.prepared = trg.prepared /\ pump'.owner = pump.owner
      /\ th'[u].pc \in {"hold", "prepare"} /\ th'[u].kind = th[u].kind
  BY DEF Claims, SamePrepared, SameWorld, SamePump
<1>3. ctx'[Fresh].source = th'[u].kind
  BY DEF Claims, RolesHold
<1>4. th'[u].kind \in {"manual", "fcu"} => ctx'[Fresh].asked = th'[u].stamp
  BY DEF Claims
<1> HIDE DEF Fresh
<1> QED BY <1>1, <1>2, <1>3, <1>4 DEF Started, Own, ClosesOwn, Settled

(* A thread that does another step.                                        *)
LEMMA TurnStarted ==
  ASSUME IInv, UsedHolds, OneHolds, RolesHold, StartsHold, Moved, NEW u \in Threads, Turn(u), ~Claims(u)
  PROVE  Started(u)'
<1>0. /\ Started(u) /\ th[u].a \in InUse /\ Placed(th[u]) /\ th[u] \in ThreadStates
      /\ u # "loop" => /\ th[u].pc \notin LoopOnly /\ (th[u].pc = "cleaning" => th[u].then # "closeSurvey")
                       /\ Own(th[u]) => th[u].kind \in {"manual", "fcu", "waypoint"}
      /\ u = "loop" => /\ th[u].pc \notin {"claim", "hold", "check", "complete"}
                       /\ th[u].pc # "idle" => th[u].kind = "survey"
  BY Shapes DEF StartsHold, Started, UsedHolds, RolesHold
<1>1. th[u].a \in Attempts => SameOrigin(th[u].a)
  BY <1>0, OriginKept DEF InUse, None, Attempts
<1>2. CASE Starts(u) /\ Local(u)
  <2>1. /\ trg'.sampling = trg.sampling /\ trg'.current = trg.current /\ trg'.prepared = trg.prepared
        /\ pump'.owner = pump.owner
    BY <1>2 DEF Local, SameNode, SameSample, SamePrepared, SameWorld, SamePump
  <2> QED BY <1>0, <1>1, <1>2, <2>1 DEF Starts, Started, Own, ClosesOwn, Settled, Moves, Keeps, SameOrigin
<1>3. CASE Local(u) /\ ~Starts(u)
  <2>1. trg'.sampling = trg.sampling
    BY <1>3 DEF Local, SameNode, SameSample
  <2>2. th'[u].pc \in {"claimStop", "halt", "enter", "leave", "flags", "look", "check", "stop", "idle", "paused"}
    BY <1>3 DEF Local, JoinsLock, Loops, Wakes, Rests, Pauses, Moves
  <2>3. th'[u].pc \in {"enter", "flags"} => ~trg.sampling
    BY <1>0, <1>3 DEF Local, JoinsLock, Loops, Wakes, Rests, Pauses, Moves, Started
  <2> QED BY <2>1, <2>2, <2>3 DEF Started, Own, ClosesOwn, Settled
<1>4. CASE Cleans(u) \/ Returns(u)
  BY <1>0, <1>1, <1>4 DEF Cleans, Returns, Started, Own, ClosesOwn, Settled, Moves, Keeps, SameOrigin, Placed
<1>5. CASE Prepares(u)
  BY <1>0, <1>1, <1>5 DEF Prepares, Started, Own, ClosesOwn, Settled, Moves, SameOrigin
<1>6. CASE Asked(u)
  BY <1>0, <1>1, <1>6 DEF Asked, Started, Own, ClosesOwn, Settled, Moves, Keeps, SameOrigin
<1>7. CASE \/ Accepted(u) \/ ClosesManual(u) \/ ClosesWaypoint(u) \/ ClosesSurvey(u)
           \/ Acts(u) \/ Ends1(u) \/ Reports(u)
  BY <1>7 DEF Accepted, ClosesManual, ClosesWaypoint, ClosesSurvey, Acts, Ends1, Reports, Moves,
              Rested, Waits, Started, Own, ClosesOwn, Settled
<1>8. CASE HaltsAll(u) \/ StopsAll1(u) \/ ReportsStop(u)
  BY <1>0, <1>8 DEF HaltsAll, StopsAll1, ReportsStop, Moves, Rested, Started, Own, ClosesOwn, Settled, Placed
<1>9. CASE ~ThreadMoves(u)
  BY <1>9 DEF Turn, StartsSurvey, LeavesSurvey, StopsSurvey, ReportsSurvey, Rested, Moves,
              Started, Own, ClosesOwn, Settled
<1> QED BY <1>2, <1>3, <1>4, <1>5, <1>6, <1>7, <1>8, <1>9 DEF ThreadMoves

(* Whoever starts an attempt starts its own, in every step.                *)
LEMMA StartsStay ==
  ASSUME IInv, UsedHolds, OneHolds, RolesHold, StartsHold, Moved
  PROVE  StartsHold'
<1>1. ASSUME NEW u \in Threads
      PROVE  Started(u)'
  <2>1. CASE Woken(u, th'[u])
    BY <2>1, WokenAt DEF Started, Own, ClosesOwn, Settled
  <2> QED BY <2>1, WhoTurns, StandsStarted, ClaimsStarted, TurnStarted
<1> QED BY <1>1 DEF StartsHold, Started

-----------------------------------------------------------------------------
(* What the pump is asked for and runs, bears the time of its command.     *)
LEMMA PumpTime ==
  ASSUME IInv, IInv', Moved
  PROVE  /\ pump'.cutoff \in Nat /\ pump.cutoff \in Nat /\ pump'.cutoff >= pump.cutoff
         /\ pump'.owner \in Attempts => pump'.cutoff = pump.cutoff
         /\ \/ stopped'.before = stopped.before
            \/ \E t \in Threads : ReportsStop(t) /\ stopped'.before = th[t].stamp
<1>0. pump.cutoff \in Nat /\ None \notin Attempts /\ Web \notin Attempts
  BY Shapes, BoundsAreNat DEF PumpStates, None, Attempts, Web
<1>1. ASSUME NEW t \in Threads, ThreadMoves(t)
      PROVE  /\ pump'.cutoff = pump.cutoff \/ (pump'.owner = None /\ pump'.cutoff = pump.cutoff + 1)
             /\ stopped'.before = stopped.before \/ (ReportsStop(t) /\ stopped'.before = th[t].stamp)
  <2>1. CASE Local(t) \/ Cleans(t) \/ Returns(t) \/ Claims(t) \/ Prepares(t) \/ Asked(t) \/ Accepted(t)
    BY <2>1 DEF Local, Cleans, Returns, Claims, Prepares, Asked, Accepted, SameWorld, SamePump, SameHistory
  <2>2. CASE ClosesManual(t) \/ ClosesWaypoint(t) \/ ClosesSurvey(t) \/ Acts(t) \/ Ends1(t) \/ Reports(t)
    BY <2>2 DEF ClosesManual, ClosesWaypoint, ClosesSurvey, Acts, Ends1, Reports, SameWorld, SamePump, SameHistory
  <2>3. CASE HaltsAll(t) \/ StopsAll1(t) \/ ReportsStop(t)
    BY <2>3 DEF HaltsAll, StopsAll1, ReportsStop, SameWorld, SamePump, SameHistory
  <2> QED BY <1>1, <2>1, <2>2, <2>3 DEF ThreadMoves
<1>2. CASE ~\E t \in Threads : ThreadMoves(t)
  <2>1. CASE PumpMoves
    <3>1. pump'.cutoff \in Nat
      BY DEF IInv, PumpStates
    <3> QED BY <1>0, <2>1, <3>1 DEF PumpMoves, SameHistory
  <2>2. CASE ~PumpMoves
    BY <1>0, <1>2, <2>2 DEF Moved, Delivers, StartsSurvey, LeavesSurvey, StopsSurvey, ReportsSurvey, Stands,
              SameWorld, SamePump, SameHistory
  <2> QED BY <2>1, <2>2
<1> QED BY <1>0, <1>1, <1>2

(* The time of an attempt is put in it when it is prepared.                *)
LEMMA IssuedStays ==
  ASSUME IInv, Moved, NEW b \in Attempts, ~\E t \in Threads : Claims(t) /\ b = Fresh,
         ~\E t \in Threads : Prepares(t) /\ b = trg.current
  PROVE  ctx'[b].issued = ctx[b].issued /\ ctx'[b].named = ctx[b].named
<1>1. ASSUME NEW t \in Threads, ThreadMoves(t)
      PROVE  ctx'[b].issued = ctx[b].issued /\ ctx'[b].named = ctx[b].named
  <2>1. CASE Local(t) \/ Cleans(t) \/ Returns(t) \/ Asked(t) \/ Accepted(t)
    BY <2>1 DEF Local, Cleans, Returns, Asked, Accepted, SameContexts, SameContext
  <2>2. CASE Claims(t) \/ Prepares(t)
    BY <2>2 DEF Claims, Prepares, SameContext
  <2>3. CASE ClosesManual(t) \/ ClosesWaypoint(t) \/ ClosesSurvey(t) \/ Acts(t) \/ Ends1(t) \/ Reports(t)
    BY <2>3 DEF ClosesManual, ClosesWaypoint, ClosesSurvey, Acts, Ends1, Reports, SameContexts, SameContext
  <2>4. CASE HaltsAll(t) \/ StopsAll1(t) \/ ReportsStop(t)
    BY <2>4 DEF HaltsAll, StopsAll1, ReportsStop, SameContexts, SameContext
  <2> QED BY <1>1, <2>1, <2>2, <2>3, <2>4 DEF ThreadMoves
<1>2. CASE ~\E t \in Threads : ThreadMoves(t)
  BY <1>2 DEF Moved, Delivers, StartsSurvey, LeavesSurvey, StopsSurvey, ReportsSurvey, PumpMoves, Stands,
              SameContexts, SameContext
<1> QED BY <1>1, <1>2

(* The time of a stop is that of its call of the pump.                     *)
LEMMA StopTimes ==
  ASSUME IInv, IInv', TimesHold, Moved, NEW u \in Threads, StopPart(th'[u])
  PROVE  th'[u].stamp <= pump'.cutoff
<1>0. /\ pump'.cutoff \in Nat /\ pump.cutoff \in Nat /\ pump'.cutoff >= pump.cutoff
      /\ Placed(th[u]) /\ th[u].stamp \in Nat
  BY PumpTime, Shapes DEF ThreadStates
<1>1. CASE th'[u].stamp = th[u].stamp /\ StopPart(th[u])
  BY <1>0, <1>1 DEF TimesHold
<1>2. CASE th'[u].stamp = 0
  BY <1>0, <1>2
<1>3. CASE th'[u].stamp = pump'.cutoff
  BY <1>0, <1>3
<1>4. \/ th'[u].stamp = th[u].stamp /\ StopPart(th[u])
      \/ th'[u].stamp = 0 \/ th'[u].stamp = pump'.cutoff
  <2>1. CASE th'[u] = th[u]
    BY <2>1
  <2>2. CASE Woken(u, th'[u])
    BY <2>2, WokenAt DEF StopPart
  <2>3. CASE Local(u)
    BY <2>3 DEF Local, Starts, JoinsLock, Loops, Wakes, Rests, Pauses, Moves, Rested, Keeps, StopPart
  <2>4. CASE Cleans(u) \/ Returns(u)
    BY <1>0, <2>4 DEF Cleans, Returns, Moves, Keeps, StopPart, Placed
  <2>5. CASE Claims(u) \/ Prepares(u) \/ Asked(u)
    BY <2>5 DEF Claims, Prepares, Asked, Moves, StopPart
  <2>6. CASE \/ Accepted(u) \/ ClosesManual(u) \/ ClosesWaypoint(u) \/ ClosesSurvey(u)
             \/ Acts(u) \/ Ends1(u) \/ Reports(u)
    BY <2>6 DEF Accepted, ClosesManual, ClosesWaypoint, ClosesSurvey, Acts, Ends1, Reports, Moves,
                Rested, Waits, StopPart
  <2>7. CASE HaltsAll(u) \/ StopsAll1(u) \/ ReportsStop(u)
    BY <2>7 DEF HaltsAll, StopsAll1, ReportsStop, Moves, Rested, StopPart
  <2>8. CASE Turn(u) /\ ~ThreadMoves(u)
    BY <2>8 DEF Turn, StartsSurvey, LeavesSurvey, StopsSurvey, ReportsSurvey, Rested, Moves, StopPart
  <2> QED BY <2>1, <2>2, <2>3, <2>4, <2>5, <2>6, <2>7, <2>8, WhoTurns DEF ThreadMoves
<1> QED BY <1>1, <1>2, <1>3, <1>4

(* What the pump runs is not older than its last stop, in every step.      *)
LEMMA TimesStay ==
  ASSUME IInv, IInv', UsedHolds, StartsHold, TimesHold, Moved
  PROVE  TimesHold'
<1>0. /\ pump'.cutoff \in Nat /\ pump.cutoff \in Nat /\ pump'.cutoff >= pump.cutoff
      /\ stopped.before \in Nat /\ ctx \in [Attempts -> Contexts]
  BY PumpTime, Shapes DEF Histories
<1>1. stopped'.before <= pump'.cutoff
  <2>1. CASE stopped'.before = stopped.before
    BY <1>0, <2>1 DEF TimesHold
  <2>2. ASSUME NEW t \in Threads, ReportsStop(t), stopped'.before = th[t].stamp
        PROVE  stopped'.before <= pump'.cutoff
    <3>1. th[t].stamp <= pump.cutoff /\ th[t].stamp \in Nat
      BY <2>2, Shapes DEF TimesHold, ReportsStop, Moves, StopPart, ThreadStates
    <3> QED BY <1>0, <2>2, <3>1
  <2> QED BY <2>1, <2>2, PumpTime
<1>2. ASSUME NEW b \in Attempts, trg'.prepared = b \/ pump'.owner = b
      PROVE  /\ ctx'[b].source \in {"manual", "fcu"} => ctx'[b].issued = ctx'[b].asked
             /\ pump'.owner = b => ctx'[b].issued >= pump'.cutoff
  <2>0. b # None /\ b # Web
    BY BoundsAreNat DEF Attempts, None, Web
  <2>1. ASSUME NEW t \in Threads, Claims(t)
        PROVE  /\ trg'.prepared = trg.prepared /\ pump'.owner = pump.owner /\ b # Fresh
               /\ ~\E u \in Threads : Prepares(u)
    <3>1. trg'.prepared = trg.prepared /\ pump'.owner = pump.owner
      BY <2>1 DEF Claims, SamePrepared, SameWorld, SamePump
    <3>2. b # Fresh
      BY <1>2, <2>0, <3>1, FreshIsNext DEF UsedHolds
    <3>3. ASSUME NEW u \in Threads, Prepares(u)
          PROVE  FALSE
      <4>1. trg'.current \in InUse
        BY <3>3 DEF Prepares, UsedHolds
      <4> QED BY <2>1, <4>1, FreshIsNext DEF Claims
    <3> QED BY <3>1, <3>2, <3>3
  <2>2. CASE \E t \in Threads : Prepares(t) /\ b = trg.current
    <3>1. PICK t \in Threads : Prepares(t) /\ b = trg.current
      BY <2>2
    <3>2. Settled(th[t])
      BY <3>1 DEF Prepares, Moves, Settled
    <3>3. b = th[t].a /\ pump.owner # b /\ ctx[b].source = th[t].kind
      BY <2>0, <3>1, <3>2 DEF StartsHold
    <3>4. pump'.owner # b
      BY <3>1, <3>3 DEF Prepares, SameWorld, SamePump
    <3>5. ctx'[b].asked = ctx[b].asked /\ ctx'[b].issued = Stamp(t)
      BY <3>1 DEF Prepares
    <3>6. ctx'[b].source \in {"manual", "fcu"} => th[t].kind \in {"manual", "fcu"}
      BY <3>1, <3>3 DEF Prepares
    <3>7. th[t].kind \in {"manual", "fcu"} => ctx[b].asked = th[t].stamp /\ Stamp(t) = th[t].stamp
      BY <3>2, <3>3 DEF StartsHold, Stamp
    <3> QED BY <3>4, <3>5, <3>6, <3>7
  <2>3. CASE ~\E t \in Threads : Prepares(t) /\ b = trg.current
    <3>1. ctx'[b].issued = ctx[b].issued
      BY <2>1, <2>3, IssuedStays
    <3>2. b \in Used
      <4> QED BY <1>2, <2>0, <2>1, <2>3, NobodyNew DEF Claiming, UsedHolds, InUse
    <3>3. ctx'[b].source = ctx[b].source /\ ctx'[b].asked = ctx[b].asked
      BY <3>2, OriginKept DEF SameOrigin
    <3>4. trg.prepared = b \/ pump.owner = b
      BY <1>2, <2>0, <2>1, <2>3, NobodyNew DEF Claiming
    <3>5. ASSUME pump'.owner = b
          PROVE  ctx[b].issued >= pump'.cutoff
      <4>1. pump'.cutoff = pump.cutoff
        BY <3>5, PumpTime
      <4>2. CASE pump.owner = b
        BY <4>1, <4>2 DEF TimesHold
      <4>3. CASE pump.owner # b
        <5>1. PICK t \in Threads : Asked(t) /\ trg.prepared = b
          BY <2>0, <2>1, <3>5, <4>3, NobodyNew DEF Claiming
        <5>2. ctx[b].issued >= pump.cutoff
          BY <3>5, <4>3, <5>1 DEF Asked
        <5> QED BY <4>1, <5>2
      <4> QED BY <4>2, <4>3
    <3> QED BY <3>1, <3>3, <3>4, <3>5 DEF TimesHold
  <2> QED BY <2>2, <2>3
<1>3. \A u \in Threads : StopPart(th'[u]) => th'[u].stamp <= pump'.cutoff
  BY StopTimes
<1> QED BY <1>1, <1>2, <1>3 DEF TimesHold

-----------------------------------------------------------------------------
(* Samples of a survey are made by its loop.                               *)
ClaimsSample(b) == \E t \in Threads : Claims(t) /\ th[t].pc = "flags" /\ b = Fresh

(* A sample that is being prepared was, or is just claimed.                *)
LEMMA PreparingBegins ==
  ASSUME IInv, UsedHolds, RolesHold, Moved, NEW b \in Attempts, Preparing(b)'
  PROVE  Preparing(b) \/ ClaimsSample(b)
<1>1. PICK t \in Threads : th'[t].pc = "prepare" /\ th'[t].kind = "survey" /\ th'[t].a = b
  BY DEF Preparing
<1>0. /\ Placed(th[t]) /\ th[t] \in ThreadStates
      /\ t # "loop" => /\ th[t].pc \notin LoopOnly /\ (th[t].pc = "cleaning" => th[t].then # "closeSurvey")
                       /\ Own(th[t]) => th[t].kind \in {"manual", "fcu", "waypoint"}
      /\ t = "loop" => th[t].pc \notin {"claim", "hold", "check", "complete"}
  BY Shapes DEF RolesHold
<1>2. CASE th'[t] = th[t]
  BY <1>1, <1>2 DEF Preparing
<1>3. CASE Woken(t, th'[t])
  BY <1>1, <1>3, WokenAt
<1>4. CASE Local(t)
  BY <1>0, <1>1, <1>4 DEF Local, Starts, JoinsLock, Loops, Wakes, Rests, Pauses, Moves, Rested, Keeps, Own
<1>5. CASE Claims(t)
  BY <1>0, <1>1, <1>5 DEF Claims, ClaimsSample
<1>6. CASE Cleans(t) \/ Returns(t) \/ Prepares(t) \/ Asked(t)
  BY <1>0, <1>1, <1>6 DEF Cleans, Returns, Prepares, Asked, Moves, Placed
<1>7. CASE \/ Accepted(t) \/ ClosesManual(t) \/ ClosesWaypoint(t) \/ ClosesSurvey(t)
           \/ Acts(t) \/ Ends1(t) \/ Reports(t)
  BY <1>1, <1>7 DEF Accepted, ClosesManual, ClosesWaypoint, ClosesSurvey, Acts, Ends1, Reports, Moves,
              Rested, Waits
<1>8. CASE HaltsAll(t) \/ StopsAll1(t) \/ ReportsStop(t)
  BY <1>0, <1>1, <1>8 DEF HaltsAll, StopsAll1, ReportsStop, Moves, Rested, Placed
<1>9. CASE Turn(t) /\ ~ThreadMoves(t)
  BY <1>1, <1>9 DEF Turn, StartsSurvey, LeavesSurvey, StopsSurvey, ReportsSurvey, Rested, Moves
<1> QED BY <1>2, <1>3, <1>4, <1>5, <1>6, <1>7, <1>8, <1>9, WhoTurns DEF ThreadMoves

(* Whoever prepares a survey's sample prepares the current attempt.        *)
LEMMA PreparesCurrent ==
  ASSUME IInv, StartsHold, NEW t \in Threads, Prepares(t), NEW b \in Attempts, trg.current = b
  PROVE  /\ pump.owner # b /\ trg.prepared # b
         /\ ctx[b].source = "survey" => Preparing(b)
<1>1. Settled(th[t]) /\ th[t].pc = "prepare"
  BY DEF Prepares, Moves, Settled
<1>2. th[t].a = b /\ ctx[b].source = th[t].kind
  BY <1>1 DEF StartsHold, None, Attempts
<1> QED BY <1>1, <1>2 DEF StartsHold, Preparing

(* A claim is the only step in which a claim is made.                      *)
LEMMA ClaimsAlone ==
  ASSUME UsedHolds, NEW t \in Threads, Claims(t)
  PROVE  /\ trg'.prepared = trg.prepared /\ pump'.owner = pump.owner
         /\ trg'.current = Fresh /\ Fresh \in Attempts /\ Fresh \notin InUse /\ Fresh # Web
         /\ ~\E u \in Threads : Prepares(u)
<1>1. /\ trg'.prepared = trg.prepared /\ pump'.owner = pump.owner /\ trg'.current = Fresh
      /\ Fresh \in Attempts /\ Fresh \notin InUse /\ Fresh # Web
  BY FreshIsNext DEF Claims, SamePrepared, SameWorld, SamePump
<1>2. ASSUME NEW u \in Threads, Prepares(u)
      PROVE  FALSE
  BY <1>1, <1>2 DEF Prepares, UsedHolds
<1> QED BY <1>1, <1>2

(* What the pump may run it might have run before, or it is prepared now.  *)
Reached(b) == pump.owner = b \/ trg.prepared = b
LEMMA ReachShrinks ==
  ASSUME IInv, UsedHolds, RolesHold, StartsHold, Moved, NEW b \in Attempts, Reached(b)'
  PROVE  /\ b \in Used /\ ~ClaimsSample(b) /\ ~\E t \in Threads : Claims(t) /\ b = Fresh
         /\ \/ Reached(b)
            \/ \E t \in Threads : Prepares(t) /\ trg.current = b /\ trg'.current = b
<1>0. b # None /\ b # Web
  BY BoundsAreNat DEF Attempts, None, Web
<1>1. ASSUME NEW t \in Threads, Claims(t)
      PROVE  Reached(b) /\ b \in Used /\ b # Fresh
  <2>1. Reached(b)
    BY <1>1, ClaimsAlone DEF Reached
  <2>2. b \in Used
    BY <1>0, <2>1 DEF Reached, UsedHolds, InUse
  <2> QED BY <1>1, <2>1, <2>2, ClaimsAlone DEF InUse
<1>2. CASE ~Claiming
  <2>1. Reached(b) \/ \E t \in Threads : Prepares(t) /\ trg.current = b
    BY <1>0, <1>2, NobodyNew DEF Reached
  <2>2. b \in Used
    BY <1>0, <2>1 DEF Reached, UsedHolds, InUse
  <2> QED BY <1>2, <2>1, <2>2 DEF Claiming, ClaimsSample, Prepares
<1> QED BY <1>1, <1>2 DEF Claiming, ClaimsSample

(* A sample that the pump may run was one, or is just claimed.             *)
LEMMA LiveShrinks ==
  ASSUME IInv, UsedHolds, RolesHold, StartsHold, Moved, NEW b \in Attempts, Sampled(b)', Live(b)'
  PROVE  \/ ClaimsSample(b)
         \/ Sampled(b) /\ Live(b) /\ b \in Used /\ ~ClaimsSample(b)
<1>0. b # None /\ b # Web
  BY BoundsAreNat DEF Attempts, None, Web
<1>1. stopped.lost \subseteq stopped'.lost
  <2>1. ASSUME NEW t \in Threads, ThreadMoves(t)
        PROVE  stopped.lost \subseteq stopped'.lost
    <3>1. CASE Local(t) \/ Cleans(t) \/ Returns(t) \/ Claims(t) \/ Prepares(t) \/ Asked(t) \/ Accepted(t)
      BY <3>1 DEF Local, Cleans, Returns, Claims, Prepares, Asked, Accepted, SameWorld, SameHistory
    <3>2. CASE ClosesManual(t) \/ ClosesWaypoint(t) \/ ClosesSurvey(t) \/ Acts(t) \/ Ends1(t) \/ Reports(t)
      BY <3>2 DEF ClosesManual, ClosesWaypoint, ClosesSurvey, Acts, Ends1, Reports, SameWorld, SameHistory
    <3>3. CASE HaltsAll(t) \/ StopsAll1(t) \/ ReportsStop(t)
      BY <3>3 DEF HaltsAll, StopsAll1, ReportsStop, SameWorld, SameHistory
    <3> QED BY <2>1, <3>1, <3>2, <3>3 DEF ThreadMoves
  <2>2. CASE ~\E t \in Threads : ThreadMoves(t)
    BY <2>2 DEF Moved, Delivers, StartsSurvey, LeavesSurvey, StopsSurvey, ReportsSurvey, PumpMoves, Stands,
                SameWorld, SameHistory
  <2> QED BY <2>1, <2>2
<1>2. ASSUME b \in Used
      PROVE  Sampled(b)
  <2>1. ctx'[b].source = ctx[b].source
    BY <1>2, OriginKept DEF SameOrigin
  <2> QED BY <1>1, <2>1 DEF Sampled
<1>3. CASE Reached(b)'
  <2>1. b \in Used /\ ~ClaimsSample(b) /\ Sampled(b)
    BY <1>2, <1>3, ReachShrinks
  <2>2. CASE Reached(b)
    BY <2>1, <2>2 DEF Reached, Live
  <2>3. ASSUME NEW t \in Threads, Prepares(t), trg.current = b
        PROVE  Live(b)
    <3>1. Preparing(b)
      BY <2>1, <2>3, PreparesCurrent DEF Sampled
    <3> QED BY <2>3, <3>1 DEF Live
  <2> QED BY <1>3, <2>1, <2>2, <2>3, ReachShrinks
<1>4. CASE Preparing(b)' /\ trg'.current = b /\ ~ClaimsSample(b)
  <2>1. Preparing(b)
    BY <1>4, PreparingBegins
  <2>2. b \in Used
    BY <1>0, <2>1 DEF Preparing, UsedHolds, InUse
  <2>3. trg.current = b
    <3>1. ASSUME NEW t \in Threads, Claims(t)
          PROVE  FALSE
      BY <1>4, <2>2, <3>1, ClaimsAlone DEF InUse
    <3> QED BY <1>0, <1>4, <3>1, NobodyNew DEF Claiming
  <2> QED BY <1>2, <1>4, <2>1, <2>2, <2>3 DEF Live
<1> QED BY <1>3, <1>4 DEF Live, Reached

(* The surveys are numbered.                                               *)
LEMMA GenGrows ==
  ASSUME IInv, Moved
  PROVE  /\ trg.gen \in Nat /\ \/ trg'.gen = trg.gen
                               \/ StartsSurvey /\ trg'.gen = trg.gen + 1
         /\ \/ stopped'.surveys = stopped.surveys
            \/ ReportsSurvey /\ stopped'.surveys \subseteq stopped.surveys \cup {th["stop"].gen}
<1>0. trg.gen \in Nat
  BY Shapes DEF NodeStates
<1>1. ASSUME NEW t \in Threads, ThreadMoves(t)
      PROVE  trg'.gen = trg.gen /\ stopped'.surveys = stopped.surveys
  <2>1. CASE Local(t) \/ Cleans(t) \/ Returns(t) \/ Claims(t) \/ Prepares(t) \/ Asked(t) \/ Accepted(t)
    BY <2>1 DEF Local, Cleans, Returns, Claims, Prepares, Asked, Accepted, SameWorld, SameHistory, SameNode,
                SameSurvey
  <2>2. CASE ClosesManual(t) \/ ClosesWaypoint(t) \/ ClosesSurvey(t) \/ Acts(t) \/ Ends1(t) \/ Reports(t)
    BY <2>2 DEF ClosesManual, ClosesWaypoint, ClosesSurvey, Acts, Ends1, Reports, SameWorld, SameHistory,
                SameNode, SameSurvey, LessSurvey
  <2>3. CASE HaltsAll(t) \/ StopsAll1(t) \/ ReportsStop(t)
    BY <2>3 DEF HaltsAll, StopsAll1, ReportsStop, SameWorld, SameHistory, SameNode, SameSurvey
  <2> QED BY <1>1, <2>1, <2>2, <2>3 DEF ThreadMoves
<1>2. CASE ~\E t \in Threads : ThreadMoves(t)
  <2>1. CASE Delivers \/ LeavesSurvey \/ StopsSurvey
    BY <1>0, <2>1 DEF Delivers, LeavesSurvey, StopsSurvey, SameWorld, SameHistory, LessSurvey
  <2>2. CASE PumpMoves \/ Stands
    BY <1>0, <2>2 DEF PumpMoves, Stands, SameWorld, SameHistory, SameNode, SameSurvey
  <2>3. CASE StartsSurvey
    BY <1>0, <2>3 DEF StartsSurvey, SameWorld, SameHistory
  <2>4. CASE ReportsSurvey
    BY <1>0, <2>4 DEF ReportsSurvey, SameNode, SameSurvey
  <2> QED BY <1>2, <2>1, <2>2, <2>3, <2>4 DEF Moved
<1> QED BY <1>0, <1>1, <1>2

(* None of the stopped surveys is the active one, in every step.           *)
LEMMA NumbersStay ==
  ASSUME IInv, IInv', UsedHolds, StartsHold, NumbersHold, SurveysHold, Moved
  PROVE  NumbersHold'
<1>0. /\ trg.gen \in Nat /\ trg'.gen \in Nat /\ stopped.surveys \subseteq Nat
      /\ trg'.gen = trg.gen \/ (StartsSurvey /\ trg'.gen = trg.gen + 1)
      /\ \A b \in Attempts : ctx[b].gen \in Nat
  BY GenGrows, Shapes DEF NodeStates, Histories, Contexts
<1>1. ASSUME NEW b \in Attempts
      PROVE  ctx'[b].gen <= trg'.gen
  <2>1. ASSUME NEW t \in Threads, Claims(t), b = Fresh
        PROVE  ctx'[b].gen = trg.gen
    BY <2>1 DEF Claims
  <2>2. ASSUME NEW t \in Threads, Claims(t), b # Fresh
        PROVE  ctx'[b].gen = ctx[b].gen
    BY <2>2 DEF Claims, SameContext, SameOrigin
  <2>3. ASSUME ~Claiming
        PROVE  ctx'[b].gen = ctx[b].gen
    <3>1. CASE SameOrigin(b)
      BY <3>1 DEF SameOrigin
    <3>2. ASSUME NEW t \in Threads, Prepares(t)
          PROVE  ctx'[b].gen = ctx[b].gen
      BY <3>2 DEF Prepares, SameContext, SameOrigin
    <3> QED BY <2>3, <3>1, <3>2, OriginsStay
  <2>4. ctx'[b].gen \in {trg.gen, ctx[b].gen}
    BY <2>1, <2>2, <2>3 DEF Claiming
  <2>5. ctx[b].gen <= trg.gen /\ trg.gen <= trg'.gen
    BY <1>0 DEF NumbersHold
  <2> QED BY <1>0, <2>4, <2>5
<1>2. trg'.survey => trg'.live = trg'.gen
  BY SurveyBegins DEF NumbersHold, StartsSurvey
<1>3. ASSUME NEW g \in stopped'.surveys
      PROVE  g <= trg'.gen /\ (trg'.survey => g # trg'.gen)
  <2>1. g \in Nat /\ g <= trg.gen /\ (trg.survey => g # trg.gen)
    <3>1. CASE g \in stopped.surveys
      BY <1>0, <3>1 DEF NumbersHold
    <3>2. CASE g \notin stopped.surveys
      <4>1. ReportsSurvey /\ g = th["stop"].gen
        BY <1>3, <3>2, GenGrows
      <4>2. StopsOne /\ th["stop"].gen \in Nat
        BY <4>1, Shapes DEF ReportsSurvey, Moves, StopsOne, ThreadStates
      <4> QED BY <4>1, <4>2 DEF SurveysHold
    <3> QED BY <3>1, <3>2
  <2>2. trg'.survey => StartsSurvey \/ (trg.survey /\ trg'.gen = trg.gen)
    BY SurveyBegins
  <2>3. StartsSurvey => trg'.gen = trg.gen + 1
    BY DEF StartsSurvey
  <2> QED BY <1>0, <2>1, <2>2, <2>3
<1> QED BY <1>1, <1>2, <1>3 DEF NumbersHold

-----------------------------------------------------------------------------
(* A sample that the pump may run has no end yet.                          *)
LEMMA EndsBegin ==
  ASSUME IInv, UsedHolds, RolesHold, StartsHold, Moved, NEW b \in Attempts, Ended(b)'
  PROVE  \/ Ended(b)
         \/ pump.owner = b /\ pump'.owner # b /\ Spoken(b)'
         \/ ctx[b].source # "survey"
<1>1. CASE Spoken(b)' \/ ctx'[b].pending # "none"
  <2>1. ASSUME NEW t \in Threads, Claims(t)
        PROVE  Spoken(b) \/ ctx[b].pending # "none"
    <3>1. Spoken(b)' => Spoken(b)
      BY <2>1 DEF Claims, SameWorld, Silent
    <3>2. ctx'[b].pending # "none" => ctx[b].pending # "none"
      BY <2>1 DEF Claims, SameContext
    <3> QED BY <1>1, <3>1, <3>2
  <2> QED BY <1>1, <2>1, NobodyNew DEF Claiming, Ended
<1>2. ASSUME NEW u \in Threads, th'[u].pc = "complete", th'[u].exp = b
      PROVE  Ended(b) \/ ctx[b].source # "survey"
  <2>0. Placed(th[u]) /\ th[u] \in ThreadStates
    BY Shapes
  <2>1. CASE th'[u] = th[u]
    BY <1>2, <2>1 DEF Ended
  <2>2. CASE Woken(u, th'[u])
    BY <1>2, <2>2 DEF Woken, Waits, Ended
  <2>3. CASE Local(u)
    <3>1. th[u].pc = "refused" /\ th[u].kind = "fcu" /\ th[u].a = b
      BY <1>2, <2>3 DEF Local, Starts, JoinsLock, Loops, Wakes, Rests, Pauses, Moves, Rested
    <3>2. ctx[b].source = "fcu"
      BY <3>1 DEF StartsHold, Own
    <3> QED BY <3>2
  <2>4. CASE Cleans(u) \/ Returns(u) \/ Claims(u) \/ Prepares(u) \/ Asked(u)
    BY <1>2, <2>0, <2>4 DEF Cleans, Returns, Claims, Prepares, Asked, Moves, Placed
  <2>5. CASE \/ Accepted(u) \/ ClosesManual(u) \/ ClosesWaypoint(u) \/ ClosesSurvey(u)
             \/ Acts(u) \/ Ends1(u) \/ Reports(u)
    BY <1>2, <2>5 DEF Accepted, ClosesManual, ClosesWaypoint, ClosesSurvey, Acts, Ends1, Reports, Moves,
                Rested, Waits, Ended
  <2>6. CASE HaltsAll(u) \/ StopsAll1(u) \/ ReportsStop(u)
    BY <1>2, <2>0, <2>6 DEF HaltsAll, StopsAll1, ReportsStop, Moves, Rested, Placed
  <2>7. CASE Turn(u) /\ ~ThreadMoves(u)
    BY <1>2, <2>7 DEF Turn, StartsSurvey, LeavesSurvey, StopsSurvey, ReportsSurvey, Rested, Moves
  <2> QED BY <2>1, <2>2, <2>3, <2>4, <2>5, <2>6, <2>7, WhoTurns DEF ThreadMoves
<1> QED BY <1>1, <1>2 DEF Ended

(* A sample that the pump may run has no end yet, in every step.           *)
LEMMA SamplesStay ==
  ASSUME IInv, IInv', UsedHolds, UsedHolds', OneHolds, RolesHold, StartsHold, StartsHold', SamplesHold, Moved
  PROVE  SamplesHold'
<1> SUFFICES ASSUME NEW b \in Attempts
             PROVE  /\ ~(pump'.owner = b /\ trg'.prepared = b)
                    /\ ctx'[b].source = "survey" /\ (pump'.owner = b \/ trg'.prepared = b \/ Preparing(b)')
                         => ~Ended(b)'
  BY DEF SamplesHold
<1>0. b # None /\ b # Web
  BY BoundsAreNat DEF Attempts, None, Web
<1>1. ASSUME pump'.owner = b, trg'.prepared = b
      PROVE  FALSE
  <2>1. ASSUME NEW t \in Threads, Claims(t)
        PROVE  FALSE
    BY <1>1, <2>1, ClaimsAlone DEF SamplesHold
  <2>2. ASSUME NEW t \in Threads, Asked(t)
        PROVE  FALSE
    BY <1>0, <1>1, <2>2 DEF Asked
  <2>3. pump.owner = b
    BY <1>0, <1>1, <2>1, <2>2, NobodyNew DEF Claiming
  <2>4. PICK t \in Threads : Prepares(t) /\ trg.current = b
    BY <1>0, <1>1, <2>1, <2>3, NobodyNew DEF Claiming, SamplesHold
  <2> QED BY <2>3, <2>4, PreparesCurrent
<1>2. ASSUME ctx'[b].source = "survey", pump'.owner = b \/ trg'.prepared = b \/ Preparing(b)', Ended(b)'
      PROVE  FALSE
  <2>1. CASE ClaimsSample(b)
    <3>1. PICK t \in Threads : Claims(t) /\ b = Fresh
      BY <2>1 DEF ClaimsSample
    <3>2. b \notin InUse /\ b \notin Used
      BY <3>1, ClaimsAlone DEF InUse
    <3>3. ~Spoken(b)' /\ ctx'[b].pending = "none"
      BY <3>1, <3>2 DEF Claims, UsedHolds, SameWorld, Silent
    <3>4. PICK u \in Threads : th'[u].pc = "complete" /\ th'[u].exp = b
      BY <1>2, <3>3 DEF Ended
    <3>5. th'[u].exp = th[u].exp
      BY <3>1, <3>4 DEF Claims, Only
    <3> QED BY <3>2, <3>4, <3>5 DEF UsedHolds
  <2>2. CASE ~ClaimsSample(b)
    <3>1. b \in Used
      <4>1. CASE Reached(b)'
        BY <4>1, ReachShrinks
      <4>2. CASE Preparing(b)'
        <5>1. Preparing(b)
          BY <2>2, <4>2, PreparingBegins
        <5> QED BY <1>0, <5>1 DEF Preparing, UsedHolds, InUse
      <4> QED BY <1>2, <4>1, <4>2 DEF Reached
    <3>2. ctx[b].source = "survey"
      BY <1>2, <3>1, OriginKept DEF SameOrigin
    <3>3. pump.owner = b \/ trg.prepared = b \/ Preparing(b)
      <4>1. CASE Reached(b)'
        BY <3>2, <4>1, ReachShrinks, PreparesCurrent DEF Reached
      <4>2. CASE Preparing(b)'
        BY <2>2, <4>2, PreparingBegins
      <4> QED BY <1>2, <4>1, <4>2 DEF Reached
    <3>4. ~Ended(b)
      BY <3>2, <3>3 DEF SamplesHold
    <3>5. pump.owner = b /\ pump'.owner # b
      BY <1>2, <3>2, <3>4, EndsBegin
    <3>6. CASE trg'.prepared = b
      <4>1. ~\E t \in Threads : Claims(t)
        BY <3>5, ClaimsAlone
      <4>2. PICK t \in Threads : Prepares(t) /\ trg.current = b
        BY <1>0, <3>5, <3>6, <4>1, NobodyNew DEF Claiming, SamplesHold
      <4> QED BY <3>5, <4>2, PreparesCurrent
    <3>7. CASE Preparing(b)'
      <4>1. Preparing(b)
        BY <2>2, <3>7, PreparingBegins
      <4> QED BY <3>5, <4>1 DEF Preparing, StartsHold, Settled
    <3> QED BY <1>2, <3>5, <3>6, <3>7
  <2> QED BY <2>1, <2>2
<1> QED BY <1>1, <1>2

-----------------------------------------------------------------------------
(* `finishing' is set and restored by one thread at a time.                *)
Restores(t) ==
  th[t].pc = "cleaning" /\ (Completes(th[t]) \/ (Stops(th[t]) /\ ~th[t].kept)) => th[t].saved

(* What a step does to `finishing'.                                        *)
LEMMA TurnFinishes ==
  ASSUME IInv, FinishHolds, NEW t \in Threads, Turn(t)
  PROVE  /\ Restores(t)'
         /\ \/ (Finishes(th'[t]) => Finishes(th[t])) /\ (trg.finishing => trg'.finishing)
            \/ ~trg.finishing /\ trg'.finishing
            \/ Finishes(th[t]) /\ ~Finishes(th'[t])
<1>0. /\ Placed(th[t]) /\ th[t] \in ThreadStates /\ Restores(t) /\ trg.finishing \in BOOLEAN
      /\ Finishes(th[t]) => trg.finishing
  BY Shapes DEF FinishHolds, Restores, NodeStates
<1>1. CASE Local(t)
  <2>1. trg'.finishing = trg.finishing
    BY <1>1 DEF Local, SameNode, SameFinishing
  <2>2. ~Finishes(th'[t]) /\ Restores(t)'
    <3>1. CASE Starts(t) \/ JoinsLock(t) \/ (t = "loop" /\ Loops)
      BY <3>1 DEF Starts, JoinsLock, Loops, Moves, Finishes, Completes, Stops, Restores
    <3>2. CASE Wakes(t) \/ Rests(t) \/ (t = "lane" /\ Pauses)
      BY <3>2 DEF Wakes, Rests, Pauses, Moves, Rested, Finishes, Completes, Stops, Restores
    <3> QED BY <1>1, <3>1, <3>2 DEF Local
  <2> QED BY <2>1, <2>2
<1>2. CASE Cleans(t)
  BY <1>0, <1>2 DEF Cleans, Finishes, Completes, Stops, Restores, Placed
<1>3. CASE Returns(t)
  <2>1. /\ th[t].pc = "cleaning" /\ th'[t].pc = th[t].then /\ th'[t].then = th[t].then /\ th'[t].kept = th[t].kept
        /\ trg'.finishing = th[t].saved /\ th[t].then # "cleaning" /\ th[t].then # "halt" /\ th[t].then # "cleanup"
    BY <1>0, <1>3 DEF Returns, Moves, Placed
  <2>2. Restores(t)'
    BY <2>1 DEF Restores
  <2>3. th[t].saved \in BOOLEAN
    BY <1>0 DEF ThreadStates
  <2>4. Finishes(th'[t]) => Finishes(th[t]) /\ th[t].saved
    BY <1>0, <2>1 DEF Finishes, Completes, Stops, Restores
  <2>5. ~th[t].saved => Finishes(th[t])
    BY <2>1 DEF Finishes
  <2> QED BY <2>1, <2>2, <2>3, <2>4, <2>5
<1>4. CASE Claims(t) \/ Prepares(t) \/ Asked(t)
  BY <1>4 DEF Claims, Prepares, Asked, Moves, SameFinishing, Finishes, Completes, Stops, Restores
<1>5. CASE Accepted(t) \/ ClosesManual(t) \/ ClosesWaypoint(t) \/ ClosesSurvey(t) \/ Acts(t)
  BY <1>5 DEF Accepted, ClosesManual, ClosesWaypoint, ClosesSurvey, Acts, Moves, Rested, Waits, SameNode,
              SameFinishing, Finishes, Completes, Stops, Restores
<1>6. CASE Ends1(t) \/ Reports(t)
  BY <1>6 DEF Ends1, Reports, Moves, Rested, Finishes, Completes, Stops, Restores
<1>7. CASE HaltsAll(t)
  <2>1. /\ th[t].pc = "halt" /\ th'[t].pc = th[t].then /\ th'[t].then = th[t].then /\ th'[t].kept = th[t].kept
        /\ trg'.finishing = trg.finishing /\ th[t].then \in {"join", "stopReport"}
    BY <1>0, <1>7 DEF HaltsAll, Moves, Placed, SameNode, SameFinishing
  <2> QED BY <1>0, <2>1 DEF Finishes, Completes, Stops, Restores
<1>8. CASE StopsAll1(t) \/ ReportsStop(t)
  <2>1. CASE StopsAll1(t)
    BY <1>0, <2>1 DEF StopsAll1, Moves, Finishes, Completes, Stops, Restores
  <2>2. CASE ReportsStop(t)
    BY <1>0, <2>2 DEF ReportsStop, Moves, Rested, Finishes, Completes, Stops, Restores
  <2> QED BY <1>8, <2>1, <2>2
<1>9. CASE ~ThreadMoves(t)
  BY <1>9 DEF Turn, StartsSurvey, LeavesSurvey, StopsSurvey, ReportsSurvey, Rested, Moves, SameNode,
              SameFinishing, Finishes, Completes, Stops, Restores
<1> QED BY <1>1, <1>2, <1>3, <1>4, <1>5, <1>6, <1>7, <1>8, <1>9 DEF ThreadMoves

(* `finishing' changes only by the step of a thread.                       *)
LEMMA FinishingPasses ==
  ASSUME Moved
  PROVE  trg'.finishing = trg.finishing \/ \E t \in Threads : Turn(t)
BY DEF Moved, Turn, Delivers, StartsSurvey, LeavesSurvey, StopsSurvey, ReportsSurvey, PumpMoves, Stands,
       SameNode, SameFinishing

(* The start of a survey leaves `finishing' as it is.                      *)
LEMMA SurveyBeginsCalmly ==
  ASSUME FinishHolds, StartsSurvey
  PROVE  ~Finishes(th'["lane"]) /\ ~Finishes(th'["loop"]) /\ trg'.finishing = trg.finishing
BY DEF StartsSurvey, SameFinishing, Rested, Finishes, Completes, Stops

(* Who has set `finishing' is one, in every step.                          *)
LEMMA FinishStays ==
  ASSUME IInv, FinishHolds, Moved
  PROVE  FinishHolds'
<1>1. ASSUME NEW u \in Threads, Finishes(th'[u])
      PROVE  /\ ~Woken(u, th'[u])
             /\ Finishes(th[u]) \/ (Turn(u) /\ ~trg.finishing /\ trg'.finishing /\ th'[u] # th[u])
  <2>1. ~Woken(u, th'[u])
    BY <1>1, WokenAt DEF Finishes, Completes, Stops
  <2> QED BY <1>1, <2>1, WhoTurns, TurnFinishes
<1>2. ASSUME NEW t \in Threads, NEW u \in Threads, t # u, Finishes(th'[t]), Finishes(th'[u])
      PROVE  FALSE
  <2>1. ~(Finishes(th[t]) /\ Finishes(th[u]))
    BY <1>2 DEF FinishHolds
  <2>2. (Finishes(th[t]) \/ Finishes(th[u])) => trg.finishing
    BY DEF FinishHolds
  <2>3. Turn(t) /\ th'[t] # th[t] /\ Turn(u) /\ th'[u] # th[u]
    BY <1>1, <1>2, <2>1, <2>2
  <2>4. StartsSurvey
    BY <1>1, <1>2, <2>3, OneTurns
  <2>5. t \in {"lane", "loop"}
    BY <2>3, <2>4 DEF StartsSurvey
  <2> QED BY <1>2, <2>4, <2>5, SurveyBeginsCalmly
<1>3. ASSUME NEW u \in Threads, Finishes(th'[u])
      PROVE  trg'.finishing
  <2>1. CASE ~Finishes(th[u])
    BY <1>1, <1>3, <2>1
  <2>2. CASE Finishes(th[u])
    <3>1. trg.finishing
      BY <2>2 DEF FinishHolds
    <3>2. CASE trg'.finishing = trg.finishing
      BY <3>1, <3>2
    <3>3. ASSUME NEW t \in Threads, Turn(t), ~trg'.finishing
          PROVE  FALSE
      <4>1. Finishes(th[t]) /\ ~Finishes(th'[t])
        BY <3>1, <3>3, TurnFinishes
      <4>2. t = u
        BY <2>2, <4>1 DEF FinishHolds
      <4> QED BY <1>3, <4>1, <4>2
    <3> QED BY <3>1, <3>2, <3>3, FinishingPasses
  <2> QED BY <2>1, <2>2
<1>4. ASSUME NEW u \in Threads
      PROVE  Restores(u)'
  <2>1. CASE th'[u] = th[u]
    BY <2>1 DEF FinishHolds, Restores
  <2>2. CASE Woken(u, th'[u])
    BY <2>2, WokenAt DEF Restores
  <2> QED BY <2>1, <2>2, WhoTurns, TurnFinishes
<1> QED BY <1>2, <1>3, <1>4 DEF FinishHolds, Restores

-----------------------------------------------------------------------------
(* Where a thread comes to handle an end, and where the loop comes to the  *)
(* flags of a sample.                                                      *)
LEMMA CompletesBegin ==
  ASSUME IInv, Moved, NEW u \in Threads, Completes(th'[u])
  PROVE  Completes(th[u]) \/ Ends1(u)
<1>0. Placed(th[u]) /\ th[u] \in ThreadStates
  BY Shapes
<1>1. CASE th'[u] = th[u]
  BY <1>1
<1>2. CASE Woken(u, th'[u])
  BY <1>2, WokenAt DEF Completes
<1>3. CASE Local(u)
  BY <1>3 DEF Local, Starts, JoinsLock, Loops, Wakes, Rests, Pauses, Moves, Rested, Completes
<1>4. CASE Cleans(u) \/ Returns(u)
  BY <1>0, <1>4 DEF Cleans, Returns, Moves, Completes, Placed
<1>5. CASE Claims(u) \/ Prepares(u) \/ Asked(u)
  BY <1>5 DEF Claims, Prepares, Asked, Moves, Completes
<1>6. CASE Accepted(u) \/ ClosesManual(u) \/ ClosesWaypoint(u) \/ ClosesSurvey(u) \/ Acts(u) \/ Reports(u)
  BY <1>6 DEF Accepted, ClosesManual, ClosesWaypoint, ClosesSurvey, Acts, Reports, Moves, Rested, Waits, Completes
<1>7. CASE HaltsAll(u) \/ StopsAll1(u) \/ ReportsStop(u)
  BY <1>0, <1>7 DEF HaltsAll, StopsAll1, ReportsStop, Moves, Rested, Completes, Placed
<1>8. CASE Turn(u) /\ ~ThreadMoves(u)
  BY <1>8 DEF Turn, StartsSurvey, LeavesSurvey, StopsSurvey, ReportsSurvey, Rested, Moves, Completes
<1> QED BY <1>1, <1>2, <1>3, <1>4, <1>5, <1>6, <1>7, <1>8, WhoTurns DEF ThreadMoves

(* The loop comes to the flags of a sample while nothing is finishing.     *)
LEMMA FlagsBegin ==
  ASSUME IInv, Moved, NEW u \in Threads, th'[u].pc = "flags"
  PROVE  th[u].pc = "flags" \/ (th[u].pc = "enter" /\ ~trg.finishing)
<1>0. Placed(th[u]) /\ th[u] \in ThreadStates
  BY Shapes
<1>1. CASE th'[u] = th[u]
  BY <1>1
<1>2. CASE Woken(u, th'[u])
  BY <1>2, WokenAt
<1>3. CASE Local(u)
  BY <1>3 DEF Local, Starts, JoinsLock, Loops, Wakes, Rests, Pauses, Moves, Rested
<1>4. CASE Cleans(u) \/ Returns(u) \/ Claims(u) \/ Prepares(u) \/ Asked(u)
  BY <1>0, <1>4 DEF Cleans, Returns, Claims, Prepares, Asked, Moves, Placed
<1>5. CASE \/ Accepted(u) \/ ClosesManual(u) \/ ClosesWaypoint(u) \/ ClosesSurvey(u)
           \/ Acts(u) \/ Ends1(u) \/ Reports(u)
  BY <1>5 DEF Accepted, ClosesManual, ClosesWaypoint, ClosesSurvey, Acts, Ends1, Reports, Moves, Rested, Waits
<1>6. CASE HaltsAll(u) \/ StopsAll1(u) \/ ReportsStop(u)
  BY <1>0, <1>6 DEF HaltsAll, StopsAll1, ReportsStop, Moves, Rested, Placed
<1>7. CASE Turn(u) /\ ~ThreadMoves(u)
  BY <1>7 DEF Turn, StartsSurvey, LeavesSurvey, StopsSurvey, ReportsSurvey, Rested, Moves
<1> QED BY <1>1, <1>2, <1>3, <1>4, <1>5, <1>6, <1>7, WhoTurns DEF ThreadMoves

(* A sample of the active survey was one before, or is just claimed.       *)
LEMMA ActiveBefore ==
  ASSUME IInv, UsedHolds, RolesHold, StartsHold, NumbersHold, Moved, NEW b \in Attempts,
         trg'.survey, Sampled(b)', ctx'[b].gen = trg'.gen, Live(b)'
  PROVE  \/ ClaimsSample(b)
         \/ /\ Sampled(b) /\ Live(b) /\ b \in Used /\ ~ClaimsSample(b)
            /\ trg.survey /\ ctx[b].gen = trg.gen /\ ~StartsSurvey
<1>1. CASE ~ClaimsSample(b)
  <2>1. Sampled(b) /\ Live(b) /\ b \in Used
    BY <1>1, LiveShrinks
  <2>2. ctx'[b].gen = ctx[b].gen
    BY <2>1, OriginKept DEF SameOrigin
  <2>3. ctx[b].gen \in Nat /\ ctx[b].gen <= trg.gen /\ trg.gen \in Nat
    BY Shapes DEF NumbersHold, Contexts, NodeStates
  <2>4. ~StartsSurvey
    BY <2>2, <2>3 DEF StartsSurvey
  <2> QED BY <1>1, <2>1, <2>2, <2>4, SurveyBegins
<1> QED BY <1>1

(* While an end is handled no sample is under way, in every step.          *)
LEMMA EndsStay ==
  ASSUME IInv, UsedHolds, RolesHold, StartsHold, NumbersHold, SamplesHold, FinishHolds, EndsHold, CurrentHolds,
         Moved
  PROVE  EndsHold'
<1> SUFFICES ASSUME NEW t \in Threads, Completes(th'[t])
             PROVE  /\ \A u \in Threads : th'[u].pc # "flags"
                    /\ \A b \in Attempts : ~(Preparing(b)' /\ trg'.current = b)
                    /\ \A b \in Attempts : trg'.survey /\ Sampled(b)' /\ ctx'[b].gen = trg'.gen => ~Live(b)'
  BY DEF EndsHold
<1>1. CASE Ends1(t)
  <2>1. /\ trg.sampling /\ trg.current = th[t].exp /\ th[t].exp \in Attempts /\ trg'.current \in {None, trg.current}
        /\ Ended(trg.current)
    BY <1>1 DEF Ends1, Moves, Ended
  <2>2. \A u \in Threads : th[u].pc \notin {"enter", "flags"}
    BY <2>1 DEF StartsHold
  <2>3. \A b \in Attempts : ~ClaimsSample(b)
    BY <2>2 DEF ClaimsSample
  <2>4. \A u \in Threads : th'[u].pc # "flags"
    BY <2>2, FlagsBegin
  <2>5. ASSUME NEW b \in Attempts, ctx[b].source = "survey", trg.current = b,
               pump.owner = b \/ trg.prepared = b \/ Preparing(b)
        PROVE  FALSE
    BY <2>1, <2>5 DEF SamplesHold
  <2>6. ASSUME NEW b \in Attempts, Preparing(b)', trg'.current = b
        PROVE  FALSE
    <3>1. Preparing(b)
      BY <2>3, <2>6, PreparingBegins
    <3>2. ctx[b].source = "survey"
      BY <3>1 DEF Preparing, StartsHold, Settled
    <3>3. trg.current = b
      BY <2>1, <2>6, BoundsAreNat DEF Attempts, None
    <3> QED BY <2>5, <3>1, <3>2, <3>3
  <2>7. ASSUME NEW b \in Attempts, trg'.survey, Sampled(b)', ctx'[b].gen = trg'.gen, Live(b)'
        PROVE  FALSE
    <3>1. Sampled(b) /\ Live(b) /\ trg.survey /\ ctx[b].gen = trg.gen
      BY <2>3, <2>7, ActiveBefore
    <3>2. trg.current = b
      BY <3>1 DEF CurrentHolds
    <3> QED BY <2>5, <3>1, <3>2 DEF Live, Sampled
  <2> QED BY <2>4, <2>6, <2>7
<1>2. CASE Completes(th[t])
  <2>1. /\ trg.finishing /\ \A u \in Threads : th[u].pc # "flags"
        /\ \A b \in Attempts : ~(Preparing(b) /\ trg.current = b)
        /\ \A b \in Attempts : trg.survey /\ Sampled(b) /\ ctx[b].gen = trg.gen => ~Live(b)
    BY <1>2 DEF EndsHold, FinishHolds, Finishes
  <2>2. \A b \in Attempts : ~ClaimsSample(b)
    BY <2>1 DEF ClaimsSample
  <2>3. \A u \in Threads : th'[u].pc # "flags"
    BY <2>1, FlagsBegin
  <2>4. ASSUME NEW b \in Attempts, Preparing(b)', trg'.current = b
        PROVE  FALSE
    <3>1. Preparing(b)
      BY <2>2, <2>4, PreparingBegins
    <3>2. b \in InUse
      BY <3>1 DEF Preparing, UsedHolds
    <3>3. ~Claiming
      BY <2>4, <3>2, ClaimsAlone DEF Claiming
    <3>4. trg.current = b
      BY <2>4, <3>3, NobodyNew, BoundsAreNat DEF Attempts, None
    <3> QED BY <2>1, <3>1, <3>4
  <2>5. ASSUME NEW b \in Attempts, trg'.survey, Sampled(b)', ctx'[b].gen = trg'.gen, Live(b)'
        PROVE  FALSE
    BY <2>1, <2>2, <2>5, ActiveBefore
  <2> QED BY <2>3, <2>4, <2>5
<1> QED BY <1>1, <1>2, CompletesBegin

-----------------------------------------------------------------------------
(* Nothing but its end and a stop takes a survey's sample away.            *)
LEMMA CurrentKept ==
  ASSUME IInv, RolesHold, LockHolds, StartsHold, SamplesHold, EndsHold, Moved, NEW b \in Attempts,
         trg.survey, Sampled(b), ctx[b].gen = trg.gen, Live(b), trg.current = b, trg.sampling,
         trg'.survey, Sampled(b)'
  PROVE  trg'.current = b /\ trg'.sampling
<1>0. ctx[b].source = "survey" /\ b # None
  BY BoundsAreNat DEF Sampled, Attempts, None
<1>1. ASSUME NEW t \in Threads, ThreadMoves(t)
      PROVE  trg'.current = b /\ trg'.sampling
  <2>1. CASE Local(t) \/ Cleans(t) \/ Returns(t) \/ Asked(t) \/ Accepted(t) \/ Acts(t) \/ HaltsAll(t)
    BY <2>1 DEF Local, Cleans, Returns, Asked, Accepted, Acts, HaltsAll, SameNode, SameSample
  <2>2. CASE Claims(t)
    <3>1. th[t].pc \in {"claim", "flags"}
      BY <2>2 DEF Claims
    <3> QED BY <3>1 DEF StartsHold
  <2>3. CASE Prepares(t)
    BY <2>3 DEF Prepares
  <2>4. CASE ClosesManual(t)
    <3>1. th[t].kind \in {"manual", "waypoint"} /\ ctx[th[t].a].source = th[t].kind
      BY <2>4 DEF ClosesManual, Moves, StartsHold, ClosesOwn
    <3> QED BY <1>0, <2>4, <3>1 DEF ClosesManual, SameSample
  <2>5. CASE ClosesWaypoint(t)
    <3>1. th[t].kind \in {"manual", "waypoint"} /\ ctx[th[t].a].source = th[t].kind
      BY <2>5 DEF ClosesWaypoint, Moves, StartsHold, ClosesOwn
    <3>2. b \in stopped'.lost
      BY <1>0, <2>5, <3>1 DEF ClosesWaypoint
    <3> QED BY <3>2 DEF Sampled
  <2>6. CASE ClosesSurvey(t) \/ StopsAll1(t)
    BY <2>6 DEF ClosesSurvey, StopsAll1
  <2>7. CASE Ends1(t)
    <3>1. Ended(b)
      BY <2>7 DEF Ends1, Moves, Ended
    <3> QED BY <1>0, <3>1 DEF SamplesHold, Live
  <2>8. CASE Reports(t)
    <3>1. Completes(th[t])
      BY <2>8 DEF Reports, Completes
    <3> QED BY <3>1 DEF EndsHold
  <2>9. CASE ReportsStop(t)
    <3>1. Stops(th[t]) \/ th[t].pc = "stopReport"
      BY <2>9 DEF ReportsStop, Moves
    <3>2. Stops(th[t])
      BY <3>1 DEF Stops
    <3> QED BY <3>2 DEF LockHolds
  <2> QED BY <1>1, <2>1, <2>2, <2>3, <2>4, <2>5, <2>6, <2>7, <2>8, <2>9 DEF ThreadMoves
<1>2. CASE ~\E t \in Threads : ThreadMoves(t)
  BY <1>2 DEF Moved, Delivers, StartsSurvey, LeavesSurvey, StopsSurvey, ReportsSurvey, PumpMoves, Stands,
              SameNode, SameSample
<1> QED BY <1>1, <1>2

(* A sample of the active survey is the current attempt, in every step.    *)
LEMMA CurrentStays ==
  ASSUME IInv, UsedHolds, RolesHold, LockHolds, StartsHold, NumbersHold, SamplesHold, EndsHold, CurrentHolds,
         Moved
  PROVE  CurrentHolds'
<1> SUFFICES ASSUME NEW b \in Attempts, Sampled(b)', ctx'[b].gen = trg'.gen, trg'.survey, Live(b)'
             PROVE  /\ trg'.current = b /\ trg'.sampling
                    /\ pump'.owner = b \/ trg'.prepared = b => ctx'[b].named
  BY DEF CurrentHolds
<1>1. CASE ClaimsSample(b)
  <2>1. PICK t \in Threads : Claims(t) /\ th[t].pc = "flags" /\ b = Fresh
    BY <1>1 DEF ClaimsSample
  <2>2. th[t].kind = "survey"
    BY <2>1 DEF RolesHold, LoopOnly
  <2>3. trg'.current = b /\ trg'.sampling
    BY <2>1, <2>2 DEF Claims
  <2>4. ~Reached(b)'
    BY <1>1, ReachShrinks
  <2> QED BY <2>3, <2>4 DEF Reached
<1>2. CASE ~ClaimsSample(b)
  <2>1. Sampled(b) /\ Live(b) /\ trg.survey /\ ctx[b].gen = trg.gen
    BY <1>2, ActiveBefore
  <2>2. /\ trg.current = b /\ trg.sampling
        /\ Reached(b) => ctx[b].named
    BY <2>1 DEF CurrentHolds, Reached
  <2>3. trg'.current = b /\ trg'.sampling
    BY <2>1, <2>2, CurrentKept
  <2>4. ASSUME Reached(b)'
        PROVE  ctx'[b].named
    <3>1. CASE \E t \in Threads : Prepares(t)
      BY <2>2, <3>1 DEF Prepares
    <3>2. CASE ~\E t \in Threads : Prepares(t)
      <4>1. Reached(b) /\ ~\E t \in Threads : Claims(t) /\ b = Fresh
        BY <2>4, <3>2, ReachShrinks
      <4>2. ctx'[b].named = ctx[b].named
        BY <3>2, <4>1, IssuedStays
      <4> QED BY <2>2, <4>1, <4>2
    <3> QED BY <3>1, <3>2
  <2> QED BY <2>3, <2>4 DEF Reached
<1> QED BY <1>1, <1>2

-----------------------------------------------------------------------------
(* A survey that is being stopped.                                         *)
LEMMA StopsOneBegins ==
  ASSUME IInv, Moved, StopsOne'
  PROVE  \/ StopsSurvey
         \/ /\ StopsOne /\ th'["stop"].gen = th["stop"].gen
            /\ \/ th'["stop"].pc = th["stop"].pc /\ th'["stop"].a = th["stop"].a
               \/ Cleans("stop") \/ th["stop"].pc = "cleaning"
<1> DEFINE u == "stop"
<1>0. u \in Threads /\ Placed(th[u]) /\ th[u] \in ThreadStates
  BY Shapes
<1>1. CASE th'[u] = th[u]
  BY <1>1 DEF StopsOne
<1>2. CASE Woken(u, th'[u])
  BY <1>2, WokenAt DEF StopsOne
<1>3. CASE Local(u)
  BY <1>3 DEF Local, Starts, JoinsLock, Loops, Wakes, Rests, Pauses, Moves, Rested, StopsOne
<1>4. CASE Cleans(u) \/ Returns(u)
  BY <1>0, <1>4 DEF Cleans, Returns, Moves, StopsOne, Placed
<1>5. CASE Claims(u) \/ Prepares(u) \/ Asked(u)
  BY <1>5 DEF Claims, Prepares, Asked, Moves, StopsOne
<1>6. CASE \/ Accepted(u) \/ ClosesManual(u) \/ ClosesWaypoint(u) \/ ClosesSurvey(u)
           \/ Acts(u) \/ Ends1(u) \/ Reports(u)
  BY <1>6 DEF Accepted, ClosesManual, ClosesWaypoint, ClosesSurvey, Acts, Ends1, Reports, Moves, Rested, Waits,
              StopsOne
<1>7. CASE HaltsAll(u) \/ StopsAll1(u) \/ ReportsStop(u)
  BY <1>0, <1>7 DEF HaltsAll, StopsAll1, ReportsStop, Moves, Rested, StopsOne, Placed
<1>8. CASE Turn(u) /\ ~ThreadMoves(u)
  BY <1>8 DEF Turn, StartsSurvey, LeavesSurvey, ReportsSurvey, Rested, Moves, StopsOne
<1> QED BY <1>0, <1>1, <1>2, <1>3, <1>4, <1>5, <1>6, <1>7, <1>8, WhoTurns DEF ThreadMoves

(* What is left of it is cleared away.                                     *)
LEMMA LeftOverCleared ==
  ASSUME IInv, UsedHolds, RolesHold, StartsHold, SurveysHold, Moved, NEW b \in Attempts, StopsOne, StopsOne',
         ~StopsSurvey, ~ClaimsSample(b), Sampled(b), Live(b), ctx[b].gen = th["stop"].gen, Live(b)'
  PROVE  /\ pump'.owner = b /\ th'["stop"].pc = "endSurvey" /\ th'["stop"].a = b
         /\ trg'.prepared # b /\ ~(Preparing(b)' /\ trg'.current = b)
<1>1. /\ pump.owner = b /\ th["stop"].pc = "endSurvey" /\ th["stop"].a = b /\ trg.prepared # b
      /\ ~(Preparing(b) /\ trg.current = b)
  BY DEF SurveysHold
<1>2. ~Preparing(b)'
  <2>1. ~Preparing(b)
    BY <1>1 DEF Preparing, StartsHold, Settled
  <2> QED BY <2>1, PreparingBegins
<1>3. trg'.prepared # b
  <2>1. CASE Claiming
    <3>1. PICK t \in Threads : Claims(t)
      BY <2>1 DEF Claiming
    <3> QED BY <1>1, <3>1, ClaimsAlone
  <2>2. CASE ~Claiming
    <3>1. ASSUME NEW t \in Threads, Prepares(t), trg.current = b
          PROVE  FALSE
      BY <1>1, <3>1, PreparesCurrent
    <3>2. b # None
      BY BoundsAreNat DEF Attempts, None
    <3> QED BY <1>1, <2>2, <3>1, <3>2, NobodyNew
  <2> QED BY <2>1, <2>2
<1>4. pump'.owner = b
  BY <1>2, <1>3 DEF Live
<1>5. ~Cleans("stop")
  <2>1. b # None
    BY BoundsAreNat DEF Attempts, None
  <2> QED BY <1>1, <1>4, <2>1 DEF Cleans
<1> QED BY <1>1, <1>2, <1>3, <1>4, <1>5, StopsOneBegins

(* Of a survey that was stopped nothing is left, in every step.            *)
LEMMA SurveysStay ==
  ASSUME IInv, IInv', UsedHolds, RolesHold, StartsHold, NumbersHold, CurrentHolds, SurveysHold, Moved
  PROVE  SurveysHold'
<1>0. /\ trg.gen \in Nat /\ (trg'.gen = trg.gen \/ (StartsSurvey /\ trg'.gen = trg.gen + 1))
      /\ th["stop"].gen \in Nat /\ "stop" \in Threads
  BY GenGrows, Shapes DEF ThreadStates
<1>1. ASSUME NEW b \in Attempts, Sampled(b)', Live(b)'
      PROVE  \/ ClaimsSample(b) /\ trg.survey /\ ctx'[b].gen = trg.gen /\ stopped'.surveys = stopped.surveys
             \/ ~ClaimsSample(b) /\ Sampled(b) /\ Live(b) /\ ctx'[b].gen = ctx[b].gen
  <2>1. CASE ClaimsSample(b)
    <3>1. PICK t \in Threads : Claims(t) /\ th[t].pc = "flags" /\ b = Fresh
      BY <2>1 DEF ClaimsSample
    <3> QED BY <2>1, <3>1 DEF Claims, SameWorld, SameHistory
  <2>2. CASE ~ClaimsSample(b)
    <3>1. Sampled(b) /\ Live(b) /\ b \in Used
      BY <1>1, <2>2, LiveShrinks
    <3> QED BY <2>2, <3>1, OriginKept DEF SameOrigin
  <2> QED BY <2>1, <2>2
<1>2. ASSUME NEW b \in Attempts, Sampled(b)', ctx'[b].gen \in stopped'.surveys, Live(b)'
      PROVE  FALSE
  <2>1. CASE ClaimsSample(b)
    BY <1>1, <1>2, <2>1 DEF NumbersHold
  <2>2. CASE ~ClaimsSample(b)
    <3>1. Sampled(b) /\ Live(b) /\ ctx[b].gen \in stopped'.surveys
      BY <1>1, <1>2, <2>2
    <3>2. ctx[b].gen \notin stopped.surveys
      BY <3>1 DEF SurveysHold
    <3>3. ReportsSurvey /\ ctx[b].gen = th["stop"].gen
      BY <3>1, <3>2, GenGrows
    <3>4. StopsOne /\ th["stop"].pc # "endSurvey"
      BY <3>3 DEF ReportsSurvey, Moves, StopsOne
    <3> QED BY <3>1, <3>3, <3>4 DEF SurveysHold
  <2> QED BY <2>1, <2>2
<1>3. ASSUME StopsOne'
      PROVE  th'["stop"].gen <= trg'.gen /\ (trg'.survey => th'["stop"].gen # trg'.gen)
  <2>1. CASE StopsSurvey
    BY <1>0, <2>1 DEF StopsSurvey, NumbersHold
  <2>2. CASE ~StopsSurvey
    <3>1. StopsOne /\ th'["stop"].gen = th["stop"].gen
      BY <1>3, <2>2, StopsOneBegins
    <3>2. th["stop"].gen <= trg.gen /\ (trg.survey => th["stop"].gen # trg.gen)
      BY <3>1 DEF SurveysHold
    <3>3. trg'.survey => StartsSurvey \/ (trg.survey /\ trg'.gen = trg.gen)
      BY SurveyBegins
    <3>4. StartsSurvey => trg'.gen = trg.gen + 1
      BY DEF StartsSurvey
    <3> QED BY <1>0, <3>1, <3>2, <3>3, <3>4
  <2> QED BY <2>1, <2>2
<1>4. ASSUME StopsOne', NEW b \in Attempts, Sampled(b)', ctx'[b].gen = th'["stop"].gen, Live(b)'
      PROVE  /\ pump'.owner = b /\ th'["stop"].pc = "endSurvey" /\ th'["stop"].a = b
             /\ trg'.prepared # b /\ ~(Preparing(b)' /\ trg'.current = b)
  <2>0. b # None
    BY BoundsAreNat DEF Attempts, None
  <2>1. CASE StopsSurvey
    <3>1. ~ClaimsSample(b)
      BY <2>0, <2>1 DEF StopsSurvey, ClaimsSample, Claims
    <3>2. Sampled(b) /\ Live(b) /\ ctx[b].gen = trg.gen /\ trg.survey
      BY <1>1, <1>4, <2>1, <3>1 DEF StopsSurvey, NumbersHold
    <3>3. /\ trg.current = b /\ (pump.owner = b => ctx[b].named)
      BY <3>2 DEF CurrentHolds
    <3>4. trg'.prepared # b /\ trg'.current # b /\ pump'.owner = pump.owner
      BY <2>0, <2>1 DEF StopsSurvey, SameWorld, SamePump
    <3>5. pump'.owner = b
      BY <1>4, <3>4 DEF Live
    <3> QED BY <2>0, <2>1, <3>3, <3>4, <3>5 DEF StopsSurvey
  <2>2. CASE ~StopsSurvey
    <3>1. StopsOne /\ th'["stop"].gen = th["stop"].gen
      BY <1>4, <2>2, StopsOneBegins
    <3>2. ~ClaimsSample(b)
      BY <1>1, <1>4, <3>1 DEF SurveysHold
    <3>3. Sampled(b) /\ Live(b) /\ ctx[b].gen = th["stop"].gen
      BY <1>1, <1>4, <3>1, <3>2
    <3> QED BY <1>4, <2>2, <3>1, <3>2, <3>3, LeftOverCleared
  <2> QED BY <2>1, <2>2
<1> QED BY <1>2, <1>3, <1>4 DEF SurveysHold

-----------------------------------------------------------------------------

(* All parts of the invariant hold at the beginning,                       *)
LEMMA PartsBegin == Init => StopParts
<1> SUFFICES ASSUME Init PROVE StopParts
  OBVIOUS
<1>1. /\ trg.sampling = FALSE /\ trg.finishing = FALSE /\ trg.current = None /\ trg.prepared = None
      /\ trg.survey = FALSE /\ trg.gen = 0 /\ trg.live = 0
      /\ \A b \in Attempts : ctx[b] = NoContext
      /\ \A t \in Threads : th[t] = Idle
      /\ pump.owner = None /\ pump.cutoff = 0 /\ status = <<>>
      /\ stopped.before = 0 /\ stopped.surveys = {} /\ stopped.lost = {}
  BY DEF Init
<1>2. \A b \in Attempts : /\ ctx[b].source = "none" /\ ctx[b].pending = "none" /\ ctx[b].gen = 0
                          /\ ~Spoken(b) /\ b # None
  BY <1>1, BoundsAreNat DEF NoContext, Spoken, Attempts, None
<1>3. \A t \in Threads : Rested(th[t]) /\ "loop" \in Threads /\ "stop" \in Threads
  BY <1>1, RestedIsIdle DEF Threads
<1>4. UsedHolds
  <2>1. Used = 1..0 /\ 0 \in 0..MaxAttempts
    BY <1>2, BoundsAreNat DEF Used
  <2> QED BY <1>1, <1>2, <1>3, <2>1 DEF UsedHolds, InUse, Rested, Blank
<1>5. OneHolds /\ RolesHold /\ LockHolds
  BY <1>3 DEF OneHolds, RolesHold, LockHolds, Rested, StartPart, LoopOnly, Own, Holds, Stops, Threads
<1>6. StartsHold /\ TimesHold
  BY <1>1, <1>2, <1>3 DEF StartsHold, TimesHold, Rested, ClosesOwn, Own, Settled, StopPart
<1>7. NumbersHold
  BY <1>1, <1>2 DEF NumbersHold
<1>8. SamplesHold /\ CurrentHolds
  BY <1>1, <1>2, <1>3 DEF SamplesHold, CurrentHolds, Sampled
<1>9. FinishHolds /\ EndsHold /\ SurveysHold
  BY <1>1, <1>2, <1>3, DonesAreApart DEF FinishHolds, EndsHold, SurveysHold, Rested, Finishes, Completes, Stops,
     StopsOne, Threads
<1> QED BY <1>4, <1>5, <1>6, <1>7, <1>8, <1>9 DEF StopParts

(* are kept by every step where no two starts mix,                         *)
LEMMA PartsStay ==
  ASSUME OneStarter, IInv, IInv', StopParts, [Next]_vars
  PROVE  StopParts'
<1>1. Moved
  BY EveryStepMoves
<1>2. /\ UsedHolds /\ OneHolds /\ RolesHold /\ LockHolds /\ StartsHold /\ TimesHold
      /\ NumbersHold /\ SamplesHold /\ FinishHolds /\ EndsHold /\ CurrentHolds /\ SurveysHold
  BY DEF StopParts
<1>3. UsedHolds' /\ OneHolds' /\ RolesHold' /\ LockHolds'
  BY <1>1, <1>2, UsedStays, OneStays, RolesStay, LockStaysHeld
<1>4. StartsHold' /\ TimesHold'
  BY <1>1, <1>2, StartsStay, TimesStay
<1>5. NumbersHold' /\ SamplesHold' /\ FinishHolds'
  BY <1>1, <1>2, <1>3, <1>4, NumbersStay, SamplesStay, FinishStays
<1>6. EndsHold' /\ CurrentHolds' /\ SurveysHold'
  BY <1>1, <1>2, EndsStay, CurrentStays, SurveysStay
<1> QED BY <1>3, <1>4, <1>5, <1>6 DEF StopParts

(* and say that a stop is kept.                                            *)
LEMMA PartsStop ==
  ASSUME IInv, StopParts
  PROVE  StopHolds
<1> SUFFICES ASSUME NEW b \in Attempts, pump.owner = b
             PROVE  /\ ctx[b].source \in {"manual", "fcu"} => ctx[b].asked >= stopped.before
                    /\ ctx[b].source = "survey" => ctx[b].gen \notin stopped.surveys \/ b \in stopped.lost
  BY DEF StopHolds
<1>1. /\ stopped.before <= pump.cutoff /\ ctx[b].issued >= pump.cutoff
      /\ ctx[b].source \in {"manual", "fcu"} => ctx[b].issued = ctx[b].asked
  BY DEF StopParts, TimesHold
<1>2. stopped.before \in Nat /\ pump.cutoff \in Nat /\ ctx[b].issued \in Nat
  BY Shapes DEF Histories, PumpStates, Contexts
<1>3. Sampled(b) => ctx[b].gen \notin stopped.surveys
  BY DEF StopParts, SurveysHold, Live
<1> QED BY <1>1, <1>2, <1>3 DEF Sampled

(* What a stop promises: after a stop of everything is done the pump runs  *)
(* no attempt of a command that was given before it, and after a survey    *)
(* was stopped no sample of it, but one whose flag a waypoint had taken.   *)
(* That no two threads start at once is assumed; two starts at once share  *)
(* a context, and what is said of an attempt then is said of another.      *)
THEOREM StopIsKept == OneStarter => (Spec => []StopHolds)
<1>1. ASSUME OneStarter
      PROVE  IInv /\ StopParts /\ [Next]_vars => StopParts'
  BY <1>1, PartsStay, StepSound
<1>2. IInv /\ StopParts => StopHolds
  BY PartsStop
<1>3. CASE OneStarter
  <2>1. IInv /\ StopParts /\ [Next]_vars => (IInv /\ StopParts)'
    BY <1>1, <1>3, StepSound
  <2>2. Init => IInv /\ StopParts
    BY InitSound, PartsBegin
  <2>3. Spec => []StopHolds
    BY <1>2, <2>1, <2>2, PTL DEF Spec
  <2> QED BY <2>3
<1> QED BY <1>3
================================================================================
