----------------------------- MODULE LinksProofs -----------------------------
(***************************************************************************)
(* What goes between vehicle, controller and ground, part by part: that a  *)
(* sampling of the flight controller is answered once and truly, for any   *)
(* numbers, queues and breaks; that a request over the radio runs once,    *)
(* for any table, fragments, workers and losses of the link; that the      *)
(* events of a request tell each other apart and reach a client in order;  *)
(* that the vehicle's status says what is so and how old it is; and that   *)
(* the path to the router is judged by what is heard and written over it.  *)
(***************************************************************************)
EXTENDS Links, SequenceTheorems, TLAPS

-----------------------------------------------------------------------------
(* Samplings of the flight controller: the names that FcuSampling gives    *)
(* its variables; asked is wanted here.                                    *)
wanted == s1
waiting == s2
toVehicle == s3
toFcu == s4
last == s7
current == s8
done == s9
fail == s10
starts == s11
results == s13
faults == s14
active == s15
finishing == s17
began == s18
outcome == s19
answers == s20
USE DEF wanted, waiting, toVehicle, toFcu, last, current, done, fail, starts, results, faults, active,
        finishing, began, outcome, answers

(***************************************************************************)
(* Numbers come in order, so a number that is not the last one is new.  A  *)
(* number is with the orders, is sampled, or is being ended, and after     *)
(* that is settled: nothing changes its outcome any more.  There is an     *)
(* answer to give to the last number only, and that one is not answered.   *)
(***************************************************************************)
Orders == [kind : {"USV_SMPL", "USV_FAIL"}, id : Fcu!Ids]
Ends == [id : Fcu!Ids, outcome : {"succeeded", "failed", "skipped", "cancelled"}]
Answers == [kind : {"USV_DONE", "USV_FAIL"}, id : Fcu!Ids]
FcuTyped ==
  /\ wanted \in 0..MaxId /\ waiting \in BOOLEAN /\ (waiting => wanted # 0)
  /\ last \in 0..MaxId /\ current \in {0, last}
  /\ toVehicle \in Seq(Orders)
  /\ starts \in Seq(Fcu!Ids) /\ faults \in Seq(Fcu!Ids)
  /\ results \in Seq(Ends)
  /\ answers \in Seq(Answers) /\ toFcu \in Seq(Answers)
  /\ active \in 0..MaxId /\ finishing \in 0..MaxId
  /\ began \in [Fcu!Ids -> Nat]
  /\ outcome \in [Fcu!Ids -> {"none", "succeeded", "failed", "skipped", "cancelled"}]

InOrder(q) == \A n, m \in 1..Len(q) : n < m => q[n] < q[m]
AskedInOrder ==
  /\ last <= wanted
  /\ \A n \in 1..Len(toVehicle) : last <= toVehicle[n].id /\ toVehicle[n].id <= wanted
  /\ \A n, m \in 1..Len(toVehicle) : n < m => toVehicle[n].id <= toVehicle[m].id
Ordered(i) == \E n \in 1..Len(starts) : starts[n] = i
SampledInOrder ==
  /\ InOrder(starts) /\ \A n \in 1..Len(starts) : starts[n] <= last
  /\ \A i \in Fcu!Ids : began[i] <= 1 /\ (began[i] # 0 => i <= last /\ ~Ordered(i))
  /\ active = 0 \/ finishing = 0
  /\ active # 0 => active <= last /\ ~Ordered(active)
  /\ finishing # 0 => finishing <= last /\ ~Ordered(finishing)
  /\ finishing # 0 => outcome[finishing] # "none"

Settled(i) == i <= last /\ i # active /\ i # finishing /\ ~Ordered(i)
EndedTruly ==
  /\ \A n \in 1..Len(results) : Settled(results[n].id) /\ results[n].outcome = outcome[results[n].id]
  /\ done # <<>> => Settled(last) /\ Fcu!Releases(outcome[last])
  /\ \A n \in 1..Len(answers) :
       answers[n].kind = "USV_DONE" => Settled(answers[n].id) /\ Fcu!Releases(outcome[answers[n].id])
OneAnswer ==
  /\ <<done, fail>> \in {<< <<>>, <<>> >>, << <<last>>, <<>> >>, << <<>>, <<last>> >>}
  /\ done # <<>> \/ fail # <<>> => current = 0 /\ last # 0
  /\ \A n \in 1..Len(answers) :
       /\ answers[n].id <= last
       /\ done # <<>> \/ fail # <<>> \/ current # 0 => answers[n].id < last
  /\ \A n, m \in 1..Len(answers) : n < m => answers[n].id < answers[m].id

FcuInv == FcuTyped /\ AskedInOrder /\ SampledInOrder /\ EndedTruly /\ OneAnswer

(***************************************************************************)
(* Sequences: what Append and Tail leave.                                  *)
(***************************************************************************)
LEMMA SeqFacts ==
  ASSUME NEW S, NEW q \in Seq(S)
  PROVE  Len(q) \in Nat /\ \A n \in 1..Len(q) : q[n] \in S
OBVIOUS

LEMMA TailFacts ==
  ASSUME NEW S, NEW q \in Seq(S), q # <<>>
  PROVE  /\ Len(q) \in Nat \ {0} /\ Head(q) = q[1] /\ q[1] \in S /\ 1 \in 1..Len(q)
         /\ Tail(q) \in Seq(S) /\ Len(Tail(q)) = Len(q) - 1
         /\ \A n \in 1..Len(Tail(q)) : n + 1 \in 1..Len(q) /\ Tail(q)[n] = q[n + 1]
OBVIOUS

LEMMA AppendFacts ==
  ASSUME NEW S, NEW q \in Seq(S), NEW e \in S
  PROVE  /\ Append(q, e) \in Seq(S) /\ Len(Append(q, e)) = Len(q) + 1 /\ Len(q) \in Nat
         /\ \A n \in 1..Len(q) : Append(q, e)[n] = q[n]
         /\ Append(q, e)[Len(q) + 1] = e
OBVIOUS

\* What the types say of numbers, and of what is in the queues.
LEMMA FcuTypes ==
  ASSUME FcuTyped
  PROVE  /\ MaxId \in Nat /\ \A i \in Fcu!Ids : i \in Nat /\ i # 0
         /\ wanted \in Nat /\ last \in Nat /\ active \in Nat /\ finishing \in Nat
         /\ Len(toVehicle) \in Nat /\ \A n \in 1..Len(toVehicle) : toVehicle[n].id \in Fcu!Ids
         /\ Len(starts) \in Nat /\ \A n \in 1..Len(starts) : starts[n] \in Fcu!Ids
         /\ Len(results) \in Nat /\ \A n \in 1..Len(results) : results[n].id \in Fcu!Ids
         /\ Len(answers) \in Nat /\ \A n \in 1..Len(answers) : answers[n].id \in Fcu!Ids
<1>1. MaxId \in Nat /\ \A i \in Fcu!Ids : i \in Nat /\ i # 0
  BY LinksAssumption DEF Fcu!NumberAssumption, Fcu!Ids
<1>2. wanted \in Nat /\ last \in Nat /\ active \in Nat /\ finishing \in Nat
  BY <1>1 DEF FcuTyped
<1>3. Len(toVehicle) \in Nat /\ \A n \in 1..Len(toVehicle) : toVehicle[n].id \in Fcu!Ids
  <2>1. toVehicle \in Seq(Orders) BY DEF FcuTyped
  <2>2. Len(toVehicle) \in Nat /\ \A n \in 1..Len(toVehicle) : toVehicle[n] \in Orders BY <2>1, SeqFacts
  <2> QED BY <2>2 DEF Orders
<1>4. Len(starts) \in Nat /\ \A n \in 1..Len(starts) : starts[n] \in Fcu!Ids
  BY DEF FcuTyped
<1>5. Len(results) \in Nat /\ \A n \in 1..Len(results) : results[n].id \in Fcu!Ids
  <2>1. results \in Seq(Ends) BY DEF FcuTyped
  <2>2. Len(results) \in Nat /\ \A n \in 1..Len(results) : results[n] \in Ends BY <2>1, SeqFacts
  <2> QED BY <2>2 DEF Ends
<1>6. Len(answers) \in Nat /\ \A n \in 1..Len(answers) : answers[n].id \in Fcu!Ids
  <2>1. answers \in Seq(Answers) BY DEF FcuTyped
  <2>2. Len(answers) \in Nat /\ \A n \in 1..Len(answers) : answers[n] \in Answers BY <2>1, SeqFacts
  <2> QED BY <2>2 DEF Answers
<1> QED BY <1>1, <1>2, <1>3, <1>4, <1>5, <1>6

-----------------------------------------------------------------------------
\* The first message of the queue is gone: the others are in order.
LEMMA OrderKept ==
  ASSUME FcuTyped, AskedInOrder, toVehicle # <<>>, toVehicle' = Tail(toVehicle), wanted' = wanted,
         last' \in {last, toVehicle[1].id}
  PROVE  AskedInOrder' /\ last' \in Nat /\ last <= last'
<1>1. toVehicle \in Seq(Orders) BY DEF FcuTyped
<1>2. /\ Len(toVehicle') = Len(toVehicle) - 1 /\ Len(toVehicle) \in Nat \ {0} /\ 1 \in 1..Len(toVehicle)
      /\ \A n \in 1..Len(toVehicle') : n + 1 \in 1..Len(toVehicle) /\ toVehicle'[n] = toVehicle[n + 1]
  BY <1>1, TailFacts
<1>3. last' \in Nat /\ last <= last' /\ last' <= wanted'
  BY <1>2, FcuTypes DEF AskedInOrder
<1>4. \A n \in 1..Len(toVehicle') : last' <= toVehicle'[n].id /\ toVehicle'[n].id <= wanted'
  <2>1. TAKE n \in 1..Len(toVehicle')
  <2>2. /\ n + 1 \in 1..Len(toVehicle) /\ toVehicle'[n] = toVehicle[n + 1] /\ 1 < n + 1
        /\ toVehicle[n + 1].id \in Nat /\ toVehicle[1].id \in Nat
    BY <1>2, FcuTypes
  <2> QED BY <2>2, <1>2 DEF AskedInOrder
<1>5. \A n, m \in 1..Len(toVehicle') : n < m => toVehicle'[n].id <= toVehicle'[m].id
  <2>1. SUFFICES ASSUME NEW n \in 1..Len(toVehicle'), NEW m \in 1..Len(toVehicle'), n < m
                 PROVE  toVehicle'[n].id <= toVehicle'[m].id
    OBVIOUS
  <2>2. n + 1 \in 1..Len(toVehicle) /\ m + 1 \in 1..Len(toVehicle) /\ n + 1 < m + 1
    BY <1>2, <2>1
  <2> QED BY <2>2, <1>2 DEF AskedInOrder
<1> QED BY <1>3, <1>4, <1>5 DEF AskedInOrder

(* What is settled stays so, when nothing new comes but a number.          *)
LEMMA SettledStays ==
  ASSUME FcuTyped, last' \in Nat, last <= last',
         active' = 0 \/ active' = active \/ (active' \in Fcu!Ids /\ Ordered(active')),
         finishing' \in {0, active, finishing}, NEW i \in Fcu!Ids, Settled(i),
         Ordered(i)' => Ordered(i) \/ last < i
  PROVE  Settled(i)'
<1>1. i <= last' /\ ~(last < i) /\ i # 0 BY FcuTypes DEF Settled
<1> QED BY <1>1 DEF Settled

\* The script asks, asks again or gives up.
LEMMA AskingKeeps ==
  ASSUME FcuInv, Fcu!Ask \/ Fcu!AskAgain \/ Fcu!GiveUp
  PROVE  FcuInv'
<1>1. /\ UNCHANGED <<toFcu, last, current, done, fail, starts, results, faults, active, finishing, began,
                     outcome, answers>>
      /\ waiting' \in BOOLEAN /\ wanted' \in {wanted, wanted + 1} /\ wanted' \in Fcu!Ids
      /\ \E kind \in {"USV_SMPL", "USV_FAIL"} : toVehicle' = Append(toVehicle, [kind |-> kind, id |-> wanted'])
  <2>1. wanted \in 0..MaxId /\ waiting \in BOOLEAN /\ (waiting => wanted # 0) /\ MaxId \in Nat
    BY FcuTypes DEF FcuInv, FcuTyped
  <2>2. CASE Fcu!Ask BY <2>1, <2>2 DEF Fcu!Ask, Fcu!Send, Fcu!bridgeVars, Fcu!triggerVars, Fcu!Ids
  <2>3. CASE Fcu!AskAgain
    BY <2>1, <2>3 DEF Fcu!AskAgain, Fcu!Send, Fcu!bridgeVars, Fcu!triggerVars, Fcu!scriptVars, Fcu!Ids
  <2>4. CASE Fcu!GiveUp
    <3>1. waiting /\ wanted' = wanted /\ waiting' = FALSE BY <2>4 DEF Fcu!GiveUp
    <3>2. wanted \in Fcu!Ids BY <2>1, <3>1 DEF Fcu!Ids
    <3>3. toVehicle' = Append(toVehicle, [kind |-> "USV_FAIL", id |-> wanted'])
      BY <2>4 DEF Fcu!GiveUp, Fcu!Send
    <3>4. UNCHANGED <<toFcu, last, current, done, fail, starts, results, faults, active, finishing, began,
                      outcome, answers>>
      BY <2>4 DEF Fcu!GiveUp, Fcu!bridgeVars, Fcu!triggerVars
    <3> QED BY <3>1, <3>2, <3>3, <3>4
  <2> QED BY <2>2, <2>3, <2>4
<1>2. PICK kind \in {"USV_SMPL", "USV_FAIL"} : toVehicle' = Append(toVehicle, [kind |-> kind, id |-> wanted'])
  BY <1>1
<1>3. toVehicle \in Seq(Orders) /\ [kind |-> kind, id |-> wanted'] \in Orders
  BY <1>1 DEF FcuInv, FcuTyped, Orders
<1>4. /\ toVehicle' \in Seq(Orders) /\ Len(toVehicle') = Len(toVehicle) + 1 /\ Len(toVehicle) \in Nat
      /\ \A n \in 1..Len(toVehicle) : toVehicle'[n] = toVehicle[n]
      /\ toVehicle'[Len(toVehicle) + 1].id = wanted'
  BY <1>2, <1>3, AppendFacts
<1>5. FcuTyped'
  <2>1. wanted' \in 0..MaxId /\ wanted' # 0 BY <1>1, FcuTypes DEF FcuInv, Fcu!Ids
  <2> QED BY <1>1, <1>4, <2>1 DEF FcuInv, FcuTyped
<1>6. AskedInOrder'
  <2>1. /\ wanted \in Nat /\ wanted' \in Nat /\ wanted <= wanted' /\ last \in Nat
        /\ \A n \in 1..Len(toVehicle) : toVehicle[n].id \in Nat
    BY <1>1, FcuTypes DEF FcuInv
  <2>2. \A n \in 1..Len(toVehicle') : n \in 1..Len(toVehicle) \/ n = Len(toVehicle) + 1
    BY <1>4
  <2>3. last' <= wanted' /\ \A n \in 1..Len(toVehicle') : last' <= toVehicle'[n].id /\ toVehicle'[n].id <= wanted'
    BY <1>1, <1>4, <2>1, <2>2 DEF FcuInv, AskedInOrder
  <2>4. \A n, m \in 1..Len(toVehicle') : n < m => toVehicle'[n].id <= toVehicle'[m].id
    <3>1. SUFFICES ASSUME NEW n \in 1..Len(toVehicle'), NEW m \in 1..Len(toVehicle'), n < m
                   PROVE  toVehicle'[n].id <= toVehicle'[m].id
      OBVIOUS
    <3>2. n \in 1..Len(toVehicle) BY <3>1, <1>4
    <3>3. CASE m \in 1..Len(toVehicle) BY <1>4, <3>1, <3>2, <3>3 DEF FcuInv, AskedInOrder
    <3>4. CASE m = Len(toVehicle) + 1 BY <1>4, <3>2, <3>4, <2>3
    <3> QED BY <2>2, <3>3, <3>4
  <2> QED BY <2>3, <2>4 DEF AskedInOrder
<1>7. SampledInOrder' BY <1>1 DEF FcuInv, SampledInOrder, InOrder, Ordered
<1>8. EndedTruly' BY <1>1 DEF FcuInv, EndedTruly, Settled, Ordered
<1>9. OneAnswer' BY <1>1 DEF FcuInv, OneAnswer
<1> QED BY <1>5, <1>6, <1>7, <1>8, <1>9 DEF FcuInv

\* A message to the vehicle is lost, or all of them are.
LEMMA LosingKeeps ==
  ASSUME FcuInv, Fcu!TakeAnswer \/ Fcu!Lose \/ Fcu!Break \/ Fcu!Reconnect
  PROVE  FcuInv'
<1>1. /\ UNCHANGED <<wanted, last, current, starts, results, faults, active, finishing, began,
                     outcome, answers>>
      /\ waiting' \in {waiting, FALSE}
      /\ toVehicle' \in {toVehicle, <<>>} \/ (toVehicle # <<>> /\ toVehicle' = Tail(toVehicle))
      /\ toFcu' = toFcu \/ (toFcu # <<>> /\ toFcu' = Tail(toFcu))
      /\ UNCHANGED <<done, fail>> \/ (done' = <<>> /\ fail' = <<>>)
  BY DEF FcuInv, FcuTyped, Fcu!TakeAnswer, Fcu!Lose, Fcu!Break, Fcu!Reconnect, Fcu!bridgeVars,
         Fcu!triggerVars, Fcu!scriptVars
<1>2. FcuTyped'
  <2>1. toVehicle' \in Seq(Orders)
    <3>1. toVehicle \in Seq(Orders) /\ <<>> \in Seq(Orders) BY DEF FcuInv, FcuTyped
    <3> QED BY <1>1, <3>1, TailFacts
  <2>2. waiting' \in BOOLEAN /\ (waiting' => wanted # 0)
    <3>1. waiting \in BOOLEAN /\ (waiting => wanted # 0) BY DEF FcuInv, FcuTyped
    <3>2. waiting' = waiting \/ waiting' = FALSE BY <1>1
    <3>3. CASE waiting' = waiting BY <3>1, <3>3
    <3>4. CASE waiting' = FALSE BY <3>4
    <3> QED BY <3>2, <3>3, <3>4
  <2>3. toFcu' \in Seq(Answers)
    <3>1. toFcu \in Seq(Answers) BY DEF FcuInv, FcuTyped
    <3> QED BY <1>1, <3>1, TailFacts
  <2> QED BY <1>1, <2>1, <2>2, <2>3 DEF FcuInv, FcuTyped
<1>3. AskedInOrder'
  <2>1. CASE toVehicle' = toVehicle BY <1>1, <2>1 DEF FcuInv, AskedInOrder
  <2>2. CASE toVehicle' = <<>> BY <1>1, <2>2 DEF FcuInv, AskedInOrder
  <2>3. CASE toVehicle # <<>> /\ toVehicle' = Tail(toVehicle) BY <1>1, <2>3, OrderKept DEF FcuInv
  <2> QED BY <1>1, <2>1, <2>2, <2>3
<1>4. SampledInOrder' BY <1>1 DEF FcuInv, SampledInOrder, InOrder, Ordered
<1>5. EndedTruly'
  <2>1. done' # <<>> => done # <<>> BY <1>1
  <2> QED BY <1>1, <2>1 DEF FcuInv, EndedTruly, Settled, Ordered
<1>6. OneAnswer' BY <1>1 DEF FcuInv, OneAnswer
<1> QED BY <1>2, <1>3, <1>4, <1>5, <1>6 DEF FcuInv

\* A number that is new is kept, and its order goes to the trigger; one that is not changes nothing.
LEMMA ReceivingKeeps ==
  ASSUME FcuInv, Fcu!Receive
  PROVE  FcuInv'
<1> DEFINE m == Head(toVehicle)
<1>1. /\ toVehicle # <<>> /\ toVehicle' = Tail(toVehicle)
      /\ UNCHANGED <<wanted, waiting, toFcu, results, faults, active, finishing, began, outcome, answers>>
  BY DEF Fcu!Receive, Fcu!scriptVars, Fcu!triggerVars
<1>2. toVehicle \in Seq(Orders) BY DEF FcuInv, FcuTyped
<1>3. m = toVehicle[1] /\ m \in Orders /\ toVehicle' \in Seq(Orders) /\ 1 \in 1..Len(toVehicle)
  BY <1>1, <1>2, TailFacts
<1>4. m.id \in Fcu!Ids /\ m.id \in Nat /\ last \in Nat /\ last <= m.id
  BY <1>3, FcuTypes DEF FcuInv, AskedInOrder
<1>5. \/ UNCHANGED <<last, current, done, fail, starts>>
      \/ /\ last # m.id /\ last' = m.id /\ current' = m.id /\ done' = <<>> /\ fail' = <<>>
         /\ starts' = Append(starts, m.id)
  BY DEF Fcu!Receive, Fcu!TakeAsk, Fcu!TakeGivenUp, Fcu!New, Fcu!bridgeVars
<1>6. AskedInOrder' /\ last' \in Nat /\ last <= last'
  <2>1. last' \in {last, toVehicle[1].id} BY <1>3, <1>5
  <2> QED BY <1>1, <2>1, OrderKept DEF FcuInv
<1>7. CASE UNCHANGED <<last, current, done, fail, starts>>
  <2>1. FcuTyped' BY <1>1, <1>3, <1>7 DEF FcuInv, FcuTyped
  <2>2. SampledInOrder' BY <1>1, <1>7 DEF FcuInv, SampledInOrder, InOrder, Ordered
  <2>3. EndedTruly' BY <1>1, <1>7 DEF FcuInv, EndedTruly, Settled, Ordered
  <2>4. OneAnswer' BY <1>1, <1>7 DEF FcuInv, OneAnswer
  <2> QED BY <1>6, <2>1, <2>2, <2>3, <2>4 DEF FcuInv
<1>8. CASE /\ last # m.id /\ last' = m.id /\ current' = m.id /\ done' = <<>> /\ fail' = <<>>
           /\ starts' = Append(starts, m.id)
  <2>1. starts \in Seq(Fcu!Ids) /\ m.id \in 0..MaxId /\ last < last'
    BY <1>4, <1>8 DEF FcuInv, FcuTyped, Fcu!Ids
  <2>2. /\ starts' \in Seq(Fcu!Ids) /\ Len(starts') = Len(starts) + 1 /\ Len(starts) \in Nat
        /\ \A n \in 1..Len(starts) : starts'[n] = starts[n]
        /\ starts'[Len(starts) + 1] = m.id
    BY <1>4, <1>8, <2>1, AppendFacts
  <2>3. \A n \in 1..Len(starts') : n \in 1..Len(starts) \/ n = Len(starts) + 1
    BY <2>2
  <2>4. \A n \in 1..Len(starts) : starts[n] \in Nat /\ starts[n] <= last /\ starts[n] < last'
    BY <2>1, <1>4, <1>8, FcuTypes, SMTT(30) DEF FcuInv, SampledInOrder
  <2>5. FcuTyped'
    BY <1>1, <1>3, <1>8, <2>1, <2>2 DEF FcuInv, FcuTyped
  <2>6. \A i : Ordered(i)' => Ordered(i) \/ i = last'
    BY <1>8, <2>2, <2>3 DEF Ordered
  <2>7. SampledInOrder'
    <3>1. \A n \in 1..Len(starts') : starts'[n] <= last'
      BY <1>4, <1>8, <2>2, <2>3, <2>4
    <3>2. \A n, k \in 1..Len(starts') : n < k => starts'[n] < starts'[k]
      <4>1. SUFFICES ASSUME NEW n \in 1..Len(starts'), NEW k \in 1..Len(starts'), n < k
                     PROVE  starts'[n] < starts'[k]
        OBVIOUS
      <4>2. n \in 1..Len(starts) BY <2>2, <4>1
      <4>3. CASE k \in 1..Len(starts) BY <2>2, <4>1, <4>2, <4>3 DEF FcuInv, SampledInOrder, InOrder
      <4>4. CASE k = Len(starts) + 1 BY <1>8, <2>2, <2>4, <4>2, <4>4
      <4> QED BY <2>3, <4>3, <4>4
    <3>3. \A i \in Fcu!Ids : began'[i] <= 1 /\ (began'[i] # 0 => i <= last' /\ ~Ordered(i)')
      <4>1. SUFFICES ASSUME NEW i \in Fcu!Ids, began[i] # 0 PROVE i <= last' /\ ~Ordered(i)'
        BY <1>1 DEF FcuInv, SampledInOrder
      <4>2. i \in Nat /\ i <= last /\ ~Ordered(i) BY <4>1, FcuTypes DEF FcuInv, SampledInOrder
      <4> QED BY <1>4, <1>8, <2>1, <2>6, <4>2
    <3>4. active' = 0 \/ finishing' = 0 BY <1>1 DEF FcuInv, SampledInOrder
    <3>5. active' # 0 => active' <= last' /\ ~Ordered(active)'
      <4>1. active \in Nat /\ (active # 0 => active <= last /\ ~Ordered(active))
        BY FcuTypes DEF FcuInv, SampledInOrder
      <4>2. active # 0 => active <= last' /\ active # last' BY <1>4, <1>8, <2>1, <4>1
      <4>3. Ordered(active)' => Ordered(active) \/ active' = last' BY <2>6, <1>1 DEF Ordered
      <4> QED BY <1>1, <4>1, <4>2, <4>3
    <3>6. finishing' # 0 => finishing' <= last' /\ ~Ordered(finishing)'
      <4>1. finishing \in Nat /\ (finishing # 0 => finishing <= last /\ ~Ordered(finishing))
        BY FcuTypes DEF FcuInv, SampledInOrder
      <4>2. finishing # 0 => finishing <= last' /\ finishing # last' BY <1>4, <1>8, <2>1, <4>1
      <4>3. Ordered(finishing)' => Ordered(finishing) \/ finishing' = last' BY <2>6, <1>1 DEF Ordered
      <4> QED BY <1>1, <4>1, <4>2, <4>3
    <3>7. (finishing # 0 => outcome[finishing] # "none")' BY <1>1 DEF FcuInv, SampledInOrder
    <3> QED BY <3>1, <3>2, <3>3, <3>4, <3>5, <3>6, <3>7 DEF SampledInOrder, InOrder
  <2>8. EndedTruly'
    <3>1. \A i \in Fcu!Ids : Settled(i) => Settled(i)'
      <4>1. SUFFICES ASSUME NEW i \in Fcu!Ids, Settled(i) PROVE Settled(i)'
        OBVIOUS
      <4>2. i \in Nat /\ i <= last /\ i # last' BY <4>1, <2>1, <1>4, <1>8, FcuTypes DEF FcuInv, Settled
      <4>3. Ordered(i)' => Ordered(i) BY <2>6, <4>2
      <4> QED BY <1>1, <1>6, <4>1, <4>3, SettledStays DEF FcuInv
    <3>2. /\ \A n \in 1..Len(results) : results[n].id \in Fcu!Ids
          /\ \A n \in 1..Len(answers) : answers[n].id \in Fcu!Ids
      BY FcuTypes DEF FcuInv
    <3> QED BY <1>1, <1>8, <3>1, <3>2 DEF FcuInv, EndedTruly
  <2>9. OneAnswer'
    <3>1. \A n \in 1..Len(answers) : answers[n].id \in Nat /\ answers[n].id <= last
      BY FcuTypes DEF FcuInv, OneAnswer
    <3>2. \A n \in 1..Len(answers) : answers[n].id < last' BY <3>1, <2>1, <1>4, <1>8
    <3>3. \A n, k \in 1..Len(answers) : n < k => answers[n].id < answers[k].id BY DEF FcuInv, OneAnswer
    <3>4. answers' = answers /\ done' = <<>> /\ fail' = <<>> BY <1>1, <1>8
    <3> QED BY <2>1, <3>1, <3>2, <3>3, <3>4, <1>6, FcuTypes, SMTT(30) DEF FcuInv, OneAnswer
  <2> QED BY <1>6, <2>5, <2>7, <2>8, <2>9 DEF FcuInv
<1> QED BY <1>5, <1>7, <1>8

(***************************************************************************)
(* The answer: there is none to give, one of success or one of failure.    *)
(***************************************************************************)
LEMMA SingleFacts ==
  ASSUME NEW x
  PROVE  /\ <<x>> # <<>> /\ Head(<<x>>) = x /\ Tail(<<x>>) = <<>> /\ Append(<<>>, x) = <<x>>
OBVIOUS

\* What is to be answered changes, and nothing else that the invariant is about.
LEMMA AnswerKeeps ==
  ASSUME FcuInv, UNCHANGED <<wanted, waiting, toVehicle, last, starts, active, finishing, began, outcome>>,
         current' \in {0, last}, faults' \in Seq(Fcu!Ids), results' \in Seq(Ends), answers' \in Seq(Answers),
         toFcu' \in Seq(Answers),
         OneAnswer', EndedTruly'
  PROVE  FcuInv'
<1>1. FcuTyped' BY DEF FcuInv, FcuTyped
<1>2. AskedInOrder' BY DEF FcuInv, AskedInOrder
<1>3. SampledInOrder' BY DEF FcuInv, SampledInOrder, InOrder, Ordered
<1> QED BY <1>1, <1>2, <1>3 DEF FcuInv

\* The end of the number that is sampled is to be answered, by what came of it.
LEMMA ResultKeeps ==
  ASSUME FcuInv, Fcu!TakeResult
  PROVE  FcuInv'
<1> DEFINE r == Head(results)
<1>1. /\ results # <<>> /\ results' = Tail(results)
      /\ UNCHANGED <<wanted, waiting, toVehicle, toFcu, last, starts, faults, active, finishing, began, outcome,
                     answers>>
  BY DEF Fcu!TakeResult, Fcu!scriptVars, Fcu!linkVars, Fcu!triggerVars
<1>2. results \in Seq(Ends) /\ faults \in Seq(Fcu!Ids) /\ answers \in Seq(Answers) /\ toFcu \in Seq(Answers)
  BY DEF FcuInv, FcuTyped
<1>3. /\ r = results[1] /\ r \in Ends /\ results' \in Seq(Ends) /\ 1 \in 1..Len(results)
      /\ \A n \in 1..Len(results') : n + 1 \in 1..Len(results) /\ results'[n] = results[n + 1]
  BY <1>1, <1>2, TailFacts
<1>4. r.id \in Fcu!Ids /\ r.id # 0 /\ Settled(r.id) /\ r.outcome = outcome[r.id]
  BY <1>3, FcuTypes DEF FcuInv, EndedTruly
<1>5. \A i : Settled(i)' <=> Settled(i) BY <1>1 DEF Settled, Ordered
<1>6. (\A n \in 1..Len(results) : Settled(results[n].id) /\ results[n].outcome = outcome[results[n].id])'
  BY <1>1, <1>3 DEF FcuInv, EndedTruly, Settled, Ordered
<1>7. \/ UNCHANGED <<current, done, fail>>
      \/ /\ r.id = current /\ current' = 0
         /\ \/ Fcu!Releases(r.outcome) /\ done' = Append(done, r.id) /\ fail' = fail
            \/ fail' = Append(fail, r.id) /\ done' = done
  BY DEF Fcu!TakeResult
<1>8. CASE UNCHANGED <<current, done, fail>>
  <2>1. OneAnswer' BY <1>1, <1>8 DEF FcuInv, OneAnswer
  <2>2. EndedTruly' BY <1>1, <1>5, <1>6, <1>8 DEF FcuInv, EndedTruly
  <2> QED BY <1>1, <1>2, <1>3, <1>8, <2>1, <2>2, AnswerKeeps DEF FcuInv, FcuTyped
<1>9. CASE /\ r.id = current /\ current' = 0
           /\ \/ Fcu!Releases(r.outcome) /\ done' = Append(done, r.id) /\ fail' = fail
              \/ fail' = Append(fail, r.id) /\ done' = done
  <2>1. r.id = last /\ current = last /\ last # 0 /\ done = <<>> /\ fail = <<>>
    BY <1>4, <1>9 DEF FcuInv, FcuTyped, OneAnswer
  <2>2. \/ Fcu!Releases(outcome[last]) /\ done' = <<last>> /\ fail' = <<>>
        \/ fail' = <<last>> /\ done' = <<>>
    BY <1>4, <1>9, <2>1, SingleFacts
  <2>3. \A n \in 1..Len(answers) : answers[n].id < last BY <2>1, <1>4 DEF FcuInv, OneAnswer
  <2>4. \A n, m \in 1..Len(answers) : n < m => answers[n].id < answers[m].id BY DEF FcuInv, OneAnswer
  <2>5. OneAnswer'
    <3>1. <<done', fail'>> \in {<< <<>>, <<>> >>, << <<last>>, <<>> >>, << <<>>, <<last>> >>} BY <2>2
    <3>2. \A n \in 1..Len(answers) : answers[n].id <= last
      BY <2>3, FcuTypes DEF FcuInv
    <3> QED BY <1>1, <1>9, <2>1, <2>3, <2>4, <3>1, <3>2 DEF OneAnswer
  <2>6. EndedTruly'
    <3>1. (done # <<>> => Settled(last) /\ Fcu!Releases(outcome[last]))'
      BY <1>1, <1>4, <2>1, <2>2, SingleFacts DEF Settled, Ordered, Fcu!Releases
    <3>2. (\A n \in 1..Len(answers) :
             answers[n].kind = "USV_DONE" => Settled(answers[n].id) /\ Fcu!Releases(outcome[answers[n].id]))'
      BY <1>1 DEF FcuInv, EndedTruly, Settled, Ordered, Fcu!Releases
    <3> QED BY <1>6, <3>1, <3>2 DEF EndedTruly
  <2> QED BY <1>1, <1>2, <1>3, <1>9, <2>5, <2>6, AnswerKeeps
<1> QED BY <1>7, <1>8, <1>9

\* The controller has lost the owner of what is sampled: that is a failure to answer.
LEMMA FaultKeeps ==
  ASSUME FcuInv, Fcu!TakeFault
  PROVE  FcuInv'
<1>1. /\ faults # <<>> /\ faults' = Tail(faults)
      /\ UNCHANGED <<wanted, waiting, toVehicle, toFcu, last, starts, results, active, finishing, began, outcome,
                     answers>>
  BY DEF Fcu!TakeFault, Fcu!scriptVars, Fcu!linkVars, Fcu!triggerVars
<1>2. results \in Seq(Ends) /\ faults \in Seq(Fcu!Ids) /\ answers \in Seq(Answers) /\ toFcu \in Seq(Answers)
  BY DEF FcuInv, FcuTyped
<1>3. Head(faults) \in Fcu!Ids /\ Head(faults) # 0 /\ faults' \in Seq(Fcu!Ids)
  BY <1>1, <1>2, TailFacts, FcuTypes DEF FcuInv
<1>4. \/ UNCHANGED <<current, done, fail>>
      \/ Head(faults) = current /\ current' = 0 /\ fail' = Append(fail, current) /\ done' = <<>>
  BY DEF Fcu!TakeFault, Fcu!Forgotten
<1>5. CASE UNCHANGED <<current, done, fail>>
  <2>1. OneAnswer' BY <1>1, <1>5 DEF FcuInv, OneAnswer
  <2>2. EndedTruly' BY <1>1, <1>5 DEF FcuInv, EndedTruly, Settled, Ordered
  <2> QED BY <1>1, <1>2, <1>3, <1>5, <2>1, <2>2, AnswerKeeps DEF FcuInv, FcuTyped
<1>6. CASE Head(faults) = current /\ current' = 0 /\ fail' = Append(fail, current) /\ done' = <<>>
  <2>1. current = last /\ last # 0 /\ done = <<>> /\ fail = <<>>
    BY <1>3, <1>6 DEF FcuInv, FcuTyped, OneAnswer
  <2>2. fail' = <<last>> BY <1>6, <2>1, SingleFacts
  <2>3. \A n \in 1..Len(answers) : answers[n].id < last BY <2>1 DEF FcuInv, OneAnswer
  <2>4. OneAnswer'
    <3>1. \A n \in 1..Len(answers) : answers[n].id <= last BY DEF FcuInv, OneAnswer
    <3>2. \A n, m \in 1..Len(answers) : n < m => answers[n].id < answers[m].id BY DEF FcuInv, OneAnswer
    <3> QED BY <1>1, <1>6, <2>1, <2>2, <2>3, <3>1, <3>2 DEF OneAnswer
  <2>5. EndedTruly' BY <1>1, <1>6 DEF FcuInv, EndedTruly, Settled, Ordered
  <2> QED BY <1>1, <1>2, <1>3, <1>6, <2>4, <2>5, AnswerKeeps
<1> QED BY <1>4, <1>5, <1>6

\* The answer to the last number goes out; the answers before are to lower numbers.
LEMMA FlushKeeps ==
  ASSUME FcuInv, Fcu!Flush
  PROVE  FcuInv'
<1>1. UNCHANGED <<wanted, waiting, toVehicle, last, current, starts, results, faults, active, finishing, began,
                  outcome>>
  BY DEF Fcu!Flush, Fcu!scriptVars, Fcu!triggerVars
<1>2. /\ results \in Seq(Ends) /\ faults \in Seq(Fcu!Ids) /\ answers \in Seq(Answers) /\ toFcu \in Seq(Answers)
      /\ current \in {0, last} /\ last \in 0..MaxId
  BY DEF FcuInv, FcuTyped
<1>3. PICK kind \in {"USV_DONE", "USV_FAIL"}, i \in {Head(done), Head(fail)} :
        /\ toFcu' = Append(toFcu, [kind |-> kind, id |-> i])
        /\ answers' = Append(answers, toFcu'[Len(toFcu')])
        /\ \/ fail # <<>> /\ fail' = Tail(fail) /\ done' = done /\ kind = "USV_FAIL" /\ i = Head(fail)
           \/ fail = <<>> /\ done # <<>> /\ done' = Tail(done) /\ fail' = fail /\ kind = "USV_DONE" /\ i = Head(done)
  BY DEF Fcu!Flush
<1> DEFINE a == [kind |-> kind, id |-> last]
<1>4. i = last /\ last # 0 /\ current = 0 /\ done' = <<>> /\ fail' = <<>>
  BY <1>3, SingleFacts DEF FcuInv, OneAnswer
<1>5. a \in Answers /\ last \in Fcu!Ids
  BY <1>2, <1>4, FcuTypes DEF FcuInv, Answers, Fcu!Ids
<1>6. toFcu' \in Seq(Answers) /\ toFcu'[Len(toFcu')] = a
  BY <1>2, <1>3, <1>4, <1>5, AppendFacts
<1>7. /\ answers' \in Seq(Answers) /\ Len(answers') = Len(answers) + 1 /\ Len(answers) \in Nat
      /\ \A n \in 1..Len(answers) : answers'[n] = answers[n]
      /\ answers'[Len(answers) + 1] = a
  BY <1>2, <1>3, <1>5, <1>6, AppendFacts
<1>8. \A n \in 1..Len(answers') : n \in 1..Len(answers) \/ n = Len(answers) + 1
  BY <1>7
<1>9. \A n \in 1..Len(answers) : answers[n].id < last
  BY <1>3 DEF FcuInv, OneAnswer
<1>10. OneAnswer'
  <2>1. \A n \in 1..Len(answers') : answers'[n].id <= last
    <3>1. last \in Nat /\ \A n \in 1..Len(answers) : answers[n].id \in Nat BY FcuTypes DEF FcuInv
    <3>2. \A n \in 1..Len(answers) : answers[n].id <= last BY <3>1, <1>9
    <3> QED BY <1>7, <1>8, <3>1, <3>2
  <2>2. \A n, m \in 1..Len(answers') : n < m => answers'[n].id < answers'[m].id
    <3>1. SUFFICES ASSUME NEW n \in 1..Len(answers'), NEW m \in 1..Len(answers'), n < m
                   PROVE  answers'[n].id < answers'[m].id
      OBVIOUS
    <3>2. n \in 1..Len(answers) BY <3>1, <1>7
    <3>3. CASE m \in 1..Len(answers) BY <1>7, <3>1, <3>2, <3>3 DEF FcuInv, OneAnswer
    <3>4. CASE m = Len(answers) + 1 BY <1>7, <1>9, <3>2, <3>4
    <3> QED BY <1>8, <3>3, <3>4
  <2> QED BY <1>1, <1>4, <2>1, <2>2 DEF OneAnswer
<1>11. EndedTruly'
  <2>1. kind = "USV_DONE" => Settled(last) /\ Fcu!Releases(outcome[last])
    BY <1>3 DEF FcuInv, EndedTruly
  <2>2. \A n \in 1..Len(answers') :
          answers'[n].kind = "USV_DONE" => Settled(answers'[n].id) /\ Fcu!Releases(outcome[answers'[n].id])
    BY <1>7, <1>8, <2>1 DEF FcuInv, EndedTruly
  <2> QED BY <1>1, <1>4, <2>2 DEF FcuInv, EndedTruly, Settled, Ordered, Fcu!Releases
<1> QED BY <1>1, <1>2, <1>6, <1>7, <1>10, <1>11, AnswerKeeps

(***************************************************************************)
(* The trigger: an attempt goes from the orders to what is sampled, to     *)
(* what is ended, and its result out.                                      *)
(***************************************************************************)
LEMMA TriggerKeeps ==
  ASSUME FcuInv, UNCHANGED <<wanted, waiting, toVehicle, toFcu, last, current, done, fail, answers>>,
         FcuTyped', SampledInOrder',
         \A i \in Fcu!Ids : Settled(i) => Settled(i)' /\ outcome'[i] = outcome[i],
         (\A n \in 1..Len(results) : Settled(results[n].id) /\ results[n].outcome = outcome[results[n].id])'
  PROVE  FcuInv'
<1>1. AskedInOrder' /\ OneAnswer' BY DEF FcuInv, AskedInOrder, OneAnswer
<1>2. EndedTruly'
  <2>1. (done # <<>> => Settled(last) /\ Fcu!Releases(outcome[last]))'
    <3>1. done # <<>> => last \in Fcu!Ids
      BY FcuTypes DEF FcuInv, FcuTyped, OneAnswer, Fcu!Ids
    <3> QED BY <3>1 DEF FcuInv, EndedTruly, Settled, Ordered, Fcu!Releases
  <2>2. (\A n \in 1..Len(answers) :
           answers[n].kind = "USV_DONE" => Settled(answers[n].id) /\ Fcu!Releases(outcome[answers[n].id]))'
    <3>1. \A n \in 1..Len(answers) : answers[n].id \in Fcu!Ids BY FcuTypes DEF FcuInv
    <3> QED BY <3>1 DEF FcuInv, EndedTruly, Settled, Ordered, Fcu!Releases
  <2> QED BY <2>1, <2>2 DEF EndedTruly
<1> QED BY <1>1, <1>2 DEF FcuInv

\* An end that is published as it has been noted is true, as the others stay.
LEMMA EndAdded ==
  ASSUME FcuInv, NEW i \in Fcu!Ids, NEW o \in {"succeeded", "failed", "skipped", "cancelled"},
         results' = Append(results, [id |-> i, outcome |-> o]), outcome'[i] = o, Settled(i)',
         \A k \in Fcu!Ids : Settled(k) => Settled(k)' /\ outcome'[k] = outcome[k]
  PROVE  /\ results' \in Seq(Ends)
         /\ (\A n \in 1..Len(results) : Settled(results[n].id) /\ results[n].outcome = outcome[results[n].id])'
<1>1. results \in Seq(Ends) /\ [id |-> i, outcome |-> o] \in Ends BY DEF FcuInv, FcuTyped, Ends
<1>2. /\ results' \in Seq(Ends) /\ Len(results') = Len(results) + 1 /\ Len(results) \in Nat
      /\ \A n \in 1..Len(results) : results'[n] = results[n]
      /\ results'[Len(results) + 1] = [id |-> i, outcome |-> o]
  BY <1>1, AppendFacts
<1>3. SUFFICES ASSUME NEW n \in 1..Len(results')
               PROVE  (Settled(results[n].id) /\ results[n].outcome = outcome[results[n].id])'
  BY <1>2
<1>4. CASE n \in 1..Len(results)
  <2>1. results[n].id \in Fcu!Ids /\ Settled(results[n].id) /\ results[n].outcome = outcome[results[n].id]
    BY <1>4, FcuTypes DEF FcuInv, EndedTruly
  <2>3. results'[n] = results[n] BY <1>2, <1>4
  <2>4. outcome'[results[n].id] = outcome[results[n].id] BY <2>1
  <2> QED BY <2>1, <2>3, <2>4 DEF Settled, Ordered
<1>5. CASE n = Len(results) + 1
  <2>1. results'[n] = [id |-> i, outcome |-> o] BY <1>2, <1>5
  <2> QED BY <2>1 DEF Settled, Ordered
<1> QED BY <1>2, <1>3, <1>4, <1>5

\* An order is taken: what is busy refuses it, and it is the only one of its number.
LEMMA StartingKeeps ==
  ASSUME FcuInv, Fcu!Start
  PROVE  FcuInv'
<1>0. PICK id : id = Head(starts) OBVIOUS
<1>1. /\ starts # <<>> /\ starts' = Tail(starts)
      /\ UNCHANGED <<wanted, waiting, toVehicle, toFcu, last, current, done, fail, answers, faults, finishing>>
  BY DEF Fcu!Start, Fcu!scriptVars, Fcu!linkVars, Fcu!bridgeVars
<1>2. starts \in Seq(Fcu!Ids) BY DEF FcuInv, FcuTyped
<1>3. /\ id = starts[1] /\ id \in Fcu!Ids /\ starts' \in Seq(Fcu!Ids) /\ Len(starts) \in Nat /\ 1 \in 1..Len(starts)
      /\ Len(starts') \in Nat
      /\ \A n \in 1..Len(starts') : n + 1 \in 1..Len(starts) /\ starts'[n] = starts[n + 1]
  BY <1>0, <1>1, <1>2, TailFacts
<1>4. Ordered(id) /\ id <= last /\ id \in Nat /\ id # 0 /\ id \in 0..MaxId
  <2>1. Ordered(id) /\ id <= last BY <1>3 DEF FcuInv, SampledInOrder, Ordered
  <2> QED BY <1>3, <2>1, FcuTypes DEF FcuInv, Fcu!Ids
<1>5. \A i : Ordered(i)' => Ordered(i) BY <1>3 DEF Ordered
<1>6. ~Ordered(id)'
  <2>1. SUFFICES ASSUME NEW n \in 1..Len(starts'), starts'[n] = id PROVE FALSE
    BY <1>1 DEF Ordered
  <2>2. n + 1 \in 1..Len(starts) /\ starts[n + 1] = starts[1] /\ 1 < n + 1 BY <1>3, <2>1
  <2>3. starts[1] < starts[n + 1] BY <1>3, <2>2 DEF FcuInv, SampledInOrder, InOrder
  <2> QED BY <2>2, <2>3, <1>3, <1>4
<1>7. InOrder(starts)' /\ \A n \in 1..Len(starts') : starts'[n] <= last'
  <2>1. \A n \in 1..Len(starts') : starts'[n] <= last' BY <1>1, <1>3 DEF FcuInv, SampledInOrder
  <2>2. SUFFICES ASSUME NEW n \in 1..Len(starts'), NEW k \in 1..Len(starts'), n < k
                 PROVE  starts'[n] < starts'[k]
    BY <2>1 DEF InOrder
  <2>3. n + 1 \in 1..Len(starts) /\ k + 1 \in 1..Len(starts) /\ n + 1 < k + 1 BY <1>3, <2>2
  <2> QED BY <1>3, <2>3 DEF FcuInv, SampledInOrder, InOrder
<1>8. \A i \in Fcu!Ids : Settled(i) => i # id BY <1>4 DEF Settled
<1>9. CASE Fcu!Busy
  <2>1. /\ results' = Append(results, [id |-> id, outcome |-> "failed"])
        /\ outcome' = [outcome EXCEPT ![id] = "failed"] /\ UNCHANGED <<active, began>>
    BY <1>0, <1>9 DEF Fcu!Start, Fcu!Publish
  <2>2. FcuTyped' /\ outcome'[id] = "failed" /\ \A i \in Fcu!Ids \ {id} : outcome'[i] = outcome[i]
    <3>1. [id |-> id, outcome |-> "failed"] \in Ends BY <1>3 DEF Ends
    <3>2. results' \in Seq(Ends) BY <2>1, <3>1, AppendFacts DEF FcuInv, FcuTyped
    <3>3. /\ outcome' \in [Fcu!Ids -> {"none", "succeeded", "failed", "skipped", "cancelled"}]
          /\ outcome'[id] = "failed" /\ \A i \in Fcu!Ids \ {id} : outcome'[i] = outcome[i]
      BY <1>3, <2>1 DEF FcuInv, FcuTyped
    <3> QED BY <1>1, <1>3, <2>1, <3>2, <3>3 DEF FcuInv, FcuTyped
  <2>3. SampledInOrder'
    <3>1. (\A i \in Fcu!Ids : began[i] <= 1 /\ (began[i] # 0 => i <= last /\ ~Ordered(i)))'
      BY <1>1, <1>3, <2>1 DEF FcuInv, SampledInOrder, Ordered
    <3>2. (/\ active = 0 \/ finishing = 0
           /\ active # 0 => active <= last /\ ~Ordered(active)
           /\ finishing # 0 => finishing <= last /\ ~Ordered(finishing))'
      BY <1>1, <1>3, <2>1 DEF FcuInv, SampledInOrder, Ordered
    <3>3. (finishing # 0 => outcome[finishing] # "none")'
      <4>1. finishing # 0 => finishing \in Fcu!Ids /\ outcome[finishing] # "none"
        BY FcuTypes DEF FcuInv, FcuTyped, SampledInOrder, Fcu!Ids
      <4> QED BY <1>1, <2>2, <4>1
    <3> QED BY <1>7, <3>1, <3>2, <3>3 DEF SampledInOrder
  <2>4. \A i \in Fcu!Ids : Settled(i) => Settled(i)' /\ outcome'[i] = outcome[i]
    BY <1>1, <1>5, <1>8, <2>1, <2>2 DEF Settled
  <2>5. Settled(id)'
    <3>1. active # id /\ finishing # id BY <1>4 DEF FcuInv, SampledInOrder
    <3> QED BY <1>1, <1>4, <1>6, <2>1, <3>1 DEF Settled
  <2>6. (\A n \in 1..Len(results) : Settled(results[n].id) /\ results[n].outcome = outcome[results[n].id])'
    BY <2>1, <2>2, <2>4, <2>5, EndAdded, <1>3 DEF FcuInv
  <2> QED BY <1>1, <2>2, <2>3, <2>4, <2>6, TriggerKeeps
<1>10. CASE ~Fcu!Busy
  <2>1. /\ active = 0 /\ finishing = 0 /\ active' = id /\ began' = [began EXCEPT ![id] = @ + 1]
        /\ UNCHANGED <<outcome, results>>
    BY <1>0, <1>10 DEF Fcu!Start, Fcu!Busy
  <2>2. began[id] = 0 /\ began'[id] = 1 /\ \A i \in Fcu!Ids \ {id} : began'[i] = began[i]
    BY <1>3, <1>4, <2>1 DEF FcuInv, FcuTyped, SampledInOrder
  <2>3. FcuTyped' BY <1>1, <1>3, <1>4, <2>1 DEF FcuInv, FcuTyped
  <2>4. SampledInOrder'
    <3>1. (\A i \in Fcu!Ids : began[i] <= 1 /\ (began[i] # 0 => i <= last /\ ~Ordered(i)))'
      <4>1. SUFFICES ASSUME NEW i \in Fcu!Ids
                     PROVE  began'[i] <= 1 /\ (began'[i] # 0 => i <= last' /\ ~Ordered(i)')
        OBVIOUS
      <4>2. CASE i = id BY <1>1, <1>4, <1>6, <2>2, <4>2
      <4>3. CASE i # id BY <1>1, <1>5, <2>2, <4>3 DEF FcuInv, SampledInOrder
      <4> QED BY <4>2, <4>3
    <3>2. (/\ active = 0 \/ finishing = 0
           /\ active # 0 => active <= last /\ ~Ordered(active)
           /\ finishing # 0 => finishing <= last /\ ~Ordered(finishing))'
      BY <1>1, <1>4, <1>6, <2>1 DEF Ordered
    <3> QED BY <1>1, <1>7, <2>1, <3>1, <3>2 DEF SampledInOrder
  <2>5. \A i \in Fcu!Ids : Settled(i) => Settled(i)' /\ outcome'[i] = outcome[i]
    BY <1>1, <1>5, <1>8, <2>1 DEF Settled
  <2>6. (\A n \in 1..Len(results) : Settled(results[n].id) /\ results[n].outcome = outcome[results[n].id])'
    <3>1. \A n \in 1..Len(results) : results[n].id \in Fcu!Ids BY FcuTypes DEF FcuInv
    <3>2. \A n \in 1..Len(results) : results[n].id # id /\ Settled(results[n].id)
      BY <3>1, <1>8 DEF FcuInv, EndedTruly
    <3> QED BY <1>1, <1>3, <2>1, <3>2 DEF FcuInv, EndedTruly, Settled, Ordered
  <2> QED BY <1>1, <2>3, <2>4, <2>5, <2>6, TriggerKeeps
<1> QED BY <1>9, <1>10

\* What is sampled is no longer, and its outcome is noted; orders are followed or not.
LEMMA EndingKeeps ==
  ASSUME FcuInv, NEW o \in {"succeeded", "failed", "skipped", "cancelled"},
         UNCHANGED <<wanted, waiting, toVehicle, toFcu, last, current, done, fail, answers, results, began>>,
         active # 0, active' = 0, finishing' \in {active, finishing},
         outcome' = [outcome EXCEPT ![active] = o], starts' \in {starts, <<>>}, faults' \in Seq(Fcu!Ids)
  PROVE  FcuInv'
<1>1. active \in Fcu!Ids /\ active \in Nat /\ active \in 0..MaxId
  BY FcuTypes DEF FcuInv, FcuTyped, Fcu!Ids
<1>2. \A i : Ordered(i)' => Ordered(i) BY DEF Ordered
<1>0. /\ outcome \in [Fcu!Ids -> {"none", "succeeded", "failed", "skipped", "cancelled"}]
      /\ outcome' \in [Fcu!Ids -> {"none", "succeeded", "failed", "skipped", "cancelled"}]
      /\ outcome'[active] = o /\ \A i \in Fcu!Ids \ {active} : outcome'[i] = outcome[i]
  BY <1>1 DEF FcuInv, FcuTyped
<1>3. FcuTyped'
  <2>1. starts' \in Seq(Fcu!Ids)
    <3>1. <<>> \in Seq(Fcu!Ids) OBVIOUS
    <3> QED BY <3>1 DEF FcuInv, FcuTyped
  <2>2. active' \in 0..MaxId /\ finishing' \in 0..MaxId BY FcuTypes, SMTT(30) DEF FcuInv, FcuTyped
  <2> QED BY <1>0, <2>1, <2>2 DEF FcuInv, FcuTyped
<1>4. SampledInOrder'
  <2>1. InOrder(starts)' /\ (\A n \in 1..Len(starts) : starts[n] <= last)'
    BY DEF FcuInv, SampledInOrder, InOrder
  <2>2. (\A i \in Fcu!Ids : began[i] <= 1 /\ (began[i] # 0 => i <= last /\ ~Ordered(i)))'
    BY <1>2 DEF FcuInv, SampledInOrder
  <2>3. (finishing # 0 => finishing <= last /\ ~Ordered(finishing))'
    BY DEF FcuInv, SampledInOrder, Ordered
  <2>4. (finishing # 0 => outcome[finishing] # "none")'
    BY <1>0 DEF FcuInv, SampledInOrder
  <2> QED BY <2>1, <2>2, <2>3, <2>4 DEF SampledInOrder
<1>5. \A i \in Fcu!Ids : Settled(i) => Settled(i)' /\ outcome'[i] = outcome[i]
  <2>1. \A i \in Fcu!Ids : Settled(i) => i # active /\ i # finishing BY DEF Settled
  <2>2. \A i \in Fcu!Ids : Settled(i) => Settled(i)' BY <1>1, <1>2, FcuTypes DEF Settled, FcuInv
  <2> QED BY <1>0, <2>1, <2>2
<1>6. (\A n \in 1..Len(results) : Settled(results[n].id) /\ results[n].outcome = outcome[results[n].id])'
  <2>1. \A n \in 1..Len(results) : results[n].id \in Fcu!Ids BY FcuTypes DEF FcuInv
  <2>2. \A n \in 1..Len(results) : Settled(results[n].id) /\ outcome'[results[n].id] = outcome[results[n].id]
    BY <1>5, <2>1 DEF FcuInv, EndedTruly
  <2>3. \A n \in 1..Len(results) :
          /\ results[n].id # 0 /\ results[n].id # active /\ results[n].id # finishing
          /\ results[n].outcome = outcome[results[n].id]
    BY <2>1, <2>2, FcuTypes DEF FcuInv, EndedTruly, Settled
  <2> QED BY <2>2, <2>3 DEF Settled, Ordered
<1> QED BY <1>3, <1>4, <1>5, <1>6, TriggerKeeps

\* Orders are dropped, or nothing changes but an operator's sampling.
LEMMA DroppingKeeps ==
  ASSUME FcuInv, starts' \in {starts, <<>>},
         UNCHANGED <<wanted, waiting, toVehicle, toFcu, last, current, done, fail, answers, results, faults, active,
                     finishing, began, outcome>>
  PROVE  FcuInv'
<1>1. \A i : Ordered(i)' => Ordered(i) BY DEF Ordered
<1>2. FcuTyped'
  <2>1. <<>> \in Seq(Fcu!Ids) OBVIOUS
  <2> QED BY <2>1 DEF FcuInv, FcuTyped
<1>3. SampledInOrder'
  <2>1. InOrder(starts)' /\ (\A n \in 1..Len(starts) : starts[n] <= last)'
    BY DEF FcuInv, SampledInOrder, InOrder
  <2>2. (\A i \in Fcu!Ids : began[i] <= 1 /\ (began[i] # 0 => i <= last /\ ~Ordered(i)))'
    BY <1>1 DEF FcuInv, SampledInOrder
  <2>3. (/\ active = 0 \/ finishing = 0
         /\ active # 0 => active <= last /\ ~Ordered(active)
         /\ finishing # 0 => finishing <= last /\ ~Ordered(finishing))'
    BY DEF FcuInv, SampledInOrder, Ordered
  <2> QED BY <2>1, <2>2, <2>3 DEF FcuInv, SampledInOrder
<1>4. \A i \in Fcu!Ids : Settled(i) => Settled(i)' /\ outcome'[i] = outcome[i]
  BY <1>1 DEF Settled
<1>5. (\A n \in 1..Len(results) : Settled(results[n].id) /\ results[n].outcome = outcome[results[n].id])'
  BY DEF FcuInv, EndedTruly, Settled, Ordered
<1> QED BY <1>2, <1>3, <1>4, <1>5, TriggerKeeps

\* The result goes out, as a failure if the outputs did not stop.
LEMMA TellingKeeps ==
  ASSUME FcuInv, Fcu!Tell
  PROVE  FcuInv'
<1>1. /\ finishing # 0 /\ finishing' = 0
      /\ UNCHANGED <<wanted, waiting, toVehicle, toFcu, last, current, done, fail, answers, starts, faults, active,
                     began>>
  BY DEF Fcu!Tell, Fcu!scriptVars, Fcu!linkVars, Fcu!bridgeVars
<1>2. PICK i : i = finishing OBVIOUS
<1>3. i \in Fcu!Ids /\ i <= last /\ ~Ordered(i) /\ active = 0 /\ i # 0
  BY <1>1, <1>2, FcuTypes DEF FcuInv, FcuTyped, SampledInOrder, Fcu!Ids
<1>4. \/ Fcu!Publish(i, outcome[i]) /\ UNCHANGED outcome
      \/ Fcu!Publish(i, "failed") /\ outcome' = [outcome EXCEPT ![i] = "failed"]
  BY <1>2 DEF Fcu!Tell
<1>5. outcome \in [Fcu!Ids -> {"none", "succeeded", "failed", "skipped", "cancelled"}]
  BY DEF FcuInv, FcuTyped
<1>6. Settled(i)' BY <1>1, <1>3 DEF Settled, Ordered
<1>7. PICK o \in {"succeeded", "failed", "skipped", "cancelled"} :
        /\ results' = Append(results, [id |-> i, outcome |-> o]) /\ outcome'[i] = o
        /\ outcome' \in [Fcu!Ids -> {"none", "succeeded", "failed", "skipped", "cancelled"}]
        /\ \A k \in Fcu!Ids \ {i} : outcome'[k] = outcome[k]
  <2>1. CASE Fcu!Publish(i, outcome[i]) /\ UNCHANGED outcome
    <3>1. outcome[i] \in {"succeeded", "failed", "skipped", "cancelled"}
      BY <1>1, <1>2, <1>3, <1>5 DEF FcuInv, SampledInOrder
    <3> QED BY <1>5, <2>1, <3>1 DEF Fcu!Publish
  <2>2. CASE Fcu!Publish(i, "failed") /\ outcome' = [outcome EXCEPT ![i] = "failed"]
    BY <1>3, <1>5, <2>2 DEF Fcu!Publish
  <2> QED BY <1>4, <2>1, <2>2
<1>8. \A k \in Fcu!Ids : Settled(k) => Settled(k)' /\ outcome'[k] = outcome[k]
  <2>1. \A k \in Fcu!Ids : Settled(k) => k # i BY <1>2 DEF Settled
  <2>2. \A k \in Fcu!Ids : Settled(k) => Settled(k)' BY <1>1, FcuTypes DEF Settled, Ordered, FcuInv
  <2> QED BY <1>7, <2>1, <2>2
<1>9. /\ results' \in Seq(Ends)
      /\ (\A n \in 1..Len(results) : Settled(results[n].id) /\ results[n].outcome = outcome[results[n].id])'
  BY <1>3, <1>6, <1>7, <1>8, EndAdded
<1>10. FcuTyped' BY <1>1, <1>7, <1>9, FcuTypes DEF FcuInv, FcuTyped
<1>11. SampledInOrder' BY <1>1 DEF FcuInv, SampledInOrder, InOrder, Ordered
<1> QED BY <1>1, <1>8, <1>9, <1>10, <1>11, TriggerKeeps

\* Every step of the samplings keeps their invariant.
LEMMA FcuKept ==
  ASSUME FcuInv, Fcu!Next
  PROVE  FcuInv'
<1>1. CASE Fcu!Ask \/ Fcu!AskAgain \/ Fcu!GiveUp BY <1>1, AskingKeeps
<1>2. CASE Fcu!TakeAnswer \/ Fcu!Lose \/ Fcu!Break \/ Fcu!Reconnect BY <1>2, LosingKeeps
<1>3. CASE Fcu!Receive BY <1>3, ReceivingKeeps
<1>4. CASE Fcu!TakeResult BY <1>4, ResultKeeps
<1>5. CASE Fcu!TakeFault BY <1>5, FaultKeeps
<1>6. CASE Fcu!Flush BY <1>6, FlushKeeps
<1>7. CASE Fcu!Start BY <1>7, StartingKeeps
<1>8. CASE Fcu!Complete
  <2>1. PICK o \in {"succeeded", "failed", "skipped", "cancelled"} : Fcu!End(o) BY <1>8 DEF Fcu!Complete
  <2>2. /\ UNCHANGED <<wanted, waiting, toVehicle, toFcu, last, current, done, fail, answers, results, began>>
        /\ active # 0 /\ active' = 0 /\ finishing' = active
        /\ outcome' = [outcome EXCEPT ![active] = o] /\ starts' = starts /\ faults' = faults
    BY <2>1 DEF Fcu!End, Fcu!scriptVars, Fcu!linkVars, Fcu!bridgeVars
  <2>3. faults' \in Seq(Fcu!Ids) BY <2>2 DEF FcuInv, FcuTyped
  <2> QED BY <2>2, <2>3, EndingKeeps
<1>9. CASE Fcu!Tell BY <1>9, TellingKeeps
<1>10. CASE Fcu!Stop
  <2>1. /\ UNCHANGED <<wanted, waiting, toVehicle, toFcu, last, current, done, fail, answers, results, faults, began>>
        /\ starts' = <<>>
        /\ \/ UNCHANGED <<active, finishing, outcome>>
           \/ active # 0 /\ finishing' = active /\ active' = 0 /\ outcome' = [outcome EXCEPT ![active] = "cancelled"]
    BY <1>10 DEF Fcu!Stop, Fcu!scriptVars, Fcu!linkVars, Fcu!bridgeVars
  <2>2. faults' \in Seq(Fcu!Ids) BY <2>1 DEF FcuInv, FcuTyped
  <2>3. CASE UNCHANGED <<active, finishing, outcome>> BY <2>1, <2>3, DroppingKeeps
  <2>4. CASE active # 0 /\ finishing' = active /\ active' = 0 /\ outcome' = [outcome EXCEPT ![active] = "cancelled"]
    BY <2>1, <2>2, <2>4, EndingKeeps
  <2> QED BY <2>1, <2>3, <2>4
<1>11. CASE Fcu!Operator
  <2>1. UNCHANGED <<wanted, waiting, toVehicle, toFcu, last, current, done, fail, answers, starts, results, faults,
                    active, finishing, began, outcome>>
    BY <1>11 DEF Fcu!Operator, Fcu!scriptVars, Fcu!linkVars, Fcu!bridgeVars
  <2> QED BY <2>1, DroppingKeeps
<1>12. CASE Fcu!LoseOwner
  <2>1. /\ UNCHANGED <<wanted, waiting, toVehicle, toFcu, last, current, done, fail, answers, results, starts, began>>
        /\ active # 0 /\ active' = 0 /\ finishing' \in {active, finishing}
        /\ outcome' = [outcome EXCEPT ![active] = "failed"] /\ faults' = Append(faults, active)
    BY <1>12 DEF Fcu!LoseOwner, Fcu!scriptVars, Fcu!linkVars, Fcu!bridgeVars
  <2>2. active \in Fcu!Ids /\ faults \in Seq(Fcu!Ids)
    BY <2>1, FcuTypes DEF FcuInv, FcuTyped, Fcu!Ids
  <2>3. faults' \in Seq(Fcu!Ids) BY <2>1, <2>2, AppendFacts
  <2> QED BY <2>1, <2>3, EndingKeeps
<1> QED BY <1>1, <1>2, <1>3, <1>4, <1>5, <1>6, <1>7, <1>8, <1>9, <1>10, <1>11, <1>12 DEF Fcu!Next

LEMMA FcuBegins ==
  ASSUME Fcu!Init
  PROVE  FcuInv
<1>1. /\ wanted = 0 /\ waiting = FALSE /\ toVehicle = <<>> /\ toFcu = <<>> /\ last = 0 /\ current = 0
      /\ done = <<>> /\ fail = <<>> /\ starts = <<>> /\ results = <<>> /\ faults = <<>> /\ active = 0
      /\ finishing = 0 /\ answers = <<>>
      /\ began = [i \in Fcu!Ids |-> 0] /\ outcome = [i \in Fcu!Ids |-> "none"]
  BY DEF Fcu!Init
<1>2. \A S : <<>> \in Seq(S) /\ Len(<<>>) = 0 OBVIOUS
<1>3. FcuTyped
  <2>1. 0 \in 0..MaxId BY LinksAssumption DEF Fcu!NumberAssumption
  <2>2. began \in [Fcu!Ids -> Nat] BY <1>1
  <2>3. outcome \in [Fcu!Ids -> {"none", "succeeded", "failed", "skipped", "cancelled"}] BY <1>1
  <2>4. waiting \in BOOLEAN /\ (waiting => wanted # 0) BY <1>1
  <2>5. /\ toVehicle \in Seq(Orders) /\ starts \in Seq(Fcu!Ids) /\ faults \in Seq(Fcu!Ids)
        /\ results \in Seq(Ends) /\ answers \in Seq(Answers) /\ toFcu \in Seq(Answers)
    BY <1>1, <1>2
  <2> QED BY <1>1, <2>1, <2>2, <2>3, <2>4, <2>5 DEF FcuTyped
<1>4. AskedInOrder /\ SampledInOrder /\ EndedTruly /\ OneAnswer
  BY <1>1, <1>2 DEF AskedInOrder, SampledInOrder, InOrder, EndedTruly, OneAnswer
<1> QED BY <1>3, <1>4 DEF FcuInv

(* A number of the flight controller is sampled once, answered once and    *)
(* with what came of it, for any numbers, queues and breaks.               *)
THEOREM SamplingsTrue == PartsSpec => []SamplingsAreTrue
<1> DEFINE Inv == part = "fcu" => FcuInv
<1>1. Start => Inv BY FcuBegins DEF Start
<1>2. Inv /\ [Step]_parts => Inv'
  <2>1. SUFFICES ASSUME Inv, [Step]_parts, part' = "fcu" PROVE FcuInv'
    OBVIOUS
  <2>2. part = "fcu" /\ (Fcu!Next \/ UNCHANGED slots) BY <2>1 DEF Step, parts
  <2>3. CASE Fcu!Next BY <2>1, <2>2, <2>3, FcuKept
  <2>4. CASE UNCHANGED slots
    <3>1. UNCHANGED <<wanted, waiting, toVehicle, toFcu, last, current, done, fail, starts, results, faults, active,
                      finishing, began, outcome, answers>>
      BY <2>4 DEF slots, After7, After9, After10, After18
    <3> QED BY <2>1, <2>2, <3>1
         DEF FcuInv, FcuTyped, AskedInOrder, SampledInOrder, InOrder, EndedTruly, OneAnswer, Settled, Ordered
  <2> QED BY <2>2, <2>3, <2>4
<1>3. Inv => SamplingsAreTrue
  <2>1. SUFFICES ASSUME FcuInv PROVE Fcu!SampledOnce /\ Fcu!DoneIsTrue /\ Fcu!AnsweredOnce
    BY DEF SamplingsAreTrue
  <2>2. Fcu!SampledOnce BY <2>1 DEF FcuInv, SampledInOrder, Fcu!SampledOnce
  <2>3. Fcu!DoneIsTrue BY <2>1 DEF FcuInv, EndedTruly, Fcu!Releases, Fcu!DoneIsTrue
  <2>4. Fcu!AnsweredOnce BY <2>1 DEF FcuInv, OneAnswer, Fcu!AnsweredOnce
  <2> QED BY <2>2, <2>3, <2>4
<1> QED BY <1>1, <1>2, <1>3, PTL DEF PartsSpec

-----------------------------------------------------------------------------
(***************************************************************************)
(* Requests over the radio: the names that RadioRequests gives its         *)
(* variables.                                                              *)
(***************************************************************************)
issued == s1
boot == s2
records == s3
known == s4
highwater == s5
queues == s6
working == s7
told == s8
runs == s9
USE DEF issued, boot, records, known, highwater, queues, working, told, runs

Jobs == [request : RadioNumbers, boot : Nat]
RadioRecords ==
  [fragments : Nat, answer : {"none", "cancelled", "expired", "refused", "done", "uncertain"},
   running : BOOLEAN, old : BOOLEAN]
RadioTyped ==
  /\ boot \in Nat \ {0} /\ highwater \in Nat /\ known \subseteq RadioNumbers
  /\ issued \in [RadioNumbers -> Nat] /\ \A r \in RadioNumbers : issued[r] <= boot
  /\ records \in [RadioNumbers -> RadioRecords]
  /\ queues \in [Radio!Workers -> Seq(Jobs)] /\ working \in [Radio!Workers -> Seq(Jobs)]
  /\ runs \in [RadioNumbers -> Nat]
  /\ \A t \in told : t.request \in RadioNumbers

(***************************************************************************)
(* What has gone to a worker will not go again: it is of a boot that is    *)
(* over, or below the watermark and has all its fragments, if it is known  *)
(* at all.  What is answered without a run is never run.                   *)
(***************************************************************************)
Spent(r) ==
  /\ issued[r] # 0
  /\ issued[r] < boot \/ (r <= highwater /\ (r \in known => records[r].fragments = FragmentsOf[r]))
Dead(r) ==
  /\ runs[r] = 0 /\ issued[r] # 0
  /\ issued[r] < boot \/ (r <= highwater /\ (r \in known => records[r].answer # "none"))

RecordHolds(r) ==
  /\ issued[r] = boot /\ r <= highwater /\ records[r].fragments <= FragmentsOf[r]
  /\ records[r].running <=> runs[r] # 0
  /\ records[r].running => records[r].fragments = FragmentsOf[r]
  /\ records[r].answer \in {"cancelled", "expired", "refused"} => ~records[r].running
  /\ records[r].answer \in {"done", "uncertain"} => records[r].running
RecordsHold == \A r \in known : RecordHolds(r)

JobHolds(w, j) ==
  issued[j.request] = j.boot /\ Spent(j.request) /\ runs[j.request] = 0 /\ Radio!WorkerOf(j.request) = w
JobsHold ==
  \A w \in Radio!Workers :
    /\ \A n \in 1..Len(queues[w]) : JobHolds(w, queues[w][n])
    /\ \A n, m \in 1..Len(queues[w]) : n < m => queues[w][n].request # queues[w][m].request
Works(w, j) == working[w] = <<j>> /\ runs[j.request] = 1 /\ Radio!WorkerOf(j.request) = w
WorkHolds == \A w \in Radio!Workers : working[w] = <<>> \/ \E j \in Jobs : Works(w, j)
RunsHold == \A r \in RadioNumbers : runs[r] <= 1 /\ (runs[r] # 0 => Spent(r))
ToldHolds ==
  \A t \in told : /\ t.answer \in {"cancelled", "expired", "refused", "full"} => Dead(t.request)
                  /\ t.answer \in {"done", "uncertain"} => runs[t.request] = 1
StopHolds(r, s) ==
  s \in RadioStops /\ r < s /\ records[s].answer # "refused" /\ records[s].fragments = FragmentsOf[s] =>
    records[r].running \/ records[r].answer # "none"
StopsHold == \A r, s \in known : StopHolds(r, s)

RadioInv ==
  RadioTyped /\ RecordsHold /\ JobsHold /\ WorkHolds /\ RunsHold /\ ToldHolds /\ StopsHold

\* What the types say of a number and of the limits.
LEMMA RadioTypes ==
  /\ RadioNumbers \subseteq Nat \ {0} /\ RadioStops \subseteq RadioNumbers
  /\ FragmentsOf \in [RadioNumbers -> Nat \ {0}]
  /\ RadioTyped => \A r \in RadioNumbers :
       /\ r \in Nat /\ r # 0 /\ FragmentsOf[r] \in Nat \ {0} /\ issued[r] \in Nat /\ issued[r] <= boot
       /\ runs[r] \in Nat /\ records[r] \in RadioRecords /\ records[r].fragments \in Nat
       /\ records[r].running \in BOOLEAN
<1>1. /\ RadioNumbers \subseteq Nat \ {0} /\ RadioStops \subseteq RadioNumbers
      /\ FragmentsOf \in [RadioNumbers -> Nat \ {0}]
  BY RadioAssumption DEF Radio!RequestAssumption
<1>2. ASSUME RadioTyped, NEW r \in RadioNumbers
      PROVE  /\ r \in Nat /\ r # 0 /\ FragmentsOf[r] \in Nat \ {0} /\ issued[r] \in Nat /\ issued[r] <= boot
             /\ runs[r] \in Nat /\ records[r] \in RadioRecords
  BY <1>1, <1>2 DEF RadioTyped
<1>3. ASSUME RadioTyped, NEW r \in RadioNumbers
      PROVE  records[r].fragments \in Nat /\ records[r].running \in BOOLEAN
  BY <1>2, <1>3 DEF RadioRecords
<1> QED BY <1>1, <1>2, <1>3

(***************************************************************************)
(* A step that starts no run: jobs, runs and what was told hold on, if     *)
(* what is spent stays spent and what is dead stays dead.                  *)
(***************************************************************************)
LEMMA QuietStep ==
  ASSUME RadioInv, UNCHANGED <<queues, runs>>,
         \A r \in RadioNumbers : issued'[r] = issued[r] \/ issued[r] = 0,
         \A r \in RadioNumbers : Spent(r) => Spent(r)'
  PROVE  JobsHold' /\ RunsHold'
<1>1. \A w \in Radio!Workers : \A n \in 1..Len(queues[w]) : queues[w][n].request \in RadioNumbers
  <2>1. SUFFICES ASSUME NEW w \in Radio!Workers, NEW n \in 1..Len(queues[w])
                 PROVE  queues[w][n].request \in RadioNumbers
    OBVIOUS
  <2>2. queues[w] \in Seq(Jobs) BY DEF RadioInv, RadioTyped
  <2>3. queues[w][n] \in Jobs BY <2>2, SeqFacts
  <2> QED BY <2>3 DEF Jobs
<1>2. ASSUME NEW w \in Radio!Workers, NEW n \in 1..Len(queues[w])
      PROVE  JobHolds(w, queues[w][n])'
  <2>1. PICK r \in RadioNumbers : r = queues[w][n].request BY <1>1
  <2>2. issued[r] = queues[w][n].boot /\ Spent(r) /\ runs[r] = 0 /\ Radio!WorkerOf(r) = w
    BY <2>1 DEF RadioInv, JobsHold, JobHolds
  <2>3. issued'[r] = queues[w][n].boot /\ Spent(r)' BY <2>2 DEF Spent
  <2>4. queues'[w][n].request = r /\ queues'[w][n].boot = queues[w][n].boot /\ runs'[r] = 0 BY <2>1, <2>2
  <2> QED BY <2>2, <2>3, <2>4 DEF JobHolds, Spent, Radio!WorkerOf
<1>3. JobsHold' BY <1>2 DEF RadioInv, JobsHold
<1>4. RunsHold' BY DEF RadioInv, RunsHold
<1> QED BY <1>3, <1>4

LEMMA ToldStep ==
  ASSUME RadioInv, UNCHANGED <<told, runs>>, \A r \in RadioNumbers : Dead(r) => Dead(r)'
  PROVE  ToldHolds'
<1>1. SUFFICES ASSUME NEW t \in told
               PROVE  /\ t.answer \in {"cancelled", "expired", "refused", "full"} => Dead(t.request)'
                      /\ t.answer \in {"done", "uncertain"} => runs'[t.request] = 1
  BY DEF ToldHolds, Dead
<1>2. t.request \in RadioNumbers BY DEF RadioInv, RadioTyped
<1> QED BY <1>2 DEF RadioInv, ToldHolds

LEMMA WorkStep ==
  ASSUME RadioInv, UNCHANGED <<working, runs>>
  PROVE  WorkHolds'
BY DEF RadioInv, WorkHolds, Works, Radio!WorkerOf

\* A number is issued: it is of no boot before.
LEMMA IssueKeeps ==
  ASSUME RadioInv, NEW r \in RadioNumbers, NEW b \in 1..boot, Radio!Issue(r, b)
  PROVE  RadioInv'
<1>1. /\ issued[r] = 0 /\ issued' = [issued EXCEPT ![r] = b]
      /\ UNCHANGED <<boot, records, known, highwater, queues, working, told, runs>>
  BY DEF Radio!Issue
<1>2. /\ b \in Nat /\ b <= boot /\ boot \in Nat \ {0}
      /\ issued' \in [RadioNumbers -> Nat] /\ issued'[r] = b /\ \A q \in RadioNumbers \ {r} : issued'[q] = issued[q]
  BY <1>1 DEF RadioInv, RadioTyped
<1>3. RadioTyped' BY <1>1, <1>2 DEF RadioInv, RadioTyped
<1>4. \A q \in RadioNumbers : (Spent(q) => Spent(q)') /\ (Dead(q) => Dead(q)')
  BY <1>1, <1>2 DEF Spent, Dead
<1>5. \A q \in known : q # r BY <1>1, <1>2 DEF RadioInv, RecordsHold, RecordHolds
<1>6. RecordsHold' BY <1>1, <1>2, <1>5 DEF RadioInv, RadioTyped, RecordsHold, RecordHolds
<1>7. StopsHold' BY <1>1 DEF RadioInv, StopsHold, StopHolds
<1>8. JobsHold' /\ RunsHold' BY <1>1, <1>2, <1>4, QuietStep
<1>9. ToldHolds' /\ WorkHolds' BY <1>1, <1>4, ToldStep, WorkStep
<1> QED BY <1>3, <1>6, <1>7, <1>8, <1>9 DEF RadioInv

\* A record is made only above the watermark, so it is of a number that is not spent.
LEMMA AdmitKeeps ==
  ASSUME RadioInv, NEW r \in RadioNumbers, Radio!Admit(r)
  PROVE  RadioInv'
<1>1. /\ issued[r] = boot /\ r \notin known /\ highwater < r /\ highwater' = r
      /\ UNCHANGED <<issued, boot, queues, working, runs>>
  BY RadioTypes DEF Radio!Admit, Radio!OfBoot, Radio!Admissible, RadioInv, RadioTyped
<1>2. /\ r \in Nat /\ highwater \in Nat /\ boot \in Nat \ {0}
  BY RadioTypes DEF RadioInv, RadioTyped
<1>3. ~Spent(r) /\ ~Dead(r) /\ runs[r] = 0
  <2>1. ~Spent(r) /\ ~Dead(r) BY <1>1, <1>2 DEF Spent, Dead
  <2> QED BY <2>1 DEF RadioInv, RunsHold
<1>4. Radio!Kept \subseteq known /\ Radio!Room \subseteq known
  BY DEF Radio!Kept, Radio!Room
<1>5. \/ /\ known' \subseteq known /\ records' = records
         /\ told' = told \cup {[request |-> r, answer |-> "full"]}
      \/ /\ known' \subseteq known \cup {r} /\ records' = [records EXCEPT ![r] = Radio!Empty]
         /\ told' = told
  BY <1>4 DEF Radio!Admit, Radio!Tell
<1>6. /\ records' \in [RadioNumbers -> RadioRecords]
      /\ \A q \in RadioNumbers \ {r} : records'[q] = records[q]
      /\ r \in known' => records'[r] = Radio!Empty
  <2>1. Radio!Empty \in RadioRecords BY DEF Radio!Empty, RadioRecords
  <2> QED BY <1>1, <1>5, <2>1 DEF RadioInv, RadioTyped
<1>7. known' \subseteq known \cup {r} BY <1>5
<1>8. RadioTyped' BY <1>1, <1>2, <1>5, <1>6, <1>7 DEF RadioInv, RadioTyped
<1>9. \A q \in RadioNumbers : (Spent(q) => Spent(q)') /\ (Dead(q) => Dead(q)')
  <2>1. SUFFICES ASSUME NEW q \in RadioNumbers, Spent(q) \/ Dead(q)
                 PROVE  (Spent(q) => Spent(q)') /\ (Dead(q) => Dead(q)')
    OBVIOUS
  <2>2. q # r /\ records'[q] = records[q] /\ (q \in known' => q \in known) BY <1>3, <1>6, <1>7, <2>1
  <2>3. q \in Nat /\ (q <= highwater => q <= highwater') BY <1>1, <1>2, RadioTypes
  <2> QED BY <1>1, <2>2, <2>3 DEF Spent, Dead
<1>10. RecordsHold'
  <2>1. SUFFICES ASSUME NEW q \in known' PROVE RecordHolds(q)'
    BY DEF RecordsHold, RecordHolds
  <2>2. CASE q = r
    <3>1. /\ records'[r].fragments = 0 /\ records'[r].running = FALSE /\ records'[r].answer = "none"
          /\ 0 <= FragmentsOf[r]
      BY <1>6, <2>2, RadioTypes DEF Radio!Empty
    <3> QED BY <1>1, <1>2, <1>3, <2>2, <3>1 DEF RecordHolds
  <2>3. CASE q # r
    <3>1. q \in known /\ q \in RadioNumbers /\ records'[q] = records[q]
      BY <1>6, <1>7, <2>3 DEF RadioInv, RadioTyped
    <3>2. RecordHolds(q) /\ q \in Nat BY <3>1, RadioTypes DEF RadioInv, RecordsHold
    <3>3. q <= highwater' BY <1>1, <1>2, <3>2 DEF RecordHolds
    <3> QED BY <1>1, <3>1, <3>2, <3>3 DEF RecordHolds
  <2> QED BY <2>2, <2>3
<1>11. StopsHold'
  <2>1. SUFFICES ASSUME NEW q \in known', NEW z \in known' PROVE StopHolds(q, z)'
    BY DEF StopsHold, StopHolds
  <2>2. q \in RadioNumbers /\ z \in RadioNumbers /\ q \in Nat /\ z \in Nat
    BY <1>8, RadioTypes DEF RadioTyped
  <2>3. CASE z = r
    <3>1. records'[r].fragments = 0 /\ FragmentsOf[r] # 0 BY <1>6, <2>3, RadioTypes DEF Radio!Empty
    <3> QED BY <2>3, <3>1 DEF StopHolds
  <2>4. CASE z # r
    <3>1. z \in known /\ z <= highwater BY <1>7, <2>4 DEF RadioInv, RecordsHold, RecordHolds
    <3>2. CASE q = r BY <1>1, <1>2, <2>2, <3>1, <3>2 DEF StopHolds
    <3>3. CASE q # r
      <4>1. q \in known /\ records'[q] = records[q] /\ records'[z] = records[z]
        BY <1>6, <1>7, <2>2, <2>4, <3>3
      <4> QED BY <3>1, <4>1 DEF RadioInv, StopsHold, StopHolds
    <3> QED BY <3>2, <3>3
  <2> QED BY <2>3, <2>4
<1>12. JobsHold' /\ RunsHold' BY <1>1, <1>9, QuietStep
<1>13. ToldHolds'
  <2>1. CASE told' = told BY <1>1, <1>9, <2>1, ToldStep
  <2>2. CASE told' = told \cup {[request |-> r, answer |-> "full"]} /\ known' \subseteq known
    <3>1. Dead(r)' BY <1>1, <1>2, <1>3, <2>2 DEF Dead
    <3>2. SUFFICES ASSUME NEW t \in told'
                   PROVE  /\ t.answer \in {"cancelled", "expired", "refused", "full"} => Dead(t.request)'
                          /\ t.answer \in {"done", "uncertain"} => runs'[t.request] = 1
      BY DEF ToldHolds, Dead
    <3>3. CASE t = [request |-> r, answer |-> "full"] BY <3>1, <3>3
    <3>4. CASE t \in told
      <4>1. t.request \in RadioNumbers BY <3>4 DEF RadioInv, RadioTyped
      <4> QED BY <1>1, <1>9, <3>4, <4>1 DEF RadioInv, ToldHolds
    <3> QED BY <2>2, <3>3, <3>4
  <2> QED BY <1>5, <2>1, <2>2
<1> QED BY <1>1, <1>8, <1>10, <1>11, <1>12, <1>13, WorkStep DEF RadioInv

(***************************************************************************)
(* Answers are given: one that waits is cancelled or expires, one that     *)
(* runs comes to its end.                                                  *)
(***************************************************************************)
Answers1(q) ==
  /\ records'[q].fragments = records[q].fragments /\ records'[q].running = records[q].running
  /\ \/ records'[q].answer = records[q].answer
     \/ records[q].answer = "none" /\ ~records[q].running /\ records'[q].answer \in {"cancelled", "expired"}
     \/ records[q].running /\ records'[q].answer \in {"done", "uncertain"}

LEMMA AnsweringKeeps ==
  ASSUME RadioInv, UNCHANGED <<issued, boot, known, highwater, runs, told>>,
         \A q \in RadioNumbers : Answers1(q)
  PROVE  /\ RecordsHold' /\ StopsHold' /\ ToldHolds'
         /\ \A q \in RadioNumbers : Spent(q) => Spent(q)'
<1>1. known \subseteq RadioNumbers BY DEF RadioInv, RadioTyped
<1>2. ASSUME NEW q \in known PROVE RecordHolds(q)'
  <2>1. RecordHolds(q) /\ Answers1(q) /\ q \in RadioNumbers BY <1>1 DEF RadioInv, RecordsHold
  <2> QED BY <2>1 DEF RecordHolds, Answers1
<1>3. ASSUME NEW q \in known, NEW z \in known PROVE StopHolds(q, z)'
  <2>1. Answers1(q) /\ Answers1(z) /\ RecordHolds(z) /\ StopHolds(q, z)
    BY <1>1 DEF RadioInv, RecordsHold, StopsHold
  <2>2. records'[z].answer # "refused" => records[z].answer # "refused"
    BY <2>1 DEF Answers1, RecordHolds
  <2>3. records[q].answer # "none" => records'[q].answer # "none" BY <2>1 DEF Answers1
  <2> QED BY <2>1, <2>2, <2>3 DEF StopHolds, Answers1
<1>4. \A q \in RadioNumbers : (Spent(q) => Spent(q)') /\ (Dead(q) => Dead(q)')
  BY DEF Spent, Dead, Answers1
<1> QED BY <1>2, <1>3, <1>4, ToldStep DEF RecordsHold, StopsHold, RecordHolds, StopHolds

\* What is cancelled has waited.
LEMMA CancelledFacts ==
  ASSUME RadioInv, NEW R \in SUBSET RadioNumbers
  PROVE  /\ Radio!Cancelled(R) \in [RadioNumbers -> RadioRecords]
         /\ \A q \in RadioNumbers :
              /\ Radio!Cancelled(R)[q].fragments = records[q].fragments
              /\ Radio!Cancelled(R)[q].running = records[q].running
              /\ Radio!Cancelled(R)[q].old = records[q].old
              /\ IF q \in R /\ records[q].answer = "none" /\ ~records[q].running
                 THEN Radio!Cancelled(R)[q].answer = "cancelled"
                 ELSE Radio!Cancelled(R)[q].answer = records[q].answer
<1>1. ASSUME NEW q \in RadioNumbers
      PROVE  /\ Radio!Cancelled(R)[q] \in RadioRecords
             /\ Radio!Cancelled(R)[q].fragments = records[q].fragments
             /\ Radio!Cancelled(R)[q].running = records[q].running
             /\ Radio!Cancelled(R)[q].old = records[q].old
             /\ IF q \in R /\ records[q].answer = "none" /\ ~records[q].running
                THEN Radio!Cancelled(R)[q].answer = "cancelled"
                ELSE Radio!Cancelled(R)[q].answer = records[q].answer
  <2>1. records[q] \in RadioRecords BY DEF RadioInv, RadioTyped
  <2>2. CASE q \in R /\ Radio!Waiting(q)
    <3>1. Radio!Cancelled(R)[q] = [records[q] EXCEPT !.answer = "cancelled"]
      BY <2>2 DEF Radio!Cancelled
    <3> QED BY <2>1, <2>2, <3>1 DEF RadioRecords, Radio!Waiting
  <2>3. CASE ~(q \in R /\ Radio!Waiting(q))
    <3>1. Radio!Cancelled(R)[q] = records[q] BY <2>3 DEF Radio!Cancelled
    <3> QED BY <2>1, <2>3, <3>1 DEF Radio!Waiting
  <2> QED BY <2>2, <2>3
<1>2. Radio!Cancelled(R) \in [RadioNumbers -> RadioRecords]
  BY <1>1 DEF Radio!Cancelled
<1> QED BY <1>1, <1>2

\* A stop on another way cancels what waits; time makes a record old.
LEMMA CancelKeeps ==
  ASSUME RadioInv, Radio!CancelPending \/ \E r \in RadioNumbers : Radio!Age(r)
  PROVE  RadioInv'
<1>1. UNCHANGED <<issued, boot, known, highwater, queues, working, told, runs>>
  BY DEF Radio!CancelPending, Radio!Age
<1>2. known \subseteq RadioNumbers BY DEF RadioInv, RadioTyped
<1>3. records' \in [RadioNumbers -> RadioRecords] /\ \A q \in RadioNumbers : Answers1(q)
  <2>1. CASE Radio!CancelPending
    <3>1. records' = Radio!Cancelled(known) BY <2>1 DEF Radio!CancelPending
    <3> HIDE DEF Radio!Cancelled
    <3> QED BY <1>2, <3>1, CancelledFacts DEF Answers1
  <2>2. ASSUME NEW r \in RadioNumbers, Radio!Age(r)
        PROVE  records' \in [RadioNumbers -> RadioRecords] /\ \A q \in RadioNumbers : Answers1(q)
    <3>1. records' = [records EXCEPT ![r].old = TRUE] BY <2>2 DEF Radio!Age
    <3>2. records \in [RadioNumbers -> RadioRecords] BY DEF RadioInv, RadioTyped
    <3> QED BY <3>1, <3>2 DEF RadioRecords, Answers1
  <2> QED BY <2>1, <2>2
<1>4. RecordsHold' /\ StopsHold' /\ ToldHolds' /\ \A q \in RadioNumbers : Spent(q) => Spent(q)'
  BY <1>1, <1>3, AnsweringKeeps
<1>5. JobsHold' /\ RunsHold' BY <1>1, <1>4, QuietStep
<1>6. RadioTyped' BY <1>1, <1>3 DEF RadioInv, RadioTyped
<1> QED BY <1>1, <1>4, <1>5, <1>6, WorkStep DEF RadioInv

\* What was answered is told: it is dead, or it has run.
LEMMA FetchKeeps ==
  ASSUME RadioInv, NEW r \in RadioNumbers, Radio!Fetch(r)
  PROVE  RadioInv'
<1>1. UNCHANGED <<issued, boot, records, known, highwater, queues, working, runs>>
  BY DEF Radio!Fetch
<1>2. PICK a \in {"unknown", records[r].answer} :
        /\ told' = told \cup {[request |-> r, answer |-> a]}
        /\ a # "unknown" => r \in known /\ issued[r] = boot /\ a = records[r].answer /\ a # "none"
  BY DEF Radio!Fetch, Radio!Tell, Radio!OfBoot
<1>3. \A q \in RadioNumbers : Spent(q)' <=> Spent(q) BY <1>1 DEF Spent
<1>4. \A q \in RadioNumbers : Dead(q)' <=> Dead(q) BY <1>1 DEF Dead
<1>5. ToldHolds'
  <2>1. a \in {"cancelled", "expired", "refused", "full"} => Dead(r)
    <3>1. SUFFICES ASSUME a \in {"cancelled", "expired", "refused", "full"} PROVE Dead(r)
      OBVIOUS
    <3>2. /\ r \in known /\ issued[r] = boot /\ boot # 0 /\ a = records[r].answer /\ a # "none"
          /\ records[r] \in RadioRecords
      BY <1>2, <3>1 DEF RadioInv, RadioTyped
    <3>3. a # "full" BY <3>2 DEF RadioRecords
    <3>4. r <= highwater /\ runs[r] = 0
      BY <3>1, <3>2, <3>3 DEF RadioInv, RecordsHold, RecordHolds
    <3> QED BY <3>2, <3>4 DEF Dead
  <2>2. a \in {"done", "uncertain"} => runs[r] = 1
    <3>1. SUFFICES ASSUME a \in {"done", "uncertain"} PROVE runs[r] = 1
      OBVIOUS
    <3>2. r \in known /\ a = records[r].answer BY <1>2, <3>1
    <3>3. runs[r] # 0 BY <3>1, <3>2 DEF RadioInv, RecordsHold, RecordHolds
    <3> QED BY <3>3, RadioTypes DEF RadioInv, RunsHold
  <2>3. SUFFICES ASSUME NEW t \in told'
                 PROVE  /\ t.answer \in {"cancelled", "expired", "refused", "full"} => Dead(t.request)'
                        /\ t.answer \in {"done", "uncertain"} => runs'[t.request] = 1
    BY DEF ToldHolds, Dead
  <2>4. CASE t = [request |-> r, answer |-> a] BY <1>1, <1>4, <2>1, <2>2, <2>4
  <2>5. CASE t \in told
    <3>1. t.request \in RadioNumbers BY <2>5 DEF RadioInv, RadioTyped
    <3> QED BY <1>1, <1>4, <2>5, <3>1 DEF RadioInv, ToldHolds
  <2> QED BY <1>2, <2>4, <2>5
<1>6. RadioTyped' BY <1>1, <1>2 DEF RadioInv, RadioTyped
<1>7. RecordsHold' BY <1>1 DEF RadioInv, RecordsHold, RecordHolds
<1>8. StopsHold' BY <1>1 DEF RadioInv, StopsHold, StopHolds
<1>9. JobsHold' /\ RunsHold' BY <1>1, <1>3, QuietStep
<1> QED BY <1>1, <1>5, <1>6, <1>7, <1>8, <1>9, WorkStep DEF RadioInv

\* The link is lost: every number that was issued is of a boot before.
LEMMA ResetKeeps ==
  ASSUME RadioInv, Radio!Reset
  PROVE  RadioInv'
<1>1. /\ boot' = boot + 1 /\ known' = {} /\ highwater' = 0
      /\ records' = [r \in RadioNumbers |-> Radio!Empty]
      /\ UNCHANGED <<issued, queues, working, told, runs>>
  BY DEF Radio!Reset
<1>2. boot \in Nat /\ \A r \in RadioNumbers : issued[r] \in Nat /\ issued[r] <= boot /\ issued[r] < boot'
  BY <1>1, RadioTypes DEF RadioInv, RadioTyped
<1>3. RadioTyped'
  <2>1. Radio!Empty \in RadioRecords BY DEF Radio!Empty, RadioRecords
  <2>2. records' \in [RadioNumbers -> RadioRecords] BY <1>1, <2>1
  <2>3. boot' \in Nat \ {0} /\ \A r \in RadioNumbers : issued'[r] <= boot' BY <1>1, <1>2
  <2> QED BY <1>1, <2>2, <2>3 DEF RadioInv, RadioTyped
<1>4. \A q \in RadioNumbers : (Spent(q) => Spent(q)') /\ (Dead(q) => Dead(q)')
  BY <1>1, <1>2 DEF Spent, Dead
<1>5. RecordsHold' /\ StopsHold' BY <1>1 DEF RecordsHold, StopsHold
<1>6. JobsHold' /\ RunsHold' BY <1>1, <1>4, QuietStep
<1>7. ToldHolds' BY <1>1, <1>4, ToldStep
<1> QED BY <1>1, <1>3, <1>5, <1>6, <1>7, WorkStep DEF RadioInv

(***************************************************************************)
(* A fragment is taken: with the last one the request is refused or goes   *)
(* to its worker, and a stop leaves nothing waiting.                       *)
(***************************************************************************)
Taken(r) ==
  /\ records'[r].fragments = records[r].fragments + 1 /\ records'[r].running = records[r].running
  /\ records'[r].answer \in {records[r].answer, "refused"}

LEMMA TakingFacts ==
  ASSUME RadioInv, NEW r \in RadioNumbers, Radio!Take(r)
  PROVE  /\ r \in known /\ issued[r] = boot /\ records[r].fragments < FragmentsOf[r]
         /\ UNCHANGED <<issued, boot, known, highwater, working, told, runs>>
         /\ records' \in [RadioNumbers -> RadioRecords] /\ Taken(r)
         /\ \A q \in RadioNumbers \ {r} : Answers1(q)
         /\ \/ queues' = queues /\ (records'[r].fragments = FragmentsOf[r] => records'[r].answer = "refused")
            \/ /\ records'[r].fragments = FragmentsOf[r]
               /\ queues' = [queues EXCEPT ![Radio!WorkerOf(r)] = Append(@, [request |-> r, boot |-> boot])]
               /\ r \in RadioStops => \A q \in RadioNumbers \ {r} :
                    records'[q].running \/ records'[q].answer # "none"
<1> DEFINE whole == records[r].fragments + 1 = FragmentsOf[r]
           others == IF r \in RadioStops THEN Radio!Cancelled(RadioNumbers \ {r}) ELSE records
<1>1. /\ r \in known /\ issued[r] = boot /\ records[r].fragments < FragmentsOf[r]
      /\ UNCHANGED <<issued, boot, known, highwater, working, told, runs>>
  BY DEF Radio!Take, Radio!OfBoot
<1>2. /\ records \in [RadioNumbers -> RadioRecords] /\ records[r] \in RadioRecords
      /\ records[r].fragments \in Nat
  BY RadioTypes DEF RadioInv, RadioTyped
<1>3. /\ others \in [RadioNumbers -> RadioRecords] /\ others[r] = records[r]
      /\ \A q \in RadioNumbers \ {r} :
           /\ others[q].fragments = records[q].fragments /\ others[q].running = records[q].running
           /\ \/ others[q].answer = records[q].answer
              \/ records[q].answer = "none" /\ ~records[q].running /\ others[q].answer = "cancelled"
           /\ r \in RadioStops => others[q].running \/ others[q].answer # "none"
  <2>1. CASE r \in RadioStops
    <3>1. others = Radio!Cancelled(RadioNumbers \ {r}) BY <2>1
    <3>2. others[r] = records[r]
      BY <3>1 DEF Radio!Cancelled
    <3> HIDE DEF others
    <3> QED BY <2>1, <3>1, <3>2, CancelledFacts
  <2>2. CASE r \notin RadioStops BY <1>2, <2>2
  <2> QED BY <2>1, <2>2
<1>4. \/ ~whole /\ records' = [records EXCEPT ![r].fragments = @ + 1] /\ UNCHANGED queues
      \/ whole /\ records' = [others EXCEPT ![r].fragments = @ + 1] /\ Radio!Submit(r)
      \/ whole /\ records' = [records EXCEPT ![r].fragments = @ + 1, ![r].answer = "refused"] /\ UNCHANGED queues
  BY DEF Radio!Take
<1> HIDE DEF others
<1>5. CASE ~whole /\ records' = [records EXCEPT ![r].fragments = @ + 1] /\ UNCHANGED queues
  <2>1. records' \in [RadioNumbers -> RadioRecords] /\ Taken(r) /\ \A q \in RadioNumbers \ {r} : Answers1(q)
    BY <1>2, <1>5 DEF RadioRecords, Taken, Answers1
  <2> QED BY <1>1, <1>2, <1>5, <2>1 DEF Taken
<1>6. CASE whole /\ records' = [others EXCEPT ![r].fragments = @ + 1] /\ Radio!Submit(r)
  <2>1. records' \in [RadioNumbers -> RadioRecords] /\ Taken(r)
    BY <1>2, <1>3, <1>6 DEF RadioRecords, Taken
  <2>2. \A q \in RadioNumbers \ {r} : records'[q] = others[q] BY <1>3, <1>6
  <2>3. \A q \in RadioNumbers \ {r} : Answers1(q) BY <1>3, <2>2 DEF Answers1
  <2>4. r \in RadioStops => \A q \in RadioNumbers \ {r} : records'[q].running \/ records'[q].answer # "none"
    BY <1>3, <2>2
  <2> QED BY <1>1, <1>2, <1>6, <2>1, <2>3, <2>4 DEF Taken, Radio!Submit
<1>7. CASE /\ whole /\ UNCHANGED queues
           /\ records' = [records EXCEPT ![r].fragments = @ + 1, ![r].answer = "refused"]
  <2>1. /\ records' \in [RadioNumbers -> RadioRecords] /\ Taken(r) /\ records'[r].answer = "refused"
        /\ \A q \in RadioNumbers \ {r} : Answers1(q)
    <3>1. /\ records'[r] = [records[r] EXCEPT !.fragments = @ + 1, !.answer = "refused"]
          /\ \A q \in RadioNumbers \ {r} : records'[q] = records[q]
      BY <1>2, <1>7
    <3>2. records'[r] \in RadioRecords /\ Taken(r) /\ records'[r].answer = "refused"
      <4>1. PICK x \in RadioRecords : x = records[r] BY <1>2
      <4>2. records'[r] = [[x EXCEPT !.fragments = x.fragments + 1] EXCEPT !.answer = "refused"] BY <3>1, <4>1
      <4>3. [x EXCEPT !.fragments = x.fragments + 1] \in RadioRecords BY DEF RadioRecords
      <4> QED BY <4>1, <4>2, <4>3 DEF RadioRecords, Taken
    <3> QED BY <1>2, <1>7, <3>1, <3>2 DEF Answers1
  <2> QED BY <1>1, <1>7, <2>1
<1> QED BY <1>4, <1>5, <1>6, <1>7

\* A job is new in its queue: its request was not spent.
LEMMA JobAdded ==
  ASSUME RadioInv, NEW r \in RadioNumbers, ~Spent(r), Spent(r)', runs[r] = 0,
         issued[r] = boot, UNCHANGED <<issued, runs>>,
         queues' = [queues EXCEPT ![Radio!WorkerOf(r)] = Append(@, [request |-> r, boot |-> boot])],
         \A q \in RadioNumbers : Spent(q) => Spent(q)'
  PROVE  JobsHold' /\ queues' \in [Radio!Workers -> Seq(Jobs)]
<1> DEFINE v == Radio!WorkerOf(r)
           job == [request |-> r, boot |-> boot]
<1>1. v \in Radio!Workers BY DEF Radio!WorkerOf, Radio!Workers
<1>2. job \in Jobs /\ queues \in [Radio!Workers -> Seq(Jobs)]
  BY DEF RadioInv, RadioTyped, Jobs
<1> HIDE DEF v
<1>3. /\ queues'[v] \in Seq(Jobs) /\ Len(queues'[v]) = Len(queues[v]) + 1 /\ Len(queues[v]) \in Nat
      /\ \A n \in 1..Len(queues[v]) : queues'[v][n] = queues[v][n]
      /\ queues'[v][Len(queues[v]) + 1] = job
  <2>1. queues'[v] = Append(queues[v], job) BY <1>1, <1>2 DEF v
  <2> QED BY <1>1, <1>2, <2>1, AppendFacts
<1>4. \A w \in Radio!Workers \ {v} : queues'[w] = queues[w] BY <1>1, <1>2 DEF v
<1>5. queues' \in [Radio!Workers -> Seq(Jobs)] BY <1>1, <1>2, <1>3 DEF v
<1>6. ASSUME NEW w \in Radio!Workers, NEW n \in 1..Len(queues'[w])
      PROVE  (n \in 1..Len(queues[w]) /\ queues'[w][n] = queues[w][n]) \/ (w = v /\ n = Len(queues[v]) + 1)
  <2>1. CASE w # v BY <1>4, <1>6, <2>1
  <2>2. CASE w = v
    <3>1. n \in 1..Len(queues[v]) \/ n = Len(queues[v]) + 1 BY <1>3, <1>6, <2>2
    <3> QED BY <1>3, <2>2, <3>1
  <2> QED BY <2>1, <2>2
<1>7. ASSUME NEW w \in Radio!Workers, NEW n \in 1..Len(queues[w])
      PROVE  queues[w][n].request \in RadioNumbers /\ queues[w][n].request # r /\ JobHolds(w, queues[w][n])
  <2>1. queues[w] \in Seq(Jobs) BY <1>2
  <2>2. queues[w][n] \in Jobs BY <2>1, SeqFacts
  <2>3. JobHolds(w, queues[w][n]) BY DEF RadioInv, JobsHold
  <2> QED BY <2>2, <2>3 DEF Jobs, JobHolds
<1>8. ASSUME NEW w \in Radio!Workers, NEW n \in 1..Len(queues'[w])
      PROVE  JobHolds(w, queues[w][n])'
  <2>1. CASE n \in 1..Len(queues[w]) /\ queues'[w][n] = queues[w][n]
    <3>1. PICK q \in RadioNumbers : q = queues[w][n].request BY <1>7, <2>1
    <3>2. issued[q] = queues[w][n].boot /\ Spent(q)' /\ runs[q] = 0 /\ Radio!WorkerOf(q) = w
      BY <1>7, <2>1, <3>1 DEF JobHolds
    <3>3. queues'[w][n].request = q /\ queues'[w][n].boot = issued[q] BY <2>1, <3>1, <3>2
    <3> QED BY <3>2, <3>3 DEF JobHolds, Spent, Radio!WorkerOf
  <2>2. CASE w = v /\ n = Len(queues[v]) + 1
    <3>1. queues'[w][n].request = r /\ queues'[w][n].boot = boot BY <1>3, <2>2
    <3> QED BY <2>2, <3>1 DEF JobHolds, Spent, Radio!WorkerOf, v
  <2> QED BY <1>6, <2>1, <2>2
<1>9. ASSUME NEW w \in Radio!Workers, NEW n \in 1..Len(queues'[w]), NEW m \in 1..Len(queues'[w]), n < m
      PROVE  queues'[w][n].request # queues'[w][m].request
  <2>1. n \in 1..Len(queues[w]) /\ queues'[w][n] = queues[w][n]
    BY <1>3, <1>6, <1>9
  <2>2. CASE m \in 1..Len(queues[w]) /\ queues'[w][m] = queues[w][m]
    BY <1>9, <2>1, <2>2 DEF RadioInv, JobsHold
  <2>3. CASE w = v /\ m = Len(queues[v]) + 1
    <3>1. queues'[w][m].request = r BY <1>3, <2>3
    <3> QED BY <1>7, <2>1, <3>1
  <2> QED BY <1>6, <2>2, <2>3
<1> QED BY <1>5, <1>8, <1>9 DEF JobsHold

LEMMA TakingKeeps ==
  ASSUME RadioInv, NEW r \in RadioNumbers, Radio!Take(r)
  PROVE  RadioInv'
<1>1. /\ r \in known /\ issued[r] = boot /\ records[r].fragments < FragmentsOf[r]
      /\ UNCHANGED <<issued, boot, known, highwater, working, told, runs>>
      /\ records' \in [RadioNumbers -> RadioRecords] /\ Taken(r)
      /\ \A q \in RadioNumbers \ {r} : Answers1(q)
      /\ \/ queues' = queues /\ (records'[r].fragments = FragmentsOf[r] => records'[r].answer = "refused")
         \/ /\ records'[r].fragments = FragmentsOf[r]
            /\ queues' = [queues EXCEPT ![Radio!WorkerOf(r)] = Append(@, [request |-> r, boot |-> boot])]
            /\ r \in RadioStops => \A q \in RadioNumbers \ {r} :
                 records'[q].running \/ records'[q].answer # "none"
  BY TakingFacts
<1>2. /\ records[r].fragments \in Nat /\ FragmentsOf[r] \in Nat /\ boot \in Nat \ {0}
      /\ known \subseteq RadioNumbers
  BY RadioTypes DEF RadioInv, RadioTyped
<1>3. RecordHolds(r) /\ ~records[r].running /\ runs[r] = 0 /\ r <= highwater
  BY <1>1, <1>2 DEF RadioInv, RecordsHold, RecordHolds
<1>4. ~Spent(r) BY <1>1, <1>2 DEF Spent
<1>5. \A q \in RadioNumbers : (Spent(q) => Spent(q)') /\ (Dead(q) => Dead(q)')
  <2>1. SUFFICES ASSUME NEW q \in RadioNumbers PROVE (Spent(q) => Spent(q)') /\ (Dead(q) => Dead(q)')
    OBVIOUS
  <2>2. CASE q # r BY <1>1, <2>2 DEF Spent, Dead, Answers1
  <2>3. CASE q = r BY <1>1, <1>4, <2>3 DEF Dead, Taken
  <2> QED BY <2>2, <2>3
<1>6. RecordsHold'
  <2>1. SUFFICES ASSUME NEW q \in known PROVE RecordHolds(q)'
    BY <1>1 DEF RecordsHold, RecordHolds
  <2>2. CASE q = r BY <1>1, <1>2, <1>3, <2>2 DEF RecordHolds, Taken
  <2>3. CASE q # r
    <3>1. RecordHolds(q) /\ Answers1(q) BY <1>1, <1>2, <2>3 DEF RadioInv, RecordsHold
    <3> QED BY <1>1, <3>1 DEF RecordHolds, Answers1
  <2> QED BY <2>2, <2>3
<1>7. StopsHold'
  <2>1. SUFFICES ASSUME NEW q \in known, NEW z \in known PROVE StopHolds(q, z)'
    BY <1>1 DEF StopsHold, StopHolds
  <2>2. q \in RadioNumbers /\ z \in RadioNumbers /\ q \in Nat /\ z \in Nat BY <1>2, RadioTypes
  <2>3. records[q].running \/ records[q].answer # "none" => records'[q].running \/ records'[q].answer # "none"
    BY <1>1, <2>2 DEF Answers1, Taken
  <2>4. CASE z # r
    <3>1. RecordHolds(z) /\ StopHolds(q, z) /\ Answers1(z)
      BY <1>1, <2>2, <2>4 DEF RadioInv, RecordsHold, StopsHold
    <3>2. records'[z].answer # "refused" => records[z].answer # "refused"
      BY <3>1 DEF Answers1, RecordHolds
    <3> QED BY <2>3, <3>1, <3>2 DEF StopHolds, Answers1
  <2>5. CASE z = r
    <3>1. q < z => q # r BY <2>2, <2>5
    <3> QED BY <1>1, <2>2, <2>5, <3>1 DEF StopHolds
  <2> QED BY <2>4, <2>5
<1>8. RunsHold' /\ ToldHolds' /\ WorkHolds'
  <2>1. RunsHold' BY <1>1, <1>5 DEF RadioInv, RunsHold
  <2> QED BY <1>1, <1>5, <2>1, ToldStep, WorkStep
<1>9. JobsHold' /\ queues' \in [Radio!Workers -> Seq(Jobs)]
  <2>1. CASE queues' = queues BY <1>1, <1>5, <2>1, QuietStep DEF RadioInv, RadioTyped
  <2>2. CASE /\ records'[r].fragments = FragmentsOf[r]
             /\ queues' = [queues EXCEPT ![Radio!WorkerOf(r)] = Append(@, [request |-> r, boot |-> boot])]
    <3>1. Spent(r)' BY <1>1, <1>2, <1>3, <2>2 DEF Spent
    <3> QED BY <1>1, <1>3, <1>4, <1>5, <2>2, <3>1, JobAdded
  <2> QED BY <1>1, <2>1, <2>2
<1>10. RadioTyped' BY <1>1, <1>9 DEF RadioInv, RadioTyped
<1> QED BY <1>6, <1>7, <1>8, <1>9, <1>10 DEF RadioInv

\* The first job leaves its queue: it is the only one of its request there or in the other queue.
LEMMA JobGone ==
  ASSUME RadioInv, NEW w \in Radio!Workers, queues[w] # <<>>, queues' = [queues EXCEPT ![w] = Tail(@)],
         UNCHANGED issued, \A q \in RadioNumbers : Spent(q) => Spent(q)',
         \A q \in RadioNumbers : q = Head(queues[w]).request \/ runs'[q] = runs[q]
  PROVE  JobsHold' /\ queues' \in [Radio!Workers -> Seq(Jobs)]
<1>1. queues \in [Radio!Workers -> Seq(Jobs)] /\ queues[w] \in Seq(Jobs) BY DEF RadioInv, RadioTyped
<1>2. /\ queues'[w] \in Seq(Jobs) /\ Len(queues'[w]) \in Nat /\ Len(queues[w]) \in Nat
      /\ 1 \in 1..Len(queues[w]) /\ Head(queues[w]) = queues[w][1]
      /\ \A n \in 1..Len(queues'[w]) : n + 1 \in 1..Len(queues[w]) /\ queues'[w][n] = queues[w][n + 1]
  <2>1. queues'[w] = Tail(queues[w]) BY <1>1
  <2> QED BY <1>1, <2>1, TailFacts
<1>3. \A v \in Radio!Workers \ {w} : queues'[v] = queues[v] BY <1>1
<1>4. queues' \in [Radio!Workers -> Seq(Jobs)] BY <1>1, <1>2
<1>5. ASSUME NEW v \in Radio!Workers, NEW n \in 1..Len(queues[v])
      PROVE  queues[v][n].request \in RadioNumbers /\ JobHolds(v, queues[v][n])
  <2>1. queues[v] \in Seq(Jobs) BY <1>1
  <2>2. queues[v][n] \in Jobs BY <2>1, SeqFacts
  <2> QED BY <2>2 DEF Jobs, RadioInv, JobsHold
<1>6. ASSUME NEW v \in Radio!Workers, NEW n \in 1..Len(queues'[v])
      PROVE  \E m \in 1..Len(queues[v]) :
               /\ queues'[v][n] = queues[v][m] /\ queues[v][m].request # Head(queues[w]).request
  <2>1. CASE v = w
    <3>1. n + 1 \in 1..Len(queues[w]) /\ queues'[w][n] = queues[w][n + 1] /\ 1 < n + 1
      BY <1>2, <1>6, <2>1
    <3>2. queues[w][1].request # queues[w][n + 1].request
      BY <1>2, <3>1 DEF RadioInv, JobsHold
    <3> QED BY <1>2, <2>1, <3>1, <3>2
  <2>2. CASE v # w
    <3>1. n \in 1..Len(queues[v]) /\ queues'[v][n] = queues[v][n] BY <1>3, <1>6, <2>2
    <3>2. JobHolds(v, queues[v][n]) /\ JobHolds(w, queues[w][1]) BY <1>2, <1>5, <3>1
    <3>3. queues[v][n].request # queues[w][1].request BY <2>2, <3>2 DEF JobHolds
    <3> QED BY <1>2, <3>1, <3>3
  <2> QED BY <2>1, <2>2
<1>7. ASSUME NEW v \in Radio!Workers, NEW n \in 1..Len(queues'[v])
      PROVE  JobHolds(v, queues[v][n])'
  <2>1. PICK m \in 1..Len(queues[v]) :
          queues'[v][n] = queues[v][m] /\ queues[v][m].request # Head(queues[w]).request
    BY <1>6
  <2>2. PICK q \in RadioNumbers : q = queues[v][m].request BY <1>5
  <2>3. issued[q] = queues[v][m].boot /\ Spent(q)' /\ runs'[q] = 0 /\ Radio!WorkerOf(q) = v
    BY <1>5, <2>1, <2>2 DEF JobHolds
  <2>4. queues'[v][n].request = q /\ queues'[v][n].boot = issued[q] BY <2>1, <2>2, <2>3
  <2> QED BY <2>3, <2>4 DEF JobHolds, Spent, Radio!WorkerOf
<1>8. ASSUME NEW v \in Radio!Workers, NEW n \in 1..Len(queues'[v]), NEW m \in 1..Len(queues'[v]), n < m
      PROVE  queues'[v][n].request # queues'[v][m].request
  <2>1. CASE v = w
    <3>1. /\ n + 1 \in 1..Len(queues[w]) /\ m + 1 \in 1..Len(queues[w]) /\ n + 1 < m + 1
          /\ queues'[w][n] = queues[w][n + 1] /\ queues'[w][m] = queues[w][m + 1]
      <4>1. n \in 1..Len(queues'[w]) /\ m \in 1..Len(queues'[w]) /\ n + 1 < m + 1 BY <1>2, <1>8, <2>1
      <4> QED BY <1>2, <4>1
    <3> QED BY <2>1, <3>1 DEF RadioInv, JobsHold
  <2>2. CASE v # w BY <1>3, <1>8, <2>2 DEF RadioInv, JobsHold
  <2> QED BY <2>1, <2>2
<1> QED BY <1>4, <1>7, <1>8 DEF JobsHold

(***************************************************************************)
(* A worker takes its next job.  One whose request is no longer wanted is  *)
(* dropped, one that is old expires; a run is the first of its request,    *)
(* and no stop that has come since had it waiting.                         *)
(***************************************************************************)
LEMMA StartingRadio ==
  ASSUME RadioInv, NEW w \in Radio!Workers, Radio!Start(w)
  PROVE  RadioInv' /\ (\A r \in RadioNumbers : runs'[r] # runs[r] =>
           r \in known /\ records[r].answer = "none" /\ ~records[r].running)
<1>1. PICK job : job = Head(queues[w]) OBVIOUS
<1>2. PICK r : r = job.request OBVIOUS
<1>3. /\ working[w] = <<>> /\ queues[w] # <<>> /\ queues' = [queues EXCEPT ![w] = Tail(@)]
      /\ UNCHANGED <<issued, boot, known, highwater, told>>
      /\ \/ UNCHANGED <<records, working, runs>>
         \/ /\ Radio!StillWanted(job) /\ UNCHANGED <<working, runs>>
            /\ records' = [records EXCEPT ![r].answer = "expired"]
         \/ /\ Radio!StillWanted(job) /\ records' = [records EXCEPT ![r].running = TRUE]
            /\ working' = [working EXCEPT ![w] = <<job>>] /\ runs' = [runs EXCEPT ![r] = @ + 1]
  BY <1>1, <1>2 DEF Radio!Start, Radio!Complete
<1>4. job \in Jobs /\ JobHolds(w, job)
  <2>1. queues[w] \in Seq(Jobs) BY DEF RadioInv, RadioTyped
  <2>2. job = queues[w][1] /\ 1 \in 1..Len(queues[w]) /\ job \in Jobs BY <1>1, <1>3, <2>1, TailFacts
  <2> QED BY <2>2 DEF RadioInv, JobsHold
<1>5. r \in RadioNumbers /\ issued[r] = job.boot /\ Spent(r) /\ runs[r] = 0 /\ Radio!WorkerOf(r) = w
  BY <1>2, <1>4 DEF Jobs, JobHolds
<1>6. /\ records \in [RadioNumbers -> RadioRecords] /\ known \subseteq RadioNumbers /\ records[r] \in RadioRecords
      /\ boot \in Nat
  BY <1>5 DEF RadioInv, RadioTyped
<1>7. CASE UNCHANGED <<records, working, runs>>
  <2>1. \A q \in RadioNumbers : Spent(q)' <=> Spent(q) BY <1>3, <1>7 DEF Spent
  <2>2. JobsHold' /\ queues' \in [Radio!Workers -> Seq(Jobs)] BY <1>3, <1>7, <2>1, JobGone
  <2>3. RadioTyped' BY <1>3, <1>7, <2>2 DEF RadioInv, RadioTyped
  <2>4. RecordsHold' BY <1>3, <1>7 DEF RadioInv, RecordsHold, RecordHolds
  <2>5. StopsHold' BY <1>3, <1>7 DEF RadioInv, StopsHold, StopHolds
  <2>6. RunsHold' BY <1>7, <2>1 DEF RadioInv, RunsHold
  <2>7. ToldHolds' BY <1>3, <1>7, ToldStep DEF Dead
  <2> QED BY <1>7, <2>2, <2>3, <2>4, <2>5, <2>6, <2>7, WorkStep DEF RadioInv
<1>8. CASE /\ Radio!StillWanted(job) /\ UNCHANGED <<working, runs>>
           /\ records' = [records EXCEPT ![r].answer = "expired"]
  <2>1. r \in known /\ records[r].answer = "none" /\ ~records[r].running
    BY <1>2, <1>5, <1>8 DEF Radio!StillWanted, RadioInv, RecordsHold, RecordHolds
  <2>2. records' \in [RadioNumbers -> RadioRecords] /\ \A q \in RadioNumbers : Answers1(q)
    BY <1>6, <1>8, <2>1 DEF RadioRecords, Answers1
  <2>3. RecordsHold' /\ StopsHold' /\ ToldHolds' /\ \A q \in RadioNumbers : Spent(q) => Spent(q)'
    BY <1>3, <1>8, <2>2, AnsweringKeeps
  <2>4. JobsHold' /\ queues' \in [Radio!Workers -> Seq(Jobs)] BY <1>3, <1>8, <2>3, JobGone
  <2>5. RadioTyped' BY <1>3, <1>8, <2>2, <2>4 DEF RadioInv, RadioTyped
  <2>6. RunsHold' BY <1>8, <2>3 DEF RadioInv, RunsHold
  <2> QED BY <1>8, <2>3, <2>4, <2>5, <2>6, WorkStep DEF RadioInv
<1>9. CASE /\ Radio!StillWanted(job) /\ records' = [records EXCEPT ![r].running = TRUE]
           /\ working' = [working EXCEPT ![w] = <<job>>] /\ runs' = [runs EXCEPT ![r] = @ + 1]
  <2>1. r \in known /\ records[r].answer = "none" /\ ~records[r].running /\ job.boot = boot
    BY <1>2, <1>5, <1>9 DEF Radio!StillWanted, RadioInv, RecordsHold, RecordHolds
  <2>2. records[r].fragments = FragmentsOf[r]
    BY <1>5, <1>6, <2>1 DEF Spent
  <2>3. /\ runs' \in [RadioNumbers -> Nat] /\ runs'[r] = 1 /\ \A q \in RadioNumbers \ {r} : runs'[q] = runs[q]
    BY <1>5, <1>9 DEF RadioInv, RadioTyped
  <2>4. /\ records' \in [RadioNumbers -> RadioRecords] /\ records'[r].running
        /\ \A q \in RadioNumbers :
             /\ records'[q].fragments = records[q].fragments /\ records'[q].answer = records[q].answer
             /\ q # r => records'[q].running = records[q].running
    <3>1. /\ records'[r] = [records[r] EXCEPT !.running = TRUE]
          /\ \A q \in RadioNumbers \ {r} : records'[q] = records[q]
      BY <1>5, <1>6, <1>9
    <3>2. PICK x \in RadioRecords : x = records[r] BY <1>6
    <3>3. /\ records'[r] \in RadioRecords /\ records'[r].running /\ records'[r].fragments = records[r].fragments
          /\ records'[r].answer = records[r].answer
      BY <3>1, <3>2 DEF RadioRecords
    <3>4. records' \in [RadioNumbers -> RadioRecords] BY <1>6, <1>9, <3>1, <3>3
    <3> QED BY <3>1, <3>3, <3>4
  <2>5. \A q \in RadioNumbers : Spent(q)' <=> Spent(q) BY <1>3, <2>4 DEF Spent
  <2>6. ~Dead(r) BY <1>5, <1>6, <2>1 DEF Dead
  <2>7. \A q \in RadioNumbers : Dead(q) => Dead(q)' BY <1>3, <2>3, <2>4, <2>6 DEF Dead
  <2>8. JobsHold' /\ queues' \in [Radio!Workers -> Seq(Jobs)]
    BY <1>1, <1>2, <1>3, <2>3, <2>5, JobGone
  <2>9. working' \in [Radio!Workers -> Seq(Jobs)]
    <3>1. <<job>> \in Seq(Jobs) BY <1>4
    <3> QED BY <1>9, <3>1 DEF RadioInv, RadioTyped
  <2>10. RadioTyped' BY <1>3, <2>3, <2>4, <2>8, <2>9 DEF RadioInv, RadioTyped
  <2>11. RecordsHold'
    <3>1. SUFFICES ASSUME NEW q \in known PROVE RecordHolds(q)'
      BY <1>3 DEF RecordsHold, RecordHolds
    <3>2. RecordHolds(q) /\ q \in RadioNumbers BY <1>6 DEF RadioInv, RecordsHold
    <3>3. CASE q = r BY <1>3, <2>1, <2>2, <2>3, <2>4, <3>2, <3>3 DEF RecordHolds
    <3>4. CASE q # r BY <1>3, <2>3, <2>4, <3>2, <3>4 DEF RecordHolds
    <3> QED BY <3>3, <3>4
  <2>12. StopsHold'
    <3>1. SUFFICES ASSUME NEW q \in known, NEW z \in known PROVE StopHolds(q, z)'
      BY <1>3 DEF StopsHold, StopHolds
    <3>2. StopHolds(q, z) /\ q \in RadioNumbers /\ z \in RadioNumbers BY <1>6 DEF RadioInv, StopsHold
    <3>3. records[q].running => records'[q].running BY <2>4, <3>2
    <3> QED BY <2>4, <3>2, <3>3 DEF StopHolds
  <2>13. RunsHold' BY <1>5, <2>3, <2>5 DEF RadioInv, RunsHold
  <2>14. WorkHolds'
    <3>1. SUFFICES ASSUME NEW v \in Radio!Workers
                   PROVE  working'[v] = <<>> \/ \E j \in Jobs : Works(v, j)'
      BY DEF WorkHolds, Works
    <3>2. CASE v = w
      <4>1. working'[v] = <<job>> BY <1>9, <3>2 DEF RadioInv, RadioTyped
      <4>2. runs'[job.request] = 1 /\ Radio!WorkerOf(job.request) = v BY <1>2, <1>5, <2>3, <3>2
      <4>3. Works(v, job)' BY <4>1, <4>2 DEF Works, Radio!WorkerOf
      <4> QED BY <1>4, <4>3
    <3>3. CASE v # w
      <4>1. working'[v] = working[v] BY <1>9, <3>3 DEF RadioInv, RadioTyped
      <4>2. CASE working[v] = <<>> BY <4>1, <4>2
      <4>3. CASE \E j \in Jobs : Works(v, j)
        <5>1. PICK j \in Jobs : Works(v, j) BY <4>3
        <5>2. j.request \in RadioNumbers /\ j.request # r BY <1>5, <3>3, <5>1 DEF Works, Jobs
        <5>3. Works(v, j)' BY <2>3, <4>1, <5>1, <5>2 DEF Works, Radio!WorkerOf
        <5> QED BY <5>3
      <4> QED BY <4>2, <4>3 DEF RadioInv, WorkHolds
    <3> QED BY <3>2, <3>3
  <2>15. ToldHolds'
    <3>1. SUFFICES ASSUME NEW t \in told
                   PROVE  /\ t.answer \in {"cancelled", "expired", "refused", "full"} => Dead(t.request)'
                          /\ t.answer \in {"done", "uncertain"} => runs'[t.request] = 1
      BY <1>3 DEF ToldHolds, Dead
    <3>2. t.request \in RadioNumbers BY DEF RadioInv, RadioTyped
    <3>3. t.answer \in {"done", "uncertain"} => runs[t.request] = 1 BY DEF RadioInv, ToldHolds
    <3> QED BY <1>5, <2>3, <2>7, <3>2, <3>3 DEF RadioInv, ToldHolds
  <2>16. \A q \in RadioNumbers : runs'[q] # runs[q] => q = r BY <2>3
  <2> QED BY <2>1, <2>8, <2>10, <2>11, <2>12, <2>13, <2>14, <2>15, <2>16 DEF RadioInv
<1> QED BY <1>3, <1>7, <1>8, <1>9

\* What has run is answered by what came of it, if its record is still there.
LEMMA FinishingKeeps ==
  ASSUME RadioInv, NEW w \in Radio!Workers, Radio!Finish(w)
  PROVE  RadioInv'
<1>1. PICK job \in Jobs : Works(w, job)
  BY DEF RadioInv, WorkHolds, Radio!Finish
<1>2. PICK r \in RadioNumbers : r = job.request BY DEF Jobs
<1>3. working[w][1] = job /\ runs[r] = 1 BY <1>1, <1>2 DEF Works
<1>4. /\ working' = [working EXCEPT ![w] = <<>>]
      /\ UNCHANGED <<issued, boot, known, highwater, queues, told, runs>>
      /\ \/ records' = records
         \/ r \in known /\ \E answer \in {"done", "uncertain"} : records' = [records EXCEPT ![r].answer = answer]
  BY <1>2, <1>3 DEF Radio!Finish, Radio!Complete
<1>5. records \in [RadioNumbers -> RadioRecords] /\ working \in [Radio!Workers -> Seq(Jobs)]
  BY DEF RadioInv, RadioTyped
<1>6. records' \in [RadioNumbers -> RadioRecords] /\ \A q \in RadioNumbers : Answers1(q)
  <2>1. CASE records' = records BY <1>5, <2>1 DEF Answers1
  <2>2. CASE r \in known /\ \E answer \in {"done", "uncertain"} : records' = [records EXCEPT ![r].answer = answer]
    <3>1. records[r].running BY <1>3, <2>2 DEF RadioInv, RecordsHold, RecordHolds
    <3>2. PICK answer \in {"done", "uncertain"} : records' = [records EXCEPT ![r].answer = answer] BY <2>2
    <3> QED BY <1>5, <3>1, <3>2 DEF RadioRecords, Answers1
  <2> QED BY <1>4, <2>1, <2>2
<1>7. RecordsHold' /\ StopsHold' /\ ToldHolds' /\ \A q \in RadioNumbers : Spent(q) => Spent(q)'
  BY <1>4, <1>6, AnsweringKeeps
<1>8. JobsHold' /\ RunsHold' BY <1>4, <1>7, QuietStep
<1>9. /\ working' \in [Radio!Workers -> Seq(Jobs)] /\ working'[w] = <<>>
      /\ \A v \in Radio!Workers \ {w} : working'[v] = working[v]
  <2>1. <<>> \in Seq(Jobs) OBVIOUS
  <2> QED BY <1>4, <1>5, <2>1
<1>10. WorkHolds' BY <1>4, <1>9 DEF RadioInv, WorkHolds, Works, Radio!WorkerOf
<1>11. RadioTyped' BY <1>4, <1>6, <1>9 DEF RadioInv, RadioTyped
<1> QED BY <1>7, <1>8, <1>10, <1>11 DEF RadioInv

LEMMA RadioBegins ==
  ASSUME Radio!Init
  PROVE  RadioInv
<1>1. /\ issued = [r \in RadioNumbers |-> 0] /\ boot = 1 /\ known = {} /\ highwater = 0
      /\ records = [r \in RadioNumbers |-> Radio!Empty] /\ told = {} /\ runs = [r \in RadioNumbers |-> 0]
      /\ queues = [w \in Radio!Workers |-> <<>>] /\ working = [w \in Radio!Workers |-> <<>>]
  BY DEF Radio!Init
<1>2. Radio!Empty \in RadioRecords BY DEF Radio!Empty, RadioRecords
<1>3. <<>> \in Seq(Jobs) /\ Len(<<>>) = 0 OBVIOUS
<1>4. RadioTyped
  <2>1. records \in [RadioNumbers -> RadioRecords] BY <1>1, <1>2
  <2>2. queues \in [Radio!Workers -> Seq(Jobs)] /\ working \in [Radio!Workers -> Seq(Jobs)] BY <1>1, <1>3
  <2> QED BY <1>1, <2>1, <2>2 DEF RadioTyped
<1>5. JobsHold BY <1>1, <1>3 DEF JobsHold
<1> QED BY <1>1, <1>4, <1>5 DEF RadioInv, RecordsHold, WorkHolds, RunsHold, ToldHolds, StopsHold

\* Every step of the radio keeps its invariant.
LEMMA RadioKept ==
  ASSUME RadioInv, Radio!Next
  PROVE  RadioInv'
<1>1. ASSUME NEW r \in RadioNumbers, \E b \in 1..boot : Radio!Issue(r, b) PROVE RadioInv'
  BY <1>1, IssueKeeps
<1>2. ASSUME NEW r \in RadioNumbers, Radio!Admit(r) PROVE RadioInv' BY <1>2, AdmitKeeps
<1>3. ASSUME NEW r \in RadioNumbers, Radio!Take(r) PROVE RadioInv' BY <1>3, TakingKeeps
<1>4. ASSUME NEW r \in RadioNumbers, Radio!Fetch(r) PROVE RadioInv' BY <1>4, FetchKeeps
<1>5. ASSUME NEW r \in RadioNumbers, Radio!Age(r) PROVE RadioInv' BY <1>5, CancelKeeps
<1>6. ASSUME NEW w \in Radio!Workers, Radio!Start(w) PROVE RadioInv' BY <1>6, StartingRadio
<1>7. ASSUME NEW w \in Radio!Workers, Radio!Finish(w) PROVE RadioInv' BY <1>7, FinishingKeeps
<1>8. CASE Radio!CancelPending BY <1>8, CancelKeeps
<1>9. CASE Radio!Reset BY <1>9, ResetKeeps
<1> QED BY <1>1, <1>2, <1>3, <1>4, <1>5, <1>6, <1>7, <1>8, <1>9 DEF Radio!Next

\* Only a worker that takes a job runs anything.
LEMMA RunsBegin ==
  ASSUME Radio!Next, runs' # runs
  PROVE  \E w \in Radio!Workers : Radio!Start(w)
BY DEF Radio!Next, Radio!Issue, Radio!Admit, Radio!Take, Radio!Fetch, Radio!Age, Radio!Finish, Radio!CancelPending,
       Radio!Reset

\* What starts has waited, so no stop that is taken has been there to cancel it.
LEMMA StartsFirst ==
  ASSUME RadioInv, Radio!Next
  PROVE  Radio!StartsBeforeStops
<1>1. SUFFICES ASSUME NEW r \in RadioNumbers, runs'[r] # runs[r], NEW s \in RadioStops,
                      s > r, r \in known, s \in known, records[s].answer # "refused"
               PROVE  records[s].fragments < FragmentsOf[s]
  BY DEF Radio!StartsBeforeStops
<1>2. PICK w \in Radio!Workers : Radio!Start(w) BY <1>1, RunsBegin
<1>3. records[r].answer = "none" /\ ~records[r].running BY <1>1, <1>2, StartingRadio
<1>4. r < s BY <1>1, RadioTypes
<1>5. records[s].fragments # FragmentsOf[s] BY <1>1, <1>3, <1>4 DEF RadioInv, StopsHold, StopHolds
<1>6. /\ records[s].fragments <= FragmentsOf[s] /\ records[s].fragments \in Nat /\ FragmentsOf[s] \in Nat
  BY <1>1, RadioTypes DEF RadioInv, RecordsHold, RecordHolds
<1> QED BY <1>5, <1>6

(* No request over the radio runs twice, what is answered is true, and     *)
(* none that waits when a stop is taken starts after it: for any requests, *)
(* fragments, room for records, and however often the link is lost.        *)
THEOREM RadioRunsOnce == PartsSpec => RequestsRunOnce
<1> DEFINE Inv == part = "radio" => RadioInv
           Steps == part = "radio" => Radio!StartsBeforeStops
<1>1. Start => Inv BY RadioBegins DEF Start
<1>2. Inv /\ [Step]_parts => Inv'
  <2>1. SUFFICES ASSUME Inv, [Step]_parts, part' = "radio" PROVE RadioInv'
    OBVIOUS
  <2>2. part = "radio" /\ (Radio!Next \/ UNCHANGED slots) BY <2>1 DEF Step, parts
  <2>3. CASE Radio!Next BY <2>1, <2>2, <2>3, RadioKept
  <2>4. CASE UNCHANGED slots
    <3>1. UNCHANGED <<issued, boot, records, known, highwater, queues, working, told, runs>>
      BY <2>4 DEF slots, After7
    <3>2. RadioTyped' BY <2>1, <2>2, <3>1 DEF RadioInv, RadioTyped
    <3>3. RecordsHold' BY <2>1, <2>2, <3>1 DEF RadioInv, RecordsHold, RecordHolds
    <3>4. JobsHold' BY <2>1, <2>2, <3>1 DEF RadioInv, JobsHold, JobHolds, Spent, Radio!WorkerOf
    <3>5. WorkHolds' /\ RunsHold' BY <2>1, <2>2, <3>1, WorkStep DEF RadioInv, RunsHold, Spent
    <3>6. ToldHolds' BY <2>1, <2>2, <3>1, ToldStep DEF Dead
    <3>7. StopsHold' BY <2>1, <2>2, <3>1 DEF RadioInv, StopsHold, StopHolds
    <3> QED BY <3>2, <3>3, <3>4, <3>5, <3>6, <3>7 DEF RadioInv
  <2> QED BY <2>2, <2>3, <2>4
<1>3. Inv => (part = "radio" => Radio!RunsOnce /\ Radio!AnswersAreTrue)
  <2>1. SUFFICES ASSUME RadioInv PROVE Radio!RunsOnce /\ Radio!AnswersAreTrue
    OBVIOUS
  <2>2. Radio!RunsOnce BY <2>1 DEF RadioInv, RunsHold, Radio!RunsOnce
  <2>3. Radio!AnswersAreTrue BY <2>1 DEF RadioInv, ToldHolds, Dead, Radio!AnswersAreTrue
  <2> QED BY <2>2, <2>3
<1>4. Inv /\ [Step]_parts => [Steps]_parts
  <2>1. SUFFICES ASSUME Inv, Step, part = "radio" PROVE Radio!StartsBeforeStops
    OBVIOUS
  <2>2. Radio!Next BY <2>1 DEF Step
  <2> QED BY <2>1, <2>2, StartsFirst
<1> QED BY <1>1, <1>2, <1>3, <1>4, PTL DEF PartsSpec, RequestsRunOnce

-----------------------------------------------------------------------------
(* The ledger's events.  What RequestLedgerProofs shows of any ledger is   *)
(* taken for the part "events".                                            *)
Proven ==
  INSTANCE RequestLedgerProofs WITH
    Senders <- EventSenders, Asks <- EventAsks, KindOf <- EventKindOf, MaxReplies <- MaxEvents,
    MaxSenders <- MaxTalkers, MaxNumber <- MaxTold, MaxAttempts <- MaxTries, LateReports <- TRUE,
    ledger <- s1, work <- s2, attempt <- s3, answered <- s4, asked <- s5, admitted <- s6, published <- s7

\* Two instances of one module with the same values are the same, operator by operator.
LEMMA SameSizes ==
  ASSUME NEW S
  PROVE  /\ Proven!Cardinality(S) = Cardinality(S)
         /\ Reported!Cardinality(S) = Cardinality(S)
BY DEF Proven!Cardinality, Reported!Cardinality, Cardinality

LEMMA SameFinite ==
  ASSUME NEW S
  PROVE  /\ Proven!IsFiniteSet(S) = IsFiniteSet(S)
         /\ Reported!IsFiniteSet(S) = IsFiniteSet(S)
BY DEF Proven!IsFiniteSet, Reported!IsFiniteSet, IsFiniteSet

LEMMA SameEvict ==
  ASSUME NEW l
  PROVE Proven!Evict(l) = Reported!Evict(l)
BY DEF Reported!Unknown, Proven!Unknown, Reported!NoEvent, Proven!NoEvent, Reported!Kept, Proven!Kept,
  Reported!Closable, Proven!Closable, Reported!Older, Proven!Older, Reported!Victims, Proven!Victims,
  Reported!Evict, Proven!Evict, Reported!Cardinality, Proven!Cardinality

LEMMA SameAdmit ==
  ASSUME NEW l, NEW i, NEW ask
  PROVE Proven!Admit(l, i, ask) = Reported!Admit(l, i, ask)
BY SMTT(30) DEF Reported!Unknown, Proven!Unknown, Reported!NoEvent, Proven!NoEvent, Reported!Kept, Proven!Kept,
  Reported!Closable, Proven!Closable, Reported!Older, Proven!Older, Reported!Victims, Proven!Victims,
  Reported!Evict, Proven!Evict, Reported!Cardinality, Proven!Cardinality, Reported!WithRecord,
  Proven!WithRecord, Reported!NewRecord, Proven!NewRecord, Reported!Sender, Proven!Sender,
  Reported!Number, Proven!Number, Reported!Admit, Proven!Admit

LEMMA SameReport ==
  ASSUME NEW l, NEW i, NEW kind, NEW r
  PROVE Proven!Report(l, i, kind, r) = Reported!Report(l, i, kind, r)
BY DEF Reported!Unknown, Proven!Unknown, Reported!NoEvent, Proven!NoEvent, Reported!Kept, Proven!Kept,
  Reported!Closable, Proven!Closable, Reported!Older, Proven!Older, Reported!Victims, Proven!Victims,
  Reported!Evict, Proven!Evict, Reported!Cardinality, Proven!Cardinality, Reported!WithRecord,
  Proven!WithRecord, Reported!NewRecord, Proven!NewRecord, Reported!Closes, Proven!Closes,
  Reported!Latched, Proven!Latched, Reported!Says, Proven!Says, Reported!NextEvent, Proven!NextEvent,
  Reported!Recorded, Proven!Recorded, Reported!Report, Proven!Report

LEMMA SameTakeUp ==
  ASSUME NEW i, NEW ask
  PROVE  (Proven!TakeUp(i, ask) <=> Reported!TakeUp(i, ask)) /\ (Proven!Replay(i, ask) <=> Reported!Replay(i, ask))
<1>1. Proven!Admits(s1, i) <=> Reported!Admits(s1, i)
  BY DEF Reported!Kept, Proven!Kept, Reported!Sender, Proven!Sender, Reported!Number, Proven!Number,
  Reported!Retired, Proven!Retired, Reported!SendersFull, Proven!SendersFull, Reported!Admits,
  Proven!Admits, Reported!Cardinality, Proven!Cardinality
<1>2. Proven!Replays(s1, i, ask) <=> Reported!Replays(s1, i, ask)
  BY DEF Reported!Kept, Proven!Kept, Reported!Unknown, Proven!Unknown, Reported!Replays, Proven!Replays
<1>3. Proven!Learn(s1, i, ask) = Reported!Learn(s1, i, ask)
  BY DEF Reported!Kept, Proven!Kept, Reported!WithRecord, Proven!WithRecord, Reported!Learn, Proven!Learn
<1>4. Proven!Admit(s1, i, ask) = Reported!Admit(s1, i, ask)
  BY SameAdmit
<1>5. Proven!TakeUp(i, ask) <=> Reported!TakeUp(i, ask)
  BY <1>1, <1>4 DEF Reported!TakeUp, Proven!TakeUp
<1>6. Proven!Replay(i, ask) <=> Reported!Replay(i, ask)
  BY <1>2, <1>3 DEF Reported!Replay, Proven!Replay
<1> QED BY <1>5, <1>6

LEMMA SameEmit ==
  ASSUME NEW i, NEW report
  PROVE  Proven!Emit(i, report) <=> Reported!Emit(i, report)
<1>1. Proven!Report(s1, i, Proven!Kind(i), report) = Reported!Report(s1, i, Reported!Kind(i), report)
  BY SameReport DEF Reported!Kind, Proven!Kind
<1> QED
  BY <1>1 DEF Reported!Kept, Proven!Kept, Reported!Emit, Proven!Emit

LEMMA SameExecutor ==
  ASSUME NEW i
  PROVE  Proven!Executor(i) <=> Reported!Executor(i)
<1>1. Proven!Kind(i) = Reported!Kind(i)
  BY DEF Reported!Kind, Proven!Kind
<1>2. Proven!Refuse(i) <=> Reported!Refuse(i)
  BY SameEmit DEF Reported!Refuse, Proven!Refuse
<1>3. Proven!DoPlain(i) <=> Reported!DoPlain(i)
  BY <1>1, SameEmit DEF Reported!DoPlain, Proven!DoPlain
<1>4. Proven!Begin(i) <=> Reported!Begin(i)
  BY <1>1 DEF Reported!Begin, Proven!Begin
<1>5. Proven!AnswerTask(i) <=> Reported!AnswerTask(i)
  BY SameEmit DEF Reported!AnswerTask, Proven!AnswerTask
<1>6. Proven!Progress(i) <=> Reported!Progress(i)
  BY SameEmit DEF Reported!Progress, Proven!Progress
<1>7. Proven!Finish(i) <=> Reported!Finish(i)
  BY <1>1, SameEmit DEF Reported!Finish, Proven!Finish
<1>8. Proven!NextAttempt(i) <=> Reported!NextAttempt(i)
  BY DEF Reported!NextAttempt, Proven!NextAttempt
<1>9. Proven!StopSurvey(i) <=> Reported!StopSurvey(i)
  BY <1>1 DEF Reported!StopSurvey, Proven!StopSurvey
<1> QED
  BY <1>2, <1>3, <1>4, <1>5, <1>6, <1>7, <1>8, <1>9 DEF Reported!Executor, Proven!Executor

LEMMA SameNext == Proven!Next <=> Reported!Next
BY SameTakeUp, SameExecutor DEF Reported!Requests, Proven!Requests, Reported!Next, Proven!Next

LEMMA SameEnds ==
  Proven!NumbersTellApart /\ Proven!ResultStands => Reported!NumbersTellApart /\ Reported!ResultStands
BY DEF Reported!Requests, Proven!Requests, Reported!NumbersTellApart, Proven!NumbersTellApart,
  Reported!ResultStands, Proven!ResultStands, Reported!Kind, Proven!Kind

LEMMA SameInit == Reported!Init => Proven!Init
BY DEF Reported!Requests, Proven!Requests, Reported!Init, Proven!Init, Reported!EmptyLedger,
  Proven!EmptyLedger, Reported!Unknown, Proven!Unknown

\* What RequestLedgerProofs assumes of its constants.
LEMMA RightConstants ==
  /\ Proven!KindAssumption /\ Proven!AskAssumption /\ Proven!LimitAssumption
  /\ Proven!BoundAssumption /\ Proven!FlagAssumption
BY EventAssumption DEF Kinds, Unknown, Proven!Kinds, Proven!KindAssumption, Proven!AskAssumption,
  Proven!LimitAssumption, Proven!BoundAssumption, Proven!FlagAssumption

LEMMA EventsRoom == Proven!RoomForAll
BY EventAssumption, SameSizes, SameFinite DEF Proven!RoomForAll, Reported!Requests, Proven!Requests

\* A step of the part is a step of its ledger, and a stutter leaves the ledger alone.
LEMMA EventStep ==
  ASSUME Proven!EventInv, part' = "events", [Step]_parts
  PROVE  Proven!EventInv'
<1>1. Reported!Next \/ UNCHANGED slots
  BY DEF Step, parts
<1>2. CASE Reported!Next
  BY <1>2, EventsRoom, RightConstants, SameNext, Proven!EventsKept
<1>3. CASE UNCHANGED slots
  <2>1. UNCHANGED Proven!vars
    BY <1>3 DEF slots, Proven!vars
  <2> QED BY <2>1, EventsRoom, RightConstants, Proven!EventsKept
<1> QED BY <1>1, <1>2, <1>3

(***************************************************************************)
(* While the ledger has room for every record, the number of an event is   *)
(* its own and a result is the last word on its attempt: for any senders,  *)
(* requests, surveys, and late reports of what is over.                    *)
(***************************************************************************)
THEOREM EventsAreApart == PartsSpec => []EventsTellApart
<1> DEFINE Inv == part = "events" => Proven!EventInv
<1>1. Start => Inv
  BY SameInit, EventsRoom, RightConstants, Proven!EventsBegin DEF Start
<1>2. Inv /\ [Step]_parts => Inv'
  <2>1. SUFFICES ASSUME Inv, [Step]_parts, part' = "events" PROVE Proven!EventInv'
    OBVIOUS
  <2>2. part = "events"
    BY <2>1 DEF Step, parts
  <2> QED BY <2>1, <2>2, EventStep
<1>3. Inv => EventsTellApart
  BY SameEnds DEF EventsTellApart, Proven!EventInv
<1> QED BY <1>1, <1>2, <1>3, PTL DEF PartsSpec

-----------------------------------------------------------------------------
(***************************************************************************)
(* The way of requests and of their events between the ground and the      *)
(* executor, with the names of EventRelay; commands are orders here, and   *)
(* what the bridge is sending and what it has heard have names of their    *)
(* own.                                                                    *)
(***************************************************************************)
ground == s1
link == s2
route == s3
recent == s4
sending == s5
chunkId == s6
heard == s7
orders == s8
reports == s9
executor == s10
USE DEF ground, link, route, recent, sending, chunkId, heard, orders, reports, executor

(***************************************************************************)
(* What the ground holds of a text is what was sent of it: the chunks from *)
(* the first to the one before the next, all of the event that is being    *)
(* sent.  While the connection is severed the two may part, but the next   *)
(* session begins with nothing under way.                                  *)
(***************************************************************************)
Piece == [request |-> sending.request, event |-> sending.event]
TextTyped ==
  /\ ground = [copies |-> ground.copies, id |-> ground.id, text |-> ground.text, read |-> ground.read]
  /\ link = [session |-> link.session, state |-> link.state]
  /\ sending = [request |-> sending.request, event |-> sending.event, offset |-> sending.offset,
                id |-> sending.id]
  /\ sending.offset \in 0..(Chunks - 1)
TextFollows ==
  /\ link.state = "up" /\ sending.offset > 0
       => ground.text \in Seq({Piece}) /\ Len(ground.text) = sending.offset /\ ground.id = sending.id
  /\ link.state = "down" => sending = Relay!NoActive
TextInv == TextTyped /\ TextFollows /\ Relay!WholeEvents

LEMMA TextBegins == Relay!RequestTypes /\ Relay!Init => TextInv
BY DEF Relay!RequestTypes, Relay!Init, TextInv, TextTyped, TextFollows, Relay!NoActive, Relay!WholeEvents

\* A chunk comes to the ground: the text goes on, or is whole.
LEMMA OneMore ==
  ASSUME NEW x, NEW text \in Seq({x})
  PROVE  /\ Append(text, x) \in Seq({x}) /\ Len(Append(text, x)) = Len(text) + 1
         /\ Append(<<>>, x) \in Seq({x}) /\ Len(Append(<<>>, x)) = 1
         /\ \A i, j \in DOMAIN text : text[i] = text[j]
OBVIOUS

LEMMA ChunkArrives ==
  ASSUME Relay!RequestTypes, TextInv, Relay!SendChunk, link.state = "up"
  PROVE  /\ Relay!WholeEvents'
         /\ ground' = [copies |-> ground'.copies, id |-> ground'.id, text |-> ground'.text,
                       read |-> ground'.read]
         /\ sending.offset + 1 # Chunks =>
              /\ ground'.text \in Seq({Piece}) /\ Len(ground'.text) = sending.offset + 1
              /\ ground'.id = sending.id
<1> DEFINE before == IF sending.offset = 0 THEN <<>> ELSE ground.text
           here == Append(before, Piece)
<1>1. sending.offset \in Nat
  BY DEF Relay!RequestTypes, TextInv, TextTyped
<1>2. before \in Seq({Piece}) /\ Len(before) = sending.offset
  BY <1>1 DEF TextInv, TextFollows
<1>3. /\ here \in Seq({Piece}) /\ Len(here) = sending.offset + 1
      /\ \A i, j \in DOMAIN here : here[i] = here[j]
  BY <1>2, OneMore
<1>4. sending.offset = 0 \/ (sending.id = ground.id /\ sending.offset = Len(ground.text))
  BY <1>1 DEF TextInv, TextFollows
<1>5. IF sending.offset + 1 = Chunks
      THEN ground' = [ground EXCEPT !.id = 0, !.text = <<>>,
                                    !.read = {x \in @ : ~Relay!Stale(x, here)} \cup {here}]
      ELSE ground' = [ground EXCEPT !.id = sending.id, !.text = here]
  <2>1. Relay!Assemble(sending.id, sending.offset, sending.request, sending.event)
    BY DEF Relay!SendChunk
  <2> QED BY <1>3, <1>4, <2>1 DEF Relay!Assemble, Piece
<1>6. ground = [copies |-> ground.copies, id |-> ground.id, text |-> ground.text, read |-> ground.read]
  BY DEF TextInv, TextTyped
<1>7. Relay!WholeEvents
  BY DEF TextInv
<1> HIDE DEF here
<1>8. CASE sending.offset + 1 = Chunks
  <2>1. ground' = [copies |-> ground.copies, id |-> 0, text |-> <<>>,
                   read |-> {x \in ground.read : ~Relay!Stale(x, here)} \cup {here}]
    BY <1>5, <1>6, <1>8
  <2>2. Relay!WholeEvents'
    BY <2>1, <1>3, <1>7 DEF Relay!WholeEvents
  <2> QED BY <1>8, <2>1, <2>2
<1>9. CASE sending.offset + 1 # Chunks
  <2>1. ground' = [copies |-> ground.copies, id |-> sending.id, text |-> here, read |-> ground.read]
    BY <1>5, <1>6, <1>9
  <2>2. Relay!WholeEvents'
    BY <2>1, <1>7 DEF Relay!WholeEvents
  <2> QED BY <1>3, <2>1, <2>2
<1> QED BY <1>8, <1>9

\* The next chunk of an event, whether it arrives or is lost.
LEMMA TextGoesOn ==
  ASSUME Relay!RequestTypes, TextInv, Relay!SendChunk
  PROVE  TextInv'
<1>1. UNCHANGED link /\ link.state # "down"
  BY DEF Relay!SendChunk, Relay!Up
<1>2. sending.offset \in 0..(Chunks - 1) /\ Chunks \in Nat /\ sending.offset \in Nat
  BY DEF Relay!RequestTypes, TextInv, TextTyped
<1>3. IF sending.offset + 1 = Chunks THEN sending' = Relay!NoActive
      ELSE sending' = [request |-> sending.request, event |-> sending.event,
                       offset |-> sending.offset + 1, id |-> sending.id]
  BY DEF Relay!SendChunk, TextInv, TextTyped
<1>4. /\ sending' = [request |-> sending'.request, event |-> sending'.event, offset |-> sending'.offset,
                     id |-> sending'.id]
      /\ sending'.offset \in 0..(Chunks - 1)
  BY <1>2, <1>3 DEF Relay!NoActive
<1>5. CASE link.state = "up"
  <2>1. TextTyped'
    BY <1>1, <1>4, <1>5, ChunkArrives DEF TextInv, TextTyped
  <2>2. TextFollows'
    BY <1>1, <1>3, <1>5, ChunkArrives DEF TextFollows, Piece, Relay!NoActive
  <2> QED BY <1>5, <2>1, <2>2, ChunkArrives DEF TextInv
<1>6. CASE link.state # "up"
  <2>1. UNCHANGED ground
    BY <1>6 DEF Relay!SendChunk
  <2> QED BY <1>1, <1>4, <1>6, <2>1 DEF TextInv, TextTyped, TextFollows, Relay!WholeEvents
<1> QED BY <1>5, <1>6

\* What is begun begins with the first chunk, whatever was under way.
LEMMA TextStarts ==
  ASSUME Relay!RequestTypes, TextInv, Relay!Begin
  PROVE  TextInv'
<1>1. UNCHANGED <<ground, link>> /\ link.state # "down"
  BY DEF Relay!Begin, Relay!Up
<1>2. sending' = [request |-> sending'.request, event |-> sending'.event, offset |-> 0,
                  id |-> sending'.id]
  BY DEF Relay!Begin, Relay!Begun
<1>3. sending'.offset = 0 /\ 0 \in 0..(Chunks - 1)
  BY <1>2 DEF Relay!RequestTypes
<1> QED BY <1>1, <1>2, <1>3 DEF TextInv, TextTyped, TextFollows, Relay!WholeEvents

\* What takes from the ground the text that it has begun, when nothing goes on with it; and a session.
LEMMA TextEnds ==
  ASSUME Relay!RequestTypes, TextInv,
         Relay!Second \/ Relay!SendLog \/ Relay!Sever \/ Relay!Retire \/ Relay!Reconnect
  PROVE  TextInv'
<1>1. CASE Relay!Sever \/ Relay!Retire
  <2>1. UNCHANGED ground /\ link' = [session |-> link.session, state |-> link'.state]
    BY <1>1 DEF Relay!Sever, Relay!Retire, TextInv, TextTyped
  <2>2. \/ link'.state = "severed" /\ UNCHANGED sending
        \/ link'.state = "down" /\ sending' = Relay!NoActive
    BY <1>1 DEF Relay!Sever, Relay!Retire, Relay!bridgeVars, TextInv, TextTyped
  <2> QED BY <2>1, <2>2 DEF TextInv, TextTyped, TextFollows, Relay!WholeEvents, Relay!NoActive,
    Relay!RequestTypes
<1>2. CASE Relay!Second \/ Relay!SendLog \/ Relay!Reconnect
  <2>1. ground' = [ground EXCEPT !.id = 0, !.text = <<>>]
    BY <1>2 DEF Relay!Second, Relay!SendLog, Relay!Reconnect
  <2>2. ground' = [copies |-> ground.copies, id |-> 0, text |-> <<>>, read |-> ground.read]
    BY <2>1 DEF TextInv, TextTyped
  <2>3. sending' = Relay!NoActive
    BY <1>2 DEF Relay!Second, Relay!SendLog, Relay!Reconnect, Relay!bridgeVars, TextInv, TextFollows
  <2>4. link' = [session |-> link'.session, state |-> link'.state]
    BY <1>2 DEF Relay!Second, Relay!SendLog, Relay!Reconnect, TextInv, TextTyped
  <2>5. TextTyped'
    BY <2>2, <2>3, <2>4 DEF TextTyped, Relay!NoActive, Relay!RequestTypes
  <2>6. TextFollows'
    BY <2>3 DEF TextFollows, Relay!NoActive
  <2>7. Relay!WholeEvents'
    BY <2>2 DEF Relay!WholeEvents, TextInv
  <2> QED BY <2>5, <2>6, <2>7 DEF TextInv
<1> QED BY <1>1, <1>2

\* What leaves the way of the chunks alone; a request of the ground is a copy more.
LEMMA TextStays ==
  ASSUME TextInv, UNCHANGED <<link, sending>>,
         UNCHANGED ground \/ \E r \in RelayNumbers : ground' = [ground EXCEPT !.copies[r] = @ + 1]
  PROVE  TextInv'
<1>1. ground' = [copies |-> ground'.copies, id |-> ground.id, text |-> ground.text, read |-> ground.read]
  BY DEF TextInv, TextTyped
<1> QED BY <1>1 DEF TextInv, TextTyped, TextFollows, Relay!WholeEvents, Piece

LEMMA TextKept ==
  ASSUME Relay!RequestTypes, TextInv, [Relay!Next]_(Relay!vars)
  PROVE  TextInv'
<1>1. CASE Relay!SendChunk
  BY <1>1, TextGoesOn
<1>2. CASE Relay!Begin
  BY <1>2, TextStarts
<1>3. CASE Relay!Second \/ Relay!SendLog \/ Relay!Sever \/ Relay!Retire \/ Relay!Reconnect
  BY <1>3, TextEnds
<1>4. CASE \/ Relay!TakeEvent \/ Relay!Expire \/ Relay!TakeCommand \/ Relay!TakeSession
           \/ Relay!TakeProtocol \/ Relay!Restart
  <2>1. UNCHANGED <<ground, link, sending>>
    BY <1>4 DEF Relay!TakeEvent, Relay!Expire, Relay!TakeCommand, Relay!TakeSession, Relay!TakeProtocol,
      Relay!Restart, Relay!bridgeVars
  <2> QED BY <2>1, TextStays
<1>5. ASSUME NEW r \in RelayNumbers, Relay!Ask(r) \/ Relay!Reread(r) \/ Relay!Recover(r) \/ Relay!Work(r)
      PROVE  TextInv'
  <2>1. UNCHANGED <<link, sending>>
    BY <1>5 DEF Relay!Ask, Relay!Reread, Relay!Recover, Relay!Work, Relay!bridgeVars
  <2>2. UNCHANGED ground \/ ground' = [ground EXCEPT !.copies[r] = @ + 1]
    BY <1>5 DEF Relay!Ask, Relay!Reread, Relay!Recover, Relay!Work
  <2> QED BY <2>1, <2>2, TextStays
<1>6. CASE UNCHANGED Relay!vars
  BY <1>6, TextStays DEF Relay!vars
<1> QED BY <1>1, <1>2, <1>3, <1>4, <1>5, <1>6 DEF Relay!Next

(***************************************************************************)
(* A request belongs to the executor that the bridge knew when it came     *)
(* first, and every order for it says so.  What was begun is of the        *)
(* executor of now, which has it in its ledger, or of one that is gone;    *)
(* the executor of now never takes an order of another's.                  *)
(***************************************************************************)
ASide == [executor : Nat, request : RelayNumbers, session : Nat, only : BOOLEAN]
IsRecord(x) ==
  x = [executor |-> x.executor, session |-> x.session, event |-> x.event, closed |-> x.closed,
       recover |-> x.recover]
RouteShape == route = [r \in RelayNumbers |-> route[r]] /\ \A r \in RelayNumbers : IsRecord(route[r])
ExecutorShape ==
  /\ executor = [instance |-> executor.instance, session |-> executor.session,
                 ledger |-> executor.ledger, begun |-> executor.begun]
  /\ executor.ledger = [r \in RelayNumbers |->
                          [event |-> executor.ledger[r].event, reply |-> executor.ledger[r].reply,
                           admitted |-> executor.ledger[r].admitted]]
OnceTyped ==
  /\ RouteShape /\ ExecutorShape
  /\ link.session \in Nat /\ executor.instance \in Nat \ {0}
  /\ executor.begun \in [RelayNumbers -> Nat]
  /\ heard.executor \in 1..executor.instance
  /\ \A r \in RelayNumbers : route[r].executor \in 0..executor.instance
  /\ orders \in Seq(ASide)
OrdersAreOwned ==
  /\ \A n \in 1..Len(orders) :
       orders[n].executor # 0 /\ orders[n].executor = route[orders[n].request].executor
  /\ \A r \in RelayNumbers : route[r].recover => Relay!Routed(r)
BegunByOwner ==
  \A r \in RelayNumbers :
    \/ executor.begun[r] = 0
    \/ /\ executor.begun[r] = 1 /\ Relay!Routed(r)
       /\ \/ route[r].executor < executor.instance
          \/ route[r].executor = executor.instance /\ executor.ledger[r].admitted
OnceInv == OnceTyped /\ OrdersAreOwned /\ BegunByOwner

LEMMA RecordFacts ==
  ASSUME NEW x, NEW v, IsRecord(x)
  PROVE  /\ IsRecord([x EXCEPT !.event = v]) /\ [x EXCEPT !.event = v].executor = x.executor
         /\ [x EXCEPT !.event = v].recover = x.recover
         /\ IsRecord([x EXCEPT !.closed = v]) /\ [x EXCEPT !.closed = v].executor = x.executor
         /\ [x EXCEPT !.closed = v].recover = x.recover
         /\ IsRecord([x EXCEPT !.session = v]) /\ [x EXCEPT !.session = v].executor = x.executor
         /\ [x EXCEPT !.session = v].recover = x.recover
         /\ IsRecord([x EXCEPT !.recover = v]) /\ [x EXCEPT !.recover = v].executor = x.executor
         /\ [x EXCEPT !.recover = v].recover = v
         /\ IsRecord([x EXCEPT !.executor = v]) /\ [x EXCEPT !.executor = v].executor = v
         /\ [x EXCEPT !.executor = v].recover = x.recover
<1>1. PICK e, w, o, c, k : x = [executor |-> e, session |-> w, event |-> o, closed |-> c, recover |-> k]
  BY DEF IsRecord
<1>2. [x EXCEPT !.event = v] = [executor |-> e, session |-> w, event |-> v, closed |-> c, recover |-> k]
  BY <1>1
<1>3. [x EXCEPT !.closed = v] = [executor |-> e, session |-> w, event |-> o, closed |-> v, recover |-> k]
  BY <1>1
<1>4. [x EXCEPT !.session = v] = [executor |-> e, session |-> v, event |-> o, closed |-> c, recover |-> k]
  BY <1>1
<1>5. [x EXCEPT !.recover = v] = [executor |-> e, session |-> w, event |-> o, closed |-> c, recover |-> v]
  BY <1>1
<1>6. [x EXCEPT !.executor = v] = [executor |-> v, session |-> w, event |-> o, closed |-> c, recover |-> k]
  BY <1>1
<1> QED BY <1>1, <1>2, <1>3, <1>4, <1>5, <1>6 DEF IsRecord

\* One request's record is replaced by another.
LEMMA OneRecord ==
  ASSUME RouteShape, NEW r \in RelayNumbers, NEW new, IsRecord(new), route' = [route EXCEPT ![r] = new]
  PROVE  RouteShape' /\ route'[r] = new /\ \A q \in RelayNumbers : q # r => route'[q] = route[q]
<1>1. route' = [q \in RelayNumbers |-> IF q = r THEN new ELSE route[q]]
  BY DEF RouteShape
<1>2. /\ route'[r] = new /\ \A q \in RelayNumbers : q # r => route'[q] = route[q]
      /\ route' = [q \in RelayNumbers |-> route'[q]]
  BY <1>1
<1>3. \A q \in RelayNumbers : IsRecord(route[q])
  BY DEF RouteShape
<1>4. \A q \in RelayNumbers : IsRecord(route'[q])
  BY <1>2, <1>3
<1> QED BY <1>2, <1>4 DEF RouteShape

LEMMA OnceBegins == Relay!Init => OnceInv
<1> SUFFICES ASSUME Relay!Init PROVE OnceInv
  OBVIOUS
<1>1. RouteShape
  BY DEF Relay!Init, RouteShape, IsRecord, Relay!NoRoute
<1>2. ExecutorShape
  BY DEF Relay!Init, ExecutorShape, Relay!NoRecord
<1>3. \A r \in RelayNumbers : route[r].executor = 0 /\ ~route[r].recover /\ executor.begun[r] = 0
  BY DEF Relay!Init, Relay!NoRoute
<1>4. /\ link.session = 1 /\ executor.instance = 1 /\ heard.executor = 1 /\ orders = <<>>
      /\ executor.begun = [r \in RelayNumbers |-> 0]
  BY DEF Relay!Init
<1>5. OnceTyped
  BY <1>1, <1>2, <1>3, <1>4 DEF OnceTyped
<1> QED BY <1>3, <1>4, <1>5 DEF OnceInv, OrdersAreOwned, BegunByOwner

\* The bridge: it gives a request an owner once, and its orders are of the owner.
Owners ==
  /\ RouteShape' /\ link'.session \in Nat
  /\ \A r \in RelayNumbers :
       /\ \/ route'[r].executor = route[r].executor
          \/ ~Relay!Routed(r) /\ route'[r].executor = heard.executor
       /\ route'[r].recover => route'[r].executor # 0
OneOrder(c) == orders' = Append(orders, c) /\ c.executor # 0 /\ c.executor = route'[c.request].executor

LEMMA BridgeKeeps ==
  ASSUME OnceInv, UNCHANGED <<executor, heard>>, Owners,
         UNCHANGED orders \/ \E c \in ASide : OneOrder(c)
  PROVE  OnceInv'
<1>1. \A r \in RelayNumbers : route'[r].executor \in 0..executor.instance
  BY DEF OnceInv, OnceTyped, Owners
<1>2. \A r \in RelayNumbers : Relay!Routed(r) => route'[r].executor = route[r].executor
  BY DEF Owners
<1>3. orders \in Seq(ASide) /\ \A n \in 1..Len(orders) : orders[n] \in ASide
  <2>1. orders \in Seq(ASide) BY DEF OnceInv, OnceTyped
  <2> QED BY <2>1
<1>4. \A n \in 1..Len(orders) :
        orders[n].executor # 0 /\ orders[n].executor = route'[orders[n].request].executor
  <2> SUFFICES ASSUME NEW n \in 1..Len(orders)
      PROVE  orders[n].executor # 0 /\ orders[n].executor = route'[orders[n].request].executor
    OBVIOUS
  <2>1. orders[n].request \in RelayNumbers BY <1>3 DEF ASide
  <2>2. orders[n].executor # 0 /\ orders[n].executor = route[orders[n].request].executor
    BY DEF OnceInv, OrdersAreOwned
  <2> QED BY <1>2, <2>1, <2>2 DEF Relay!Routed
<1>5. /\ orders' \in Seq(ASide)
      /\ \A n \in 1..Len(orders') :
           orders'[n].executor # 0 /\ orders'[n].executor = route'[orders'[n].request].executor
  <2>1. CASE UNCHANGED orders
    BY <1>3, <1>4, <2>1
  <2>2. ASSUME NEW c \in ASide, OneOrder(c)
        PROVE  /\ orders' \in Seq(ASide)
               /\ \A n \in 1..Len(orders') :
                    orders'[n].executor # 0 /\ orders'[n].executor = route'[orders'[n].request].executor
    <3>1. /\ orders' \in Seq(ASide) /\ Len(orders') = Len(orders) + 1 /\ Len(orders) \in Nat
          /\ \A n \in 1..Len(orders) : orders'[n] = orders[n]
          /\ orders'[Len(orders) + 1] = c
      BY <1>3, <2>2 DEF OneOrder
    <3>2. \A n \in 1..Len(orders') : n \in 1..Len(orders) \/ n = Len(orders) + 1
      BY <3>1
    <3> QED BY <1>4, <2>2, <3>1, <3>2 DEF OneOrder
  <2> QED BY <2>1, <2>2
<1>6. OnceTyped'
  BY <1>1, <1>5 DEF OnceInv, OnceTyped, ExecutorShape, Owners
<1>7. OrdersAreOwned'
  BY <1>5 DEF OrdersAreOwned, Owners, Relay!Routed
<1>8. BegunByOwner'
  BY <1>2 DEF OnceInv, BegunByOwner, Relay!Routed
<1> QED BY <1>6, <1>7, <1>8 DEF OnceInv

\* What an event changes of a record, or a second look at it.
LEMMA RecordsKeep ==
  ASSUME OnceInv, UNCHANGED <<executor, heard, orders>>, RouteShape', link'.session \in Nat,
         \A r \in RelayNumbers : /\ route'[r].executor = route[r].executor
                                 /\ route'[r].recover => route[r].recover \/ Relay!Routed(r)
  PROVE  OnceInv'
<1>1. Owners
  BY DEF Owners, OnceInv, OrdersAreOwned, Relay!Routed
<1> QED BY <1>1, BridgeKeeps

LEMMA EventsKeep ==
  ASSUME OnceInv, Relay!TakeEvent \/ Relay!Retire \/ \E r \in RelayNumbers : Relay!Reread(r)
  PROVE  OnceInv'
<1>1. RouteShape /\ link.session \in Nat
  BY DEF OnceInv, OnceTyped
<1>2. CASE Relay!TakeEvent
  <2>1. UNCHANGED <<executor, heard, orders, link>>
    BY <1>2 DEF Relay!TakeEvent
  <2>2. UNCHANGED route \/ \E r, event : Relay!Observe(r, event)
    BY <1>2 DEF Relay!TakeEvent
  <2>3. ASSUME NEW r, NEW event, Relay!Observe(r, event)
        PROVE  RouteShape' /\ \A q \in RelayNumbers : /\ route'[q].executor = route[q].executor
                                                      /\ route'[q].recover = route[q].recover
    <3> DEFINE new == [[route[r] EXCEPT !.event = event] EXCEPT !.closed = Relay!IsClosed(r, event)]
    <3>1. UNCHANGED route \/ route' = [route EXCEPT ![r] = new]
      BY <2>3 DEF Relay!Observe
    <3>2. CASE UNCHANGED route \/ r \notin RelayNumbers
      <4>1. UNCHANGED route BY <1>1, <3>1, <3>2 DEF RouteShape
      <4> QED BY <1>1, <4>1 DEF RouteShape
    <3>3. CASE r \in RelayNumbers /\ route' = [route EXCEPT ![r] = new]
      <4>1. IsRecord(route[r])
        BY <1>1, <3>3 DEF RouteShape
      <4>2. IsRecord(new) /\ new.executor = route[r].executor /\ new.recover = route[r].recover
        <5> DEFINE first == [route[r] EXCEPT !.event = event]
        <5>1. IsRecord(first) /\ first.executor = route[r].executor /\ first.recover = route[r].recover
          BY <4>1, RecordFacts
        <5> HIDE DEF first
        <5>2. /\ IsRecord([first EXCEPT !.closed = Relay!IsClosed(r, event)])
              /\ [first EXCEPT !.closed = Relay!IsClosed(r, event)].executor = first.executor
              /\ [first EXCEPT !.closed = Relay!IsClosed(r, event)].recover = first.recover
          BY <5>1, RecordFacts
        <5> QED BY <5>1, <5>2 DEF first
      <4> HIDE DEF new
      <4>3. RouteShape' /\ route'[r] = new /\ \A q \in RelayNumbers : q # r => route'[q] = route[q]
        BY <1>1, <3>3, <4>2, OneRecord
      <4> QED BY <4>2, <4>3
    <3> QED BY <3>1, <3>2, <3>3
  <2>4. RouteShape' /\ \A q \in RelayNumbers : /\ route'[q].executor = route[q].executor
                                               /\ route'[q].recover = route[q].recover
    BY <1>1, <2>2, <2>3 DEF RouteShape
  <2> QED BY <1>1, <2>1, <2>4, RecordsKeep
<1>3. CASE Relay!Retire
  <2>1. UNCHANGED <<executor, heard, orders>> /\ link'.session \in Nat
    BY <1>1, <1>3 DEF Relay!Retire, TextInv, TextTyped
  <2>2. ASSUME NEW r \in RelayNumbers
        PROVE  /\ IsRecord(route'[r]) /\ route'[r].executor = route[r].executor
               /\ route'[r].recover => route[r].recover \/ Relay!Routed(r)
    <3>1. IsRecord(route[r])
      BY <1>1 DEF RouteShape
    <3>2. PICK k : route'[r] = [route[r] EXCEPT !.recover = k] /\ (k = route[r].recover \/ Relay!Routed(r))
      BY <1>3 DEF Relay!Retire
    <3>3. /\ IsRecord([route[r] EXCEPT !.recover = k])
          /\ [route[r] EXCEPT !.recover = k].executor = route[r].executor
          /\ [route[r] EXCEPT !.recover = k].recover = k
      BY <3>1, RecordFacts
    <3> QED BY <3>2, <3>3
  <2>3. RouteShape'
    <3>1. route' = [r \in RelayNumbers |-> route'[r]]
      BY <1>3 DEF Relay!Retire
    <3> QED BY <2>2, <3>1 DEF RouteShape
  <2> QED BY <2>1, <2>2, <2>3, RecordsKeep
<1>4. ASSUME NEW r \in RelayNumbers, Relay!Reread(r) PROVE OnceInv'
  <2>1. UNCHANGED <<executor, heard, orders, link>> /\ Relay!Routed(r)
        /\ route' = [route EXCEPT ![r].recover = TRUE]
    BY <1>4 DEF Relay!Reread
  <2>2. IsRecord(route[r]) BY <1>1 DEF RouteShape
  <2>3. /\ RouteShape' /\ route'[r] = [route[r] EXCEPT !.recover = TRUE]
        /\ \A q \in RelayNumbers : q # r => route'[q] = route[q]
    <3> DEFINE new == [route[r] EXCEPT !.recover = TRUE]
    <3>1. IsRecord(new) BY <2>2, RecordFacts
    <3>2. route' = [route EXCEPT ![r] = new] BY <2>1
    <3> HIDE DEF new
    <3>3. RouteShape' /\ route'[r] = new /\ \A q \in RelayNumbers : q # r => route'[q] = route[q]
      BY <1>1, <3>1, <3>2, OneRecord
    <3> QED BY <3>3 DEF new
  <2> QED BY <1>1, <2>1, <2>2, <2>3, RecordFacts, RecordsKeep
<1> QED BY <1>2, <1>3, <1>4

\* A request of the ground: a new record is of the executor that the bridge knows.
LEMMA AskKeeps ==
  ASSUME TextInv, OnceInv, NEW r \in RelayNumbers, Relay!Ask(r)
  PROVE  OnceInv'
<1>1. RouteShape /\ link.session \in Nat /\ heard.executor \in Nat \ {0}
  BY DEF OnceInv, OnceTyped
<1>2. UNCHANGED <<executor, heard, link>> /\ Relay!Forward(r)
  BY DEF Relay!Ask
<1> DEFINE record == IF Relay!Routed(r) THEN route[r]
                     ELSE [Relay!NoRoute EXCEPT !.executor = heard.executor, !.session = link.session]
<1>3. IsRecord(record) /\ record.executor = Relay!Owner(r)
  <2>1. CASE Relay!Routed(r)
    BY <1>1, <2>1 DEF Relay!Owner, RouteShape
  <2>2. CASE ~Relay!Routed(r)
    <3>1. record = [executor |-> heard.executor, session |-> link.session, event |-> Relay!NoEvent,
                    closed |-> FALSE, recover |-> FALSE]
      BY <2>2 DEF Relay!NoRoute
    <3> QED BY <2>2, <3>1 DEF Relay!Owner, IsRecord
  <2> QED BY <2>1, <2>2
<1>4. /\ Relay!Owner(r) # 0
      /\ \/ Relay!Owner(r) = route[r].executor
         \/ ~Relay!Routed(r) /\ Relay!Owner(r) = heard.executor
  <2>1. heard.executor # 0 BY <1>1
  <2> QED BY <2>1 DEF Relay!Owner, Relay!Routed
<1>5. PICK new : route' = [route EXCEPT ![r] = new] /\ IsRecord(new) /\ new.executor = Relay!Owner(r)
  <2>1. CASE Relay!Owner(r) # heard.executor
    <3>1. PICK event : route' = [route EXCEPT ![r] = [[record EXCEPT !.event = event] EXCEPT !.closed = TRUE]]
      BY <1>2, <2>1 DEF Relay!Forward
    <3> HIDE DEF record
    <3> DEFINE first == [record EXCEPT !.event = event]
    <3>2. IsRecord(first) /\ first.executor = record.executor
      BY <1>3, RecordFacts
    <3> HIDE DEF first
    <3>3. IsRecord([first EXCEPT !.closed = TRUE]) /\ [first EXCEPT !.closed = TRUE].executor = first.executor
      BY <3>2, RecordFacts
    <3> QED BY <1>3, <3>1, <3>2, <3>3 DEF first
  <2>2. CASE Relay!Owner(r) = heard.executor
    <3>1. route' = [route EXCEPT ![r] = [[record EXCEPT !.session = link.session] EXCEPT !.recover = FALSE]]
      BY <1>2, <2>2 DEF Relay!Forward
    <3> HIDE DEF record
    <3> DEFINE first == [record EXCEPT !.session = link.session]
    <3>2. IsRecord(first) /\ first.executor = record.executor
      BY <1>3, RecordFacts
    <3> HIDE DEF first
    <3>3. IsRecord([first EXCEPT !.recover = FALSE])
          /\ [first EXCEPT !.recover = FALSE].executor = first.executor
      BY <3>2, RecordFacts
    <3> QED BY <1>3, <3>1, <3>2, <3>3 DEF first
  <2> QED BY <2>1, <2>2
<1>6. RouteShape' /\ route'[r] = new /\ \A q \in RelayNumbers : q # r => route'[q] = route[q]
  BY <1>1, <1>5, OneRecord
<1>7. Owners
  BY <1>1, <1>2, <1>4, <1>5, <1>6 DEF Owners, OnceInv, OrdersAreOwned, Relay!Routed
<1>8. UNCHANGED orders \/ \E c \in ASide : OneOrder(c)
  <2>1. CASE Relay!Owner(r) # heard.executor
    BY <1>2, <2>1 DEF Relay!Forward
  <2>2. CASE Relay!Owner(r) = heard.executor
    <3> DEFINE c == [executor |-> Relay!Owner(r), request |-> r, session |-> link.session, only |-> FALSE]
    <3>1. orders' = Append(orders, c)
      BY <1>2, <2>2 DEF Relay!Forward, Relay!ToExecutor
    <3>2. c \in ASide
      BY <1>1, <2>2 DEF ASide
    <3> QED BY <1>4, <1>5, <1>6, <3>1, <3>2 DEF OneOrder
  <2> QED BY <2>1, <2>2
<1> QED BY <1>2, <1>7, <1>8, BridgeKeeps

\* A query for what was lost with a session: it goes to the owner.
LEMMA RecoverKeeps ==
  ASSUME OnceInv, NEW r \in RelayNumbers, Relay!Recover(r)
  PROVE  OnceInv'
<1>1. RouteShape /\ link.session \in Nat /\ route[r].executor \in Nat
  BY DEF OnceInv, OnceTyped
<1>2. UNCHANGED <<executor, heard, link>> /\ Relay!Routed(r)
  BY DEF Relay!Recover, OnceInv, OrdersAreOwned
<1>3. RouteShape' /\ \A q \in RelayNumbers :
        route'[q].executor = route[q].executor /\ (q # r => route'[q].recover = route[q].recover)
  <2> DEFINE new == [[route[r] EXCEPT !.session = link.session] EXCEPT !.recover = FALSE]
  <2>1. IsRecord(route[r]) BY <1>1 DEF RouteShape
  <2>2. IsRecord(new) /\ new.executor = route[r].executor
    <3> DEFINE first == [route[r] EXCEPT !.session = link.session]
    <3>1. IsRecord(first) /\ first.executor = route[r].executor BY <2>1, RecordFacts
    <3> HIDE DEF first
    <3>2. IsRecord([first EXCEPT !.recover = FALSE])
          /\ [first EXCEPT !.recover = FALSE].executor = first.executor
      BY <3>1, RecordFacts
    <3> QED BY <3>1, <3>2 DEF first
  <2>3. route' = [route EXCEPT ![r] = new] BY DEF Relay!Recover
  <2> HIDE DEF new
  <2> QED BY <1>1, <2>2, <2>3, OneRecord
<1>4. Owners
  BY <1>1, <1>2, <1>3 DEF Owners, OnceInv, OrdersAreOwned, Relay!Routed
<1> DEFINE c == [executor |-> route[r].executor, request |-> r, session |-> link.session, only |-> TRUE]
<1>5. c \in ASide /\ orders' = Append(orders, c)
  BY <1>1 DEF ASide, Relay!Recover, Relay!ToExecutor
<1> QED BY <1>2, <1>3, <1>4, <1>5, BridgeKeeps DEF OneOrder, Relay!Routed

\* The queue of orders without the first: they have their owners still.
LEMMA OrdersLeft ==
  ASSUME OnceInv, UNCHANGED route, UNCHANGED orders \/ (orders # <<>> /\ orders' = Tail(orders))
  PROVE  /\ orders' \in Seq(ASide)
         /\ \A n \in 1..Len(orders') :
              orders'[n].executor # 0 /\ orders'[n].executor = route[orders'[n].request].executor
<1>1. orders \in Seq(ASide) /\ \A n \in 1..Len(orders) :
        orders[n].executor # 0 /\ orders[n].executor = route[orders[n].request].executor
  BY DEF OnceInv, OnceTyped, OrdersAreOwned
<1>2. CASE orders # <<>> /\ orders' = Tail(orders)
  <2>1. /\ orders' \in Seq(ASide)
        /\ \A n \in 1..Len(orders') : n + 1 \in 1..Len(orders) /\ orders'[n] = orders[n + 1]
    BY <1>1, <1>2, TailFacts
  <2> QED BY <1>1, <2>1
<1> QED BY <1>1, <1>2

\* The executor: what it reports leaves what it has begun and admitted alone.
LEMMA ExecutorKeeps ==
  ASSUME OnceInv, UNCHANGED <<route, heard, link>>, ExecutorShape',
         UNCHANGED orders \/ (orders # <<>> /\ orders' = Tail(orders)),
         UNCHANGED <<executor.instance, executor.begun>>,
         \A r \in RelayNumbers : executor'.ledger[r].admitted = executor.ledger[r].admitted
  PROVE  OnceInv'
<1>1. /\ orders' \in Seq(ASide)
      /\ \A n \in 1..Len(orders') :
           orders'[n].executor # 0 /\ orders'[n].executor = route[orders'[n].request].executor
  BY OrdersLeft
<1>2. OnceTyped'
  BY <1>1 DEF OnceInv, OnceTyped, RouteShape
<1>3. OrdersAreOwned'
  BY <1>1 DEF OnceInv, OrdersAreOwned, Relay!Routed
<1>4. BegunByOwner'
  BY DEF OnceInv, BegunByOwner, Relay!Routed
<1> QED BY <1>2, <1>3, <1>4 DEF OnceInv

IsLedgerRecord(x) == x = [event |-> x.event, reply |-> x.reply, admitted |-> x.admitted]

\* A record of the executor's ledger gets another event, or another session to reply to.
LEMMA FieldFacts ==
  ASSUME NEW x, NEW i, NEW s, NEW l, NEW b,
         x = [instance |-> i, session |-> s, ledger |-> l, begun |-> b]
  PROVE  /\ x.instance = i /\ x.session = s /\ x.ledger = l /\ x.begun = b
         /\ x = [instance |-> i, session |-> s, ledger |-> x.ledger, begun |-> x.begun]
OBVIOUS

LEMMA LedgerFacts ==
  ASSUME OnceInv, NEW r \in RelayNumbers, NEW record, IsLedgerRecord(record),
         executor' = [executor EXCEPT !.ledger = [executor.ledger EXCEPT ![r] = record]]
  PROVE  /\ ExecutorShape' /\ executor'.instance = executor.instance /\ executor'.begun = executor.begun
         /\ executor'.ledger[r] = record
         /\ \A q \in RelayNumbers : q # r => executor'.ledger[q] = executor.ledger[q]
<1>1. /\ executor = [instance |-> executor.instance, session |-> executor.session,
                     ledger |-> executor.ledger, begun |-> executor.begun]
      /\ executor.ledger = [q \in RelayNumbers |-> executor.ledger[q]]
      /\ \A q \in RelayNumbers : IsLedgerRecord(executor.ledger[q])
  BY DEF OnceInv, OnceTyped, ExecutorShape, IsLedgerRecord
<1>2. executor' = [instance |-> executor.instance, session |-> executor.session,
                   ledger |-> [executor.ledger EXCEPT ![r] = record], begun |-> executor.begun]
  BY <1>1
<1>3. [executor.ledger EXCEPT ![r] = record] = [q \in RelayNumbers |-> IF q = r THEN record ELSE executor.ledger[q]]
  BY <1>1
<1>4. /\ executor'.ledger = [q \in RelayNumbers |-> IF q = r THEN record ELSE executor.ledger[q]]
      /\ executor'.instance = executor.instance /\ executor'.begun = executor.begun
      /\ executor'.session = executor.session
  BY <1>2, <1>3
<1>5. /\ executor'.ledger[r] = record
      /\ \A q \in RelayNumbers : q # r => executor'.ledger[q] = executor.ledger[q]
      /\ executor'.ledger = [q \in RelayNumbers |-> executor'.ledger[q]]
  BY <1>4
<1>6. \A q \in RelayNumbers : IsLedgerRecord(executor'.ledger[q])
  BY <1>1, <1>5
<1>7. ExecutorShape'
  <2>1. executor' = [instance |-> executor'.instance, session |-> executor'.session,
                     ledger |-> executor'.ledger, begun |-> executor'.begun]
    BY <1>2
  <2> QED BY <1>5, <1>6, <2>1 DEF ExecutorShape, IsLedgerRecord
<1> QED BY <1>4, <1>5, <1>7

LEMMA ReplyFacts ==
  ASSUME NEW x, NEW v, IsLedgerRecord(x)
  PROVE  /\ IsLedgerRecord([x EXCEPT !.event = v]) /\ [x EXCEPT !.event = v].admitted = x.admitted
         /\ IsLedgerRecord([x EXCEPT !.reply = v]) /\ [x EXCEPT !.reply = v].admitted = x.admitted
<1>1. PICK e, w, d : x = [event |-> e, reply |-> w, admitted |-> d]
  BY DEF IsLedgerRecord
<1>2. [x EXCEPT !.event = v] = [event |-> v, reply |-> w, admitted |-> d]
  BY <1>1
<1>3. [x EXCEPT !.reply = v] = [event |-> e, reply |-> v, admitted |-> d]
  BY <1>1
<1> QED BY <1>1, <1>2, <1>3 DEF IsLedgerRecord

\* A report or a reply changes neither what was admitted nor what was begun.
LEMMA ReportKeeps ==
  ASSUME OnceInv, NEW r \in RelayNumbers, NEW event, NEW session,
         \/ executor' = [executor EXCEPT !.ledger[r].event = event]
         \/ executor' = [executor EXCEPT !.ledger[r].reply = session]
         \/ executor' = [executor EXCEPT !.ledger[r].event = event, !.ledger[r].reply = session]
  PROVE  /\ ExecutorShape' /\ UNCHANGED <<executor.instance, executor.begun>>
         /\ \A q \in RelayNumbers : executor'.ledger[q].admitted = executor.ledger[q].admitted
<1>1. IsLedgerRecord(executor.ledger[r]) /\ r \in DOMAIN executor.ledger
  BY DEF OnceInv, OnceTyped, ExecutorShape, IsLedgerRecord
<1>2. executor = [instance |-> executor.instance, session |-> executor.session,
                  ledger |-> executor.ledger, begun |-> executor.begun]
  BY DEF OnceInv, OnceTyped, ExecutorShape
<1> DEFINE old == executor.ledger[r]
           Becomes(x) == executor' = [executor EXCEPT !.ledger = [executor.ledger EXCEPT ![r] = x]]
<1>3. PICK record : Becomes(record) /\ IsLedgerRecord(record) /\ record.admitted = old.admitted
  <2>1. CASE executor' = [executor EXCEPT !.ledger[r].event = event]
    <3>1. Becomes([old EXCEPT !.event = event]) BY <2>1
    <3> QED BY <1>1, <3>1, ReplyFacts
  <2>2. CASE executor' = [executor EXCEPT !.ledger[r].reply = session]
    <3>1. Becomes([old EXCEPT !.reply = session]) BY <2>2
    <3> QED BY <1>1, <3>1, ReplyFacts
  <2>3. CASE executor' = [executor EXCEPT !.ledger[r].event = event, !.ledger[r].reply = session]
    <3>1. PICK first : first = [old EXCEPT !.event = event]
      OBVIOUS
    <3>2. IsLedgerRecord(first) /\ first.admitted = old.admitted
      BY <1>1, <3>1, ReplyFacts
    <3>3. PICK middle : middle = [executor.ledger EXCEPT ![r] = first]
      OBVIOUS
    <3>4. PICK begun : begun = [executor EXCEPT !.ledger = middle]
      OBVIOUS
    <3>5. executor' = [begun EXCEPT !.ledger[r].reply = session]
      BY <2>3, <3>1, <3>3, <3>4
    <3>6. begun = [instance |-> executor.instance, session |-> executor.session,
                   ledger |-> middle, begun |-> executor.begun]
      BY <1>2, <3>4
    <3>7. executor' = [instance |-> executor.instance, session |-> executor.session,
                       ledger |-> [middle EXCEPT ![r] = [middle[r] EXCEPT !.reply = session]],
                       begun |-> executor.begun]
      BY <3>5, <3>6
    <3>8. middle[r] = first
      BY <1>1, <3>3
    <3>9. PICK second : second = [first EXCEPT !.reply = session]
      OBVIOUS
    <3>10. [middle EXCEPT ![r] = second] = [executor.ledger EXCEPT ![r] = second]
      BY <1>1, <3>3
    <3>11. executor' = [instance |-> executor.instance, session |-> executor.session,
                        ledger |-> [executor.ledger EXCEPT ![r] = second], begun |-> executor.begun]
      BY <3>7, <3>8, <3>9, <3>10
    <3>12. Becomes(second)
      BY <1>2, <3>11
    <3>13. IsLedgerRecord(second) /\ second.admitted = first.admitted
      BY <3>2, <3>9, ReplyFacts
    <3> QED BY <3>2, <3>12, <3>13
  <2> QED BY <2>1, <2>2, <2>3
<1>4. /\ ExecutorShape' /\ executor'.instance = executor.instance /\ executor'.begun = executor.begun
      /\ executor'.ledger[r] = record
      /\ \A q \in RelayNumbers : q # r => executor'.ledger[q] = executor.ledger[q]
  BY <1>3, LedgerFacts
<1> QED BY <1>3, <1>4

LEMMA WorkKeeps ==
  ASSUME OnceInv, NEW r \in RelayNumbers, Relay!Work(r)
  PROVE  OnceInv'
<1>1. UNCHANGED <<route, heard, link, orders>>
  BY DEF Relay!Work, Relay!bridgeVars
<1>2. PICK event : executor' = [executor EXCEPT !.ledger[r].event = event]
  BY DEF Relay!Work, Relay!Report
<1> QED BY <1>1, <1>2, ReportKeeps, ExecutorKeeps

\* What is begun is admitted.
Begins(r, reply) ==
  executor' = [executor EXCEPT !.begun[r] = @ + 1,
                 !.ledger[r] = [event |-> Relay!NoEvent, reply |-> reply, admitted |-> TRUE]]

\* The executor begins what the first order in the queue asks for.
LEMMA BeginsOnce ==
  ASSUME OnceInv, orders # <<>>, orders' = Tail(orders), UNCHANGED <<route, heard, link>>,
         NEW r \in RelayNumbers, r = Head(orders).request, Head(orders).executor = executor.instance,
         ~executor.ledger[r].admitted, NEW reply, Begins(r, reply)
  PROVE  OnceInv'
<1>0. /\ executor = [instance |-> executor.instance, session |-> executor.session,
                     ledger |-> executor.ledger, begun |-> executor.begun]
      /\ executor.begun \in [RelayNumbers -> Nat]
  BY DEF OnceInv, OnceTyped, ExecutorShape
<1>1. executor.instance \in Nat /\ executor.instance # 0
  BY DEF OnceInv, OnceTyped
<1> DEFINE record == [event |-> Relay!NoEvent, reply |-> reply, admitted |-> TRUE]
<1>2. route[r].executor = executor.instance
  <2>1. /\ orders \in Seq(ASide)
        /\ \A n \in 1..Len(orders) : orders[n].executor = route[orders[n].request].executor
    BY DEF OnceInv, OnceTyped, OrdersAreOwned
  <2>2. Head(orders) = orders[1] /\ 1 \in 1..Len(orders)
    BY <2>1, TailFacts
  <2> QED BY <2>1, <2>2
<1>3. executor.begun[r] = 0
  BY <1>1, <1>2 DEF OnceInv, BegunByOwner
<1>4. /\ executor' = [instance |-> executor.instance, session |-> executor.session,
                      ledger |-> executor'.ledger, begun |-> executor'.begun]
      /\ executor'.ledger = [executor.ledger EXCEPT ![r] = record]
      /\ executor'.begun = [executor.begun EXCEPT ![r] = 1]
  <2> HIDE DEF record
  <2>1. PICK more : more = [executor.begun EXCEPT ![r] = executor.begun[r] + 1]
    OBVIOUS
  <2>2. PICK middle : middle = [executor EXCEPT !.begun = more]
    OBVIOUS
  <2>3. executor' = [middle EXCEPT !.ledger[r] = record]
    BY <2>1, <2>2 DEF record, Begins
  <2>4. middle = [instance |-> executor.instance, session |-> executor.session,
                  ledger |-> executor.ledger, begun |-> more]
    BY <1>0, <2>2
  <2>5. PICK kept : kept = [executor.ledger EXCEPT ![r] = record]
    OBVIOUS
  <2>6. executor' = [instance |-> executor.instance, session |-> executor.session,
                     ledger |-> kept, begun |-> more]
    BY <2>3, <2>4, <2>5
  <2>7. more = [executor.begun EXCEPT ![r] = 1]
    BY <1>3, <2>1
  <2>8. /\ executor'.ledger = kept /\ executor'.begun = more
        /\ executor' = [instance |-> executor.instance, session |-> executor.session,
                        ledger |-> executor'.ledger, begun |-> executor'.begun]
    BY <2>6, FieldFacts
  <2> QED BY <2>5, <2>7, <2>8
<1>5. /\ executor'.begun \in [RelayNumbers -> Nat] /\ executor'.begun[r] = 1
      /\ \A q \in RelayNumbers : q # r => executor'.begun[q] = executor.begun[q]
  BY <1>0, <1>4
<1>6. /\ executor.ledger = [q \in RelayNumbers |-> executor.ledger[q]]
      /\ \A q \in RelayNumbers : IsLedgerRecord(executor.ledger[q])
  BY DEF OnceInv, OnceTyped, ExecutorShape, IsLedgerRecord
<1>7. /\ executor'.ledger = [q \in RelayNumbers |-> executor'.ledger[q]]
      /\ executor'.ledger[r] = record
      /\ \A q \in RelayNumbers : q # r => executor'.ledger[q] = executor.ledger[q]
  <2> HIDE DEF record
  <2>1. executor'.ledger = [executor.ledger EXCEPT ![r] = record]
    BY <1>4
  <2>2. executor'.ledger = [q \in RelayNumbers |-> IF q = r THEN record ELSE executor.ledger[q]]
    BY <1>6, <2>1
  <2> QED BY <2>2
<1>8. ExecutorShape'
  <2>1. \A q \in RelayNumbers : IsLedgerRecord(executor'.ledger[q])
    BY <1>6, <1>7 DEF IsLedgerRecord
  <2>2. executor' = [instance |-> executor'.instance, session |-> executor'.session,
                     ledger |-> executor'.ledger, begun |-> executor'.begun]
    BY <1>4
  <2> QED BY <1>7, <2>1, <2>2 DEF ExecutorShape, IsLedgerRecord
<1>9. UNCHANGED executor.instance
  BY <1>4
<1>10. orders' \in Seq(ASide) /\ OrdersAreOwned'
  BY OrdersLeft DEF OrdersAreOwned, OnceInv, Relay!Routed
<1>11. OnceTyped'
  BY <1>5, <1>8, <1>9, <1>10 DEF OnceInv, OnceTyped, RouteShape
<1>12. BegunByOwner'
  <2>1. Relay!Routed(r)
    BY <1>1, <1>2 DEF Relay!Routed
  <2>2. executor'.ledger[r].admitted
    BY <1>7
  <2> QED BY <1>2, <1>5, <1>7, <1>9, <2>1, <2>2 DEF OnceInv, BegunByOwner, Relay!Routed
<1> QED BY <1>10, <1>11, <1>12 DEF OnceInv


LEMMA TakeKeeps ==
  ASSUME OnceInv, Relay!TakeCommand
  PROVE  OnceInv'
<1>1. /\ UNCHANGED <<route, heard, link>> /\ orders # <<>> /\ orders' = Tail(orders)
  BY DEF Relay!TakeCommand, Relay!bridgeVars
<1> DEFINE c == Head(orders)
           r == c.request
<1>2. r \in RelayNumbers
  <2>1. orders \in Seq(ASide) BY DEF OnceInv, OnceTyped
  <2>2. c \in ASide BY <1>1, <2>1, TailFacts
  <2> QED BY <2>2 DEF ASide
<1>3. CASE UNCHANGED executor
  BY <1>1, <1>3, ExecutorKeeps DEF OnceInv, OnceTyped, ExecutorShape
<1>4. CASE \E event, session :
             \/ executor' = [executor EXCEPT !.ledger[r].event = event]
             \/ executor' = [executor EXCEPT !.ledger[r].reply = session]
             \/ executor' = [executor EXCEPT !.ledger[r].event = event, !.ledger[r].reply = session]
  <2>1. /\ ExecutorShape' /\ UNCHANGED <<executor.instance, executor.begun>>
        /\ \A q \in RelayNumbers : executor'.ledger[q].admitted = executor.ledger[q].admitted
    BY <1>2, <1>4, ReportKeeps
  <2> QED BY <1>1, <2>1, ExecutorKeeps
<1>5. CASE /\ c.executor = executor.instance /\ ~executor.ledger[r].admitted
           /\ Begins(r, c.session)
  BY <1>1, <1>2, <1>5, BeginsOnce
<1>6. \/ UNCHANGED executor
      \/ \E event, session :
             \/ executor' = [executor EXCEPT !.ledger[r].event = event]
             \/ executor' = [executor EXCEPT !.ledger[r].reply = session]
             \/ executor' = [executor EXCEPT !.ledger[r].event = event, !.ledger[r].reply = session]
      \/ /\ c.executor = executor.instance /\ ~executor.ledger[r].admitted
         /\ Begins(r, c.session)
  <2> DEFINE mine == executor.ledger[r]
             Told == \E event, session :
               \/ executor' = [executor EXCEPT !.ledger[r].event = event]
               \/ executor' = [executor EXCEPT !.ledger[r].reply = session]
               \/ executor' = [executor EXCEPT !.ledger[r].event = event, !.ledger[r].reply = session]
  <2>1. CASE c.session # executor.session
    BY <2>1 DEF Relay!TakeCommand
  <2>2. CASE c.session = executor.session /\ ~Relay!OfMine(c)
    <3>1. \/ UNCHANGED executor
          \/ \E session : executor' = [executor EXCEPT !.ledger[r].event = Relay!Refusal(mine.event.seq + 1),
                                                       !.ledger[r].reply = session]
      BY <2>2 DEF Relay!TakeCommand
    <3> QED BY <3>1
  <2>3. CASE c.session = executor.session /\ Relay!OfMine(c)
    <3>1. \/ UNCHANGED executor \/ Relay!Replay(c)
          \/ /\ ~mine.admitted
             /\ Begins(r, c.session)
      BY <2>3 DEF Relay!TakeCommand, Begins
    <3>2. Relay!Replay(c) => Told
      BY DEF Relay!Replay
    <3> QED BY <2>3, <3>1, <3>2 DEF Relay!OfMine
  <2> QED BY <2>1, <2>2, <2>3
<1> QED BY <1>3, <1>4, <1>5, <1>6

\* Another session for the executor, its announcement, and its successor.
LEMMA NewsKeep ==
  ASSUME OnceInv, Relay!TakeSession \/ Relay!TakeProtocol \/ Relay!Restart
  PROVE  OnceInv'
<1>0. executor = [instance |-> executor.instance, session |-> executor.session,
                  ledger |-> executor.ledger, begun |-> executor.begun]
  BY DEF OnceInv, OnceTyped, ExecutorShape
<1>1. CASE Relay!TakeSession
  <2>1. UNCHANGED <<route, heard, link, orders>>
    BY <1>1 DEF Relay!TakeSession, Relay!bridgeVars
  <2>2. PICK s : executor' = [executor EXCEPT !.session = s]
    BY <1>1 DEF Relay!TakeSession
  <2>3. executor' = [instance |-> executor.instance, session |-> s,
                     ledger |-> executor.ledger, begun |-> executor.begun]
    BY <1>0, <2>2
  <2>4. ExecutorShape'
    BY <2>3 DEF OnceInv, OnceTyped, ExecutorShape
  <2> QED BY <2>1, <2>3, <2>4, ExecutorKeeps
<1>2. CASE Relay!TakeProtocol
  <2>1. UNCHANGED <<executor, route, link, orders>> /\ heard'.executor = executor.instance
    BY <1>2 DEF Relay!TakeProtocol, Relay!bridgeVars
  <2>2. executor.instance \in 1..executor.instance
    BY DEF OnceInv, OnceTyped
  <2> QED BY <2>1, <2>2 DEF OnceInv, OnceTyped, RouteShape, ExecutorShape, OrdersAreOwned, BegunByOwner,
    Relay!Routed
<1>3. CASE Relay!Restart
  <2>1. UNCHANGED <<route, heard, link, orders>>
    BY <1>3 DEF Relay!Restart, Relay!bridgeVars
  <2>2. executor' = [instance |-> executor.instance + 1, session |-> 0,
                     ledger |-> [r \in RelayNumbers |-> Relay!NoRecord], begun |-> executor.begun]
    BY <1>0, <1>3 DEF Relay!Restart
  <2>3. ExecutorShape'
    BY <2>2 DEF ExecutorShape, Relay!NoRecord
  <2>4. OnceTyped'
    BY <2>1, <2>2, <2>3 DEF OnceInv, OnceTyped, RouteShape
  <2>5. OrdersAreOwned'
    BY <2>1 DEF OnceInv, OrdersAreOwned, Relay!Routed
  <2>6. BegunByOwner'
    BY <2>1, <2>2 DEF OnceInv, OnceTyped, BegunByOwner, Relay!Routed
  <2> QED BY <2>4, <2>5, <2>6 DEF OnceInv
<1> QED BY <1>1, <1>2, <1>3

LEMMA OnceKept ==
  ASSUME TextInv, OnceInv, [Relay!Next]_(Relay!vars)
  PROVE  OnceInv'
<1>1. CASE Relay!TakeEvent \/ Relay!Retire \/ \E r \in RelayNumbers : Relay!Reread(r)
  BY <1>1, EventsKeep
<1>2. CASE Relay!TakeCommand
  BY <1>2, TakeKeeps
<1>3. CASE Relay!TakeSession \/ Relay!TakeProtocol \/ Relay!Restart
  BY <1>3, NewsKeep
<1>4. ASSUME NEW r \in RelayNumbers, Relay!Ask(r) \/ Relay!Recover(r) \/ Relay!Work(r)
      PROVE  OnceInv'
  BY <1>4, AskKeeps, RecoverKeeps, WorkKeeps
<1>5. CASE \/ Relay!Begin \/ Relay!Second \/ Relay!SendChunk \/ Relay!SendLog \/ Relay!Expire
           \/ Relay!Sever \/ Relay!Reconnect \/ UNCHANGED Relay!vars
  <2>1. UNCHANGED <<executor, heard, orders, route>>
    BY <1>5 DEF Relay!Begin, Relay!Second, Relay!SendChunk, Relay!SendLog, Relay!Expire, Relay!Sever,
      Relay!Reconnect, Relay!vars, Relay!bridgeVars
  <2>2. link'.session \in Nat
    <3>1. link.session \in Nat /\ link = [session |-> link.session, state |-> link.state]
      BY DEF OnceInv, OnceTyped, TextInv, TextTyped
    <3>2. UNCHANGED link \/ Relay!Sever \/ Relay!Reconnect
      BY <1>5 DEF Relay!Begin, Relay!Second, Relay!SendChunk, Relay!SendLog, Relay!Expire, Relay!vars
    <3> QED BY <3>1, <3>2 DEF Relay!Sever, Relay!Reconnect
  <2>3. RouteShape'
    BY <2>1 DEF OnceInv, OnceTyped, RouteShape
  <2> QED BY <2>1, <2>2, <2>3, RecordsKeep
<1> QED BY <1>1, <1>2, <1>3, <1>4, <1>5 DEF Relay!Next

(***************************************************************************)
(* Trouble on the way neither mixes the chunks of events nor begins a      *)
(* request anew: for any numbers, chunks, table of events and identifiers, *)
(* through any losses of the session and restarts of the executor.         *)
(***************************************************************************)
THEOREM RelayTrue == PartsSpec => []RelayIsTrue
<1> DEFINE Inv == part = "relay" => TextInv /\ OnceInv
<1>1. Start => Inv
  BY RelayAssumption, TextBegins, OnceBegins DEF Start
<1>2. Inv /\ [Step]_parts => Inv'
  <2>1. SUFFICES ASSUME Inv, [Step]_parts, part' = "relay" PROVE TextInv' /\ OnceInv'
    OBVIOUS
  <2>2. part = "relay" /\ (Relay!Next \/ UNCHANGED slots)
    BY <2>1 DEF Step, parts
  <2>3. [Relay!Next]_(Relay!vars)
    <3>1. CASE UNCHANGED slots
      BY <3>1 DEF slots, After7, After9, Relay!vars
    <3> QED BY <2>2, <3>1
  <2> QED BY <2>1, <2>2, <2>3, RelayAssumption, TextKept, OnceKept
<1>3. Inv => RelayIsTrue
  BY DEF TextInv, OnceInv, BegunByOwner, OnceTyped, RelayIsTrue, Relay!RelayIsTrue, Relay!BegunOnce
<1> QED BY <1>1, <1>2, <1>3, PTL DEF PartsSpec

-----------------------------------------------------------------------------
(* The vehicle's status: the names that VehicleStatus gives its variables; *)
(* clock and heardOf are now and told.                                     *)
clock == s1
topics == s2
missions == s3
data == s4
stepAt == s6
code == s7
codeAt == s8
valid == s11
taken == s12
cycle == s14
shown == s15
heardOf == s16
origin == s17
truth == s18
USE DEF clock, topics, missions, data, stepAt, code, codeAt, valid, taken, cycle, shown, heardOf, origin, truth

(***************************************************************************)
(* A reading is believed when it is taken within the limit of its time,    *)
(* and as long again after that: so what is told to be valid was so twice  *)
(* the limit ago at the most.  No time passes within a cycle.              *)
(***************************************************************************)
LimitIs == MaxAge \in Nat
Reading == [valid : Readings, at : Nat]
ReadingInv ==
  /\ clock \in Nat /\ data \in Seq(Reading) /\ taken \in Int /\ truth \in Int
  /\ valid => truth >= taken - MaxAge
  /\ cycle # <<>> => cycle[1].truth \in Int /\ (cycle[1].valid => cycle[1].truth >= clock - 2 * MaxAge)
  /\ Measured!ValidIsRecent

LEMMA ReadingBegins == Measured!Init => ReadingInv
BY DEF Measured!Init, ReadingInv, Measured!Never, Measured!ValidIsRecent

LEMMA ReadingTaken ==
  ASSUME ReadingInv, Measured!TakeData
  PROVE  ReadingInv'
<1>1. PICK m : m = Head(data)
  OBVIOUS
<1>2. m \in Reading /\ Tail(data) \in Seq(Reading)
  BY <1>1, TailFacts DEF ReadingInv, Measured!TakeData
<1>3. m.at \in Nat /\ MaxAge \in Nat /\ clock \in Nat /\ truth \in Int
  BY <1>2, StatusAssumption DEF Reading, ReadingInv, Measured!LimitAssumption
<1>4. /\ data' = Tail(data) /\ valid' = (m.valid /\ clock - m.at <= MaxAge) /\ taken' = clock
      /\ truth' = (IF valid' THEN m.at ELSE truth) /\ UNCHANGED <<clock, cycle, heardOf>>
  BY <1>1 DEF Measured!TakeData, Measured!statusVars, Measured!sentVars
<1>5. valid' => truth' >= taken' - MaxAge
  <2> SUFFICES ASSUME valid' PROVE truth' >= taken' - MaxAge
    OBVIOUS
  <2>1. clock - m.at <= MaxAge /\ truth' = m.at
    BY <1>4, Zenon
  <2>2. taken' = clock
    BY <1>4
  <2> QED BY <1>3, <2>1, <2>2
<1>6. Measured!ValidIsRecent'
  BY <1>4 DEF ReadingInv, Measured!ValidIsRecent
<1>7. truth' \in Int /\ taken' \in Int
  BY <1>3, <1>4
<1> QED BY <1>2, <1>3, <1>4, <1>5, <1>6, <1>7 DEF ReadingInv

LEMMA ReadingSent ==
  ASSUME ReadingInv, Measured!ReadAll \/ Measured!SendPayload
  PROVE  ReadingInv'
<1>1. MaxAge \in Nat /\ clock \in Nat /\ truth \in Int /\ taken \in Int
  BY StatusAssumption DEF ReadingInv, Measured!LimitAssumption
<1>2. CASE Measured!ReadAll
  <2>1. UNCHANGED <<clock, data, taken, truth, heardOf>> /\ valid' = (valid /\ clock - taken <= MaxAge)
    BY <1>2 DEF Measured!ReadAll, Measured!statusVars, Measured!StillValid
  <2>2. cycle'[1].truth = truth /\ cycle'[1].valid = valid'
    BY <1>2 DEF Measured!ReadAll
  <2>3. valid' => truth >= clock - 2 * MaxAge
    <3> SUFFICES ASSUME valid' PROVE truth >= clock - 2 * MaxAge
      OBVIOUS
    <3>1. valid /\ clock - taken <= MaxAge
      BY <2>1, Zenon
    <3>2. truth >= taken - MaxAge
      BY <3>1 DEF ReadingInv
    <3> QED BY <1>1, <3>1, <3>2
  <2>4. valid' => truth' >= taken' - MaxAge
    BY <2>1 DEF ReadingInv
  <2> QED BY <1>1, <2>1, <2>2, <2>3, <2>4 DEF ReadingInv, Measured!ValidIsRecent
<1>3. CASE Measured!SendPayload
  <2>1. UNCHANGED <<clock, data, taken, truth, valid>> /\ cycle # <<>> /\ cycle' = <<>>
    BY <1>3 DEF Measured!SendPayload, Measured!dataVars
  <2>2. PICK t : t = cycle[1].truth /\ t \in Int /\ (cycle[1].valid => t >= clock - 2 * MaxAge)
    BY <2>1 DEF ReadingInv
  <2>3. (heardOf.valid)' => cycle[1].valid
    BY <1>3 DEF Measured!SendPayload
  <2>4. heardOf'.age = clock - t
    BY <1>3, <2>2 DEF Measured!SendPayload
  <2>5. Measured!ValidIsRecent'
    BY <1>1, <2>2, <2>3, <2>4 DEF Measured!ValidIsRecent
  <2> QED BY <2>1, <2>5 DEF ReadingInv
<1> QED BY <1>2, <1>3

LEMMA ReadingKept ==
  ASSUME ReadingInv, Measured!Next \/ UNCHANGED slots
  PROVE  ReadingInv'
<1>1. CASE Measured!TakeData
  BY <1>1, ReadingTaken
<1>2. CASE Measured!ReadAll \/ Measured!SendPayload
  BY <1>2, ReadingSent
<1>3. CASE Measured!Tick
  <2>1. cycle = <<>> /\ clock' = clock + 1 /\ UNCHANGED <<data, valid, taken, truth, cycle, heardOf>>
    BY <1>3 DEF Measured!Tick, Measured!dataVars, Measured!sentVars
  <2> QED BY <2>1 DEF ReadingInv, Measured!ValidIsRecent
<1>4. ASSUME NEW v \in Readings, Measured!Measure(v) PROVE ReadingInv'
  <2>1. /\ data' = Append(data, [valid |-> v, at |-> clock])
        /\ UNCHANGED <<clock, valid, taken, truth, cycle, heardOf>>
    BY <1>4 DEF Measured!Measure, Measured!dataVars, Measured!sentVars
  <2>2. data' \in Seq(Reading)
    BY <2>1 DEF ReadingInv, Reading
  <2> QED BY <2>1, <2>2 DEF ReadingInv, Measured!ValidIsRecent
<1>5. ASSUME \/ Measured!TakeMission \/ Measured!SampleForFcu \/ UNCHANGED slots
             \/ \E r \in {} : Measured!Report(r)
             \/ \E s \in {} : Measured!SayMission(s)
             \/ \E t \in Measured!Topics : Measured!TakeReport(t)
      PROVE  ReadingInv'
  <2>1. UNCHANGED <<clock, data, valid, taken, truth, cycle, heardOf>>
    BY <1>5 DEF Measured!TakeMission, Measured!SampleForFcu, Measured!TakeReport, Measured!dataVars,
      Measured!sentVars, slots, After7, After9, After10, After18
  <2> QED BY <2>1 DEF ReadingInv, Measured!ValidIsRecent
<1> QED BY <1>1, <1>2, <1>3, <1>4, <1>5 DEF Measured!Next

(***************************************************************************)
(* The report behind the code is within the limit of the code's time, for  *)
(* a report that is taken is not older than that; and no report is taken   *)
(* after a younger one.                                                    *)
(***************************************************************************)
Spoken == [report : SomeReports, at : Nat]
AgeInv ==
  /\ clock \in Nat /\ origin \in Int /\ codeAt \in Int /\ stepAt \in Int
  /\ \A t \in Ages!Topics : topics[t] \in Seq(Spoken)
  /\ DOMAIN topics = Ages!Topics
  /\ codeAt <= clock /\ stepAt <= clock
  /\ \A t \in Ages!Topics : \A n \in 1..Len(topics[t]) : topics[t][n].at <= clock
  /\ origin >= codeAt - MaxAge
  /\ cycle # <<>> => cycle[1].from \in Int /\ cycle[1].time \in Int /\ cycle[1].from >= cycle[1].time - MaxAge
LEMMA AgeBegins == Ages!Init => AgeInv
<1> SUFFICES ASSUME Ages!Init PROVE AgeInv
  OBVIOUS
<1>1. topics = [t \in Ages!Topics |-> <<>>]
  BY DEF Ages!Init
<1>2. clock = 0 /\ origin = -100 /\ codeAt = -100 /\ stepAt = -100 /\ cycle = <<>>
  BY DEF Ages!Init, Ages!Never
<1>3. MaxAge \in Nat
  BY StatusAssumption DEF Measured!LimitAssumption
<1> QED BY <1>1, <1>2, <1>3 DEF AgeInv

\* What changes neither the times nor what is under way of a report.
LEMMA AgeStays ==
  ASSUME AgeInv, UNCHANGED <<topics, origin, codeAt, stepAt, cycle>>, clock' \in Nat, clock' >= clock
  PROVE  AgeInv'
<1>1. clock \in Nat /\ codeAt \in Int /\ stepAt \in Int
  BY DEF AgeInv
<1>2. codeAt' <= clock' /\ stepAt' <= clock'
  BY <1>1 DEF AgeInv
<1>3. ASSUME NEW t \in Ages!Topics, NEW n \in 1..Len(topics[t])
      PROVE  topics[t][n].at <= clock'
  <2>1. topics[t][n].at <= clock /\ topics[t][n] \in Spoken
    BY DEF AgeInv
  <2> QED BY <1>1, <2>1 DEF Spoken
<1> QED BY <1>2, <1>3 DEF AgeInv

\* A report is taken, or is too old.
LEMMA ReportTaken ==
  ASSUME AgeInv, NEW t \in Ages!Topics, Ages!TakeReport(t)
  PROVE  AgeInv' /\ stepAt' >= stepAt
<1>1. MaxAge \in Nat /\ clock \in Nat /\ origin \in Int /\ codeAt \in Int /\ stepAt \in Int
  BY StatusAssumption DEF AgeInv, Measured!LimitAssumption
<1>2. topics[t] \in Seq(Spoken) /\ topics[t] # <<>>
  BY DEF AgeInv, Ages!TakeReport
<1>3. PICK m : m = Head(topics[t]) /\ m.at \in Nat /\ m.at <= clock
  <2>1. Head(topics[t]) = topics[t][1] /\ topics[t][1] \in Spoken /\ 1 \in 1..Len(topics[t])
    BY <1>2, TailFacts
  <2> QED BY <2>1 DEF AgeInv, Spoken
<1>4. UNCHANGED <<clock, cycle, shown>>
  BY DEF Ages!TakeReport, Ages!sentVars
<1>5. /\ \A u \in Ages!Topics : topics'[u] \in Seq(Spoken)
      /\ DOMAIN topics' = Ages!Topics
      /\ \A u \in Ages!Topics : \A n \in 1..Len(topics'[u]) : topics'[u][n].at <= clock
  <2>1. /\ Tail(topics[t]) \in Seq(Spoken)
        /\ \A n \in 1..Len(Tail(topics[t])) :
             n + 1 \in 1..Len(topics[t]) /\ Tail(topics[t])[n] = topics[t][n + 1]
    BY <1>2, TailFacts
  <2>2. topics' = [topics EXCEPT ![t] = Tail(topics[t])]
    BY DEF Ages!TakeReport
  <2> QED BY <2>1, <2>2 DEF AgeInv
<1>6. CASE clock - m.at <= MaxAge /\ m.at >= stepAt
  <2>1. Ages!Apply(m)
    BY <1>3, <1>6 DEF Ages!TakeReport, Ages!InOrder
  <2>2. stepAt' = m.at /\ codeAt' \in {m.at, codeAt}
    BY <2>1 DEF Ages!Apply
  <2>3. (codeAt' = m.at /\ origin' = m.at) \/ (codeAt' = codeAt /\ origin' \in {m.at, origin})
    BY <2>1 DEF Ages!Apply
  <2>4. /\ codeAt <= clock /\ origin >= codeAt - MaxAge
    BY DEF AgeInv
  <2>5. origin' \in Int /\ codeAt' \in Int /\ codeAt' <= clock /\ origin' >= codeAt' - MaxAge
    BY <1>1, <1>3, <1>6, <2>3, <2>4
  <2>6. stepAt' \in Int /\ stepAt' <= clock /\ stepAt' >= stepAt
    BY <1>3, <1>6, <2>2
  <2>7. clock' = clock /\ cycle' = cycle
    BY <1>4
  <2> QED BY <1>5, <2>5, <2>6, <2>7 DEF AgeInv
<1>7. CASE ~(clock - m.at <= MaxAge /\ m.at >= stepAt)
  <2>1. UNCHANGED <<origin, codeAt, stepAt>>
    BY <1>3, <1>7 DEF Ages!TakeReport, Ages!InOrder, Ages!statusVars
  <2> QED BY <1>1, <1>4, <1>5, <2>1 DEF AgeInv
<1> QED BY <1>6, <1>7

\* A state of the mission is of now, or says what the last report did.
LEMMA MissionTaken ==
  ASSUME AgeInv, Ages!TakeMission
  PROVE  AgeInv' /\ UNCHANGED stepAt
<1>1. MaxAge \in Nat /\ clock \in Nat /\ stepAt \in Int
  BY StatusAssumption DEF AgeInv, Measured!LimitAssumption
<1>2. UNCHANGED <<clock, topics, stepAt, cycle>>
  BY DEF Ages!TakeMission, Ages!sentVars
<1>3. (codeAt' = clock /\ origin' = clock) \/ (codeAt' = stepAt /\ origin' = stepAt)
  BY DEF Ages!TakeMission, Ages!TimeOf
<1> QED BY <1>1, <1>2, <1>3 DEF AgeInv

\* A report is published on both topics.
LEMMA ReportMade ==
  ASSUME AgeInv, NEW r \in SomeReports, Ages!Report(r)
  PROVE  AgeInv' /\ UNCHANGED stepAt
<1>1. UNCHANGED <<clock, origin, codeAt, stepAt, cycle>>
  BY DEF Ages!Report, Ages!statusVars, Ages!sentVars
<1>2. PICK m : m = [report |-> r, at |-> clock]
  OBVIOUS
<1>3. m \in Spoken /\ m.at <= clock /\ clock \in Nat
  BY <1>2 DEF AgeInv, Spoken
<1>4. topics' = [t \in Ages!Topics |-> Append(topics[t], m)]
  BY <1>2 DEF Ages!Report
<1>5. ASSUME NEW t \in Ages!Topics
      PROVE  /\ topics'[t] \in Seq(Spoken)
             /\ \A n \in 1..Len(topics'[t]) : topics'[t][n].at <= clock
  <2>1. topics'[t] = Append(topics[t], m) /\ topics[t] \in Seq(Spoken)
    BY <1>4 DEF AgeInv
  <2>2. /\ topics'[t] \in Seq(Spoken) /\ Len(topics'[t]) = Len(topics[t]) + 1 /\ Len(topics[t]) \in Nat
        /\ \A n \in 1..Len(topics[t]) : topics'[t][n] = topics[t][n]
        /\ topics'[t][Len(topics[t]) + 1] = m
    BY <1>3, <2>1
  <2>3. \A n \in 1..Len(topics[t]) : topics[t][n].at <= clock
    BY DEF AgeInv
  <2>4. \A n \in 1..Len(topics'[t]) : n \in 1..Len(topics[t]) \/ n = Len(topics[t]) + 1
    BY <2>2
  <2> QED BY <1>3, <2>2, <2>3, <2>4
<1> QED BY <1>1, <1>4, <1>5 DEF AgeInv

\* A cycle reads everything, and sends only what is not too old when it does.
LEMMA AgeSent ==
  ASSUME AgeInv, Ages!ReadAll \/ Ages!SendPayload
  PROVE  AgeInv' /\ UNCHANGED stepAt /\ Ages!TellsRecent
<1>1. /\ MaxAge \in Nat /\ clock \in Nat /\ origin \in Int /\ codeAt \in Int /\ stepAt \in Int
      /\ origin >= codeAt - MaxAge
  BY StatusAssumption DEF AgeInv, Measured!LimitAssumption
<1>2. UNCHANGED <<clock, topics, origin, codeAt, stepAt>>
  BY DEF Ages!ReadAll, Ages!SendPayload, Ages!statusVars
<1>3. CASE Ages!ReadAll
  <2>1. cycle'[1].from = origin /\ cycle'[1].time = codeAt /\ UNCHANGED shown
    BY <1>3 DEF Ages!ReadAll
  <2> QED BY <1>1, <1>2, <2>1 DEF AgeInv, Ages!TellsRecent
<1>4. CASE Ages!SendPayload
  <2>1. cycle # <<>> /\ cycle' = <<>>
    BY <1>4 DEF Ages!SendPayload
  <2>2. PICK from, time : /\ from = cycle[1].from /\ time = cycle[1].time /\ from \in Int /\ time \in Int
                          /\ from >= time - MaxAge
    BY <2>1 DEF AgeInv
  <2>3. shown' # shown => clock - codeAt <= MaxAge /\ shown' = clock - from
    BY <1>4, <2>2 DEF Ages!SendPayload
  <2>4. shown' # shown /\ shown' > 2 * MaxAge => codeAt # time
    BY <1>1, <2>2, <2>3
  <2>5. stepAt' >= stepAt
    BY <1>1, <1>2
  <2> QED BY <1>2, <2>1, <2>2, <2>4, <2>5 DEF AgeInv, Ages!TellsRecent
<1> QED BY <1>3, <1>4

LEMMA AgeKept ==
  ASSUME AgeInv, Ages!Next \/ UNCHANGED slots
  PROVE  AgeInv' /\ Ages!TellsRecent
<1>1. clock \in Nat /\ stepAt \in Int
  BY DEF AgeInv
<1>2. ASSUME NEW t \in Ages!Topics, Ages!TakeReport(t) PROVE AgeInv' /\ Ages!TellsRecent
  <2>1. UNCHANGED shown
    BY <1>2 DEF Ages!TakeReport, Ages!sentVars
  <2> QED BY <1>2, <2>1, ReportTaken DEF Ages!TellsRecent
<1>3. CASE Ages!TakeMission
  <2>1. UNCHANGED shown
    BY <1>3 DEF Ages!TakeMission, Ages!sentVars
  <2> QED BY <1>1, <1>3, <2>1, MissionTaken DEF Ages!TellsRecent
<1>4. ASSUME NEW r \in SomeReports, Ages!Report(r) PROVE AgeInv' /\ Ages!TellsRecent
  <2>1. UNCHANGED shown
    BY <1>4 DEF Ages!Report, Ages!sentVars
  <2> QED BY <1>1, <1>4, <2>1, ReportMade DEF Ages!TellsRecent
<1>5. CASE Ages!ReadAll \/ Ages!SendPayload
  BY <1>5, AgeSent
<1>6. ASSUME \/ Ages!Tick \/ Ages!TakeData \/ Ages!SampleForFcu \/ UNCHANGED slots
             \/ \E s \in SomeStates : Ages!SayMission(s)
             \/ \E v \in {} : Ages!Measure(v)
      PROVE  AgeInv' /\ Ages!TellsRecent
  <2>1. UNCHANGED <<topics, origin, codeAt, stepAt, cycle, shown>>
    BY <1>6 DEF Ages!Tick, Ages!TakeData, Ages!SampleForFcu, Ages!SayMission, Ages!statusVars, Ages!sentVars,
      slots, After7, After9, After10, After18
  <2>2. clock' \in Nat /\ clock' >= clock
    BY <1>1, <1>6 DEF Ages!Tick, Ages!TakeData, Ages!SampleForFcu, Ages!SayMission, slots
  <2> QED BY <1>1, <2>1, <2>2, AgeStays DEF Ages!TellsRecent
<1> QED BY <1>2, <1>3, <1>4, <1>5, <1>6 DEF Ages!Next

(***************************************************************************)
(* Whichever of controller and mission is heard last: a rest of both is    *)
(* told as IDLE.                                                           *)
(***************************************************************************)
LEMMA RestIsIdle ==
  ASSUME missions \in Seq(AllStates), Messages!Next \/ UNCHANGED slots
  PROVE  missions' \in Seq(AllStates) /\ Messages!RestsIdle
<1> DEFINE Told == (stepAt' # stepAt \/ Len(missions') < Len(missions)) /\ Messages!Rest' => code' = "IDLE"
<1>1. ASSUME NEW t \in Messages!Topics, Messages!TakeReport(t)
      PROVE  UNCHANGED missions /\ Told
  <2>1. PICK m : m = Head(topics[t])
    OBVIOUS
  <2>2. UNCHANGED <<missions, s10>>
    BY <1>1 DEF Messages!TakeReport
  <2>3. CASE UNCHANGED <<stepAt, missions>>
    BY <2>3
  <2>4. CASE Messages!Apply(m) /\ Messages!Rest'
    <3>1. /\ Messages!Flags(m.report) \in {{"ended"}, {"ended", "stopped"}} /\ ~s10
          /\ s9' \in Messages!Resting
      BY <2>2, <2>4 DEF Messages!Apply, Messages!Rest
    <3>2. Messages!Urgent(Messages!Flags(m.report)) = "none" /\ "running" \notin Messages!Flags(m.report)
      BY <3>1 DEF Messages!Urgent
    <3>3. Messages!EndsRun(Messages!Flags(m.report)) \/ s9 \notin Messages!SamplingStates
      BY <3>1 DEF Messages!EndsRun
    <3>4. Messages!EndsRun(Messages!Flags(m.report))
      BY <2>4, <3>1, <3>2, <3>3 DEF Messages!Apply, Messages!SamplingStates
    <3>5. code' = "IDLE"
      BY <2>4, <3>2, <3>4 DEF Messages!Apply, Messages!NewCode
    <3> QED BY <2>2, <3>5
  <2>5. UNCHANGED <<stepAt, missions>> \/ Messages!Apply(m)
    BY <1>1, <2>1, <2>2 DEF Messages!TakeReport, Messages!statusVars
  <2> QED BY <2>2, <2>3, <2>4, <2>5
<1>2. ASSUME Messages!TakeMission
      PROVE  missions' \in Seq(AllStates) /\ Told
  <2>1. PICK s : s = Head(missions)
    OBVIOUS
  <2>2. /\ missions # <<>> /\ missions' = Tail(missions) /\ s9' = s /\ UNCHANGED <<s1, s5, stepAt, s10>>
        /\ code' = IF Messages!Overrides(s) = "none" THEN s ELSE Messages!Overrides(s)
    BY <1>2, <2>1 DEF Messages!TakeMission
  <2>3. ASSUME Messages!Rest'
        PROVE  code' = "IDLE"
    <3>1. /\ Messages!Fresh /\ Messages!Flags(s5) \in {{"ended"}, {"ended", "stopped"}}
          /\ s \in Messages!Resting /\ ~s10
      BY <2>2, <2>3 DEF Messages!Rest, Messages!Fresh
    <3>2. PICK flags : flags = Messages!Flags(s5)
      OBVIOUS
    <3>3. /\ "fault" \notin flags /\ flags \cap {"calibrating", "failed"} = {} /\ "running" \notin flags
          /\ "ended" \in flags /\ Messages!Urgent(flags) = "none"
      BY <3>1, <3>2 DEF Messages!Urgent
    <3>4. Messages!Overrides(s) = "IDLE"
      BY <3>1, <3>2, <3>3 DEF Messages!Overrides
    <3> QED BY <2>2, <3>4
  <2>4. missions' \in Seq(AllStates)
    BY <2>2, TailFacts
  <2> QED BY <2>3, <2>4
<1>3. ASSUME \/ Messages!Tick \/ Messages!TakeData \/ Messages!SampleForFcu \/ UNCHANGED slots
             \/ Messages!ReadAll \/ Messages!SendPayload
             \/ \E r \in AllReports : Messages!Report(r)
             \/ \E v \in {} : Messages!Measure(v)
      PROVE  missions' \in Seq(AllStates) /\ Told
  <2>1. UNCHANGED <<missions, stepAt>>
    BY <1>3 DEF Messages!Tick, Messages!TakeData, Messages!SampleForFcu, Messages!ReadAll, Messages!SendPayload,
      Messages!Report, Messages!statusVars, slots
  <2> QED BY <2>1
<1>4. ASSUME NEW s \in AllStates, Messages!SayMission(s)
      PROVE  missions' \in Seq(AllStates) /\ Told
  <2>1. missions' = Append(missions, s) /\ UNCHANGED stepAt
    BY <1>4 DEF Messages!SayMission, Messages!statusVars
  <2>2. missions' \in Seq(AllStates) /\ Len(missions') = Len(missions) + 1 /\ Len(missions) \in Nat
    BY <2>1
  <2> QED BY <2>1, <2>2
<1> HIDE DEF Told
<1>5. missions' \in Seq(AllStates) /\ Told
  BY <1>1, <1>2, <1>3, <1>4 DEF Messages!Next
<1> QED BY <1>5 DEF Told, Messages!RestsIdle
\* A step of one part is a step of its instance, or leaves its variables alone.
LEMMA StatusStep ==
  ASSUME [Step]_parts
  PROVE  /\ part' = part
         /\ part = "messages" => Messages!Next \/ UNCHANGED slots
         /\ part = "ages" => Ages!Next \/ UNCHANGED slots
         /\ part = "readings" => Measured!Next \/ UNCHANGED slots
BY DEF Step, parts

(***************************************************************************)
(* What the vehicle tells of itself is at rest when all is, and neither a  *)
(* report nor a reading is told as younger than it is: for any reports,    *)
(* states and readings, and any limit of their age.                        *)
(***************************************************************************)
THEOREM StatusTrue == PartsSpec => StatusIsTrue
<1> DEFINE Inv == /\ part = "messages" => missions \in Seq(AllStates)
                  /\ part = "ages" => AgeInv
                  /\ part = "readings" => ReadingInv
           Valid == part = "readings" => Measured!ValidIsRecent
           Said == /\ part = "messages" => Messages!RestsIdle
                   /\ part = "ages" => Ages!TellsRecent
<1>1. Start => Inv
  <2>1. Messages!Init => missions \in Seq(AllStates)
    BY DEF Messages!Init
  <2> QED BY <2>1, AgeBegins, ReadingBegins DEF Start
<1>2. Inv /\ [Step]_parts => Inv' /\ Said
  BY StatusStep, RestIsIdle, AgeKept, ReadingKept
<1>3. Inv => Valid
  BY DEF ReadingInv
<1>4. PartsSpec => []Inv
  BY <1>1, <1>2, PTL DEF PartsSpec
<1>5. Inv /\ [Step]_parts => [Said]_parts
  BY <1>2
<1>6. PartsSpec => [][Said]_parts
  BY <1>4, <1>5, PTL DEF PartsSpec
<1>7. PartsSpec => []Valid
  BY <1>3, <1>4, PTL
<1> QED BY <1>6, <1>7 DEF StatusIsTrue

-----------------------------------------------------------------------------
(* The link to the router: the names that RouterLink gives its variables;  *)
(* clock and echoes are now and answers.                                   *)
checked == s2
wrote == s3
path == s4
brokenAt == s5
up == s7
connectedAt == s8
seenFcu == s9
heardAt == s10
probe == s11
backAt == s12
echoes == s13
frame == s14
offset == s15
attemptAt == s16
writtenAt == s17
stream == s18
USE DEF checked, wrote, path, brokenAt, up, connectedAt, seenFcu, heardAt, probe, backAt, echoes, frame, offset,
        attemptAt, writtenAt, stream

(***************************************************************************)
(* A path that leads nowhere is bad since it broke, or since a connection  *)
(* was made over it.  From then on no echo comes: a probe is under way, or *)
(* is the next thing that is due, and stays unanswered; or the socket      *)
(* takes nothing of the frame that every cycle tries.  Over a good path    *)
(* something is heard and written in every tick, and the echo of a probe   *)
(* is under way until it comes.                                            *)
(***************************************************************************)
Count(k) == [i \in 1..k |-> i]
Bad == path \in {"oneway", "silent"}
Since == Router!Later(brokenAt, connectedAt)
Times == {-100} \cup 0..clock
RouterTyped ==
  /\ clock \in Nat /\ brokenAt \in 0..clock /\ connectedAt \in 0..clock
  /\ path \in {"good", "oneway", "silent", "blocked"}
  /\ heardAt \in Times /\ writtenAt \in Times /\ attemptAt \in Times /\ backAt \in Times
  /\ probe # <<>> => probe[1].first \in 0..clock
  /\ \A a \in echoes : a.due \in Nat
StreamHolds ==
  /\ \E k \in 0..(FrameSize - 1) : stream = Count(k) /\ (up => k = offset)
  /\ frame = <<>> => offset = 0
  /\ frame # <<>> => up /\ wrote
  /\ up /\ wrote => checked
HeardInTime ==
  /\ up /\ path # "silent" => Router!Later(connectedAt, heardAt) >= clock - 1
  /\ up /\ path = "oneway" => clock = Since \/ heardAt >= connectedAt
  /\ up /\ Bad /\ ~seenFcu /\ heardAt >= connectedAt => clock = Since \/ (clock = Since + 1 /\ ~checked)
WroteInTime ==
  /\ up /\ path = "good" /\ brokenAt < clock /\ wrote /\ frame = <<>> =>
       Router!Later(connectedAt, writtenAt) >= clock
  /\ up /\ path = "good" /\ brokenAt < clock - 1 => Router!Later(connectedAt, writtenAt) >= clock - 1
  /\ up /\ wrote /\ clock > connectedAt => attemptAt # -100
  /\ up /\ clock > connectedAt + 1 => attemptAt # -100
  /\ up /\ path = "blocked" => writtenAt <= Since
EchoComes ==
  \E a \in echoes : a.token = probe[1].token /\ clock <= a.due /\ a.due <= probe[1].first + RoundTrip
EchoesHold ==
  /\ up /\ path \in {"good", "blocked"} /\ probe # <<>> => EchoComes
  /\ frame # <<>> /\ frame[1].kind = "probe" /\ probe # <<>> => frame[1].token = probe[1].token
  /\ Bad => echoes = {}
  /\ up /\ Bad => backAt <= Since
ProbeGoes ==
  up /\ Bad /\ seenFcu =>
    \/ clock < Since + ProbeInterval
    \/ clock = Since + ProbeInterval /\ (~wrote \/ (frame # <<>> /\ frame[1].kind = "probe"))
    \/ probe # <<>> /\ probe[1].first <= Since + ProbeInterval
JudgedInTime ==
  /\ up /\ Bad /\ seenFcu =>
       \/ clock <= Since + ProbeInterval + ProbeTimeout
       \/ clock = Since + ProbeInterval + ProbeTimeout + 1 /\ ~checked
  /\ up /\ path = "blocked" => clock <= Since + WriteTimeout \/ (clock = Since + WriteTimeout + 1 /\ ~checked)
RouterInv ==
  /\ RouterTyped /\ StreamHolds /\ HeardInTime /\ WroteInTime /\ EchoesHold /\ ProbeGoes /\ JudgedInTime

\* The numbers of the assumption, as the steps below use them.
LEMMA PathNumbers ==
  /\ FrameSize \in Nat \ {0} /\ ProbeTimeout \in Nat /\ TelemetryTimeout \in Nat
  /\ RoundTrip \in Nat /\ RoundTrip < ProbeTimeout /\ ProbeInterval \in Nat \ {0}
  /\ WriteTimeout \in Nat \ {0} /\ WriteTimeout <= ProbeInterval + ProbeTimeout /\ TelemetryTimeout > 1
BY LinksAssumption DEF Router!PathAssumption

\* Every action keeps the invariant: one lemma for each, by the parts of it.
LEMMA RouterHear ==
  ASSUME RouterInv, Router!Hear
  PROVE  RouterInv'
<1> USE PathNumbers DEF RouterInv, Router!Hear, Router!Never, Router!pathVars, Router!linkVars, Router!writeVars,
    Router!Retire, Router!Begin
<1>1. RouterTyped'
  BY DEF Times, RouterTyped
<1>2. StreamHolds'
  BY DEF Count, StreamHolds
<1>3. HeardInTime'
  BY DEF RouterTyped, Times, Bad, Since, Router!Later, StreamHolds, HeardInTime
<1>4. WroteInTime'
  BY DEF RouterTyped, Times, Bad, Since, Router!Later, StreamHolds, WroteInTime
<1>5. EchoesHold'
  BY DEF EchoComes, RouterTyped, Times, Bad, Since, Router!Later, StreamHolds, EchoesHold
<1>6. ProbeGoes'
  BY DEF RouterTyped, Times, Bad, Since, Router!Later, StreamHolds, HeardInTime, ProbeGoes
<1>7. JudgedInTime'
  BY DEF RouterTyped, Times, Bad, Since, Router!Later, StreamHolds, HeardInTime, ProbeGoes, JudgedInTime
<1> QED BY <1>1, <1>2, <1>3, <1>4, <1>5, <1>6, <1>7

LEMMA RouterBreaks ==
  ASSUME RouterInv, Router!Breaks
  PROVE  RouterInv'
<1> USE PathNumbers DEF RouterInv, Router!Breaks, Router!Never, Router!pathVars, Router!linkVars,
    Router!writeVars, Router!Retire, Router!Begin
<1>1. RouterTyped'
  BY DEF Times, RouterTyped
<1>2. StreamHolds'
  BY DEF Count, StreamHolds
<1>3. HeardInTime'
  BY DEF RouterTyped, Times, Bad, Since, Router!Later, StreamHolds, HeardInTime
<1>4. WroteInTime'
  BY DEF RouterTyped, Times, Bad, Since, Router!Later, StreamHolds, WroteInTime
<1>5. EchoesHold'
  BY DEF EchoComes, RouterTyped, Times, Bad, Since, Router!Later, StreamHolds, EchoesHold
<1>6. ProbeGoes'
  BY DEF RouterTyped, Times, Bad, Since, Router!Later, StreamHolds, HeardInTime, ProbeGoes
<1>7. JudgedInTime'
  BY DEF RouterTyped, Times, Bad, Since, Router!Later, StreamHolds, HeardInTime, ProbeGoes, JudgedInTime
<1> QED BY <1>1, <1>2, <1>3, <1>4, <1>5, <1>6, <1>7

LEMMA RouterMends ==
  ASSUME RouterInv, Router!Mends
  PROVE  RouterInv'
<1> USE PathNumbers DEF RouterInv, Router!Mends, Router!Never, Router!pathVars, Router!linkVars,
    Router!writeVars, Router!Retire, Router!Begin
<1>1. RouterTyped'
  BY DEF Times, RouterTyped
<1>2. StreamHolds'
  BY DEF Count, StreamHolds
<1>3. HeardInTime'
  BY DEF RouterTyped, Times, Bad, Since, Router!Later, StreamHolds, HeardInTime
<1>4. WroteInTime'
  BY DEF RouterTyped, Times, Bad, Since, Router!Later, StreamHolds, WroteInTime
<1>5. EchoesHold'
  BY DEF EchoComes, RouterTyped, Times, Bad, Since, Router!Later, StreamHolds, EchoesHold
<1>6. ProbeGoes'
  BY DEF RouterTyped, Times, Bad, Since, Router!Later, StreamHolds, HeardInTime, ProbeGoes
<1>7. JudgedInTime'
  BY DEF RouterTyped, Times, Bad, Since, Router!Later, StreamHolds, HeardInTime, ProbeGoes, JudgedInTime
<1> QED BY <1>1, <1>2, <1>3, <1>4, <1>5, <1>6, <1>7

LEMMA RouterClears ==
  ASSUME RouterInv, Router!Clears
  PROVE  RouterInv'
<1> USE PathNumbers DEF RouterInv, Router!Clears, Router!Never, Router!pathVars, Router!linkVars,
    Router!writeVars, Router!Retire, Router!Begin
<1>1. RouterTyped'
  BY DEF Times, RouterTyped
<1>2. StreamHolds'
  BY DEF Count, StreamHolds
<1>3. HeardInTime'
  BY DEF RouterTyped, Times, Bad, Since, Router!Later, StreamHolds, HeardInTime
<1>4. WroteInTime'
  BY DEF RouterTyped, Times, Bad, Since, Router!Later, StreamHolds, WroteInTime
<1>5. EchoesHold'
  BY DEF EchoComes, RouterTyped, Times, Bad, Since, Router!Later, StreamHolds, EchoesHold
<1>6. ProbeGoes'
  BY DEF RouterTyped, Times, Bad, Since, Router!Later, StreamHolds, HeardInTime, ProbeGoes
<1>7. JudgedInTime'
  BY DEF RouterTyped, Times, Bad, Since, Router!Later, StreamHolds, HeardInTime, ProbeGoes, JudgedInTime
<1> QED BY <1>1, <1>2, <1>3, <1>4, <1>5, <1>6, <1>7

LEMMA RouterTick ==
  ASSUME RouterInv, Router!Tick
  PROVE  RouterInv'
<1> USE PathNumbers DEF RouterInv, Router!Tick, Router!Never, Router!pathVars, Router!linkVars, Router!writeVars,
    Router!Retire, Router!Begin
<1>1. RouterTyped'
  BY DEF Times, RouterTyped
<1>2. StreamHolds'
  BY DEF Count, StreamHolds
<1>3. HeardInTime'
  BY DEF RouterTyped, Times, Bad, Since, Router!Later, StreamHolds, HeardInTime
<1>4. WroteInTime'
  BY DEF RouterTyped, Times, Bad, Since, Router!Later, StreamHolds, WroteInTime
<1>5. EchoesHold'
  BY DEF EchoComes, RouterTyped, Times, Bad, Since, Router!Later, StreamHolds, EchoesHold
<1>6. ProbeGoes'
  BY DEF RouterTyped, Times, Bad, Since, Router!Later, StreamHolds, HeardInTime, ProbeGoes
<1>7. JudgedInTime'
  BY DEF RouterTyped, Times, Bad, Since, Router!Later, StreamHolds, HeardInTime, ProbeGoes, JudgedInTime
<1> QED BY <1>1, <1>2, <1>3, <1>4, <1>5, <1>6, <1>7

LEMMA RouterCheck ==
  ASSUME RouterInv, Router!Check
  PROVE  RouterInv'
<1> USE PathNumbers DEF RouterInv, Router!Check, Router!Never, Router!pathVars, Router!linkVars,
    Router!writeVars, Router!Retire, Router!Begin, Router!Stalled, Router!Unheard, Router!Unanswered
<1>1. RouterTyped'
  BY DEF Times, RouterTyped
<1>2. StreamHolds'
  BY DEF Count, StreamHolds
<1>3. HeardInTime'
  BY DEF RouterTyped, Times, Bad, Since, Router!Later, StreamHolds, HeardInTime
<1>4. WroteInTime'
  BY DEF RouterTyped, Times, Bad, Since, Router!Later, StreamHolds, WroteInTime
<1>5. EchoesHold'
  BY DEF EchoComes, RouterTyped, Times, Bad, Since, Router!Later, StreamHolds, EchoesHold
<1>6. ASSUME up' PROVE /\ UNCHANGED <<clock, path, brokenAt, connectedAt, up>>
                       /\ UNCHANGED <<probe, frame, wrote, attemptAt, writtenAt>>
                       /\ seenFcu' = (seenFcu \/ heardAt >= connectedAt) /\ ~checked /\ frame = <<>>
                       /\ Since' = Since /\ Bad' = Bad /\ ~wrote
                       /\ ~Router!Stalled /\ (seenFcu' /\ probe # <<>> => clock - probe[1].first <= ProbeTimeout)
  BY <1>6 DEF Since, Router!Later, Bad, StreamHolds, RouterTyped, Times
<1>7. clock \in Nat /\ Since \in Nat /\ up
  BY DEF RouterTyped, Since, Router!Later
<1>8. ASSUME up', Bad, seenFcu' PROVE seenFcu \/ clock <= Since + 1
  <2> HIDE DEF RouterInv, Router!Check
  <2> SUFFICES ASSUME ~seenFcu PROVE clock <= Since + 1
    OBVIOUS
  <2>1. heardAt >= connectedAt
    BY <1>6, <1>8
  <2>2. clock = Since \/ clock = Since + 1
    BY <1>7, <1>8, <2>1 DEF HeardInTime, RouterInv
  <2> QED BY <1>7, <2>2
<1>9. ProbeGoes'
  <2> SUFFICES ASSUME up', Bad, seenFcu' PROVE ProbeGoes'
    BY <1>6 DEF ProbeGoes
  <2>1. CASE seenFcu
    BY <2>1, <1>6 DEF ProbeGoes
  <2>2. CASE clock <= Since + 1
    BY <2>2, <1>6, <1>7 DEF ProbeGoes
  <2> QED BY <2>1, <2>2, <1>8
<1>10. JudgedInTime'
  <2>1. ASSUME up', Bad, seenFcu' PROVE clock <= Since + ProbeInterval + ProbeTimeout
    BY <1>6, <1>7, <1>9, <2>1 DEF ProbeGoes, RouterTyped
  <2>2. ASSUME up', path = "blocked" PROVE clock <= Since + WriteTimeout
    <3>1. attemptAt = -100 \/ clock - Router!Later(connectedAt, writtenAt) <= WriteTimeout
      BY <1>6, <2>2 DEF RouterTyped, Times, Router!Later
    <3>2. writtenAt <= Since /\ connectedAt <= Since /\ (attemptAt = -100 => clock <= connectedAt + 1)
      BY <1>7, <2>2 DEF WroteInTime, RouterTyped, Since, Router!Later
    <3>3. Router!Later(connectedAt, writtenAt) \in Int /\ Router!Later(connectedAt, writtenAt) <= Since
      BY <3>2 DEF Router!Later, RouterTyped, Times
    <3>4. connectedAt \in Nat
      BY DEF RouterTyped
    <3> HIDE DEF RouterInv, Router!Check
    <3> QED BY <1>7, <3>1, <3>2, <3>3, <3>4
  <2> QED BY <2>1, <2>2, <1>6 DEF JudgedInTime, Bad
<1> QED BY <1>1, <1>2, <1>3, <1>4, <1>5, <1>9, <1>10

LEMMA RouterReconnect ==
  ASSUME RouterInv, Router!Reconnect
  PROVE  RouterInv'
<1> USE PathNumbers DEF RouterInv, Router!Reconnect, Router!Never, Router!pathVars, Router!linkVars,
    Router!writeVars, Router!Retire, Router!Begin
<1>1. RouterTyped'
  BY DEF Times, RouterTyped
<1>2. StreamHolds'
  BY DEF Count, StreamHolds
<1>3. HeardInTime'
  BY DEF RouterTyped, Times, Bad, Since, Router!Later, StreamHolds, HeardInTime
<1>4. WroteInTime'
  BY DEF RouterTyped, Times, Bad, Since, Router!Later, StreamHolds, WroteInTime
<1>5. EchoesHold'
  BY DEF EchoComes, RouterTyped, Times, Bad, Since, Router!Later, StreamHolds, EchoesHold
<1>6. ProbeGoes'
  BY DEF RouterTyped, Times, Bad, Since, Router!Later, StreamHolds, HeardInTime, ProbeGoes
<1>7. JudgedInTime'
  BY DEF RouterTyped, Times, Bad, Since, Router!Later, StreamHolds, HeardInTime, ProbeGoes, JudgedInTime
<1> QED BY <1>1, <1>2, <1>3, <1>4, <1>5, <1>6, <1>7

LEMMA RouterSendProbe ==
  ASSUME RouterInv, Router!SendProbe
  PROVE  RouterInv'
<1> USE PathNumbers DEF RouterInv, Router!SendProbe, Router!Never, Router!pathVars, Router!linkVars,
    Router!writeVars, Router!Retire, Router!Begin, Router!Due, Router!TokenToSend
<1>1. RouterTyped'
  BY DEF Times, RouterTyped
<1>2. StreamHolds'
  BY DEF Count, StreamHolds
<1>3. HeardInTime'
  BY DEF RouterTyped, Times, Bad, Since, Router!Later, StreamHolds, HeardInTime
<1>4. WroteInTime'
  BY DEF RouterTyped, Times, Bad, Since, Router!Later, StreamHolds, WroteInTime
<1>5. EchoesHold'
  BY DEF EchoComes, RouterTyped, Times, Bad, Since, Router!Later, StreamHolds, EchoesHold
<1>6. ProbeGoes'
  BY DEF RouterTyped, Times, Bad, Since, Router!Later, StreamHolds, HeardInTime, ProbeGoes
<1>7. JudgedInTime'
  BY DEF RouterTyped, Times, Bad, Since, Router!Later, StreamHolds, HeardInTime, ProbeGoes, JudgedInTime
<1> QED BY <1>1, <1>2, <1>3, <1>4, <1>5, <1>6, <1>7

LEMMA RouterSendOther ==
  ASSUME RouterInv, Router!SendOther
  PROVE  RouterInv'
<1> USE PathNumbers DEF RouterInv, Router!SendOther, Router!Never, Router!pathVars, Router!linkVars,
    Router!writeVars, Router!Retire, Router!Begin, Router!Due
<1>1. RouterTyped'
  BY DEF Times, RouterTyped
<1>2. StreamHolds'
  BY DEF Count, StreamHolds
<1>3. HeardInTime'
  BY DEF RouterTyped, Times, Bad, Since, Router!Later, StreamHolds, HeardInTime
<1>4. WroteInTime'
  BY DEF RouterTyped, Times, Bad, Since, Router!Later, StreamHolds, WroteInTime
<1>5. EchoesHold'
  BY DEF EchoComes, RouterTyped, Times, Bad, Since, Router!Later, StreamHolds, EchoesHold
<1>6. ProbeGoes'
  BY DEF RouterTyped, Times, Bad, Since, Router!Later, StreamHolds, EchoesHold, ProbeGoes
<1>7. JudgedInTime'
  BY DEF RouterTyped, Times, Bad, Since, Router!Later, StreamHolds, HeardInTime, ProbeGoes, JudgedInTime
<1> QED BY <1>1, <1>2, <1>3, <1>4, <1>5, <1>6, <1>7

LEMMA RouterDeadline ==
  ASSUME RouterInv, Router!Deadline
  PROVE  RouterInv'
<1> USE PathNumbers DEF RouterInv, Router!Deadline, Router!Never, Router!pathVars, Router!linkVars,
    Router!writeVars, Router!Retire, Router!Begin, Router!Untouched
<1>1. RouterTyped'
  BY DEF Times, RouterTyped
<1>2. StreamHolds'
  BY DEF Count, StreamHolds
<1>3. HeardInTime'
  BY DEF RouterTyped, Times, Bad, Since, Router!Later, StreamHolds, HeardInTime
<1>4. WroteInTime'
  BY DEF RouterTyped, Times, Bad, Since, Router!Later, StreamHolds, WroteInTime
<1>5. EchoesHold'
  BY DEF EchoComes, RouterTyped, Times, Bad, Since, Router!Later, StreamHolds, EchoesHold
<1>6. ProbeGoes'
  BY DEF RouterTyped, Times, Bad, Since, Router!Later, StreamHolds, HeardInTime, ProbeGoes
<1>7. JudgedInTime'
  BY DEF RouterTyped, Times, Bad, Since, Router!Later, StreamHolds, HeardInTime, ProbeGoes, JudgedInTime
<1> QED BY <1>1, <1>2, <1>3, <1>4, <1>5, <1>6, <1>7

LEMMA RouterEcho ==
  ASSUME RouterInv, NEW a \in echoes, Router!Echo(a)
  PROVE  RouterInv'
<1> USE PathNumbers DEF RouterInv, Router!Echo, Router!Never, Router!pathVars, Router!linkVars, Router!writeVars
<1>1. RouterTyped'
  BY DEF Times, RouterTyped
<1>2. StreamHolds'
  BY DEF StreamHolds
<1>3. HeardInTime' /\ WroteInTime'
  BY DEF Bad, Since, Router!Later, HeardInTime, WroteInTime
<1>4. ~Bad
  BY DEF EchoesHold
<1>5. EchoesHold'
  BY <1>4 DEF EchoComes, RouterTyped, Bad, EchoesHold
<1>6. ProbeGoes' /\ JudgedInTime'
  BY <1>4 DEF Bad, Since, Router!Later, ProbeGoes, JudgedInTime
<1> QED BY <1>1, <1>2, <1>3, <1>5, <1>6

\* The router takes whole frames off what it has got.
LEMMA StreamGoes ==
  ASSUME FrameSize \in Nat \ {0}, NEW k \in 0..(FrameSize - 1), NEW n \in 1..FrameSize, k + n <= FrameSize
  PROVE  Router!Rest(Count(k) \o [i \in 1..n |-> k + i]) = IF k + n < FrameSize THEN Count(k + n) ELSE <<>>
<1>1. Count(k) \o [i \in 1..n |-> k + i] = Count(k + n)
  BY DEF Count
<1>2. Len(Count(k + n)) = k + n /\ Router!Whole = Count(FrameSize) /\ Len(Router!Whole) = FrameSize
  BY DEF Count, Router!Whole
<1>3. CASE k + n < FrameSize
  <2>1. ~Router!IsPrefix(Router!Whole, Count(k + n))
    BY <1>2, <1>3 DEF Router!IsPrefix
  <2> QED BY <1>1, <1>3, <2>1 DEF Router!Rest
<1>4. CASE k + n = FrameSize
  <2>1. Router!IsPrefix(Router!Whole, Router!Whole)
    BY <1>2 DEF Router!IsPrefix
  <2>2. SubSeq(Router!Whole, FrameSize + 1, Len(Router!Whole)) = <<>>
    BY <1>2 DEF Router!Whole
  <2>3. Router!Whole = Count(k + n) /\ k + n \in Nat
    BY <1>2, <1>4
  <2>4. Router!Rest(Router!Whole) = <<>>
    BY <2>1, <2>2 DEF Router!Rest
  <2>5. Router!Rest(Count(k) \o [i \in 1..n |-> k + i]) = Router!Rest(Router!Whole)
    BY <1>1, <2>3, Zenon
  <2>6. ~(k + n < FrameSize)
    BY <1>4
  <2> QED BY <2>4, <2>5, <2>6, Zenon
<1> QED BY <1>3, <1>4

LEMMA RouterTake ==
  ASSUME RouterInv, NEW n \in 1..FrameSize, Router!Take(n)
  PROVE  RouterInv'
<1> USE PathNumbers DEF RouterInv, Router!Take, Router!Never, Router!pathVars, Router!linkVars, Router!Written
<1>1. RouterTyped'
  BY DEF Times, RouterTyped
<1>2. StreamHolds'
  <2>1. PICK k \in 0..(FrameSize - 1) : stream = Count(k) /\ (up => k = offset)
    BY DEF StreamHolds
  <2>2. frame # <<>> /\ up /\ wrote /\ checked /\ k = offset /\ k + n <= FrameSize
    BY <2>1 DEF StreamHolds
  <2>3. stream' = IF k + n < FrameSize THEN Count(k + n) ELSE <<>>
    BY <2>1, <2>2, StreamGoes
  <2>4. stream' = Count(offset') /\ offset' \in 0..(FrameSize - 1) /\ (frame' = <<>> => offset' = 0)
    BY <2>2, <2>3 DEF Count
  <2> QED BY <2>2, <2>4 DEF StreamHolds
<1>3. HeardInTime'
  BY DEF Bad, Since, Router!Later, HeardInTime
<1>4. WroteInTime'
  BY DEF Bad, Since, Router!Later, RouterTyped, Times, WroteInTime
<1>5. EchoesHold'
  <2>1. CASE UNCHANGED <<probe, echoes>>
    BY <2>1 DEF EchoComes, Bad, EchoesHold, Since, Router!Later
  <2>2. CASE frame[1].kind = "probe" /\ Router!Written(frame[1])
    <3>1. up /\ clock \in Nat /\ frame' \in {frame, <<>>}
      BY DEF RouterTyped, StreamHolds
    <3>2. /\ probe' # <<>> /\ probe'[1].token = frame[1].token
          /\ probe'[1].first = IF probe # <<>> THEN probe[1].first ELSE clock
          /\ echoes' = IF path = "good"
                       THEN echoes \cup {[token |-> frame[1].token, due |-> clock + RoundTrip]} ELSE echoes
      BY <2>2
    <3>3. path # "blocked" /\ (probe # <<>> => frame[1].token = probe[1].token)
      BY <2>2 DEF EchoesHold
    <3>5. UNCHANGED <<clock, up, path, connectedAt, brokenAt, backAt>>
      OBVIOUS
    <3>4. ASSUME path = "good" PROVE EchoComes'
      <4>1. CASE probe = <<>>
        <5>1. [token |-> frame[1].token, due |-> clock + RoundTrip] \in echoes'
          BY <3>2, <3>4
        <5>2. probe'[1].first = clock /\ clock <= clock + RoundTrip
          BY <3>1, <3>2, <4>1
        <5> HIDE DEF Router!Take
        <5>3. PICK a \in echoes' : a.token = frame[1].token /\ a.due = clock + RoundTrip
          BY <5>1
        <5>4. clock \in Nat /\ clock' = clock /\ probe'[1].token = frame[1].token
          BY <3>1, <3>2, <3>5
        <5> QED BY <5>2, <5>3, <5>4 DEF EchoComes
      <4>2. CASE probe # <<>>
        <5>1. EchoComes
          BY <3>1, <3>4, <4>2 DEF EchoesHold
        <5>2. probe'[1].token = probe[1].token /\ probe'[1].first = probe[1].first
          BY <3>2, <3>3, <4>2
        <5>3. echoes \subseteq echoes'
          BY <3>2
        <5> HIDE DEF Router!Take
        <5> QED BY <3>5, <5>1, <5>2, <5>3 DEF EchoComes
      <4> QED BY <4>1, <4>2
    <3>6. Bad => echoes' = {}
      BY <3>2 DEF Bad, EchoesHold
    <3>7. frame' = frame => probe'[1].token = frame[1].token
      BY <3>2
    <3> HIDE DEF Router!Take
    <3> QED BY <3>1, <3>3, <3>4, <3>5, <3>6, <3>7 DEF Bad, Since, Router!Later, EchoesHold
  <2> QED BY <2>1, <2>2
<1>6. ProbeGoes'
  BY DEF Bad, Since, Router!Later, ProbeGoes, RouterTyped, StreamHolds
<1>7. JudgedInTime'
  BY DEF Bad, Since, Router!Later, JudgedInTime
<1> QED BY <1>1, <1>2, <1>3, <1>4, <1>5, <1>6, <1>7

LEMMA RouterBegins == Router!Init => RouterInv
<1> SUFFICES ASSUME Router!Init PROVE RouterInv
  OBVIOUS
<1> USE PathNumbers DEF Router!Init, Router!Never
<1>1. RouterTyped
  BY DEF RouterTyped, Times
<1>2. StreamHolds
  BY DEF StreamHolds, Count
<1>3. HeardInTime /\ WroteInTime
  BY DEF HeardInTime, WroteInTime, Bad, Since, Router!Later
<1>4. EchoesHold /\ ProbeGoes /\ JudgedInTime
  BY DEF EchoesHold, ProbeGoes, JudgedInTime, Bad
<1> QED BY <1>1, <1>2, <1>3, <1>4 DEF RouterInv

LEMMA RouterKept ==
  ASSUME RouterInv, Router!Next \/ UNCHANGED slots
  PROVE  RouterInv'
<1>1. CASE UNCHANGED slots
  BY <1>1 DEF slots, After7, After9, After10, After18, RouterInv, RouterTyped, Times, StreamHolds, Count, HeardInTime,
    WroteInTime, EchoComes, EchoesHold, ProbeGoes, JudgedInTime, Bad, Since, Router!Later
<1>2. CASE Router!Next
  BY <1>2, RouterHear, RouterBreaks, RouterMends, RouterClears, RouterTick, RouterCheck, RouterReconnect,
    RouterSendProbe, RouterSendOther, RouterDeadline, RouterEcho, RouterTake DEF Router!Next
<1> QED BY <1>1, <1>2

\* A connection is given up by a check, or by a frame that is not done in time.
LEMMA LeavesRightly ==
  ASSUME RouterInv, Router!Next \/ UNCHANGED slots
  PROVE  Router!LeavesOnlyBroken
<1> SUFFICES ASSUME up, ~up', path = "good" PROVE clock - brokenAt <= 1
  BY DEF Router!LeavesOnlyBroken
<1>1. Router!Check
  BY DEF Router!Next, slots, After7, Router!Hear, Router!Breaks, Router!Mends, Router!Clears, Router!Tick,
    Router!Reconnect, Router!SendProbe, Router!SendOther, Router!Deadline, Router!Echo, Router!Take,
    Router!linkVars
<1>2. clock \in Nat /\ brokenAt \in Nat /\ connectedAt \in Nat
  BY DEF RouterInv, RouterTyped
<1>3. Router!Stalled \/ Router!Unheard \/ Router!Unanswered
  BY <1>1 DEF Router!Check
<1> SUFFICES ASSUME brokenAt < clock - 1 PROVE FALSE
  BY <1>2
<1>4. ~Router!Stalled
  BY <1>2, PathNumbers DEF RouterInv, WroteInTime, RouterTyped, Times, Router!Later, Router!Stalled
<1>5. ~Router!Unheard
  BY <1>2, PathNumbers DEF RouterInv, HeardInTime, RouterTyped, Times, Router!Later, Router!Unheard
<1>6. ~Router!Unanswered
  <2> SUFFICES ASSUME probe # <<>>, clock - probe[1].first > ProbeTimeout PROVE FALSE
    BY DEF Router!Unanswered
  <2>1. PICK a \in echoes : clock <= a.due /\ a.due <= probe[1].first + RoundTrip
    BY DEF RouterInv, EchoesHold, EchoComes
  <2>2. a.due \in Nat /\ probe[1].first \in Nat
    BY DEF RouterInv, RouterTyped
  <2> QED BY <1>2, <2>1, <2>2, PathNumbers
<1> QED BY <1>3, <1>4, <1>5, <1>6

\* What the invariant says of the stream and of the time.
LEMMA RouterJudges ==
  ASSUME RouterInv
  PROVE  Router!OnlyWholeFrames /\ Router!BrokenPathIsLeft
<1>1. Router!OnlyWholeFrames
  <2>1. PICK k \in 0..(FrameSize - 1) : stream = Count(k)
    BY DEF RouterInv, StreamHolds
  <2>2. Router!Whole = Count(FrameSize) /\ FrameSize \in Nat /\ k \in Nat /\ k <= FrameSize
    BY PathNumbers DEF Count, Router!Whole
  <2>3. Len(Count(k)) = k /\ Len(Count(FrameSize)) = FrameSize
    BY <2>2 DEF Count
  <2>4. SubSeq(Count(k), 1, k) = SubSeq(Count(FrameSize), 1, k)
    BY <2>2 DEF Count
  <2> QED BY <2>1, <2>2, <2>3, <2>4 DEF Router!OnlyWholeFrames, Router!IsPrefix
<1>2. Router!BrokenPathIsLeft
  BY PathNumbers DEF RouterInv, RouterTyped, JudgedInTime, Bad, Since, Router!Later, Router!BrokenPathIsLeft
<1> QED BY <1>1, <1>2

(***************************************************************************)
(* The router gets whole frames only; a path that leads nowhere is left in *)
(* time, and one that is only slow is kept: for frames of any size, any    *)
(* intervals and timeouts that leave room for a round trip.                *)
(***************************************************************************)
THEOREM PathTrue == PartsSpec => PathIsJudged
<1> DEFINE Inv == part = "router" => RouterInv
           Holds == part = "router" => Router!OnlyWholeFrames /\ Router!BrokenPathIsLeft
           Leaves == part = "router" => Router!LeavesOnlyBroken
<1>1. Start => Inv
  BY RouterBegins DEF Start
<1>2. ASSUME [Step]_parts, part = "router" PROVE part' = part /\ (Router!Next \/ UNCHANGED slots)
  BY <1>2 DEF Step, parts
<1>3. [Step]_parts => part' = part
  BY DEF Step, parts
<1>4. Inv /\ [Step]_parts => Inv'
  BY <1>2, <1>3, RouterKept
<1>5. Inv /\ [Step]_parts => [Leaves]_parts
  BY <1>2, LeavesRightly
<1>6. Inv => Holds
  BY RouterJudges
<1> QED BY <1>1, <1>4, <1>5, <1>6, PTL DEF PartsSpec, PathIsJudged
===============================================================================
