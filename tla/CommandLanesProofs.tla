--------------------------- MODULE CommandLanesProofs ---------------------------
(***************************************************************************)
(* Proofs about CommandLanes, for every set of commands and every length   *)
(* of the safety queue.                                                    *)
(***************************************************************************)
EXTENDS CommandLanes, TLAPS

USE KindAssumption, RoomAssumption, NobodyAssumption

(* A lane's counter counts its queue and the command in the worker's hand. *)
Counted ==
  \A l \in Lanes : busy[l] = Len(queue[l]) + (IF hand[l] = Nobody THEN 0 ELSE 1)

OneOrdinary == busy["ordinary"] <= 1

(* The queue of a lane holds its queued commands, each once.               *)
Filed ==
  \A l \in Lanes :
    /\ \A i \in 1..Len(queue[l]) :
         stage[queue[l][i]] = "queued" /\ LaneOf(queue[l][i]) = l
    /\ \A i, j \in 1..Len(queue[l]) : queue[l][i] = queue[l][j] => i = j

Queued ==
  \A c \in Commands :
    stage[c] = "queued" => \E i \in 1..Len(queue[LaneOf(c)]) : queue[LaneOf(c)][i] = c

(* A command that was taken is in the hand of its lane until it is         *)
(* answered, and the hand holds nothing else.                              *)
InHand ==
  /\ \A c \in Commands :
       stage[c] \in {"taken", "running", "ran"} => hand[LaneOf(c)] = c
  /\ \A l \in Lanes :
       hand[l] # Nobody =>
         LaneOf(hand[l]) = l /\ stage[hand[l]] \in {"taken", "running", "ran", "answered"}

(* Admission sees the ordinary command that is not finished.               *)
Marked ==
  \A c \in Commands : LaneOf(c) = "ordinary" /\ Unfinished(c) => marker = c

Numbered ==
  \A c \in Commands :
    /\ arrival[c] <= admissions
    /\ stage[c] = "new" => arrival[c] = 0
    /\ Unfinished(c) => stamp[c] <= generation

(* A stop of the survey outdates each start before it that is not through, *)
(* and has not run yet if one got through.                                 *)
Outdated ==
  \A c \in Surveys, s \in SurveyStops :
    Before(c, s) =>
      /\ stage[c] \in {"queued", "taken", "running"} => stamp[c] < generation
      /\ survey = c => stage[s] \in {"queued", "taken", "running"}

IInv ==
  /\ TypeOK /\ Counted /\ OneOrdinary /\ Filed /\ Queued /\ InHand
  /\ Marked /\ Numbered /\ Outdated /\ StopsGoFirst

-----------------------------------------------------------------------------
(* Facts about sequences, in the form the steps use them.                  *)
LEMMA AppendFacts ==
  ASSUME NEW S, NEW q \in Seq(S), NEW c \in S
  PROVE  /\ Append(q, c) \in Seq(S) /\ Len(Append(q, c)) = Len(q) + 1
         /\ Len(q) \in Nat /\ Append(q, c)[Len(q) + 1] = c
         /\ \A i \in 1..Len(q) : Append(q, c)[i] = q[i]
  OBVIOUS

LEMMA TailFacts ==
  ASSUME NEW S, NEW q \in Seq(S), q # <<>>
  PROVE  /\ Tail(q) \in Seq(S) /\ Len(Tail(q)) = Len(q) - 1
         /\ Len(q) \in Nat \ {0} /\ Head(q) = q[1] /\ Head(q) \in S
         /\ \A i \in 1..Len(Tail(q)) : Tail(q)[i] = q[i + 1]
  OBVIOUS

LEMMA LaneFacts ==
  ASSUME NEW c \in Commands
  PROVE  /\ LaneOf(c) \in Lanes /\ c # Nobody
         /\ c \in Surveys => LaneOf(c) = "ordinary"
         /\ c \in SurveyStops => LaneOf(c) = "safety"
  BY DEF LaneOf, Lanes, Surveys, SurveyStops, StopKinds, Kinds

LEMMA InitIInv == Init => IInv
<1> SUFFICES ASSUME Init PROVE IInv
  OBVIOUS
<1>1. TypeOK
  <2>1. queue \in [Lanes -> Seq(Commands)] /\ \A l \in Lanes : Len(queue[l]) = 0
    BY DEF Init
  <2> QED BY <2>1 DEF Init, TypeOK, Lanes, Stages, Results
<1>2. Counted /\ OneOrdinary /\ Filed
  BY DEF Init, Counted, OneOrdinary, Filed, Lanes
<1>3. Queued /\ InHand /\ Marked
  BY LaneFacts DEF Init, Queued, InHand, Marked, Unfinished
<1>4. Numbered /\ Outdated /\ StopsGoFirst
  BY DEF Init, Numbered, Outdated, StopsGoFirst, Unfinished, Before, Surveys, SurveyStops
<1> QED BY <1>1, <1>2, <1>3, <1>4 DEF IInv

(* Admission.                                                              *)
LEMMA AdmitKeeps ==
  ASSUME IInv, NEW c \in Commands, Admit(c)
  PROVE  IInv'
<1> DEFINE l == LaneOf(c)
<1> /\ TypeOK /\ Counted /\ OneOrdinary /\ Filed /\ Queued /\ InHand
    /\ Marked /\ Numbered /\ Outdated /\ StopsGoFirst
  BY DEF IInv
<1>1. l \in Lanes /\ c # Nobody
  BY LaneFacts
<1>2. queue[l] \in Seq(Commands) /\ NextGeneration(c) \in Nat /\ generation <= NextGeneration(c)
  BY <1>1 DEF TypeOK, NextGeneration
<1>3. /\ queue'[l] = Append(queue[l], c) /\ stage' = [stage EXCEPT ![c] = "queued"]
      /\ \A m \in Lanes \ {l} : queue'[m] = queue[m] /\ busy'[m] = busy[m]
      /\ busy'[l] = busy[l] + 1 /\ hand' = hand /\ stage[c] = "new" /\ stage'[c] = "queued"
      /\ \A d \in Commands \ {c} : stage'[d] = stage[d] /\ arrival'[d] = arrival[d] /\ stamp'[d] = stamp[d]
      /\ arrival'[c] = admissions + 1 /\ stamp'[c] = NextGeneration(c) /\ generation' = NextGeneration(c)
      /\ survey' = survey
  BY <1>1 DEF Admit, TypeOK
<1>4. /\ Len(queue'[l]) = Len(queue[l]) + 1 /\ Len(queue[l]) \in Nat
      /\ queue'[l] \in Seq(Commands) /\ queue'[l][Len(queue[l]) + 1] = c
      /\ \A i \in 1..Len(queue[l]) : queue'[l][i] = queue[l][i] /\ queue[l][i] \in Commands
  BY <1>2, <1>3, AppendFacts
<1>5. TypeOK'
  <2>1. queue' \in [Lanes -> Seq(Commands)]
    BY <1>1, <1>2, AppendFacts DEF Admit, TypeOK
  <2>2. Len(queue'["safety"]) <= Room /\ Len(queue'["ordinary"]) <= 1
    BY <1>3, <1>4, <1>1 DEF Admit, Fits, TypeOK, Counted, Lanes
  <2>3. busy' \in [Lanes -> Nat] /\ thread' \in [Lanes -> {"none", "waiting", "expired"}]
        /\ hand' \in [Lanes -> Commands \cup {Nobody}]
    BY <1>1, SMTT(20) DEF Admit, TypeOK
  <2>4. /\ stage' \in [Commands -> Stages] /\ result' \in [Commands -> Results]
        /\ stamp' \in [Commands -> Nat] /\ arrival' \in [Commands -> Nat] /\ admissions' \in Nat
        /\ marker' \in Commands \cup {Nobody} /\ generation' \in Nat
        /\ survey' \in Surveys \cup {Nobody} /\ effective' \subseteq Commands
    BY <1>2, SMTT(20) DEF Admit, TypeOK, Stages
  <2> HIDE DEF l
  <2> QED BY <2>1, <2>2, <2>3, <2>4 DEF TypeOK
<1>6. Counted'
  <2>1. busy[l] \in Nat /\ busy[l] = Len(queue[l]) + (IF hand[l] = Nobody THEN 0 ELSE 1)
    BY <1>1 DEF Counted, TypeOK
  <2>2. busy'[l] = Len(queue'[l]) + (IF hand'[l] = Nobody THEN 0 ELSE 1)
    <3>1. busy'[l] = busy[l] + 1 /\ hand'[l] = hand[l]
      BY <1>3
    <3>2. Len(queue'[l]) = Len(queue[l]) + 1 /\ Len(queue[l]) \in Nat
      BY <1>4
    <3>3. CASE hand[l] = Nobody
      BY <2>1, <3>1, <3>2, <3>3
    <3>4. CASE hand[l] # Nobody
      BY <2>1, <3>1, <3>2, <3>4
    <3> QED BY <3>3, <3>4
  <2>3. \A m \in Lanes \ {l} : busy'[m] = Len(queue'[m]) + (IF hand'[m] = Nobody THEN 0 ELSE 1)
    BY <1>3 DEF Counted
  <2> QED BY <2>2, <2>3 DEF Counted
<1>7. OneOrdinary'
  BY <1>3, <1>1 DEF OneOrdinary, Admit, Fits, Lanes
<1>8. Filed'
  <2>1. \A m \in Lanes \ {l} : \A i \in 1..Len(queue'[m]) :
          stage'[queue'[m][i]] = "queued" /\ LaneOf(queue'[m][i]) = m
    <3> SUFFICES ASSUME NEW m \in Lanes \ {l}, NEW i \in 1..Len(queue[m])
                 PROVE  stage'[queue[m][i]] = "queued" /\ LaneOf(queue[m][i]) = m
      BY <1>3
    <3>1. queue[m] \in Seq(Commands) /\ stage[queue[m][i]] = "queued" /\ LaneOf(queue[m][i]) = m
      BY DEF Filed, TypeOK
    <3>2. queue[m][i] \in Commands
      BY <3>1
    <3> QED BY <1>3, <3>1, <3>2
  <2>2. \A i \in 1..Len(queue'[l]) :
          stage'[queue'[l][i]] = "queued" /\ LaneOf(queue'[l][i]) = l
    BY <1>1, <1>3, <1>4, SMTT(20) DEF Filed, TypeOK
  <2>3. \A i \in 1..Len(queue[l]) : queue[l][i] # c
    BY <1>1, <1>3 DEF Filed
  <2>4. \A i, j \in 1..Len(queue'[l]) : queue'[l][i] = queue'[l][j] => i = j
    <3>1. \A i, j \in 1..Len(queue[l]) : queue[l][i] = queue[l][j] => i = j
      BY <1>1 DEF Filed
    <3> SUFFICES ASSUME NEW i \in 1..Len(queue'[l]), NEW j \in 1..Len(queue'[l]),
                        queue'[l][i] = queue'[l][j]
                 PROVE  i = j
      OBVIOUS
    <3>2. CASE i \in 1..Len(queue[l]) /\ j \in 1..Len(queue[l])
      BY <1>4, <3>1, <3>2
    <3>3. CASE i = Len(queue[l]) + 1 /\ j \in 1..Len(queue[l])
      BY <1>4, <2>3, <3>3
    <3>4. CASE j = Len(queue[l]) + 1 /\ i \in 1..Len(queue[l])
      BY <1>4, <2>3, <3>4
    <3>5. CASE i = Len(queue[l]) + 1 /\ j = Len(queue[l]) + 1
      BY <3>5
    <3> QED BY <1>4, <3>2, <3>3, <3>4, <3>5
  <2>5. \A m \in Lanes \ {l} : \A i, j \in 1..Len(queue'[m]) :
          queue'[m][i] = queue'[m][j] => i = j
    BY <1>3 DEF Filed
  <2>6. \A m \in Lanes : m = l \/ m \in Lanes \ {l}
    OBVIOUS
  <2> QED BY <2>1, <2>2, <2>4, <2>5, <2>6 DEF Filed
<1>9. Queued'
  <2> SUFFICES ASSUME NEW d \in Commands, stage'[d] = "queued"
               PROVE  \E i \in 1..Len(queue'[LaneOf(d)]) : queue'[LaneOf(d)][i] = d
    BY DEF Queued
  <2>1. CASE d = c
    BY <1>4, <2>1
  <2>2. CASE d # c
    <3>1. PICK i \in 1..Len(queue[LaneOf(d)]) : queue[LaneOf(d)][i] = d
      BY <1>3, <2>2 DEF Queued
    <3>2. CASE LaneOf(d) = l
      BY <1>4, <3>1, <3>2, SMTT(20)
    <3>3. CASE LaneOf(d) # l
      BY <1>3, <3>1, <3>3, LaneFacts
    <3> QED BY <3>2, <3>3
  <2> QED BY <2>1, <2>2
<1>10. InHand'
  BY <1>3, SMTT(20) DEF InHand, TypeOK
<1>11. Marked'
  <2>1. CASE l = "ordinary"
    <3>1. busy["ordinary"] = 0
      BY <2>1 DEF Admit, Fits
    <3>2. Len(queue["ordinary"]) = 0 /\ hand["ordinary"] = Nobody
      BY <3>1, <2>1, <1>2 DEF Counted, Lanes, TypeOK
    <3>3. \A d \in Commands : LaneOf(d) = "ordinary" => ~Unfinished(d)
      BY <3>2, LaneFacts DEF Queued, InHand, Unfinished
    <3> QED BY <3>3, <1>3, <2>1 DEF Marked, Unfinished, Admit
  <2>2. CASE l # "ordinary"
    BY <1>3, <2>2 DEF Marked, Unfinished, Admit
  <2> QED BY <2>1, <2>2
<1>12. Numbered'
  <2>1. admissions' = admissions + 1 /\ admissions \in Nat
    BY DEF Admit, TypeOK
  <2>2. \A d \in Commands : arrival'[d] <= admissions'
    <3>1. \A d \in Commands : arrival[d] \in Nat /\ arrival[d] <= admissions
      BY DEF Numbered, TypeOK
    <3> QED BY <3>1, <1>3, <2>1
  <2>3. \A d \in Commands : Unfinished(d)' => stamp'[d] <= generation'
    BY <1>2, <1>3 DEF Numbered, TypeOK, Unfinished
  <2> QED BY <1>3, <2>2, <2>3 DEF Numbered
<1>13. Outdated'
  <2> SUFFICES ASSUME NEW d \in Surveys, NEW s \in SurveyStops, Before(d, s)'
               PROVE  /\ stage'[d] \in {"queued", "taken", "running"} => stamp'[d] < generation'
                      /\ survey' = d => stage'[s] \in {"queued", "taken", "running"}
    BY DEF Outdated
  <2>1. d \in Commands /\ s \in Commands /\ d # s
    BY LaneFacts DEF Surveys, SurveyStops
  <2>2. d # c
    <3>1. arrival[s] <= admissions /\ admissions \in Nat /\ arrival[s] \in Nat
      BY <2>1 DEF Numbered, TypeOK
    <3> QED BY <3>1, <2>1, <1>3 DEF Before
  <2>3. CASE s # c
    <3>1. Before(d, s)
      BY <1>3, <2>1, <2>2, <2>3 DEF Before
    <3>2. stamp[d] \in Nat /\ generation \in Nat
      BY <2>1 DEF TypeOK
    <3> QED BY <1>2, <1>3, <2>1, <2>2, <2>3, <3>1, <3>2 DEF Outdated
  <2>4. CASE s = c
    <3>1. ASSUME stage[d] \in {"queued", "taken", "running"} PROVE stamp[d] < NextGeneration(c)
      <4>1. marker = d
        BY <3>1, <2>1, LaneFacts DEF Marked, Unfinished
      <4>2. NextGeneration(c) = generation + 1
        BY <4>1, <2>4, LaneFacts DEF NextGeneration, Cancels, Admit
      <4>3. stamp[d] <= generation /\ stamp[d] \in Nat /\ generation \in Nat
        BY <3>1, <2>1 DEF Numbered, Unfinished, TypeOK
      <4> QED BY <4>2, <4>3
    <3> QED BY <3>1, <1>3, <2>1, <2>2, <2>4
  <2> QED BY <2>3, <2>4
<1>14. StopsGoFirst'
  <2> SUFFICES ASSUME NEW d \in Commands, NEW s \in Commands, Before(s, d)',
                      LaneOf(d) = "ordinary", LaneOf(s) = "safety"
               PROVE  stage'[s] = "answered"
    BY DEF StopsGoFirst
  <2>1. s # c
    <3>1. arrival[d] <= admissions /\ admissions \in Nat /\ arrival[d] \in Nat
      BY DEF Numbered, TypeOK
    <3> QED BY <3>1, <1>3 DEF Before
  <2>2. CASE d # c
    BY <1>3, <2>1, <2>2 DEF Before, StopsGoFirst
  <2>3. CASE d = c
    <3>1. busy["safety"] = 0
      BY <2>3 DEF Admit, Fits
    <3>2. Len(queue["safety"]) = 0 /\ hand["safety"] = Nobody
      BY <3>1, <1>1 DEF Counted, Lanes, TypeOK
    <3>3. stage[s] \notin {"queued", "taken", "running", "ran"}
      BY <3>2, LaneFacts DEF Queued, InHand
    <3>4. stage[s] # "new"
      BY <1>3, <2>1 DEF Numbered, Before
    <3> QED BY <3>3, <3>4, <1>3, <2>1 DEF TypeOK, Stages
  <2> QED BY <2>2, <2>3
<1> QED BY <1>5, <1>6, <1>7, <1>8, <1>9, <1>10, <1>11, <1>12, <1>13, <1>14 DEF IInv

(* A refused command never enters a lane.                                  *)
LEMMA RefuseKeeps ==
  ASSUME IInv, NEW c \in Commands, Refuse(c)
  PROVE  IInv'
<1> /\ TypeOK /\ Counted /\ OneOrdinary /\ Filed /\ Queued /\ InHand
    /\ Marked /\ Numbered /\ Outdated /\ StopsGoFirst
  BY DEF IInv
<1>1. /\ stage[c] = "new" /\ stage'[c] = "answered"
      /\ \A d \in Commands \ {c} : stage'[d] = stage[d]
      /\ UNCHANGED <<lanes, order, survey>>
  BY DEF Refuse, TypeOK
<1>2. generation' = generation
  BY LaneFacts DEF Refuse, NextGeneration
<1>3. TypeOK'
  BY <1>2 DEF Refuse, TypeOK, lanes, order, Stages, Results
<1>4. Counted' /\ OneOrdinary'
  BY <1>1 DEF Counted, OneOrdinary, lanes
<1>5. Filed'
  <2>1. \A l \in Lanes : \A i \in 1..Len(queue[l]) : queue[l][i] \in Commands \ {c}
    BY <1>1 DEF Filed, TypeOK
  <2> QED BY <1>1, <2>1 DEF Filed, lanes
<1>6. Queued' /\ Marked'
  BY <1>1 DEF Queued, Marked, Unfinished, lanes
<1>7. InHand'
  <2>1. \A l \in Lanes : hand[l] # Nobody => hand[l] \in Commands \ {c}
    BY <1>1 DEF InHand, TypeOK
  <2> QED BY <1>1, <2>1 DEF InHand, lanes
<1>8. Numbered'
  BY <1>1, <1>2 DEF Numbered, Unfinished, order
<1>9. Outdated'
  BY <1>1, <1>2 DEF Outdated, Numbered, Before, order, Surveys, SurveyStops
<1>10. StopsGoFirst'
  BY <1>1 DEF StopsGoFirst, Numbered, Before, order
<1> QED BY <1>3, <1>4, <1>5, <1>6, <1>7, <1>8, <1>9, <1>10 DEF IInv

(* What holds of any step by which a worker moves its command on.          *)
LEMMA MoveKeeps ==
  ASSUME IInv, NEW l \in Lanes, NEW s \in {"running", "ran", "answered"},
         hand[l] # Nobody, stage[hand[l]] \in {"taken", "running", "ran"},
         s = "running" => stage[hand[l]] = "taken",
         stage' = [stage EXCEPT ![hand[l]] = s],
         UNCHANGED <<lanes, order, generation>>
  PROVE  /\ Counted' /\ OneOrdinary' /\ Filed' /\ Queued' /\ InHand'
         /\ Marked' /\ Numbered' /\ StopsGoFirst'
<1> /\ TypeOK /\ Counted /\ OneOrdinary /\ Filed /\ Queued /\ InHand
    /\ Marked /\ Numbered /\ Outdated /\ StopsGoFirst
  BY DEF IInv
<1> DEFINE c == hand[l]
<1>1. c \in Commands /\ LaneOf(c) = l
  BY DEF TypeOK, InHand
<1>2. stage'[c] = s /\ \A d \in Commands \ {c} : stage'[d] = stage[d]
  BY <1>1 DEF TypeOK
<1>3. Counted' /\ OneOrdinary'
  BY DEF Counted, OneOrdinary, lanes
<1>4. Filed'
  <2>1. \A m \in Lanes : \A i \in 1..Len(queue[m]) : queue[m][i] \in Commands \ {c}
    BY SMTT(20) DEF Filed, TypeOK
  <2> QED BY <1>2, <2>1 DEF Filed, lanes
<1>5. Queued' /\ Marked'
  BY <1>1, <1>2 DEF Queued, Marked, Unfinished, lanes
<1>6. InHand'
  <2>1. \A d \in Commands : stage'[d] \in {"taken", "running", "ran"} => hand'[LaneOf(d)] = d
    BY <1>1, <1>2 DEF InHand, lanes
  <2>2. \A m \in Lanes : hand'[m] # Nobody =>
          LaneOf(hand'[m]) = m /\ stage'[hand'[m]] \in {"taken", "running", "ran", "answered"}
    BY <1>1, <1>2 DEF InHand, lanes, TypeOK
  <2> QED BY <2>1, <2>2 DEF InHand
<1>7. Numbered'
  BY <1>1, <1>2 DEF Numbered, Unfinished, order
<1>8. StopsGoFirst'
  BY <1>1, <1>2 DEF StopsGoFirst, Before, order
<1> QED BY <1>3, <1>4, <1>5, <1>6, <1>7, <1>8

(* A move that activates no survey and lets no stop of a survey through    *)
(* keeps the order of starts and stops as well.                            *)
LEMMA QuietMoveKeepsOutdated ==
  ASSUME IInv, NEW l \in Lanes, NEW s \in {"running", "ran", "answered"},
         hand[l] # Nobody, stage[hand[l]] \in {"taken", "running", "ran"},
         s = "running" => stage[hand[l]] = "taken",
         hand[l] \in SurveyStops => s = "running" \/ survey' = Nobody \/ stage[hand[l]] = "ran",
         stage' = [stage EXCEPT ![hand[l]] = s],
         survey' \in {survey, Nobody},
         UNCHANGED <<order, generation>>
  PROVE  Outdated'
<1> /\ TypeOK /\ Counted /\ OneOrdinary /\ Filed /\ Queued /\ InHand
    /\ Marked /\ Numbered /\ Outdated /\ StopsGoFirst
  BY DEF IInv
<1>1. hand[l] \in Commands
  BY DEF TypeOK
<1>2. stage'[hand[l]] = s /\ \A d \in Commands \ {hand[l]} : stage'[d] = stage[d]
  BY <1>1 DEF TypeOK
<1> SUFFICES ASSUME NEW d \in Surveys, NEW t \in SurveyStops, Before(d, t)
             PROVE  /\ stage'[d] \in {"queued", "taken", "running"} => stamp[d] < generation
                    /\ survey' = d => stage'[t] \in {"queued", "taken", "running"}
  BY DEF Outdated, Before, order
<1>3. d \in Commands /\ t \in Commands /\ d # Nobody
  BY LaneFacts DEF Surveys, SurveyStops
<1>4. stage'[d] \in {"queued", "taken", "running"} => stamp[d] < generation
  BY <1>2, <1>3 DEF Outdated
<1>5. survey' = d => stage'[t] \in {"queued", "taken", "running"}
  BY <1>2, <1>3 DEF Outdated
<1> QED BY <1>4, <1>5

LEMMA BeginKeeps ==
  ASSUME IInv, NEW l \in Lanes, Begin(l)
  PROVE  IInv'
<1> /\ TypeOK /\ Counted /\ OneOrdinary /\ Filed /\ Queued /\ InHand
    /\ Marked /\ Numbered /\ Outdated /\ StopsGoFirst
  BY DEF IInv
<1>1. hand[l] \in Commands /\ LaneOf(hand[l]) = l /\ hand[l] # Nobody /\ stage[hand[l]] = "taken"
  BY DEF Begin, TypeOK, InHand
<1>2. TypeOK'
  BY <1>1 DEF Begin, TypeOK, Stages, Results, lanes, order
<1>3. PICK s \in {"running", "answered"} : stage' = [stage EXCEPT ![hand[l]] = s]
  BY DEF Begin
<1>4. hand[l] \in SurveyStops => s = "running"
  <2>1. hand[l] \in SurveyStops => l = "safety"
    BY <1>1, LaneFacts
  <2>2. l = "safety" => stage'[hand[l]] = "running"
    BY <1>1 DEF Begin, TypeOK
  <2>3. stage'[hand[l]] = s
    BY <1>1, <1>3 DEF TypeOK
  <2> QED BY <2>1, <2>2, <2>3
<1>5. UNCHANGED <<lanes, order, generation>> /\ survey' = survey
  BY DEF Begin
<1>6. Outdated'
  BY <1>1, <1>3, <1>4, <1>5, QuietMoveKeepsOutdated
<1>7. /\ Counted' /\ OneOrdinary' /\ Filed' /\ Queued' /\ InHand'
      /\ Marked' /\ Numbered' /\ StopsGoFirst'
  BY <1>1, <1>3, <1>5, MoveKeeps
<1> QED BY <1>2, <1>6, <1>7 DEF IInv

LEMMA HandleKeeps ==
  ASSUME IInv, NEW l \in Lanes, HandleOther(l) \/ StartSurveyFails(l) \/ StopSurvey(l) \/ Answer(l)
  PROVE  IInv'
<1> /\ TypeOK /\ Counted /\ OneOrdinary /\ Filed /\ Queued /\ InHand
    /\ Marked /\ Numbered /\ Outdated /\ StopsGoFirst
  BY DEF IInv
<1> DEFINE s == IF stage[hand[l]] = "ran" THEN "answered" ELSE "ran"
<1>1. /\ hand[l] \in Commands /\ hand[l] # Nobody /\ stage[hand[l]] \in {"running", "ran"}
      /\ stage' = [stage EXCEPT ![hand[l]] = s] /\ UNCHANGED <<lanes, order, generation>>
      /\ survey' \in {survey, Nobody}
  BY DEF HandleOther, StartSurveyFails, StopSurvey, Answer, TypeOK
<1>2. hand[l] \in SurveyStops => survey' = Nobody \/ stage[hand[l]] = "ran"
  BY DEF HandleOther, StartSurveyFails, StopSurvey, Answer, SurveyStops
<1>3. TypeOK'
  <2>1. result' \in [Commands -> Results] /\ effective' = effective
    <3>1. \E r \in Results : result' = [result EXCEPT ![hand[l]] = r] \/ result' = result
      BY DEF HandleOther, StartSurveyFails, StopSurvey, Answer, Results
    <3>2. result' \in [Commands -> Results]
      BY <1>1, <3>1 DEF TypeOK
    <3>3. effective' = effective
      BY DEF HandleOther, StartSurveyFails, StopSurvey, Answer
    <3> QED BY <3>2, <3>3
  <2>2. stage' \in [Commands -> Stages] /\ survey' \in Surveys \cup {Nobody}
    BY <1>1 DEF TypeOK, Stages
  <2> QED BY <1>1, <2>1, <2>2 DEF TypeOK, lanes, order
<1>4. Outdated'
  BY <1>1, <1>2, QuietMoveKeepsOutdated
<1>5. /\ Counted' /\ OneOrdinary' /\ Filed' /\ Queued' /\ InHand'
      /\ Marked' /\ Numbered' /\ StopsGoFirst'
  BY <1>1, MoveKeeps
<1> QED BY <1>3, <1>4, <1>5 DEF IInv

(* The step that matters: a survey is activated only by a start that no    *)
(* stop was admitted after.                                                *)
LEMMA StartSurveyKeeps ==
  ASSUME IInv, NEW l \in Lanes, StartSurvey(l)
  PROVE  IInv'
<1> /\ TypeOK /\ Counted /\ OneOrdinary /\ Filed /\ Queued /\ InHand
    /\ Marked /\ Numbered /\ Outdated /\ StopsGoFirst
  BY DEF IInv
<1> DEFINE c == hand[l]
<1>1. /\ c \in Commands /\ c # Nobody /\ c \in Surveys /\ stage[c] = "running"
      /\ stage' = [stage EXCEPT ![c] = "ran"] /\ UNCHANGED <<lanes, order, generation>>
      /\ survey' = c /\ stamp[c] = generation
  BY DEF StartSurvey, MayActivate, TypeOK, Surveys
<1>2. TypeOK'
  BY <1>1 DEF StartSurvey, TypeOK, Stages, Results, lanes, order
<1>3. /\ Counted' /\ OneOrdinary' /\ Filed' /\ Queued' /\ InHand'
      /\ Marked' /\ Numbered' /\ StopsGoFirst'
  BY <1>1, MoveKeeps
<1>4. Outdated'
  <2> SUFFICES ASSUME NEW d \in Surveys, NEW t \in SurveyStops, Before(d, t)
               PROVE  /\ stage'[d] \in {"queued", "taken", "running"} => stamp[d] < generation
                      /\ c # d
    BY <1>1 DEF Outdated, Before, order
  <2>1. d \in Commands /\ generation \in Nat
    BY DEF Surveys, TypeOK
  <2>2. c # d
    BY <1>1, <2>1 DEF Outdated
  <2>3. stage'[d] = stage[d]
    BY <1>1, <2>1, <2>2 DEF TypeOK
  <2> QED BY <2>2, <2>3 DEF Outdated
<1> QED BY <1>2, <1>3, <1>4 DEF IInv

(* The worker takes the command at the head of its queue.                  *)
LEMMA TakeKeeps ==
  ASSUME IInv, NEW l \in Lanes, Take(l)
  PROVE  IInv'
<1> /\ TypeOK /\ Counted /\ OneOrdinary /\ Filed /\ Queued /\ InHand
    /\ Marked /\ Numbered /\ Outdated /\ StopsGoFirst
  BY DEF IInv
<1> DEFINE c == Head(queue[l])
           q == queue[l]
<1>1. q \in Seq(Commands) /\ q # <<>> /\ hand[l] = Nobody
  BY DEF Take, TypeOK
<1>2. /\ Tail(q) \in Seq(Commands) /\ Len(Tail(q)) = Len(q) - 1 /\ Len(q) \in Nat \ {0}
      /\ c = q[1] /\ c \in Commands /\ \A i \in 1..Len(Tail(q)) : Tail(q)[i] = q[i + 1]
  BY <1>1, TailFacts
<1>3. stage[c] = "queued" /\ LaneOf(c) = l /\ c # Nobody
  BY <1>2 DEF Filed
<1>4. /\ hand'[l] = c /\ queue'[l] = Tail(q) /\ stage'[c] = "taken" /\ busy' = busy
      /\ \A m \in Lanes \ {l} : hand'[m] = hand[m] /\ queue'[m] = queue[m]
      /\ \A d \in Commands \ {c} : stage'[d] = stage[d]
      /\ UNCHANGED <<order, marker, generation, survey>>
  BY <1>2 DEF Take, TypeOK
<1> HIDE DEF c, q
<1>5. TypeOK'
  <2>1. queue' \in [Lanes -> Seq(Commands)] /\ hand' \in [Lanes -> Commands \cup {Nobody}]
    BY <1>2 DEF Take, TypeOK, c, q
  <2>2. Len(queue'["safety"]) <= Room /\ Len(queue'["ordinary"]) <= 1
    <3>1. Len(queue'[l]) = Len(queue[l]) - 1 /\ Len(queue[l]) \in Nat /\ Room \in Nat
      BY <1>2, <1>4 DEF q
    <3>2. Len(queue["safety"]) <= Room /\ Len(queue["ordinary"]) <= 1
      BY DEF TypeOK
    <3>3. CASE l = "safety"
      BY <3>1, <3>2, <3>3, <1>4 DEF Lanes
    <3>4. CASE l = "ordinary"
      BY <3>1, <3>2, <3>4, <1>4 DEF Lanes
    <3> QED BY <3>3, <3>4 DEF Lanes
  <2>3. stage' \in [Commands -> Stages]
    BY <1>2 DEF Take, TypeOK, Stages, c
  <2> QED BY <2>1, <2>2, <2>3 DEF Take, TypeOK, order
<1>6. Counted' /\ OneOrdinary'
  <2>1. busy[l] = Len(q)
    BY <1>1 DEF Counted, TypeOK, q
  <2>2. busy'[l] = Len(queue'[l]) + (IF hand'[l] = Nobody THEN 0 ELSE 1)
    BY <2>1, <1>2, <1>3, <1>4
  <2>3. \A m \in Lanes \ {l} : busy'[m] = Len(queue'[m]) + (IF hand'[m] = Nobody THEN 0 ELSE 1)
    BY <1>4 DEF Counted
  <2>4. \A m \in Lanes : m = l \/ m \in Lanes \ {l}
    OBVIOUS
  <2> QED BY <2>2, <2>3, <2>4, <1>4 DEF Counted, OneOrdinary
<1>7. Filed'
  <2>1. \A i \in 1..Len(queue'[l]) :
          stage'[queue'[l][i]] = "queued" /\ LaneOf(queue'[l][i]) = l
    <3> SUFFICES ASSUME NEW i \in 1..Len(Tail(q))
                 PROVE  stage'[Tail(q)[i]] = "queued" /\ LaneOf(Tail(q)[i]) = l
      BY <1>4
    <3>1. i + 1 \in 1..Len(q) /\ 1 \in 1..Len(q) /\ i + 1 # 1 /\ Tail(q)[i] = q[i + 1]
      BY <1>2
    <3>2. q[i + 1] # c /\ stage[q[i + 1]] = "queued" /\ LaneOf(q[i + 1]) = l
      BY <3>1, <1>2 DEF Filed, q
    <3>3. q[i + 1] \in Commands
      BY <3>1, <1>1
    <3> QED BY <3>1, <3>2, <3>3, <1>4
  <2>2. \A i, j \in 1..Len(queue'[l]) : queue'[l][i] = queue'[l][j] => i = j
    <3> SUFFICES ASSUME NEW i \in 1..Len(Tail(q)), NEW j \in 1..Len(Tail(q)), Tail(q)[i] = Tail(q)[j]
                 PROVE  i = j
      BY <1>4
    <3>1. i + 1 \in 1..Len(q) /\ j + 1 \in 1..Len(q) /\ q[i + 1] = q[j + 1]
      BY <1>2
    <3>2. i + 1 = j + 1
      BY <3>1 DEF Filed, q
    <3> QED BY <3>2, <1>2
  <2>3. \A m \in Lanes \ {l} : \A i \in 1..Len(queue'[m]) :
          stage'[queue'[m][i]] = "queued" /\ LaneOf(queue'[m][i]) = m
    <3> SUFFICES ASSUME NEW m \in Lanes \ {l}, NEW i \in 1..Len(queue[m])
                 PROVE  stage'[queue[m][i]] = "queued" /\ LaneOf(queue[m][i]) = m
      BY <1>4
    <3>1. queue[m] \in Seq(Commands) /\ stage[queue[m][i]] = "queued" /\ LaneOf(queue[m][i]) = m
      BY DEF Filed, TypeOK
    <3>2. queue[m][i] \in Commands /\ queue[m][i] # c
      BY <3>1, <1>3
    <3> QED BY <1>4, <3>1, <3>2
  <2>4. \A m \in Lanes \ {l} : \A i, j \in 1..Len(queue'[m]) :
          queue'[m][i] = queue'[m][j] => i = j
    BY <1>4 DEF Filed
  <2>5. \A m \in Lanes : m = l \/ m \in Lanes \ {l}
    OBVIOUS
  <2> QED BY <2>1, <2>2, <2>3, <2>4, <2>5 DEF Filed
<1>8. Queued'
  <2> SUFFICES ASSUME NEW d \in Commands, stage'[d] = "queued"
               PROVE  \E i \in 1..Len(queue'[LaneOf(d)]) : queue'[LaneOf(d)][i] = d
    BY DEF Queued
  <2>1. d # c /\ stage[d] = "queued"
    BY <1>4
  <2>2. PICK i \in 1..Len(queue[LaneOf(d)]) : queue[LaneOf(d)][i] = d
    BY <2>1 DEF Queued
  <2>3. CASE LaneOf(d) = l
    <3>1. q[i] = d /\ i \in 1..Len(q)
      BY <2>2, <2>3 DEF q
    <3>2. i # 1 /\ i - 1 \in 1..Len(Tail(q))
      BY <3>1, <2>1, <1>2
    <3>3. Tail(q)[i - 1] = d
      BY <3>1, <3>2, <1>2
    <3> QED BY <3>2, <3>3, <2>3, <1>4
  <2>4. CASE LaneOf(d) # l
    BY <2>2, <2>4, <1>4, LaneFacts
  <2> QED BY <2>3, <2>4
<1>9. InHand'
  <2>1. \A d \in Commands : LaneOf(d) = l => stage[d] \notin {"taken", "running", "ran"}
    BY <1>1, LaneFacts DEF InHand
  <2>2. \A d \in Commands : stage'[d] \in {"taken", "running", "ran"} => hand'[LaneOf(d)] = d
    BY <2>1, <1>3, <1>4, LaneFacts DEF InHand
  <2>3. LaneOf(hand'[l]) = l /\ stage'[hand'[l]] = "taken"
    BY <1>3, <1>4
  <2>4. \A m \in Lanes \ {l} : hand'[m] # Nobody =>
          LaneOf(hand'[m]) = m /\ stage'[hand'[m]] \in {"taken", "running", "ran", "answered"}
    <3> SUFFICES ASSUME NEW m \in Lanes \ {l}, hand[m] # Nobody
                 PROVE  /\ LaneOf(hand[m]) = m
                        /\ stage'[hand[m]] \in {"taken", "running", "ran", "answered"}
      BY <1>4
    <3>1. hand[m] \in Commands /\ LaneOf(hand[m]) = m
          /\ stage[hand[m]] \in {"taken", "running", "ran", "answered"}
      BY DEF InHand, TypeOK
    <3> QED BY <3>1, <1>3, <1>4
  <2>5. \A m \in Lanes : m = l \/ m \in Lanes \ {l}
    OBVIOUS
  <2> QED BY <2>2, <2>3, <2>4, <2>5 DEF InHand
<1>10. Marked' /\ Numbered'
  BY <1>2, <1>3, <1>4 DEF Marked, Numbered, Unfinished, order
<1>11. Outdated'
  BY <1>2, <1>3, <1>4 DEF Outdated, Before, order, Surveys, SurveyStops
<1>12. StopsGoFirst'
  BY <1>2, <1>3, <1>4 DEF StopsGoFirst, Before, order
<1> QED BY <1>5, <1>6, <1>7, <1>8, <1>9, <1>10, <1>11, <1>12 DEF IInv

(* The command is answered and leaves the worker's hand.                   *)
LEMMA FinishKeeps ==
  ASSUME IInv, NEW l \in Lanes, Finish(l)
  PROVE  IInv'
<1> /\ TypeOK /\ Counted /\ OneOrdinary /\ Filed /\ Queued /\ InHand
    /\ Marked /\ Numbered /\ Outdated /\ StopsGoFirst
  BY DEF IInv
<1>1. /\ hand[l] # Nobody /\ hand[l] \in Commands /\ stage[hand[l]] = "answered"
      /\ hand'[l] = Nobody /\ busy'[l] = busy[l] - 1 /\ LaneOf(hand[l]) = l
      /\ \A m \in Lanes \ {l} : hand'[m] = hand[m] /\ busy'[m] = busy[m]
      /\ UNCHANGED <<stage, order, queue, generation, survey>>
  BY DEF Finish, TypeOK, InHand
<1>2. busy[l] = Len(queue[l]) + 1 /\ Len(queue[l]) \in Nat
  BY <1>1 DEF Counted, TypeOK
<1>3. TypeOK'
  <2>1. busy' \in [Lanes -> Nat]
    BY <1>1, <1>2 DEF Finish, TypeOK
  <2> QED BY <2>1 DEF Finish, TypeOK, order
<1>4. Counted'
  <2>1. busy'[l] = Len(queue'[l]) + (IF hand'[l] = Nobody THEN 0 ELSE 1)
    BY <1>1, <1>2
  <2>2. \A m \in Lanes \ {l} : busy'[m] = Len(queue'[m]) + (IF hand'[m] = Nobody THEN 0 ELSE 1)
    BY <1>1 DEF Counted
  <2>3. \A m \in Lanes : m = l \/ m \in Lanes \ {l}
    OBVIOUS
  <2> QED BY <2>1, <2>2, <2>3 DEF Counted
<1>5. OneOrdinary'
  BY <1>1, <1>2 DEF OneOrdinary, Lanes
<1>6. Filed' /\ Queued'
  BY <1>1 DEF Filed, Queued
<1>7. InHand'
  <2>1. \A d \in Commands : stage[d] \in {"taken", "running", "ran"} => d # hand[l] /\ LaneOf(d) # l
    BY <1>1 DEF InHand
  <2> QED BY <2>1, <1>1, LaneFacts DEF InHand
<1>8. Marked'
  <2>1. CASE l = "ordinary"
    <3>1. Len(queue["ordinary"]) = 0
      BY <2>1, <1>2 DEF OneOrdinary
    <3>2. \A d \in Commands : LaneOf(d) = "ordinary" => ~Unfinished(d)
      BY <3>1, <2>1, <1>1 DEF Queued, InHand, Unfinished
    <3> QED BY <3>2, <1>1 DEF Marked, Unfinished
  <2>2. CASE l # "ordinary"
    BY <2>2 DEF Finish, Marked, Unfinished
  <2> QED BY <2>1, <2>2
<1>9. Numbered' /\ Outdated' /\ StopsGoFirst'
  BY <1>1 DEF Numbered, Outdated, StopsGoFirst, Unfinished, Before, order
<1> QED BY <1>3, <1>4, <1>5, <1>6, <1>7, <1>8, <1>9 DEF IInv

(* The comings and goings of the threads, and the end of a survey.         *)
LEMMA OthersKeep ==
  ASSUME IInv, \/ \E l \in Lanes : Expire(l) \/ Retire(l)
               \/ SurveyEnds
               \/ UNCHANGED vars
  PROVE  IInv'
<1> /\ TypeOK /\ Counted /\ OneOrdinary /\ Filed /\ Queued /\ InHand
    /\ Marked /\ Numbered /\ Outdated /\ StopsGoFirst
  BY DEF IInv
<1>1. /\ UNCHANGED <<stage, result, order, queue, busy, hand, marker, generation, effective>>
      /\ survey' \in {survey, Nobody}
  BY DEF Expire, Retire, SurveyEnds, vars, lanes
<1>2. thread' \in [Lanes -> {"none", "waiting", "expired"}]
  BY DEF Expire, Retire, SurveyEnds, vars, lanes, TypeOK
<1>3. TypeOK'
  BY <1>1, <1>2 DEF TypeOK, order
<1>4. Counted' /\ OneOrdinary' /\ Filed' /\ Queued' /\ InHand'
  BY <1>1 DEF Counted, OneOrdinary, Filed, Queued, InHand
<1>5. Marked' /\ Numbered' /\ StopsGoFirst'
  BY <1>1 DEF Marked, Numbered, StopsGoFirst, Unfinished, Before, order
<1>6. Outdated'
  BY <1>1, LaneFacts DEF Outdated, Before, order, Surveys
<1> QED BY <1>3, <1>4, <1>5, <1>6 DEF IInv

LEMMA NextKeeps == IInv /\ [Next]_vars => IInv'
<1> SUFFICES ASSUME IInv, [Next]_vars PROVE IInv'
  OBVIOUS
<1>1. CASE \E c \in Commands : Admit(c) \/ Refuse(c)
  BY <1>1, AdmitKeeps, RefuseKeeps
<1>2. CASE \E l \in Lanes : Take(l) \/ Begin(l) \/ StartSurvey(l) \/ Finish(l)
  BY <1>2, TakeKeeps, BeginKeeps, StartSurveyKeeps, FinishKeeps
<1>3. CASE \E l \in Lanes : HandleOther(l) \/ StartSurveyFails(l) \/ StopSurvey(l) \/ Answer(l)
  BY <1>3, HandleKeeps
<1>4. CASE (\E l \in Lanes : Expire(l) \/ Retire(l)) \/ SurveyEnds \/ UNCHANGED vars
  BY <1>4, OthersKeep
<1> QED BY <1>1, <1>2, <1>3, <1>4 DEF Next

LEMMA InvariantHolds == Spec => []IInv
<1>1. Init => IInv
  BY InitIInv
<1>2. IInv /\ [Next]_vars => IInv'
  BY NextKeeps
<1> QED BY <1>1, <1>2, PTL DEF Spec

-----------------------------------------------------------------------------
(* Every variable has its type: the two queues never overflow, and a put   *)
(* into the ordinary lane's queue of one always finds it empty.            *)
THEOREM LanesTyped == Spec => []TypeOK
<1>1. IInv => TypeOK
  BY DEF IInv
<1> QED BY <1>1, InvariantHolds, PTL

(* However many commands arrive, and however the two workers, the          *)
(* admission and the survey are interleaved: after the answer to a stop of *)
(* the survey no survey is active that was asked for before that stop      *)
(* (_enqueue_command_long, _start_survey_locked).                          *)
THEOREM StopsBeatSurveys == Spec => []StopBeatsSurvey
<1>1. IInv => StopBeatsSurvey
  <2> SUFFICES ASSUME IInv, NEW s \in SurveyStops, stage[s] = "answered", survey # Nobody,
                      Before(survey, s)
               PROVE  FALSE
    BY DEF StopBeatsSurvey
  <2>1. survey \in Surveys
    BY DEF IInv, TypeOK
  <2>2. stage[s] \in {"queued", "taken", "running"}
    BY <2>1 DEF IInv, Outdated
  <2> QED BY <2>2
<1> QED BY <1>1, InvariantHolds, PTL

(* An ordinary command enters its lane only after the answer to every stop *)
(* admitted before it: counting the safety lane's commands, and not only   *)
(* noting that it is busy, makes it so (_command_loop).                    *)
THEOREM StopsComeFirst == Spec => []StopsGoFirst
<1>1. IInv => StopsGoFirst
  BY DEF IInv
<1> QED BY <1>1, InvariantHolds, PTL

(* A command in a lane always has a worker thread: the one that gave up    *)
(* waiting looks at the lane's counter again before it ends.               *)
THEOREM QueuesAreServed == Spec => []QueueIsServed
<1>1. Init => QueueIsServed
  BY DEF Init, QueueIsServed, Lanes
<1>2. IInv /\ QueueIsServed /\ [Next]_vars => QueueIsServed'
  <2> SUFFICES ASSUME IInv, QueueIsServed, [Next]_vars, NEW m \in Lanes,
                      queue'[m] # <<>> \/ hand'[m] # Nobody
               PROVE  thread'[m] # "none"
    BY DEF QueueIsServed
  <2>0. TypeOK /\ Counted
    BY DEF IInv
  <2>1. ASSUME NEW c \in Commands, Admit(c) PROVE thread'[m] # "none"
    BY <2>0, <2>1, LaneFacts DEF Admit, QueueIsServed, TypeOK
  <2>2. ASSUME NEW l \in Lanes, Retire(l) PROVE thread'[m] # "none"
    <3>1. m = l => busy[l] # 0
      <4> SUFFICES ASSUME m = l, busy[l] = 0 PROVE FALSE
        OBVIOUS
      <4>1. queue[l] \in Seq(Commands) /\ Len(queue[l]) \in Nat
        BY <2>0 DEF TypeOK
      <4>2. busy[l] = Len(queue[l]) + (IF hand[l] = Nobody THEN 0 ELSE 1)
        BY <2>0 DEF Counted
      <4>3. hand[l] = Nobody /\ Len(queue[l]) = 0
        <5>1. CASE hand[l] = Nobody
          BY <4>1, <4>2, <5>1
        <5>2. CASE hand[l] # Nobody
          BY <4>1, <4>2, <5>2
        <5> QED BY <5>1, <5>2
      <4>4. queue[l] = <<>>
        BY <4>1, <4>3
      <4> QED BY <2>2, <4>3, <4>4 DEF Retire
    <3> QED BY <2>0, <2>2, <3>1 DEF Retire, QueueIsServed, TypeOK
  <2>3. ASSUME NEW l \in Lanes, Take(l) PROVE thread'[m] # "none"
    BY <2>0, <2>3 DEF Take, QueueIsServed, TypeOK
  <2>4. ASSUME NEW l \in Lanes, Expire(l) PROVE thread'[m] # "none"
    BY <2>0, <2>4 DEF Expire, QueueIsServed, TypeOK
  <2>5. ASSUME NEW l \in Lanes, Finish(l) PROVE thread'[m] # "none"
    BY <2>0, <2>5 DEF Finish, QueueIsServed, TypeOK
  <2>6. CASE UNCHANGED <<queue, hand, thread>>
    BY <2>6 DEF QueueIsServed
  <2>7. \/ \E c \in Commands : Admit(c)
        \/ \E l \in Lanes : Retire(l) \/ Take(l) \/ Expire(l) \/ Finish(l)
        \/ UNCHANGED <<queue, hand, thread>>
    BY DEF Next, vars, lanes, Refuse, Begin, HandleOther, StartSurvey, StartSurveyFails,
           StopSurvey, Answer, SurveyEnds
  <2> QED BY <2>1, <2>2, <2>3, <2>4, <2>5, <2>6, <2>7
<1> QED BY <1>1, <1>2, InvariantHolds, PTL DEF Spec

-----------------------------------------------------------------------------
(* A command loses to a stop that had something to stop.  The generation   *)
(* may rise for a stop that finds nothing, when the ordinary command it    *)
(* saw was just answered; then no unfinished command is left to lose.      *)
Loses(c) ==
  \/ result[c] \in {"cancelled", "superseded"}
  \/ LaneOf(c) = "ordinary" /\ Unfinished(c) /\ stamp[c] < generation

HasCause(c) == \E s \in effective : Before(c, s)
Caused == \A c \in Commands : Loses(c) => HasCause(c)
Arrived == \A c \in Commands : Unfinished(c) => arrival[c] > 0

LInv == IInv /\ Caused /\ Arrived

(* A cause stays one: stops are not forgotten, nor the order of arrival.   *)
LEMMA CauseStays ==
  ASSUME TypeOK, NEW c \in Commands, HasCause(c), effective \subseteq effective',
         \A d \in Commands : arrival[d] > 0 => arrival'[d] = arrival[d]
  PROVE  HasCause(c)'
<1>1. PICK s \in effective : Before(c, s)
  BY DEF HasCause
<1>2. s \in Commands /\ arrival[s] \in Nat /\ arrival[c] \in Nat
  BY DEF TypeOK
<1>3. arrival'[s] = arrival[s] /\ arrival'[c] = arrival[c]
  BY <1>1, <1>2 DEF Before
<1> QED BY <1>1, <1>3 DEF HasCause, Before

(* An admitted stop that outdates a command counts as one that had         *)
(* something to stop.                                                      *)
LEMMA AdmitCauses ==
  ASSUME LInv, NEW c \in Commands, Admit(c)
  PROVE  Caused' /\ Arrived'
<1> TypeOK /\ Marked /\ Numbered /\ Caused /\ Arrived
  BY DEF LInv, IInv
<1>1. /\ stage[c] = "new" /\ stage'[c] = "queued" /\ arrival'[c] = admissions + 1 /\ stamp'[c] = NextGeneration(c)
      /\ generation' = NextGeneration(c) /\ result' = result /\ effective \subseteq effective'
      /\ \A d \in Commands \ {c} : stage'[d] = stage[d] /\ arrival'[d] = arrival[d] /\ stamp'[d] = stamp[d]
  BY DEF Admit, TypeOK
<1>2. admissions \in Nat /\ NextGeneration(c) \in Nat /\ arrival[c] = 0
  BY <1>1 DEF TypeOK, NextGeneration, Numbered
<1>3. \A d \in Commands : arrival[d] > 0 => arrival'[d] = arrival[d]
  BY <1>1, <1>2
<1>4. Arrived'
  BY <1>1, <1>2 DEF Arrived, Unfinished
<1>5. Caused'
  <2> SUFFICES ASSUME NEW d \in Commands, Loses(d)' PROVE HasCause(d)'
    BY DEF Caused
  <2>1. CASE Loses(d)
    BY <1>1, <1>3, <2>1, CauseStays DEF Caused
  <2>2. CASE ~Loses(d)
    <3>1. result'[d] = result[d] /\ LaneOf(d) = "ordinary" /\ Unfinished(d)' /\ stamp'[d] < generation'
      BY <1>1, <2>2 DEF Loses
    <3>2. d # c
      BY <1>1, <1>2, <3>1
    <3>3. Unfinished(d) /\ ~(stamp[d] < generation) /\ stamp[d] < NextGeneration(c)
      BY <1>1, <2>2, <3>1, <3>2 DEF Loses, Unfinished
    <3>4. marker = d /\ arrival[d] > 0 /\ arrival[d] <= admissions /\ arrival[d] \in Nat
      BY <3>1, <3>3 DEF Marked, Arrived, Numbered, TypeOK
    <3>5. LaneOf(c) = "safety" /\ Cancels(c)
      BY <3>3 DEF NextGeneration
    <3>6. c \in effective'
      BY <3>3, <3>4, <3>5 DEF Admit, Cancels, LaneOf, StopKinds
    <3>7. Before(d, c)'
      BY <1>1, <1>2, <3>2, <3>4 DEF Before
    <3> QED BY <3>6, <3>7 DEF HasCause
  <2> QED BY <2>1, <2>2
<1> QED BY <1>4, <1>5

(* The worker only carries out what the generation has decided.            *)
LEMMA WorkCauses ==
  ASSUME LInv, NEW l \in Lanes,
         Begin(l) \/ HandleOther(l) \/ StartSurvey(l) \/ StartSurveyFails(l) \/ StopSurvey(l) \/ Answer(l)
  PROVE  Caused' /\ Arrived'
<1> TypeOK /\ InHand /\ Numbered /\ Caused /\ Arrived
  BY DEF LInv, IInv
<1> DEFINE c == hand[l]
<1>1. /\ c \in Commands /\ LaneOf(c) = l /\ UNCHANGED <<order, generation, effective>>
      /\ Unfinished(c) /\ \A d \in Commands \ {c} : stage'[d] = stage[d] /\ result'[d] = result[d]
  BY DEF Begin, HandleOther, StartSurvey, StartSurveyFails, StopSurvey, Answer, TypeOK, InHand, Unfinished
<1>2. result'[c] \in {"cancelled", "superseded"} =>
        result'[c] = result[c] \/ (l = "ordinary" /\ stamp[c] # generation)
  <2>0. result \in [Commands -> Results]
    BY DEF TypeOK
  <2>1. CASE Begin(l) BY <1>1, <2>0, <2>1 DEF Begin, Lanes
  <2>2. CASE Answer(l) BY <1>1, <2>0, <2>2 DEF Answer
  <2>3. CASE HandleOther(l) \/ StartSurvey(l) \/ StartSurveyFails(l) \/ StopSurvey(l)
    BY <1>1, <2>0, <2>3 DEF HandleOther, StartSurvey, StartSurveyFails, StopSurvey
  <2> QED BY <2>1, <2>2, <2>3
<1>3. stamp[c] \in Nat /\ generation \in Nat /\ stamp[c] <= generation
  BY <1>1 DEF TypeOK, Numbered
<1>4. \A d \in Commands : Loses(d)' => Loses(d)
  BY <1>1, <1>2, <1>3 DEF Loses, Unfinished, order
<1>5. Caused'
  BY <1>1, <1>4, CauseStays DEF Caused, order
<1>6. Arrived'
  BY <1>1 DEF Arrived, Unfinished, order
<1> QED BY <1>5, <1>6

(* No other step touches what a cause or a loss is read from.              *)
LEMMA OthersCause ==
  ASSUME LInv, \/ \E c \in Commands : Refuse(c)
               \/ \E l \in Lanes : Take(l) \/ Expire(l) \/ Retire(l) \/ Finish(l)
               \/ SurveyEnds
               \/ UNCHANGED vars
  PROVE  Caused' /\ Arrived'
<1> TypeOK /\ Filed /\ Caused /\ Arrived
  BY DEF LInv, IInv
<1>1. UNCHANGED <<order, effective, generation>>
  BY LaneFacts DEF Refuse, NextGeneration, Take, Expire, Retire, Finish, SurveyEnds, vars
<1>2. \A d \in Commands : /\ Unfinished(d)' => Unfinished(d)
                          /\ result'[d] \in {"cancelled", "superseded"} => result'[d] = result[d]
  <2>1. ASSUME NEW c \in Commands, Refuse(c)
        PROVE  \A d \in Commands : /\ Unfinished(d)' => Unfinished(d)
                                   /\ result'[d] \in {"cancelled", "superseded"} => result'[d] = result[d]
    BY <2>1 DEF Refuse, TypeOK, Unfinished
  <2>2. ASSUME NEW l \in Lanes, Take(l)
        PROVE  \A d \in Commands : (Unfinished(d)' => Unfinished(d)) /\ result'[d] = result[d]
    <3>1. queue[l] \in Seq(Commands) /\ queue[l] # <<>>
      BY <2>2 DEF Take, TypeOK
    <3>2. Head(queue[l]) \in Commands /\ stage[Head(queue[l])] = "queued"
      BY <3>1, TailFacts DEF Filed
    <3> QED BY <2>2, <3>2 DEF Take, TypeOK, Unfinished
  <2>3. CASE \/ \E l \in Lanes : Expire(l) \/ Retire(l) \/ Finish(l)
             \/ SurveyEnds \/ UNCHANGED vars
    BY <2>3 DEF Expire, Retire, Finish, SurveyEnds, vars, Unfinished
  <2> QED BY <2>1, <2>2, <2>3
<1>3. \A d \in Commands : Loses(d)' => Loses(d)
  BY <1>1, <1>2 DEF Loses, order
<1> QED BY <1>1, <1>2, <1>3, CauseStays DEF Caused, Arrived, order

(* An ordinary command is lost only to a stop that was admitted after it   *)
(* and had something to stop: a stop that found its queue full cancels     *)
(* nothing (_enqueue_command_long).                                        *)
THEOREM LossesHaveCauses == Spec => []LossHasCause
<1>1. Init => LInv
  BY InitIInv DEF LInv, Init, Caused, Arrived, Loses, Unfinished
<1>2. LInv /\ [Next]_vars => LInv'
  <2> SUFFICES ASSUME LInv, [Next]_vars PROVE LInv'
    OBVIOUS
  <2>1. IInv' BY NextKeeps DEF LInv
  <2>2. Caused' /\ Arrived' BY AdmitCauses, WorkCauses, OthersCause DEF Next
  <2> QED BY <2>1, <2>2 DEF LInv
<1>3. LInv => LossHasCause
  BY DEF LInv, Caused, Loses, HasCause, LossHasCause
<1> QED BY <1>1, <1>2, <1>3, PTL DEF Spec
================================================================================
