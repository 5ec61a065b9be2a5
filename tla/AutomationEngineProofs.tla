------------------------ MODULE AutomationEngineProofs ------------------------
(***************************************************************************)
(* Safety of the step sequencer for every number of motors, callers, steps *)
(* and loops, with or without the timing assumptions of the small          *)
(* instances.                                                              *)
(***************************************************************************)
EXTENDS AutomationEngine, TLAPS

(***************************************************************************)
(* The lock has one holder and the holder is where the lock is held; a     *)
(* halt in force keeps the worker from writing, because whoever halted has *)
(* set _paused or cleared _running and nobody undoes that but Resume and   *)
(* Start, which end the halt.                                              *)
(***************************************************************************)
WorkerHolds == lock = "worker" <=> pc = "write"
CallerHolds == \A c \in Callers : lock = c <=> cpc[c] \in {"stopHalt", "pauseHalt"}
StopHaltsStopped == \A c \in Callers : cpc[c] = "stopHalt" => ~running
PauseHaltsPaused == \A c \in Callers : cpc[c] = "pauseHalt" => paused \/ ~running
HaltInForce == halted => (paused \/ ~running) /\ pc # "write"

LockInv ==
  /\ WorkerHolds /\ CallerHolds /\ StopHaltsStopped /\ PauseHaltsPaused /\ HaltInForce

IInv == TypeOK /\ LockInv /\ HaltHolds /\ EndedMeansHalted

USE StepsAssumption, LoopAssumption, FlagAssumption, CallerAssumption, BoundAssumption

\* The first step exists, and every step turns motors that exist.
LEMMA StepsFacts ==
  /\ Len(Steps) \in Nat /\ 1 \in 1..Len(Steps)
  /\ \A i \in 1..Len(Steps) : Active(i) \subseteq Motors
BY DEF Active

LEMMA InitType == Init => TypeOK
<1> SUFFICES ASSUME Init PROVE TypeOK
  OBVIOUS
<1>1. replies \in Seq(Replies) /\ idx \in 1..Len(Steps)
  BY StepsFacts DEF Init
<1>2. cpc \in [Callers -> CallerPlaces]
  BY DEF Init, CallerPlaces
<1> QED BY <1>1, <1>2 DEF Init, TypeOK, Places, Terminal

\* A caller's step keeps every type.
LEMMA CallerType == ASSUME TypeOK, NEW c \in Callers, Caller(c) PROVE TypeOK'
<1> USE DEF TypeOK, CallerPlaces, engine, worker, device, history
<1>1. CASE StopBegin(c) BY <1>1 DEF StopBegin
<1>2. CASE StopHalt(c) BY <1>2 DEF StopHalt, HaltWrites
<1>3. CASE StopReturn(c) BY <1>3 DEF StopReturn
<1>4. CASE PauseBegin(c) BY <1>4 DEF PauseBegin
<1>5. CASE PauseHalt(c) BY <1>5 DEF PauseHalt
<1>6. CASE Resume(c) BY <1>6 DEF Resume
<1>7. CASE CallerPublish(c) BY <1>7 DEF CallerPublish
<1> QED BY <1>1, <1>2, <1>3, <1>4, <1>5, <1>6, <1>7 DEF Caller

\* A step of the worker keeps every type.
LEMMA WorkerType == ASSUME TypeOK, Worker PROVE TypeOK'
<1> USE DEF TypeOK, Places, At, Goto, engine, worker, device, history
<1>1. CASE LoopHead BY <1>1, StepsFacts DEF LoopHead
<1>2. CASE StepHead BY <1>2 DEF StepHead
<1>3. CASE WaitIfPaused BY <1>3 DEF WaitIfPaused
<1>4. CASE Snapshot BY <1>4, StepsFacts DEF Snapshot
<1>5. CASE SendBegin BY <1>5 DEF SendBegin
<1>6. CASE Write BY <1>6, StepsFacts DEF Write
<1>7. CASE SendFailed BY <1>7 DEF SendFailed, HandleError
<1>8. CASE Resend BY <1>8 DEF Resend
<1>9. CASE Sent BY <1>9 DEF Sent
<1>10. CASE PidWaitEnds BY <1>10 DEF PidWaitEnds
<1>11. CASE PidWaitTimeout BY <1>11 DEF PidWaitTimeout, HandleError
<1>12. CASE StepWait BY <1>12 DEF StepWait
<1>13. CASE Waited BY <1>13 DEF Waited
<1>14. CASE CompleteStep BY <1>14 DEF CompleteStep
<1>15. CASE IntervalEnds BY <1>15, StepsFacts DEF IntervalEnds
<1>16. CASE ReturnFalse BY <1>16 DEF ReturnFalse
<1>17. CASE CleanupHalt BY <1>17 DEF CleanupHalt, HaltWrites
<1>18. CASE CleanupFinish BY <1>18 DEF CleanupFinish
<1>19. CASE Report BY <1>19 DEF Report, Terminal
<1> QED
  BY <1>1, <1>2, <1>3, <1>4, <1>5, <1>6, <1>7, <1>8, <1>9, <1>10, <1>11, <1>12, <1>13, <1>14,
     <1>15, <1>16, <1>17, <1>18, <1>19 DEF Worker

\* So does a step of the serial reader, of a fault or of the firmware.
LEMMA ReaderType == ASSUME TypeOK, Reader \/ NotifyFailure PROVE TypeOK'
<1> USE DEF TypeOK, Replies, engine, worker, device, history
<1>1. CASE NotifyPidComplete BY <1>1 DEF NotifyPidComplete
<1>2. CASE NotifyPidFailed
  <2>1. replies' \in Seq(Replies) BY <1>2 DEF NotifyPidFailed
  <2>2. pending' \subseteq Motors /\ failed' \in BOOLEAN /\ rpc' \in {"idle", "failed", "recorded"}
    BY <1>2 DEF NotifyPidFailed
  <2>3. UNCHANGED <<running, paused, lock, generation, lastError, cleanupFailed, loop, worker, cpc,
                    moving, status, history>>
    BY <1>2 DEF NotifyPidFailed
  <2> QED BY <2>1, <2>2, <2>3
<1>3. CASE HandleErrorStep BY <1>3 DEF HandleErrorStep
<1>4. CASE NotifyFailure BY <1>4 DEF NotifyFailure
<1> QED BY <1>1, <1>2, <1>3, <1>4 DEF Reader

LEMMA MotorType == ASSUME TypeOK, NEW m \in Motors, MotorDone(m) \/ MotorFail(m) PROVE TypeOK'
<1> USE DEF TypeOK, Replies, engine, worker, device, history
<1>1. CASE MotorDone(m)
  <2>1. [kind |-> "done", motor |-> m] \in Replies OBVIOUS
  <2> DEFINE r == [kind |-> "done", motor |-> m]
  <2> HIDE DEF r
  <2>a. replies \in Seq(Replies) /\ r \in Replies BY <2>1 DEF r
  <2>b. Append(replies, r) \in Seq(Replies)
    <3> HIDE DEF Replies
    <3> QED BY <2>a
  <2>c. replies' = Append(replies, r) \/ replies' = replies BY <1>1 DEF MotorDone, r
  <2>2. replies' \in Seq(Replies) BY <2>a, <2>b, <2>c
  <2>3. moving' \subseteq Motors /\ reached' \subseteq Motors BY <1>1 DEF MotorDone
  <2>4. UNCHANGED <<engine, worker, cpc, rpc, status, runs, completed, halted, operatorStop, outcome>>
    BY <1>1 DEF MotorDone
  <2> QED BY <2>2, <2>3, <2>4
<1>2. CASE MotorFail(m)
  <2>1. [kind |-> "fail", motor |-> m] \in Replies OBVIOUS
  <2> QED BY <1>2, <2>1 DEF MotorFail
<1> QED BY <1>1, <1>2

LEMMA NextType == TypeOK /\ [Next]_vars => TypeOK'
<1> SUFFICES ASSUME TypeOK, [Next]_vars PROVE TypeOK'
  OBVIOUS
<1>1. CASE Start
  <2>1. idx' \in 1..Len(Steps) BY <1>1, StepsFacts DEF Start
  <2>2. runs' \in Nat /\ pc' \in Places BY <1>1 DEF Start, TypeOK, Places
  <2>3. {running', paused', failed', lastError', cleanupFailed', stopped', halted', operatorStop'}
          \subseteq BOOLEAN
    BY <1>1 DEF Start
  <2>4. /\ generation' = 0 /\ snap' = 0 /\ loop' = 1 /\ completed' = 0
        /\ pending' = {} /\ reached' = {}
        /\ UNCHANGED <<lock, cpc, rpc, moving, replies, status, outcome>>
    BY <1>1 DEF Start, device
  <2> QED BY <2>1, <2>2, <2>3, <2>4 DEF TypeOK
<1>2. CASE UNCHANGED vars
  BY <1>2 DEF vars, TypeOK, engine, worker, device, history
<1> QED
  BY <1>1, <1>2, CallerType, WorkerType, ReaderType, MotorType DEF Next

\* Every variable has its type in every state.
THEOREM TypeCorrect == Spec => []TypeOK
BY InitType, NextType, PTL DEF Spec

(***************************************************************************)
(* The lock and the halt.                                                  *)
(***************************************************************************)
LEMMA InitIInv == Init => IInv
<1> SUFFICES ASSUME Init PROVE IInv
  OBVIOUS
<1>1. TypeOK BY InitType
<1>2. LockInv
  BY CallerAssumption
  DEF Init, LockInv, WorkerHolds, CallerHolds, StopHaltsStopped, PauseHaltsPaused, HaltInForce
<1> QED BY <1>1, <1>2 DEF Init, IInv, HaltHolds, EndedMeansHalted

LEMMA CallerLock == ASSUME IInv, NEW c \in Callers, Caller(c) PROVE LockInv'
<1> USE CallerAssumption
    DEF IInv, TypeOK, CallerPlaces, LockInv, WorkerHolds, CallerHolds, StopHaltsStopped,
        PauseHaltsPaused, HaltInForce, engine, worker, device, history
<1>1. CASE StopBegin(c) BY <1>1 DEF StopBegin
<1>2. CASE StopHalt(c) BY <1>2 DEF StopHalt, HaltWrites
<1>3. CASE StopReturn(c) BY <1>3 DEF StopReturn
<1>4. CASE PauseBegin(c) BY <1>4 DEF PauseBegin
<1>5. CASE PauseHalt(c) BY <1>5 DEF PauseHalt
<1>6. CASE Resume(c) BY <1>6 DEF Resume
<1>7. CASE CallerPublish(c) BY <1>7 DEF CallerPublish
<1> QED BY <1>1, <1>2, <1>3, <1>4, <1>5, <1>6, <1>7 DEF Caller

LEMMA WorkerLock == ASSUME IInv, Worker PROVE LockInv'
<1> USE CallerAssumption
    DEF IInv, TypeOK, LockInv, WorkerHolds, CallerHolds, StopHaltsStopped,
        PauseHaltsPaused, HaltInForce, At, Goto, engine, worker, device, history
<1>1. CASE LoopHead BY <1>1 DEF LoopHead
<1>2. CASE StepHead BY <1>2 DEF StepHead
<1>3. CASE WaitIfPaused BY <1>3 DEF WaitIfPaused
<1>4. CASE Snapshot BY <1>4 DEF Snapshot
<1>5. CASE SendBegin BY <1>5 DEF SendBegin
<1>6. CASE Write BY <1>6 DEF Write
<1>7. CASE SendFailed BY <1>7 DEF SendFailed, HandleError
<1>8. CASE Resend BY <1>8 DEF Resend
<1>9. CASE Sent BY <1>9 DEF Sent
<1>10. CASE PidWaitEnds BY <1>10 DEF PidWaitEnds
<1>11. CASE PidWaitTimeout BY <1>11 DEF PidWaitTimeout, HandleError
<1>12. CASE StepWait BY <1>12 DEF StepWait
<1>13. CASE Waited BY <1>13 DEF Waited
<1>14. CASE CompleteStep BY <1>14 DEF CompleteStep
<1>15. CASE IntervalEnds BY <1>15 DEF IntervalEnds
<1>16. CASE ReturnFalse BY <1>16 DEF ReturnFalse
<1>17. CASE CleanupHalt BY <1>17 DEF CleanupHalt, HaltWrites
<1>18. CASE CleanupFinish BY <1>18 DEF CleanupFinish
<1>19. CASE Report BY <1>19 DEF Report
<1> QED
  BY <1>1, <1>2, <1>3, <1>4, <1>5, <1>6, <1>7, <1>8, <1>9, <1>10, <1>11, <1>12, <1>13, <1>14,
     <1>15, <1>16, <1>17, <1>18, <1>19 DEF Worker

LEMMA OtherLock ==
  ASSUME IInv,
         Start \/ Reader \/ NotifyFailure \/ (\E m \in Motors : MotorDone(m) \/ MotorFail(m))
  PROVE  LockInv'
<1> USE CallerAssumption
    DEF IInv, LockInv, WorkerHolds, CallerHolds, StopHaltsStopped, PauseHaltsPaused, HaltInForce,
        engine, worker, device, history
<1>1. CASE Start BY <1>1 DEF Start, Alive
<1>2. CASE NotifyPidComplete BY <1>2 DEF NotifyPidComplete
<1>3. CASE NotifyPidFailed BY <1>3 DEF NotifyPidFailed
<1>4. CASE HandleErrorStep BY <1>4 DEF HandleErrorStep
<1>5. CASE NotifyFailure BY <1>5 DEF NotifyFailure
<1>6. CASE \E m \in Motors : MotorDone(m) \/ MotorFail(m) BY <1>6 DEF MotorDone, MotorFail
<1> QED BY <1>1, <1>2, <1>3, <1>4, <1>5, <1>6 DEF Reader

\* A halt in force is broken only by a write, and the worker writes only where
\* LockInv says that none is in force.
LEMMA HaltStep == IInv /\ [Next]_vars => HaltHolds' /\ EndedMeansHalted'
<1> SUFFICES ASSUME IInv, [Next]_vars PROVE HaltHolds' /\ EndedMeansHalted'
  OBVIOUS
<1> USE DEF IInv, HaltHolds, EndedMeansHalted, engine, worker, device, history
<1>1. CASE Start BY <1>1 DEF Start
<1>2. ASSUME NEW c \in Callers, Caller(c) PROVE HaltHolds' /\ EndedMeansHalted'
  BY <1>2 DEF Caller, StopBegin, StopHalt, HaltWrites, StopReturn, PauseBegin, PauseHalt, Resume,
              CallerPublish, TypeOK
<1>3. CASE Worker
  <2> USE DEF At, Goto
  <2>1. CASE Write BY <2>1 DEF Write, LockInv, HaltInForce
  <2>2. CASE CleanupHalt BY <2>2 DEF CleanupHalt, HaltWrites
  <2>3. CASE CleanupFinish BY <2>3 DEF CleanupFinish
  <2>4. CASE Report BY <2>4 DEF Report
  <2>5. CASE LoopHead \/ StepHead \/ WaitIfPaused \/ Snapshot \/ SendBegin
    BY <2>5 DEF LoopHead, StepHead, WaitIfPaused, Snapshot, SendBegin
  <2>6. CASE SendFailed \/ Resend \/ Sent \/ PidWaitEnds \/ PidWaitTimeout
    BY <2>6 DEF SendFailed, HandleError, Resend, Sent, PidWaitEnds, PidWaitTimeout
  <2>7. CASE StepWait \/ Waited \/ CompleteStep \/ IntervalEnds \/ ReturnFalse
    BY <2>7 DEF StepWait, Waited, CompleteStep, IntervalEnds, ReturnFalse
  <2> QED BY <1>3, <2>1, <2>2, <2>3, <2>4, <2>5, <2>6, <2>7 DEF Worker
<1>4. CASE Reader \/ NotifyFailure
  BY <1>4 DEF Reader, NotifyPidComplete, NotifyPidFailed, HandleErrorStep, NotifyFailure
<1>5. ASSUME NEW m \in Motors, MotorDone(m) \/ MotorFail(m) PROVE HaltHolds' /\ EndedMeansHalted'
  BY <1>5 DEF MotorDone, MotorFail
<1>6. CASE UNCHANGED vars BY <1>6 DEF vars
<1> QED BY <1>1, <1>2, <1>3, <1>4, <1>5, <1>6 DEF Next

LEMMA NextIInv == IInv /\ [Next]_vars => IInv'
<1> SUFFICES ASSUME IInv, [Next]_vars PROVE IInv'
  OBVIOUS
<1>1. TypeOK' BY NextType DEF IInv
<1>2. HaltHolds' /\ EndedMeansHalted' BY HaltStep
<1>3. LockInv'
  <2>1. CASE UNCHANGED vars
    BY <2>1 DEF vars, engine, worker, history, IInv, LockInv, WorkerHolds, CallerHolds,
                StopHaltsStopped, PauseHaltsPaused, HaltInForce
  <2> QED BY <2>1, CallerLock, WorkerLock, OtherLock DEF Next
<1> QED BY <1>1, <1>2, <1>3 DEF IInv

\* The inductive invariant.
THEOREM Inductive == Spec => []IInv
BY InitIInv, NextIInv, PTL DEF Spec

\* Once a stop or a pause has written its halt, nothing moves until the run is
\* resumed or started anew.
THEOREM HaltIsKept == Spec => []HaltHolds
<1>1. IInv => HaltHolds BY DEF IInv
<1> QED BY <1>1, Inductive, PTL

\* A worker that has ended leaves nothing moving, or has said that a halt failed.
THEOREM EndIsAtRest == Spec => []EndedMeansHalted
<1>1. IInv => EndedMeansHalted BY DEF IInv
<1> QED BY <1>1, Inductive, PTL

(***************************************************************************)
(* The step sequencer implements AutomationRun: whatever its threads do,   *)
(* each of their steps is one that a run may take or none.  It holds for   *)
(* any motors, callers, steps and loops, if the worker is not scheduled    *)
(* between the assignments of _handle_error.  Where the worker is says how *)
(* many steps it has completed, and a run that comes to its cleanup short  *)
(* of the last step has been stopped or has failed.                        *)
(***************************************************************************)
Before == (loop - 1) * Len(Steps)

Walking == {"step", "unpaused", "snapshot", "send", "write", "sendFailed", "resend", "sent",
            "pidWait", "stepWait", "waited", "complete"}

LoopBound == loop >= 1 /\ (LoopCount # 0 => loop <= LoopCount + 1)
InLoop == pc \in Walking \cup {"interval"} => LoopCount = 0 \/ loop <= LoopCount
StepsCounted ==
  /\ pc = "loop" => completed = Before
  /\ pc \in Walking => completed = Before + idx - 1
  /\ pc = "interval" => completed = Before + idx
WholeOrEnded ==
  /\ pc \in {"cleanup", "finish"} => ~running \/ failed \/ completed = Total
  /\ pc = "report" => stopped \/ failed \/ completed = Total
ErrorNoted ==
  /\ rpc = "idle" => (failed => lastError)
  /\ rpc = "recorded" => lastError

CountInv == LoopBound /\ InLoop /\ StepsCounted /\ WholeOrEnded /\ ErrorNoted

RInv == IInv /\ CountInv

\* One loop more is as many steps more as a loop has.
LEMMA OneLoopMore ==
  ASSUME NEW a \in Nat, NEW n \in Nat
  PROVE  /\ a * n \in Nat /\ (a + 1) * n \in Nat
         /\ (a + 1) * n = a * n + n
OBVIOUS

\* Loops that are no more take steps that are no more.
LEMMA FewerLoops ==
  ASSUME NEW a \in Nat, NEW b \in Nat, NEW n \in Nat, a <= b
  PROVE  a * n <= b * n
<1> DEFINE d == b - a
<1>1. d \in Nat /\ b = a + d
  OBVIOUS
<1>2. d * n \in Nat /\ a * n \in Nat
  BY <1>1
<1>3. b * n = a * n + d * n
  BY <1>1
<1> HIDE DEF d
<1>4. b * n \in Nat
  BY <1>2, <1>3
<1> QED BY <1>2, <1>3, <1>4

\* What the loops before this one have taken, and what is left after it.
LEMMA BeforeFacts ==
  ASSUME TypeOK, LoopBound
  PROVE  /\ Before \in Nat /\ Total \in Nat
         /\ LoopCount # 0 /\ loop <= LoopCount => Before + Len(Steps) <= Total
         /\ loop = LoopCount + 1 => Before = Total
         /\ loop' = loop + 1 => Before' = Before + Len(Steps)
         /\ loop' = loop => Before' = Before
<1> DEFINE n == Len(Steps)
<1>1. n \in Nat /\ loop \in Nat /\ loop - 1 \in Nat
  BY StepsFacts DEF TypeOK, LoopBound
<1>2. Before \in Nat /\ Before + n = loop * n
  <2>1. loop = (loop - 1) + 1
    BY <1>1
  <2> QED BY <1>1, <2>1, OneLoopMore DEF Before
<1>3. Total \in Nat
  BY <1>1 DEF Total
<1>4. ASSUME loop <= LoopCount PROVE Before + n <= Total
  BY <1>1, <1>2, <1>4, FewerLoops DEF Total
<1>5. ASSUME loop = LoopCount + 1 PROVE Before = Total
  <2>1. loop - 1 = LoopCount
    BY <1>1, <1>5
  <2> QED BY <2>1 DEF Before, Total
<1>6. ASSUME loop' = loop + 1 PROVE Before' = Before + n
  <2>1. loop' - 1 = loop
    BY <1>1, <1>6
  <2> QED BY <1>2, <2>1 DEF Before
<1>7. ASSUME loop' = loop PROVE Before' = Before
  BY <1>7 DEF Before
<1> QED BY <1>2, <1>3, <1>4, <1>5, <1>6, <1>7

\* Before the first run nothing is counted.
LEMMA InitRInv == Init => RInv
<1> SUFFICES ASSUME Init PROVE RInv
  OBVIOUS
<1>1. IInv BY InitIInv
<1>2. LoopBound BY DEF Init, LoopBound
<1> QED BY <1>1, <1>2 DEF Init, RInv, CountInv, InLoop, StepsCounted, WholeOrEnded, ErrorNoted, Walking

\* A step of the worker keeps the count.
LEMMA WorkerCount == ASSUME RInv, Worker PROVE CountInv'
<1>1. TypeOK /\ LoopBound BY DEF RInv, IInv, CountInv
<1>2. /\ Before \in Nat /\ Total \in Nat /\ Len(Steps) \in Nat
      /\ loop = LoopCount + 1 => Before = Total
      /\ loop' = loop + 1 => Before' = Before + Len(Steps)
      /\ loop' = loop => Before' = Before
  BY <1>1, BeforeFacts, StepsFacts
<1>3. loop \in Nat /\ completed \in Nat /\ idx \in 1..Len(Steps) /\ idx \in Nat /\ LoopCount \in Nat
  BY <1>1, StepsFacts DEF TypeOK
<1> HIDE DEF Before, Total
<1> USE <1>2, <1>3
    DEF RInv, CountInv, LoopBound, InLoop, StepsCounted, WholeOrEnded, ErrorNoted, Walking, At, Goto,
        engine, worker, device, history
<1>4. CASE LoopHead BY <1>4 DEF LoopHead, ShouldContinue, Ended
<1>5. CASE StepHead BY <1>5 DEF StepHead
<1>6. CASE WaitIfPaused BY <1>6 DEF WaitIfPaused
<1>7. CASE Snapshot BY <1>7 DEF Snapshot
<1>8. CASE SendBegin BY <1>8 DEF SendBegin
<1>9. CASE Write BY <1>9 DEF Write
<1>10. CASE SendFailed BY <1>10 DEF SendFailed, HandleError
<1>11. CASE Resend BY <1>11 DEF Resend
<1>12. CASE Sent BY <1>12 DEF Sent
<1>13. CASE PidWaitEnds BY <1>13 DEF PidWaitEnds
<1>14. CASE PidWaitTimeout BY <1>14 DEF PidWaitTimeout, HandleError
<1>15. CASE StepWait BY <1>15 DEF StepWait
<1>16. CASE Waited BY <1>16 DEF Waited
<1>17. CASE CompleteStep BY <1>17 DEF CompleteStep
<1>18. CASE IntervalEnds BY <1>18 DEF IntervalEnds
<1>19. CASE ReturnFalse BY <1>19 DEF ReturnFalse
<1>20. CASE CleanupHalt BY <1>20 DEF CleanupHalt, HaltWrites
<1>21. CASE CleanupFinish BY <1>21 DEF CleanupFinish
<1>22. CASE Report BY <1>22 DEF Report
<1> QED
  BY <1>4, <1>5, <1>6, <1>7, <1>8, <1>9, <1>10, <1>11, <1>12, <1>13, <1>14, <1>15, <1>16, <1>17,
     <1>18, <1>19, <1>20, <1>21, <1>22 DEF Worker

\* Nobody else counts, and an error is noted before it ends the run.
LEMMA OtherCount ==
  ASSUME RInv,
         \/ Reader \/ NotifyFailure \/ UNCHANGED vars
         \/ \E c \in Callers : Caller(c)
         \/ \E m \in Motors : MotorDone(m) \/ MotorFail(m)
  PROVE  CountInv'
<1>1. Before' = Before
  BY DEF Before, Reader, NotifyPidComplete, NotifyPidFailed, HandleErrorStep, NotifyFailure, Caller,
         StopBegin, StopHalt, HaltWrites, StopReturn, PauseBegin, PauseHalt, Resume, CallerPublish,
         MotorDone, MotorFail, vars, engine
<1> HIDE DEF Before, Total
<1> USE <1>1
    DEF RInv, CountInv, LoopBound, InLoop, StepsCounted, WholeOrEnded, ErrorNoted, engine, worker,
        device, history
<1>2. CASE Reader
  BY <1>2 DEF Reader, NotifyPidComplete, NotifyPidFailed, HandleErrorStep
<1>3. CASE NotifyFailure BY <1>3 DEF NotifyFailure
<1>4. ASSUME NEW c \in Callers, Caller(c) PROVE CountInv'
  <2>1. CASE StopBegin(c) BY <2>1 DEF StopBegin
  <2>2. CASE StopHalt(c) BY <2>2 DEF StopHalt, HaltWrites
  <2>3. CASE StopReturn(c) BY <2>3 DEF StopReturn
  <2>4. CASE PauseBegin(c) BY <2>4 DEF PauseBegin
  <2>5. CASE PauseHalt(c) BY <2>5 DEF PauseHalt
  <2>6. CASE Resume(c) BY <2>6 DEF Resume
  <2>7. CASE CallerPublish(c) BY <2>7 DEF CallerPublish
  <2> QED BY <1>4, <2>1, <2>2, <2>3, <2>4, <2>5, <2>6, <2>7 DEF Caller
<1>5. CASE \E m \in Motors : MotorDone(m) \/ MotorFail(m) BY <1>5 DEF MotorDone, MotorFail
<1>6. CASE UNCHANGED vars BY <1>6 DEF vars
<1> QED BY <1>2, <1>3, <1>4, <1>5, <1>6

\* A new run begins with nothing counted.
LEMMA StartCount == ASSUME RInv, Start PROVE CountInv'
<1>1. Before' = 0
  <2>1. loop' - 1 = 0 BY DEF Start
  <2> QED BY <2>1, StepsFacts DEF Before
<1> QED
  BY <1>1 DEF Start, RInv, CountInv, LoopBound, InLoop, StepsCounted, WholeOrEnded, ErrorNoted, Walking

\* The count and the invariants of the engine go on together.
LEMMA NextRInv == RInv /\ [Next]_vars => RInv'
<1> SUFFICES ASSUME RInv, [Next]_vars PROVE RInv'
  OBVIOUS
<1>1. IInv' BY NextIInv DEF RInv
<1>2. CountInv' BY StartCount, WorkerCount, OtherCount DEF Next
<1> QED BY <1>1, <1>2 DEF RInv

(***************************************************************************)
(* Each step of the engine is one of the run.                              *)
(***************************************************************************)
\* A step of the worker.
LEMMA WorkerSimulates ==
  ASSUME ErrorAtomic, RInv, Worker
  PROVE  [Run!Next]_(Run!vars)
<1>1. TypeOK /\ HaltInForce /\ LoopBound BY DEF RInv, IInv, LockInv, CountInv
<1>2. /\ Before \in Nat /\ Total \in Nat /\ Len(Steps) \in Nat
      /\ LoopCount # 0 /\ loop <= LoopCount => Before + Len(Steps) <= Total
  BY <1>1, BeforeFacts, StepsFacts
<1> USE DEF Run!vars, Alive, At, Goto, engine, worker, device, history
<1>3. CASE Write
  <2>1. ~halted BY <1>1, <1>3 DEF Write, HaltInForce
  <2>2. UNCHANGED <<completed, outcome, halted>> /\ Alive /\ Alive' BY <1>3 DEF Write
  <2>3. moving' = moving \/ moving' # {} \/ moving = {} BY <1>3 DEF Write
  <2>4. CASE moving' # {} BY <2>1, <2>2, <2>4 DEF Run!Next, Run!Drive
  <2>5. CASE moving' = {}
    <3>1. moving = {} BY <1>3, <2>5 DEF Write
    <3> QED BY <2>2, <2>5, <3>1
  <2> QED BY <2>4, <2>5
<1>4. CASE CompleteStep
  <2>1. CASE UNCHANGED completed BY <1>4, <2>1 DEF CompleteStep
  <2>2. CASE completed' = completed + 1
    <3>1. completed = Before + idx - 1 /\ (LoopCount = 0 \/ loop <= LoopCount)
      BY <1>4 DEF CompleteStep, RInv, CountInv, StepsCounted, InLoop, Walking
    <3>2. idx \in 1..Len(Steps) /\ completed \in Nat /\ loop \in Nat BY <1>1 DEF TypeOK
    <3>3. LoopCount = 0 => Total = 0 BY <1>2 DEF Total
    <3>4. Total = 0 \/ completed < Total
      <4> HIDE DEF Before, Total
      <4> QED BY <1>2, <3>1, <3>2, <3>3
    <3>5. Alive /\ Alive' /\ UNCHANGED <<outcome, halted, moving>> BY <1>4 DEF CompleteStep
    <3> QED BY <2>2, <3>4, <3>5 DEF Run!Next, Run!CompleteOne
  <2> QED BY <1>4, <2>1, <2>2 DEF CompleteStep
<1>5. CASE CleanupHalt
  <2>1. UNCHANGED <<completed, outcome, halted>> /\ Alive /\ Alive' BY <1>5 DEF CleanupHalt
  <2>2. moving' = {} \/ moving' = moving BY <1>5 DEF CleanupHalt, HaltWrites
  <2> QED BY <2>1, <2>2 DEF Run!Next, Run!Rest
<1>6. CASE Report
  <2>1. Alive /\ ~Alive' /\ UNCHANGED <<completed, halted, moving>> BY <1>6 DEF Report
  <2>2. failed => lastError BY <1>6 DEF Report, RInv, CountInv, ErrorNoted
  <2>3. outcome' \in {"finished", "stopped", "failed"} /\ (outcome' = "finished" => ~failed /\ ~stopped)
    BY <1>6, <2>2 DEF Report
  <2>4. stopped \/ failed \/ completed = Total
    BY <1>6 DEF Report, RInv, CountInv, WholeOrEnded
  <2> QED BY <2>1, <2>3, <2>4 DEF Run!Next, Run!End
<1>7. CASE LoopHead \/ StepHead \/ WaitIfPaused \/ Snapshot \/ SendBegin
  BY <1>7 DEF LoopHead, StepHead, WaitIfPaused, Snapshot, SendBegin
<1>8. CASE SendFailed \/ Resend \/ Sent \/ PidWaitEnds \/ PidWaitTimeout
  BY <1>8 DEF SendFailed, HandleError, Resend, Sent, PidWaitEnds, PidWaitTimeout
<1>9. CASE StepWait \/ Waited \/ IntervalEnds \/ ReturnFalse \/ CleanupFinish
  BY <1>9 DEF StepWait, Waited, IntervalEnds, ReturnFalse, CleanupFinish
<1> QED BY <1>3, <1>4, <1>5, <1>6, <1>7, <1>8, <1>9 DEF Worker

\* A step of a caller: a halt that was written holds, any other change releases it.
LEMMA CallerSimulates ==
  ASSUME RInv, NEW c \in Callers, Caller(c)
  PROVE  [Run!Next]_(Run!vars)
<1> USE DEF Run!vars, Alive, engine, worker, device, history
<1>1. UNCHANGED <<pc, completed, outcome>>
  BY DEF Caller, StopBegin, StopHalt, StopReturn, PauseBegin, PauseHalt, Resume, CallerPublish
<1>2. CASE StopHalt(c)
  <2>1. (halted' = TRUE /\ moving' = {}) \/ (halted' = FALSE /\ moving' = moving)
    BY <1>2 DEF StopHalt, HaltWrites
  <2> QED BY <1>1, <2>1 DEF Run!Next, Run!Hold, Run!Release
<1>3. CASE PauseHalt(c)
  <2>1. (halted' = TRUE /\ moving' = {}) \/ (halted' = FALSE /\ moving' = moving)
    BY <1>3 DEF PauseHalt
  <2> QED BY <1>1, <2>1 DEF Run!Next, Run!Hold, Run!Release
<1>4. CASE Resume(c) BY <1>1, <1>4 DEF Resume, Run!Next, Run!Release
<1>5. CASE StopBegin(c) \/ StopReturn(c) \/ PauseBegin(c) \/ CallerPublish(c)
  BY <1>1, <1>5 DEF StopBegin, StopReturn, PauseBegin, CallerPublish
<1> QED BY <1>2, <1>3, <1>4, <1>5 DEF Caller

\* Every step of the engine is one of the run, or changes nothing a run shows.
LEMMA NextSimulates ==
  ASSUME ErrorAtomic, RInv, [Next]_vars
  PROVE  [Run!Next]_(Run!vars)
<1> USE DEF Run!vars, Alive, engine, worker, device, history
<1>1. CASE Start BY <1>1 DEF Start, Run!Next, Run!Begin
<1>2. CASE Worker BY <1>2, WorkerSimulates
<1>3. ASSUME NEW c \in Callers, Caller(c) PROVE [Run!Next]_(Run!vars)
  BY <1>3, CallerSimulates
<1>4. CASE Reader \/ NotifyFailure
  BY <1>4 DEF Reader, NotifyPidComplete, NotifyPidFailed, HandleErrorStep, NotifyFailure
<1>5. ASSUME NEW m \in Motors, MotorDone(m) \/ MotorFail(m) PROVE [Run!Next]_(Run!vars)
  <2>1. UNCHANGED <<pc, completed, outcome, halted>> /\ moving' = moving \ {m}
    BY <1>5 DEF MotorDone, MotorFail
  <2> QED BY <2>1 DEF Run!Next, Run!Rest
<1>6. CASE UNCHANGED vars BY <1>6 DEF vars
<1> QED BY <1>1, <1>2, <1>3, <1>4, <1>5, <1>6 DEF Next

\* The engine keeps the promise of AutomationRun, when the worker does not run
\* between the assignments of _handle_error.
THEOREM EngineImplementsRun == ErrorAtomic => (Spec => RunPromise)
<1> SUFFICES ASSUME ErrorAtomic PROVE Spec => RunPromise
  OBVIOUS
<1>1. Init => Run!Init BY DEF Init, Run!Init, Alive
<1>2. RInv /\ [Next]_vars => [Run!Next]_(Run!vars) BY NextSimulates
<1> QED BY <1>1, <1>2, InitRInv, NextRInv, PTL DEF Spec, RunPromise, Run!Spec

(***************************************************************************)
(* A step is done when its motors are there.  The serial line answers late *)
(* and a pause leaves answers of the motion it broke on their way; what    *)
(* keeps an old answer from counting for the replayed step is that a run   *)
(* in which nobody resumes too early comes back to its wait with an empty  *)
(* line and motors at rest.                                                *)
(***************************************************************************)
ReplyMotors == {replies[k].motor : k \in 1..Len(replies)}
Quiet == moving = {} /\ replies = <<>>

OneReplyEach ==
  /\ \A k \in 1..Len(replies) : replies[k].motor \notin moving
  /\ \A k, l \in 1..Len(replies) : replies[k].motor = replies[l].motor => k = l
DoneIsReached ==
  \A k \in 1..Len(replies) : replies[k].kind = "done" => replies[k].motor \in reached

Resting == pc \in {"loop", "step", "unpaused", "snapshot", "interval"} => Quiet \/ paused \/ Ended
SendReady == pc = "send" => (Quiet /\ pending = Active(idx)) \/ paused \/ Ended
WriteReady == pc = "write" => (Quiet /\ pending = Active(idx)) \/ Ended
Awaited ==
  pc \in {"sent", "pidWait"} =>
    \/ Ended
    \/ /\ OneReplyEach /\ DoneIsReached
       /\ moving \subseteq pending /\ ReplyMotors \subseteq pending /\ Active(idx) \ pending \subseteq reached
Arrived ==
  pc \in {"stepWait", "waited", "complete"} => (Quiet /\ Active(idx) \subseteq reached) \/ Ended
PauseLasts ==
  /\ pc \in {"send", "write", "sendFailed", "resend", "sent", "pidWait", "stepWait", "waited"}
  /\ generation # snap
  => paused \/ ~running

DoneInv == Resting /\ SendReady /\ WriteReady /\ Awaited /\ Arrived /\ PauseLasts

DInv == IInv /\ (SlowOperator /\ PidMode => DoneInv)

\* What a step does to the line: no replies are lost and none is added.
LEMMA SameLine ==
  ASSUME UNCHANGED replies PROVE ReplyMotors' = ReplyMotors
BY DEF ReplyMotors

\* Before the first run everything is at rest.
LEMMA InitDone == Init => DInv
<1> SUFFICES ASSUME Init PROVE DInv
  OBVIOUS
<1>1. IInv BY InitIInv
<1>2. DoneInv BY DEF Init, DoneInv, Resting, SendReady, WriteReady, Awaited, Arrived, PauseLasts
<1> QED BY <1>1, <1>2 DEF DInv

\* A caller's step: a resumption finds everything at rest, and a stop ends the run.
LEMMA CallerDone ==
  ASSUME DInv, SlowOperator, PidMode, NEW c \in Callers, Caller(c) PROVE DoneInv'
<1>1. IInv /\ TypeOK /\ LockInv BY DEF DInv, IInv
<1>2. DoneInv BY DEF DInv
<1>3. UNCHANGED <<pc, idx, snap, failed, pending, replies, reached>>
  BY DEF Caller, StopBegin, StopHalt, HaltWrites, StopReturn, PauseBegin, PauseHalt, Resume, CallerPublish,
         worker, engine, device, history
<1>4. moving' \in {moving, {}}
  BY DEF Caller, StopBegin, StopHalt, HaltWrites, StopReturn, PauseBegin, PauseHalt, Resume, CallerPublish,
         device
<1>5. ReplyMotors' = ReplyMotors BY <1>3, SameLine
<1>6. CASE ~running'
  <2> QED
    BY <1>6 DEF Ended, DoneInv, Resting, SendReady, WriteReady, Awaited, Arrived, PauseLasts
<1>7. CASE running'
  <2>1. running BY <1>7 DEF Caller, StopBegin, StopHalt, HaltWrites, StopReturn, PauseBegin, PauseHalt, Resume,
         CallerPublish, engine
  <2>2. /\ paused => paused' \/ (Quiet /\ pc \in {"dead", "unpaused", "interval"})
        /\ generation' # generation => paused' /\ pc # "write"
    <3>1. CASE PauseBegin(c)
      BY <1>1, <3>1 DEF PauseBegin, LockInv, WorkerHolds
    <3>2. CASE Resume(c) BY <3>2 DEF Resume, Settled, Quiet
    <3>3. CASE StopHalt(c) \/ StopReturn(c) \/ PauseHalt(c) \/ CallerPublish(c)
      BY <3>3 DEF StopHalt, StopReturn, PauseHalt, CallerPublish, engine
    <3> QED BY <1>7, <3>1, <3>2, <3>3 DEF Caller, StopBegin
  <2>3. Quiet => Quiet' BY <1>3, <1>4 DEF Quiet
  <2>4. Ended' <=> Ended BY <1>3, <1>7, <2>1 DEF Ended
  <2>5. OneReplyEach /\ DoneIsReached => OneReplyEach' /\ DoneIsReached'
    BY <1>3, <1>4 DEF OneReplyEach, DoneIsReached
  <2>6. Active(idx)' = Active(idx) BY <1>3 DEF Active
  <2>7. Resting' /\ SendReady' /\ WriteReady'
    BY <1>2, <1>3, <2>2, <2>3, <2>4, <2>6 DEF DoneInv, Resting, SendReady, WriteReady, Quiet
  <2>8. Awaited'
    BY <1>2, <1>3, <1>4, <1>5, <2>4, <2>5, <2>6 DEF DoneInv, Awaited
  <2>9. Arrived' BY <1>2, <1>3, <2>3, <2>4, <2>6 DEF DoneInv, Arrived
  <2>10. PauseLasts' BY <1>2, <1>3, <2>1, <2>2 DEF DoneInv, PauseLasts
  <2> QED BY <2>7, <2>8, <2>9, <2>10 DEF DoneInv
<1> QED BY <1>6, <1>7

\* A step of the worker: it sends only with the line empty, and leaves its wait
\* only when each motor has answered.
LEMMA WorkerDone == ASSUME DInv, SlowOperator, PidMode, Worker PROVE DoneInv'
<1>1. TypeOK /\ LockInv BY DEF DInv, IInv
<1>2. DoneInv BY DEF DInv
<1> USE <1>2 DEF DoneInv, Resting, SendReady, WriteReady, Awaited, Arrived, PauseLasts, Ended, At, Goto,
                 engine, worker, device, history
<1>a. ASSUME UNCHANGED <<moving, replies, reached>>
      PROVE  /\ Quiet' = Quiet /\ OneReplyEach' = OneReplyEach /\ DoneIsReached' = DoneIsReached
             /\ ReplyMotors' = ReplyMotors
  BY <1>a DEF Quiet, OneReplyEach, DoneIsReached, ReplyMotors
<1>b. ASSUME UNCHANGED idx PROVE Active(idx)' = Active(idx) BY <1>b DEF Active
<1> HIDE DEF Active
<1>3. CASE LoopHead BY <1>3, <1>a, <1>b DEF LoopHead
<1>4. CASE StepHead BY <1>4, <1>a, <1>b DEF StepHead
<1>5. CASE WaitIfPaused BY <1>5, <1>a, <1>b DEF WaitIfPaused
<1>6. CASE Snapshot BY <1>6, <1>a, <1>b DEF Snapshot
<1>7. CASE SendBegin BY <1>7, <1>a, <1>b DEF SendBegin
<1>8. CASE Write
  <2>1. pc' \in {"sent", "sendFailed"} /\ UNCHANGED <<replies, idx, pending, running, failed, snap, generation, paused>>
    BY <1>8 DEF Write
  <2>2. CASE Ended BY <2>1, <2>2, <1>8 DEF Write
  <2>3. CASE ~Ended /\ pc' = "sent"
    <3>1. moving = {} /\ replies = <<>> /\ pending = Active(idx)
      BY <1>8, <2>3 DEF Write, Quiet
    <3>2. moving' = Active(idx) /\ replies' = <<>> /\ pending' = Active(idx)'
      BY <1>8, <2>1, <2>3, <3>1, <1>b DEF Write
    <3>3. ReplyMotors' = {} /\ OneReplyEach' /\ DoneIsReached'
      BY <3>2 DEF ReplyMotors, OneReplyEach, DoneIsReached
    <3>4. moving' \subseteq pending' /\ Active(idx)' \ pending' \subseteq reached' BY <3>2, <2>1, <1>b
    <3> QED BY <1>8, <2>1, <2>3, <3>3, <3>4 DEF Write
  <2>4. CASE pc' = "sendFailed" BY <2>1, <2>4, <1>8 DEF Write
  <2> QED BY <2>1, <2>2, <2>3, <2>4
<1>9. CASE SendFailed BY <1>9, <1>a, <1>b DEF SendFailed, HandleError
<1>10. CASE Resend BY <1>10, <1>a, <1>b DEF Resend, PausedSince
<1>11. CASE Sent BY <1>11, <1>a, <1>b DEF Sent, PausedSince
<1>12. CASE PidWaitEnds
  <2>1. UNCHANGED <<moving, replies, reached, idx, pending, running, failed, snap, generation, paused>>
    BY <1>12 DEF PidWaitEnds
  <2>2. CASE pc' = "stepWait" /\ ~Ended
    <3>1. pending = {} BY <1>12, <2>2 DEF PidWaitEnds
    <3>2. moving = {} /\ ReplyMotors = {} /\ Active(idx) \subseteq reached BY <1>12, <2>2, <3>1 DEF PidWaitEnds
    <3>3. replies = <<>>
      <4>1. replies \in Seq(Replies) BY <1>1 DEF TypeOK
      <4>2. Len(replies) # 0 => replies[1].motor \in ReplyMotors BY <4>1 DEF ReplyMotors
      <4> QED BY <3>2, <4>1, <4>2
    <3> QED BY <1>12, <2>1, <2>2, <3>2, <3>3, <1>b DEF PidWaitEnds, Quiet
  <2>3. CASE ~(pc' = "stepWait" /\ ~Ended) BY <1>12, <2>1, <2>3, <1>a, <1>b DEF PidWaitEnds
  <2> QED BY <2>2, <2>3
<1>13. CASE PidWaitTimeout BY <1>13, <1>a, <1>b DEF PidWaitTimeout, HandleError
<1>14. CASE StepWait BY <1>14, <1>a, <1>b DEF StepWait
<1>15. CASE Waited BY <1>15, <1>a, <1>b DEF Waited, PausedSince
<1>16. CASE CompleteStep BY <1>16, <1>a, <1>b DEF CompleteStep
<1>17. CASE IntervalEnds BY <1>17, <1>a DEF IntervalEnds
<1>18. CASE ReturnFalse BY <1>18 DEF ReturnFalse
<1>19. CASE CleanupHalt BY <1>19 DEF CleanupHalt
<1>20. CASE CleanupFinish BY <1>20 DEF CleanupFinish
<1>21. CASE Report BY <1>21 DEF Report
<1> QED
  BY <1>3, <1>4, <1>5, <1>6, <1>7, <1>8, <1>9, <1>10, <1>11, <1>12, <1>13, <1>14, <1>15, <1>16,
     <1>17, <1>18, <1>19, <1>20, <1>21 DEF Worker

\* An answer is taken off the line: it was for a motor still waited for, and
\* the only one for it.
LEMMA ReaderDone ==
  ASSUME DInv, SlowOperator, PidMode, Reader \/ NotifyFailure PROVE DoneInv'
<1>1. TypeOK /\ DoneInv BY DEF DInv, IInv
<1>2. UNCHANGED <<pc, idx, snap, generation, paused, moving, reached>>
  BY DEF Reader, NotifyPidComplete, NotifyPidFailed, HandleErrorStep, NotifyFailure, engine, worker, device, history
<1>3. Active(idx)' = Active(idx) BY <1>2 DEF Active
<1>4. Ended => Ended'
  BY DEF Ended, Reader, NotifyPidComplete, NotifyPidFailed, HandleErrorStep, NotifyFailure
<1>5. running' => running
  BY DEF Reader, NotifyPidComplete, NotifyPidFailed, HandleErrorStep, NotifyFailure
<1> HIDE DEF Active
<1> USE DEF DoneInv, Resting, SendReady, WriteReady, Awaited, Arrived, PauseLasts
<1>6. CASE UNCHANGED <<replies, pending>>
  <2>1. /\ Quiet' = Quiet /\ OneReplyEach' = OneReplyEach /\ DoneIsReached' = DoneIsReached
        /\ ReplyMotors' = ReplyMotors
    BY <1>2, <1>6 DEF Quiet, OneReplyEach, DoneIsReached, ReplyMotors
  <2> QED BY <1>1, <1>2, <1>3, <1>4, <1>5, <1>6, <2>1
<1>7. CASE replies # <<>> /\ replies' = Tail(replies)
  <2>1. ~Quiet BY <1>7 DEF Quiet
  <2>2. CASE Ended' BY <1>1, <1>2, <1>4, <1>5, <2>1, <2>2
  <2>3. CASE ~Ended'
    <3> DEFINE m == Head(replies).motor
    <3>2. /\ Len(replies) \in Nat /\ Len(replies) # 0 /\ Head(replies) = replies[1]
          /\ Len(replies') = Len(replies) - 1 /\ \A k \in 1..Len(replies') : replies'[k] = replies[k + 1]
      <4>1. replies \in Seq(Replies) BY <1>1 DEF TypeOK
      <4> QED BY <1>7, <4>1
    <3>1. (Head(replies).kind = "done" /\ pending' = pending \ {m}) \/ (UNCHANGED pending /\ m \notin pending)
      <4>1. replies' # replies BY <3>2
      <4>2. CASE NotifyPidComplete BY <4>2 DEF NotifyPidComplete
      <4>3. CASE NotifyPidFailed BY <2>3, <4>3 DEF NotifyPidFailed, Ended
      <4> QED BY <4>1, <4>2, <4>3 DEF Reader, HandleErrorStep, NotifyFailure, device
    <3>3. CASE pc \in {"sent", "pidWait"}
      <4>1. /\ OneReplyEach /\ DoneIsReached
            /\ moving \subseteq pending /\ ReplyMotors \subseteq pending /\ Active(idx) \ pending \subseteq reached
        BY <1>1, <1>4, <2>3, <3>3
      <4>2. m \in pending /\ m \notin moving BY <3>2, <4>1 DEF ReplyMotors, OneReplyEach
      <4>3. pending' = pending \ {m} /\ m \in reached BY <3>1, <3>2, <4>1, <4>2 DEF DoneIsReached
      <4>a. ASSUME NEW k \in 1..Len(replies')
            PROVE  k + 1 \in 1..Len(replies) /\ replies'[k] = replies[k + 1]
        BY <3>2
      <4>4. OneReplyEach' /\ DoneIsReached'
        <5>1. \A k \in 1..Len(replies') : replies'[k].motor \notin moving' BY <1>2, <4>a, <4>1 DEF OneReplyEach
        <5>2. \A k, l \in 1..Len(replies') : replies'[k].motor = replies'[l].motor => k = l
          BY <4>a, <4>1 DEF OneReplyEach
        <5>3. DoneIsReached' BY <1>2, <4>a, <4>1 DEF DoneIsReached
        <5> QED BY <5>1, <5>2, <5>3 DEF OneReplyEach
      <4>5. ReplyMotors' \subseteq pending'
        BY <3>2, <4>1, <4>3 DEF ReplyMotors, OneReplyEach
      <4> QED BY <1>2, <1>3, <1>1, <1>5, <3>3, <4>1, <4>2, <4>3, <4>4, <4>5
    <3>4. CASE pc \notin {"sent", "pidWait"} BY <1>1, <1>2, <1>4, <1>5, <2>1, <2>3, <3>4
    <3> QED BY <3>3, <3>4
  <2> QED BY <2>2, <2>3
<1> QED
  BY <1>6, <1>7 DEF Reader, NotifyPidComplete, NotifyPidFailed, HandleErrorStep, NotifyFailure, engine, device

\* A motor answers once, when it comes to its end.
LEMMA MotorAnswers ==
  ASSUME DInv, SlowOperator, PidMode, NEW m \in Motors, MotorDone(m) \/ MotorFail(m) PROVE DoneInv'
<1>1. TypeOK /\ DoneInv BY DEF DInv, IInv
<1>2. UNCHANGED <<pc, idx, snap, generation, paused, running, failed, pending>> /\ m \in moving
      /\ moving' = moving \ {m}
  BY DEF MotorDone, MotorFail, engine, worker
<1>3. Active(idx)' = Active(idx) /\ Ended' = Ended BY <1>2 DEF Active, Ended
<1>4. ~Quiet BY <1>2 DEF Quiet
<1> HIDE DEF Active, Ended
<1> USE DEF DoneInv, Resting, SendReady, WriteReady, Awaited, Arrived, PauseLasts
<1>5. PICK r \in Replies : /\ replies' = Append(replies, r) /\ r.motor = m
                           /\ reached \subseteq reached' /\ (r.kind = "done" => m \in reached')
  <2>1. [kind |-> "done", motor |-> m] \in Replies /\ [kind |-> "fail", motor |-> m] \in Replies
    BY DEF Replies
  <2> QED BY <2>1 DEF MotorDone, MotorFail, history
<1>6. /\ Len(replies) \in Nat /\ Len(replies') = Len(replies) + 1 /\ replies'[Len(replies) + 1] = r
      /\ \A k \in 1..Len(replies) : replies'[k] = replies[k]
  <2>1. replies \in Seq(Replies) BY <1>1 DEF TypeOK
  <2> HIDE DEF Replies
  <2> QED BY <1>5, <2>1
<1>7. CASE pc \in {"sent", "pidWait"} /\ ~Ended
  <2>1. /\ OneReplyEach /\ DoneIsReached
        /\ moving \subseteq pending /\ ReplyMotors \subseteq pending /\ Active(idx) \ pending \subseteq reached
    BY <1>1, <1>7
  <2>2. OneReplyEach'
    BY <1>2, <1>5, <1>6, <2>1 DEF OneReplyEach
  <2>3. DoneIsReached'
    BY <1>5, <1>6, <2>1 DEF DoneIsReached
  <2>4. ReplyMotors' \subseteq pending'
    BY <1>2, <1>5, <1>6, <2>1 DEF ReplyMotors
  <2> QED BY <1>1, <1>2, <1>3, <1>5, <1>7, <2>1, <2>2, <2>3, <2>4
<1>8. CASE ~(pc \in {"sent", "pidWait"} /\ ~Ended) BY <1>1, <1>2, <1>3, <1>4, <1>8
<1> QED BY <1>7, <1>8

\* The line stays in order through every step.
LEMMA NextDone == DInv /\ [Next]_vars => DInv'
<1> SUFFICES ASSUME DInv, [Next]_vars PROVE DInv'
  OBVIOUS
<1>1. IInv' BY NextIInv DEF DInv
<1>2. ASSUME SlowOperator, PidMode PROVE DoneInv'
  <2>1. CASE Start
    <3>1. Quiet' /\ pc' = "loop" BY <1>2, <2>1 DEF Start, Settled, Quiet, device
    <3> QED BY <3>1 DEF DoneInv, Resting, SendReady, WriteReady, Awaited, Arrived, PauseLasts
  <2>2. CASE UNCHANGED vars
    <3>1. DoneInv BY <1>2 DEF DInv
    <3> QED
      BY <3>1, <2>2 DEF vars, engine, worker, device, history, DoneInv, Resting, SendReady, WriteReady, Awaited,
           Arrived, PauseLasts, Quiet, OneReplyEach, DoneIsReached, ReplyMotors, Active, Ended
  <2> QED BY <1>2, <2>1, <2>2, CallerDone, WorkerDone, ReaderDone, MotorAnswers DEF Next
<1> QED BY <1>1, <1>2 DEF DInv

\* A step is counted only when each of its motors has reached the target of the
\* command sent last, whatever was paused, replayed or answered late, if a
\* pause is not taken back before the motors and the line are at rest.
THEOREM StepsAreDone == SlowOperator => (Spec => StepsReallyDone)
<1> SUFFICES ASSUME SlowOperator PROVE Spec => StepsReallyDone
  OBVIOUS
<1>1. DInv /\ [Next]_vars => [PidMode /\ completed' = completed + 1 => Active(idx) \subseteq reached]_vars
  <2> SUFFICES ASSUME DInv, Next, PidMode, completed' = completed + 1 PROVE Active(idx) \subseteq reached
    BY DEF vars, history
  <2>1. completed \in Nat BY DEF DInv, IInv, TypeOK
  <2>2. completed' # completed BY <2>1
  <2>3. CASE CompleteStep
    <3>1. pc = "complete" /\ ~Ended BY <2>2, <2>3 DEF CompleteStep, At
    <3>2. Arrived BY DEF DInv, DoneInv
    <3> QED BY <3>1, <3>2 DEF Arrived
  <2>4. CASE Start BY <2>4, <2>1 DEF Start
  <2>5. CASE Worker /\ ~CompleteStep
    BY <2>2, <2>5 DEF Worker, LoopHead, StepHead, WaitIfPaused, Snapshot, SendBegin, Write, SendFailed, Resend, Sent,
      PidWaitEnds, PidWaitTimeout, StepWait, Waited, IntervalEnds, ReturnFalse, CleanupHalt, CleanupFinish, Report,
      history
  <2>6. CASE Reader \/ NotifyFailure
    BY <2>2, <2>6 DEF Reader, NotifyPidComplete, NotifyPidFailed, HandleErrorStep, NotifyFailure, history
  <2>7. CASE \E c \in Callers : Caller(c)
    BY <2>2, <2>7 DEF Caller, StopBegin, StopHalt, StopReturn, PauseBegin, PauseHalt, Resume, CallerPublish, history
  <2>8. CASE \E m \in Motors : MotorDone(m) \/ MotorFail(m)
    BY <2>2, <2>8 DEF MotorDone, MotorFail, history
  <2> QED BY <2>3, <2>4, <2>5, <2>6, <2>7, <2>8 DEF Next
<1> QED BY <1>1, InitDone, NextDone, PTL DEF Spec, StepsReallyDone
================================================================================
