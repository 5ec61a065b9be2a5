---------------------------- MODULE BoardSession ----------------------------
(***************************************************************************)
(* The serial session of pump_control_node.py: connection, arming of the   *)
(* board's watchdog, confirmed stops, faults and recovery.  A connection   *)
(* has a reader and a keepalive worker of its own; either may notice that  *)
(* the line is gone, latches the fault and starts a thread that reconnects.*)
(* The main loop retries, and an operator may reconnect at any time.  One  *)
(* of them at a time holds _control_lock; the others, and the latch, which *)
(* takes serial_lock only, go on meanwhile.                                *)
(***************************************************************************)
EXTENDS Naturals, FiniteSets

CONSTANTS
  MaxTrouble,   \* bound: lines that break, replies that get lost, trips
  MaxServices   \* bound: reconnections by the operator

VARIABLES
  conn, opened,       \* serial_conn by its number, 0 if there is none; how many there were
  lost,               \* the connections whose line is gone
  reader, keeper,     \* the connections that have a reader, a keepalive worker
  faultConn, fault,   \* _serial_fault_connection, _controller_fault
  armed, recovering, requires, cleanup,   \* the node's flags of these names
  tripped,            \* a WATCHDOG_TRIPPED on its way
  pending,            \* threads of _reconnect_after_reader_error, <<connection, stage>>
  job,                \* who holds the control lock for a (re)connection, and where
  board,              \* the board
  trouble, services

vars == <<conn, opened, lost, reader, keeper, faultConn, fault, armed, recovering, requires, cleanup,
          tripped, pending, job, board, trouble, services>>
lineVars == <<lost, opened, trouble, services>>
flagVars == <<recovering, requires, cleanup>>

NoJob == [at |-> "none", recovery |-> FALSE, cancelled |-> FALSE]
Trouble == trouble < MaxTrouble /\ trouble' = trouble + 1

Init ==
  /\ conn = 0 /\ opened = 0 /\ lost = {} /\ reader = 0 /\ keeper = 0 /\ faultConn = 0
  /\ fault = "reconnecting" /\ armed = FALSE /\ recovering = TRUE /\ requires = FALSE /\ cleanup = FALSE
  /\ tripped = FALSE /\ pending = {} /\ job = [NoJob EXCEPT !.at = "open"]
  /\ board = [armed |-> FALSE, outputs |-> FALSE, ads |-> FALSE] /\ trouble = 0 /\ services = 0

-----------------------------------------------------------------------------
(* The line, the board and whoever works with it.                          *)

Break ==
  /\ conn # 0 /\ conn \notin lost /\ Trouble /\ lost' = lost \cup {conn}
  /\ UNCHANGED <<conn, opened, reader, keeper, faultConn, fault, armed, flagVars, tripped, pending, job, board, services>>

(* Without a keepalive in time the board stops what it drives.             *)
Trip ==
  /\ board.armed
  /\ \/ conn \in lost \cup {0} /\ UNCHANGED <<tripped, trouble>>
     \/ conn # 0 /\ conn \notin lost /\ Trouble /\ tripped' = TRUE
  /\ board' = [board EXCEPT !.armed = FALSE, !.outputs = FALSE]
  /\ UNCHANGED <<conn, opened, lost, reader, keeper, faultConn, fault, armed, flagVars, pending, job, services>>

(* While the watchdog is being armed, what an earlier session left behind. *)
Arming == job.at = "arm"
TakeTrip ==
  /\ tripped /\ tripped' = FALSE
  /\ \/ (Arming \/ conn \in lost) /\ UNCHANGED <<armed, fault>>
     \/ ~Arming /\ reader # 0 /\ armed' = FALSE /\ fault' = "watchdog_tripped"
  /\ UNCHANGED <<conn, lineVars, reader, keeper, faultConn, flagVars, pending, job, board>>

(* An operator, or a run, starts pumps and the measurement.                *)
Drive ==
  /\ job.at = "none" /\ fault = "none" /\ conn \notin lost /\ ~cleanup
  /\ board' \in {[board EXCEPT !.outputs = TRUE], [board EXCEPT !.ads = TRUE]}
  /\ UNCHANGED <<conn, lineVars, reader, keeper, faultConn, fault, armed, flagVars, tripped, pending, job>>

-----------------------------------------------------------------------------
(* _latch_serial_fault: only the present connection, and only once.        *)

Latches(g) == g = conn /\ g # faultConn
Or(old, new) == IF old = "none" THEN new ELSE old

Latch(g) ==
  IF Latches(g)
  THEN /\ faultConn' = g /\ fault' = Or(fault, "disconnected")
       /\ job' = [job EXCEPT !.cancelled = job.at # "none"] /\ pending' = pending \cup {<<g, 1>>}
  ELSE UNCHANGED <<faultConn, fault, job, pending>>

ReaderError ==
  /\ reader # 0 /\ reader \in lost /\ reader' = 0 /\ Latch(reader)
  /\ UNCHANGED <<conn, lineVars, keeper, armed, flagVars, tripped, board>>

KeeperError ==
  /\ keeper # 0 /\ keeper \in lost /\ (armed /\ (fault = "none" \/ recovering)) /\ keeper' = 0 /\ Latch(keeper)
  /\ UNCHANGED <<conn, lineVars, reader, armed, flagVars, tripped, board>>

-----------------------------------------------------------------------------
(* Disconnection and connection.                                           *)

(* _disconnect_locked joins both workers.                                  *)
Disconnected == conn' = 0 /\ reader' = 0 /\ keeper' = 0 /\ armed' = FALSE /\ tripped' = FALSE

(* Whether the outputs have to be stopped, with confirmation.  (A bug to   *)
(* look for: only after a fault.)                                          *)
AfterFault(former, dirty) == former # "none" \/ dirty
Recovers(former, dirty) == TRUE

Connecting(former, dirty, measuring) ==
  /\ Disconnected
  /\ requires' = (former # "none" \/ dirty \/ measuring)
  /\ recovering' = TRUE /\ fault' = Or(former, "reconnecting")
  /\ job' = [at |-> "open", recovery |-> Recovers(former, dirty), cancelled |-> FALSE]

(* _auto_stop: the halts that a lost line does not take fail.              *)
Halted == IF conn \in lost \cup {0} THEN board ELSE [board EXCEPT !.outputs = FALSE]

(* _reconnect_locked.  The writes of the automatic stop prove nothing.     *)
Reconnect ==
  /\ board' \in {board, Halted}
  /\ \E dirty \in {cleanup, (conn \in lost)} :
       /\ cleanup' = dirty /\ Connecting(fault, dirty, board.ads)
  /\ faultConn' = conn
  /\ UNCHANGED pending

Service ==
  /\ job.at = "none" /\ services < MaxServices /\ services' = services + 1
  /\ Reconnect /\ UNCHANGED <<opened, lost, trouble>>

(* _reconnect_after_reader_error: stop, a second's sleep, reconnect.       *)
ErrorThread(g) ==
  /\ job.at = "none"
  /\ \/ /\ <<g, 1>> \in pending
        /\ pending' = (pending \ {<<g, 1>>}) \cup (IF g = conn THEN {<<g, 2>>} ELSE {})
        /\ cleanup' = (cleanup \/ g = conn) /\ UNCHANGED <<conn, reader, keeper, armed, tripped, requires, recovering, fault, job>>
     \/ /\ <<g, 2>> \in pending /\ pending' = pending \ {<<g, 2>>}
        /\ IF g = conn THEN Connecting(fault, cleanup, FALSE) /\ UNCHANGED cleanup
           ELSE UNCHANGED <<conn, reader, keeper, armed, tripped, flagVars, fault, job>>
  /\ UNCHANGED <<lineVars, faultConn, board>>

(* _retry_serial_connection: an open connection that is not at fault is    *)
(* kept.  (A bug to look for: a tripped watchdog is left to the operator.) *)
RetriedWithoutTrip == conn = 0 \/ recovering \/ fault \in {"disconnected", "reconnecting", "recovery_failed"}
Retried == conn = 0 \/ recovering \/ fault \in {"disconnected", "reconnecting", "watchdog_tripped", "recovery_failed"}

Main ==
  /\ job.at = "none" /\ Retried
  /\ IF conn # 0 /\ recovering /\ conn # faultConn
     THEN /\ job' = [at |-> IF armed THEN "halt" ELSE "arm", recovery |-> TRUE, cancelled |-> FALSE]
          /\ UNCHANGED <<conn, reader, keeper, faultConn, fault, armed, flagVars, tripped, pending, board>>
     ELSE Reconnect
  /\ UNCHANGED lineVars

-----------------------------------------------------------------------------
(* _connect_locked and _finish_serial_recovery, step by step.              *)

Step(to) == job' = [job EXCEPT !.at = to, !.cancelled = FALSE]

Open ==
  /\ job.at = "open"
  /\ \/ /\ opened' = opened + 1 /\ conn' = opened + 1 /\ reader' = opened + 1 /\ keeper' = opened + 1
        /\ faultConn' = 0 /\ Step("arm") /\ UNCHANGED <<fault, trouble>>
     \/ /\ Trouble /\ job' = NoJob                                 \* no port, no handshake
        /\ fault' = (IF fault \in {"none", "reconnecting"} THEN "disconnected" ELSE fault)
        /\ UNCHANGED <<opened, conn, reader, keeper, faultConn>>
  /\ UNCHANGED <<lost, armed, flagVars, tripped, pending, board, services>>

(* A failed confirmation leaves the line open.                             *)
Fail ==
  /\ job' = NoJob /\ recovering' = TRUE /\ fault' = Or(fault, "recovery_failed")

Answer == conn \notin lost /\ ~job.cancelled
NoAnswer == IF Answer THEN Trouble ELSE UNCHANGED trouble

Arm ==
  /\ job.at = "arm"
  /\ \/ /\ Answer /\ armed' = TRUE /\ board' = [board EXCEPT !.armed = TRUE]
        /\ Step(IF job.recovery THEN "halt" ELSE IF requires THEN "ads" ELSE "clear")
        /\ UNCHANGED <<fault, recovering, trouble>>
     \/ NoAnswer /\ Fail /\ UNCHANGED <<armed, board>>
  /\ UNCHANGED <<conn, opened, lost, reader, keeper, faultConn, requires, cleanup, tripped, pending, services>>

Halt ==
  /\ job.at = "halt"
  /\ \/ /\ Answer /\ board' = [board EXCEPT !.outputs = FALSE]
        /\ Step(IF requires THEN "ads" ELSE "clear") /\ UNCHANGED <<fault, recovering, trouble>>
     \/ NoAnswer /\ Fail /\ board' \in {board, Halted}
  /\ UNCHANGED <<conn, opened, lost, reader, keeper, faultConn, armed, requires, cleanup, tripped, pending, services>>

StopAds ==
  /\ job.at = "ads"
  /\ \/ /\ Answer /\ board' = [board EXCEPT !.ads = FALSE]
        /\ Step("clear") /\ UNCHANGED <<fault, recovering, trouble>>
     \/ NoAnswer /\ Fail /\ UNCHANGED board
  /\ UNCHANGED <<conn, opened, lost, reader, keeper, faultConn, armed, requires, cleanup, tripped, pending, services>>

(* The fault may be cleared only if the session is still the one that was  *)
(* confirmed.  (A bug to look for: it is not looked at again.)             *)
StillArmed == armed
StillGood == armed /\ conn # faultConn

Clear ==
  /\ job.at = "clear"
  /\ IF StillGood THEN fault' = "none" /\ Step("release") /\ UNCHANGED recovering ELSE Fail
  /\ UNCHANGED <<conn, lineVars, reader, keeper, faultConn, armed, requires, cleanup, tripped, pending, board>>

Release ==
  /\ job.at = "release" /\ job' = NoJob /\ cleanup' = FALSE /\ recovering' = FALSE /\ requires' = FALSE
  /\ UNCHANGED <<conn, lineVars, reader, keeper, faultConn, fault, armed, tripped, pending, board>>

Next ==
  \/ Break \/ Trip \/ TakeTrip \/ Drive \/ ReaderError \/ KeeperError \/ Service \/ Main
  \/ \E g \in 1..opened : ErrorThread(g)
  \/ Open \/ Arm \/ Halt \/ StopAds \/ Clear \/ Release

Reconnects == Open \/ Arm \/ Halt \/ StopAds \/ Clear \/ Release

(* Every thread of the node goes on; the main loop runs at 10 Hz.          *)
Fairness ==
  /\ WF_vars(TakeTrip) /\ WF_vars(ReaderError) /\ WF_vars(Main)
  /\ WF_vars(Reconnects)

Spec == Init /\ [][Next]_vars
FairSpec == Spec /\ Fairness

-----------------------------------------------------------------------------
(* A recovery that clears the fault has stopped what the board drove, on   *)
(* a session that nobody has found broken: retries, reader, keepalive and  *)
(* operator against each other.                                            *)
ClearsOnlyQuiet ==
  fault # "none" /\ fault' = "none" =>
    ~board.outputs /\ armed /\ conn # faultConn /\ (requires => ~board.ads)

(* When lines stop breaking the node gets back to a session without fault, *)
(* whatever failed and whoever was at it: README.md:124-125.               *)
IsRecovered == fault = "none" /\ conn # 0
RecoveryEnds == []<>IsRecovered
=============================================================================
