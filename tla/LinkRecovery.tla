---------------------------- MODULE LinkRecovery ----------------------------
(***************************************************************************)
(* The node that restarts the MAVROS process when the flight controller's  *)
(* heartbeat stays away (link_recovery_node.py).  The node makes one step  *)
(* in every tick; ages are counted in ticks and stop at a ceiling, so that *)
(* the state space is finite and whole behaviours can be judged.           *)
(***************************************************************************)
EXTENDS Integers

CONSTANTS
  FreshFor,      \* 5 s: how long a state message is believed
  Patience,      \* disconnect_timeout
  FirstBackoff,  \* 30 s
  LastBackoff    \* 120 s

RecoveryAssumption ==
  /\ FreshFor \in Nat \ {0} /\ Patience \in Nat \ {0}
  /\ FirstBackoff \in Nat \ {0} /\ LastBackoff \in Nat /\ FirstBackoff <= LastBackoff

VARIABLES
  process,     \* MAVROS: "good", "stuck" (it says it is not connected), "silent"
  told,        \* its state message of this tick has come
  stepped,     \* the node's step of this tick is over
  connected, age,             \* _connected, the age of _state_at
  unhealthy,                  \* for how long it has been so, None when it is not
  pending, wait, backoff,     \* _pending, ticks to _next_retry, _backoff
  stage,       \* where step is: "idle", "check" before the second look, "kill" before the call
  sinceKill    \* ticks since the last restart was ordered

nodeVars == <<connected, age, unhealthy, pending, wait, backoff>>
vars == <<process, told, stepped, nodeVars, stage, sinceKill>>

None == -1
Smaller(a, b) == IF a < b THEN a ELSE b
Aged(n, ceiling) == Smaller(n + 1, ceiling)
OldAge == FreshFor + Patience + 1

Init ==
  /\ process \in {"good", "stuck", "silent"} /\ told = FALSE /\ stepped = FALSE
  /\ connected = FALSE /\ age = OldAge /\ unhealthy = 0
  /\ pending = FALSE /\ wait = 0 /\ backoff = FirstBackoff
  /\ stage = "idle" /\ sinceKill = LastBackoff

Healthy == connected /\ age <= FreshFor

-----------------------------------------------------------------------------
(* _state_cb: the mark of the first bad message stays.  (A bug to look     *)
(* for: each bad message makes a new one.)                                 *)
RenewedMark == IF process = "good" THEN None ELSE 0
Mark == IF process = "good" THEN None ELSE IF unhealthy = None THEN 0 ELSE unhealthy

State ==
  /\ process # "silent" /\ ~told /\ told' = TRUE
  /\ connected' = (process = "good") /\ age' = 0 /\ unhealthy' = Mark
  /\ UNCHANGED <<process, stepped, pending, wait, backoff, stage, sinceKill>>

(* _request: from the page or the ground station.                          *)
Request ==
  /\ ~Healthy /\ pending' = TRUE
  /\ UNCHANGED <<process, told, stepped, connected, age, unhealthy, wait, backoff, stage, sinceKill>>

(* The process fails and comes back by itself from tick to tick.           *)
Tick ==
  /\ process' \in {"good", "stuck", "silent"}
  /\ stepped /\ (process = "silent" \/ told)
  /\ told' = FALSE /\ stepped' = FALSE
  /\ age' = Aged(age, OldAge)
  /\ unhealthy' = IF unhealthy = None THEN None ELSE Aged(unhealthy, Patience)
  /\ wait' = IF wait = 0 THEN 0 ELSE wait - 1
  /\ sinceKill' = Aged(sinceKill, LastBackoff)
  /\ UNCHANGED <<connected, pending, backoff, stage>>

-----------------------------------------------------------------------------
(* step: a healthy link resets the growth of the waiting time, not the     *)
(* wait itself.  (A bug to look for: the wait, too.)                       *)
NoWait == 0
WaitKept == wait

StepHealthy ==
  /\ stage = "idle" /\ ~stepped /\ Healthy
  /\ unhealthy' = None /\ pending' = FALSE /\ backoff' = FirstBackoff /\ wait' = WaitKept
  /\ stepped' = TRUE /\ UNCHANGED <<process, told, connected, age, stage, sinceKill>>

(* Unhealthy without a mark: the state messages have stopped.              *)
SilentMark == IF unhealthy = None THEN Smaller(age - FreshFor, Patience) ELSE unhealthy
IsDue(mark) == pending \/ mark >= Patience

StepWaits ==
  /\ stage = "idle" /\ ~stepped /\ ~Healthy /\ unhealthy' = SilentMark
  /\ wait > 0 \/ ~IsDue(SilentMark)
  /\ stepped' = TRUE
  /\ UNCHANGED <<process, told, connected, age, pending, wait, backoff, stage, sinceKill>>

StepRestarts ==
  /\ stage = "idle" /\ ~stepped /\ ~Healthy /\ unhealthy' = SilentMark
  /\ wait = 0 /\ IsDue(SilentMark)
  /\ pending' = FALSE /\ wait' = backoff /\ backoff' = Smaller(LastBackoff, backoff * 2)
  /\ stage' = "check" /\ UNCHANGED <<process, told, stepped, connected, age, sinceKill>>

(* _restart_mavros: it looks again, and lets go of the lock.               *)
LookAgain ==
  /\ stage = "check"
  /\ IF Healthy THEN stage' = "idle" /\ stepped' = TRUE ELSE stage' = "kill" /\ UNCHANGED stepped
  /\ UNCHANGED <<process, told, nodeVars, sinceKill>>

(* rosnode kill: roslaunch starts the process anew, in whatever state the  *)
(* flight controller lets it be; or the call fails.                        *)
Kill ==
  /\ stage = "kill" /\ stage' = "idle" /\ stepped' = TRUE /\ sinceKill' = 0
  /\ process' \in {"good", "stuck", "silent"}
  /\ UNCHANGED <<told, nodeVars>>

Next ==
  \/ State \/ Request \/ Tick
  \/ StepHealthy \/ StepWaits \/ StepRestarts \/ LookAgain \/ Kill

Looks == StepHealthy \/ StepWaits \/ StepRestarts

(* The node's loop runs, messages of a living process come, time passes.   *)
Fairness ==
  /\ WF_vars(State) /\ WF_vars(Tick)
  /\ WF_vars(Looks) /\ WF_vars(LookAgain) /\ WF_vars(Kill)

Spec == Init /\ [][Next]_vars /\ Fairness

-----------------------------------------------------------------------------
(* A link that stays away is restarted again and again, and a request is   *)
(* followed by an attempt or by a healthy link.                            *)
IsAway == process # "good"
IsRestarted == stage = "kill"
IsAsked == pending
RestartsGoOn ==
  /\ <>[]IsAway => []<>IsRestarted
  /\ IsAsked ~> ~IsAsked

(* However the link comes and goes, restarts are the first waiting time    *)
(* apart.                                                                  *)
WaitsBetween == stage = "kill" /\ stage' = "idle" => sinceKill >= FirstBackoff
=============================================================================
