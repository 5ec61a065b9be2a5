---------------------------- MODULE InjectionPump ----------------------------
(***************************************************************************)
(* The injection pump: lib/injection_pump_worker.py's queue and thread, as *)
(* pump_control_node.py uses them.  Ordinary commands go through the queue *)
(* and are written by the worker; OFF does not wait for them: it cancels   *)
(* what is queued or already taken out and is written by its caller.  The  *)
(* guard lock is the node's serial_lock, so that a write and the check     *)
(* before it are one step.  A raw command waits for nothing.               *)
(***************************************************************************)
EXTENDS Naturals, Sequences, SequencesExt, FiniteSets

CONSTANTS
  Ons,       \* requests for ON or a speed
  Waiting,   \* the ones of them that wait for the result
  Offs,      \* requests for OFF
  MaxQueue   \* max_queue_size

QueueHasRoom == MaxQueue \in Nat \ {0} /\ Waiting \subseteq Ons /\ Ons \cap Offs = {}

VARIABLES
  at,          \* where each request is
  generation,  \* _generation: with it goes the context, which every OFF changes too
  queue,       \* _queue
  item,        \* per ON: its generation, its state, whether its time is over
  worker,      \* the item that the worker has in hand, and what it does with it
  stopping,    \* the OFFs that keep _stop_requested set
  shown,       \* inject_pump_enabled
  down, board, up,   \* commands to the board, its pump, its replies
  offs         \* how many OFFs had been asked for when an ON was

vars == <<at, generation, queue, item, worker, stopping, shown, down, board, up, offs>>
lineVars == <<down, board, up>>

Nobody == 0
NoItem == [generation |-> 0, cancelled |-> FALSE, late |-> FALSE, done |-> FALSE, success |-> FALSE]

Init ==
  /\ at = [r \in Ons \cup Offs |-> "idle"] /\ generation = 0 /\ queue = <<>>
  /\ item = [r \in Ons |-> NoItem] /\ worker = [has |-> Nobody, doing |-> "get", sent |-> FALSE]
  /\ stopping = {} /\ shown = FALSE /\ down = <<>> /\ board = FALSE /\ up = <<>>
  /\ offs = [r \in Ons |-> 0]

Asked == Cardinality({r \in Offs : at[r] # "idle"})

-----------------------------------------------------------------------------
(* submit.  Only a raw command does not look at a stop first.              *)

Submit(r) ==
  /\ at[r] = "idle" /\ (r \in Waiting => stopping = {})
  /\ at' = [at EXCEPT ![r] = "put"]
  /\ item' = [item EXCEPT ![r] = [NoItem EXCEPT !.generation = generation]]
  /\ offs' = [offs EXCEPT ![r] = Asked]
  /\ UNCHANGED <<generation, queue, worker, stopping, shown, lineVars>>

(* A full queue keeps a waiting request until its time is over.            *)
Put(r) ==
  /\ at[r] = "put"
  /\ \/ /\ Len(queue) < MaxQueue /\ queue' = Append(queue, r)
        /\ at' = [at EXCEPT ![r] = IF r \in Waiting THEN "wait" ELSE "sent"]
     \/ /\ Len(queue) >= MaxQueue /\ (r \in Waiting => item[r].late)
        /\ at' = [at EXCEPT ![r] = "failed"] /\ UNCHANGED queue
  /\ UNCHANGED <<generation, item, worker, stopping, shown, lineVars, offs>>

Late(r) ==
  /\ at[r] \in {"put", "wait", "sent"} /\ ~item[r].late
  /\ item' = [item EXCEPT ![r].late = TRUE]
  /\ UNCHANGED <<at, generation, queue, worker, stopping, shown, lineVars, offs>>

Answered(r) ==
  /\ at[r] = "wait" /\ (item[r].done \/ item[r].late)
  /\ at' = [at EXCEPT ![r] = IF item[r].done /\ item[r].success THEN "succeeded" ELSE "failed"]
  /\ item' = [item EXCEPT ![r].cancelled = @ \/ ~item[r].done]
  /\ UNCHANGED <<generation, queue, worker, stopping, shown, lineVars, offs>>

-----------------------------------------------------------------------------
(* The worker.  (A bug to look for: an item is looked at when it is taken  *)
(* out of the queue, and not again at the write.)                          *)

Get ==
  /\ worker.doing = "get" /\ queue # <<>>
  /\ worker' = [has |-> Head(queue), doing |-> "check", sent |-> FALSE] /\ queue' = Tail(queue)
  /\ UNCHANGED <<at, generation, item, stopping, shown, lineVars, offs>>

Current(r) == item[r].generation = generation /\ ~item[r].cancelled /\ ~item[r].late

Check ==
  /\ worker.doing = "check"
  /\ worker' = [worker EXCEPT !.doing = IF Current(worker.has) THEN "write" ELSE "told"]
  /\ UNCHANGED <<at, generation, queue, item, stopping, shown, lineVars, offs>>

CheckedBefore(r) == stopping = {}
MayWrite(r) == Current(r) /\ stopping = {}

(* Also a write may fail.                                                  *)
Write ==
  /\ worker.doing = "write"
  /\ \/ /\ MayWrite(worker.has) /\ down' = Append(down, "on")
        /\ worker' = [worker EXCEPT !.doing = "told", !.sent = TRUE]
     \/ worker' = [worker EXCEPT !.doing = "told"] /\ UNCHANGED down
  /\ UNCHANGED <<at, generation, queue, item, stopping, shown, board, up, offs>>

(* (A bug to look for: what was written is told although it was overtaken.)*)
ToldAnyway(r) == worker.sent
Stands(r) == worker.sent /\ Current(r)

Tell ==
  /\ worker.doing = "told"
  /\ LET r == worker.has
     IN /\ item' = [item EXCEPT ![r].success = Stands(r), ![r].done = TRUE]
        /\ shown' = (shown \/ Stands(r))
  /\ worker' = [has |-> Nobody, doing |-> "get", sent |-> FALSE]
  /\ UNCHANGED <<at, generation, queue, stopping, lineVars, offs>>

-----------------------------------------------------------------------------
(* OFF: _request_output_stop('PUMP:OFF') refuses every ordinary write and  *)
(* writes at once; the command itself is the second OFF.                   *)

Invalidated == [r \in Ons |-> IF Contains(queue, r) THEN [item[r] EXCEPT !.cancelled = TRUE, !.done = TRUE] ELSE item[r]]

StopFirst(r) ==
  /\ at[r] = "idle" /\ at' = [at EXCEPT ![r] = "invalidate"]
  /\ stopping' = stopping \cup {r}
  /\ generation' = generation + 1 /\ item' = Invalidated /\ queue' = <<>>
  /\ down' = Append(down, "off")
  /\ UNCHANGED <<worker, shown, board, up, offs>>

Invalidate(r) ==
  /\ at[r] = "invalidate" /\ at' = [at EXCEPT ![r] = "off"]
  /\ generation' = generation + 1 /\ item' = Invalidated /\ queue' = <<>>
  /\ UNCHANGED <<worker, stopping, shown, lineVars, offs>>

Off(r) ==
  /\ at[r] = "off" /\ at' = [at EXCEPT ![r] = "done"]
  /\ down' = Append(down, "off") /\ stopping' = stopping \ {r}
  /\ UNCHANGED <<generation, queue, item, worker, shown, board, up, offs>>

-----------------------------------------------------------------------------
(* The board, and the reader of its replies.                               *)

Execute ==
  /\ down # <<>> /\ down' = Tail(down)
  /\ board' = (Head(down) = "on") /\ up' = Append(up, Head(down))
  /\ UNCHANGED <<at, generation, queue, item, worker, stopping, shown, offs>>

Reply ==
  /\ up # <<>> /\ up' = Tail(up) /\ shown' = (Head(up) = "on")
  /\ UNCHANGED <<at, generation, queue, item, worker, stopping, down, board, offs>>

Next ==
  \/ \E r \in Ons : Submit(r) \/ Put(r) \/ Late(r) \/ Answered(r)
  \/ Get \/ Check \/ Write \/ Tell \/ Execute \/ Reply
  \/ \E r \in Offs : StopFirst(r) \/ Invalidate(r) \/ Off(r)

Spec == Init /\ [][Next]_vars

-----------------------------------------------------------------------------
(* An OFF is the last word on everything that was asked for before it: no  *)
(* ON that an OFF has overtaken is written any more, not even one that the *)
(* worker had in hand: injection_pump_worker.py's invalidate.              *)
WritesNothingOld == Len(down') > Len(down) /\ Last(down') = "on" => offs[worker.has] = Asked

(* When nothing is under way, the node shows the pump as the board runs    *)
(* it: the worker's word and the board's replies come in any order.        *)
ShownIsTrue ==
  down = <<>> /\ up = <<>> /\ worker.doing = "get" /\ queue = <<>> /\ stopping = {} => shown = board
=============================================================================
