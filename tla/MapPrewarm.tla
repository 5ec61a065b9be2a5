----------------------------- MODULE MapPrewarm -----------------------------
(***************************************************************************)
(* Downloads of map tiles in the background (scripts/map_resources):       *)
(* PrewarmCoordinator and MapTileCache in map_tile_cache.py on the journal *)
(* of map_pack_journal.py, with the fetching of map_network_fetch.py and   *)
(* the tile files of map_tile_store.py.                                    *)
(*                                                                         *)
(* A run is one thread of _run with its pool of workers.  Requests come    *)
(* from the threads of the web server.  `disk' is what outlives the        *)
(* process: the tiles and, of each job, its state.json, done.log and lock. *)
(* A tile is a model value; its bytes are either all there or it is not.   *)
(***************************************************************************)
EXTENDS Naturals, Sequences, FiniteSets

CONSTANTS Jobs, Tiles,
          Tasks,        \* the tiles of a job
          Workers,      \* PREWARM_WORKERS
          MassAttempts, \* MASS_FAILURE_MIN_ATTEMPTS
          Callers,      \* threads of the web server
          MaxRuns,      \* bound: runs that are begun
          Casts         \* bound: the jobs that are begun, the callers that take part and the
                        \* number of crashes, clearings of the cache (whether there
                        \* are any) and tiles the page fetches

TasksType == Tasks \in [Jobs -> SUBSET Tiles] /\ IsFiniteSet(Tiles)

Runs == 1..MaxRuns
Status == {"none", "running", "paused", "stopped", "completed", "failed"}
Resumable == {"running", "paused"}

VARIABLES
  disk,    \* [tiles, job -> state, failed, log, lock file, holder of its flock]
  active,  \* _active: the run that is known of a job, 0 for none
  run,     \* the runs
  call,    \* the requests under way
  shown,   \* MapTileCache.prewarm: [running, job]
  left     \* the jobs of these and what is left of the number

vars == <<disk, active, run, call, shown, left>>

NoRun == [pc |-> "none", job |-> "none", todo |-> {}, out |-> {}, got |-> {}, done |-> 0,
          failed |-> 0, window |-> <<>>, stop |-> FALSE, final |-> "completed",
          running |-> FALSE]
NoCall == [pc |-> "idle", job |-> "none", run |-> 0]
NoJob == [state |-> "none", failed |-> 0, log |-> {}, lock |-> FALSE, holder |-> 0]

Init ==
  /\ disk = [tiles |-> {}, job |-> [j \in Jobs |-> NoJob]]
  /\ active = [j \in Jobs |-> 0]
  /\ run = [r \in Runs |-> NoRun]
  /\ \E cast \in Casts :
       /\ call = [c \in Callers |-> IF c \in cast.callers THEN NoCall ELSE [NoCall EXCEPT !.pc = "absent"]]
       /\ left = [jobs |-> cast.jobs, events |-> cast.events, clears |-> cast.clears]
  /\ shown = [running |-> FALSE, job |-> "none"]

-----------------------------------------------------------------------------
(* Status of a job, and of the coordinator as a whole: a run that is known *)
(* and running, else what the journals say.                                *)

Known == {active[j] : j \in Jobs} \ {0}
Busy == \E r \in Known : run[r].running

RunningIn(j) == IF active[j] # 0 THEN run[active[j]].running ELSE disk.job[j].state = "running"

Latest(S) == CHOOSE j \in S : TRUE

ActiveStatus ==
  LET resumable == {j \in Jobs : disk.job[j].state \in Resumable}
      all == {j \in Jobs : disk.job[j].state # "none"}
  IN IF Busy THEN [running |-> TRUE, job |-> run[CHOOSE r \in Known : run[r].running].job]
     ELSE IF resumable # {}
     THEN [running |-> disk.job[Latest(resumable)].state = "running", job |-> Latest(resumable)]
     ELSE [running |-> FALSE, job |-> IF all = {} THEN "none" ELSE Latest(all)]

StatusCall ==
  /\ shown' = ActiveStatus
  /\ UNCHANGED <<disk, active, run, call, left>>

-----------------------------------------------------------------------------
(* start and resume: the look at the running jobs and the launch are two   *)
(* critical sections with the journal's creation between them.             *)

StartCall(c, j) ==
  /\ call[c].pc = "idle" /\ disk.job[j].state = "none" /\ j \in left.jobs
  /\ (\A d \in Callers : call[d].job # j) /\ (\A r \in Runs : run[r].job # j)
  /\ ~shown.running /\ ~Busy
  /\ call' = [call EXCEPT ![c] = [NoCall EXCEPT !.pc = "create", !.job = j]]
  /\ UNCHANGED <<disk, active, run, shown, left>>

ResumeCall(c, j) ==
  /\ call[c].pc = "idle" /\ disk.job[j].state # "none"
  /\ ~Busy
  /\ call' = [call EXCEPT ![c] = [NoCall EXCEPT !.pc = "create", !.job = j]]
  /\ UNCHANGED <<disk, active, run, shown, left>>

(* An existing lock file is taken over unless its flock is held.           *)
Create(c, r) ==
  /\ call[c].pc = "create" /\ run[r].pc = "none"
  /\ \A q \in Runs : q < r => run[q].pc # "none"
  /\ LET j == call[c].job IN
     IF disk.job[j].holder # 0
     THEN call' = [call EXCEPT ![c] = NoCall] /\ UNCHANGED <<disk, run>>
     ELSE /\ disk' = [disk EXCEPT !.job[j].lock = TRUE, !.job[j].holder = r,
                                  !.job[j].state = "running"]
          /\ run' = [run EXCEPT ![r] = [NoRun EXCEPT !.pc = "created", !.job = j,
                                                     !.failed = disk.job[j].failed]]
          /\ call' = [call EXCEPT ![c].pc = "launch", ![c].run = r]
  /\ UNCHANGED <<active, shown, left>>

Launch(c) ==
  /\ call[c].pc = "launch"
  /\ active' = [active EXCEPT ![call[c].job] = call[c].run]
  /\ run' = [run EXCEPT ![call[c].run].pc = "scan", ![call[c].run].running = TRUE]
  /\ call' = [call EXCEPT ![c].pc = "show"]
  /\ UNCHANGED <<disk, shown, left>>

Show(c) ==
  /\ call[c].pc = "show"
  /\ shown' = [running |-> RunningIn(call[c].job), job |-> call[c].job]
  /\ call' = [call EXCEPT ![c] = NoCall]
  /\ UNCHANGED <<disk, active, run, left>>

StopRun(r) == run' = [run EXCEPT ![r].stop = TRUE]

(* stop_prewarm stops the job whose status is shown; a pause is a stop that *)
(* is given another reason.                                                *)
StopPrewarm ==
  LET j == ActiveStatus.job IN
  /\ IF j # "none" /\ active[j] # 0 THEN StopRun(active[j]) ELSE UNCHANGED run
  /\ shown' = ActiveStatus
  /\ UNCHANGED <<disk, active, call, left>>

Pause(j) ==
  /\ active[j] # 0
  /\ StopRun(active[j])
  /\ UNCHANGED <<disk, active, call, shown, left>>

-----------------------------------------------------------------------------
(* A run.                                                                  *)

(* What the log says is done is not looked at again; what lies on the disk *)
(* without being in the log is added to it.                                *)
TodoUnlogged(r) == Tasks[run[r].job] \ disk.job[run[r].job].log
Todo(r) == Tasks[run[r].job] \ (disk.job[run[r].job].log \cup disk.tiles)

Scan(r) ==
  /\ run[r].pc = "scan"
  /\ LET j == run[r].job
         logged == disk.job[j].log \cup (Tasks[j] \cap disk.tiles)
     IN /\ disk' = [disk EXCEPT !.job[j].log = logged]
        /\ run' = [run EXCEPT ![r].pc = "loop", ![r].done = Cardinality(logged), ![r].todo = Todo(r)]
  /\ UNCHANGED <<active, call, shown, left>>

Full(r) == Cardinality(run[r].out) + Cardinality(run[r].got) >= Workers

Submit(r, k) ==
  /\ run[r].pc = "loop" /\ ~run[r].stop /\ k \in run[r].todo /\ ~Full(r)
  /\ run' = [run EXCEPT ![r].todo = @ \ {k}, ![r].out = @ \cup {k}]
  /\ UNCHANGED <<disk, active, call, shown, left>>

(* fetch_tile_resilient, the check of the bytes and write_tile_atomic.     *)
Fetch(r, k, how) ==
  /\ run[r].pc \in {"loop", "drain"} /\ k \in run[r].out
  /\ how = "aborted" => run[r].stop
  /\ run' = [run EXCEPT ![r].out = @ \ {k}, ![r].got = @ \cup {<<k, how>>}]
  /\ disk' = IF how = "ok" THEN [disk EXCEPT !.tiles = @ \cup {k}] ELSE disk
  /\ UNCHANGED <<active, call, shown, left>>

MassFailure(w) ==
  /\ Len(w) = MassAttempts
  /\ 10 * Cardinality({i \in DOMAIN w : ~w[i]}) > 3 * Len(w)

Slide(w, ok) == IF Len(w) = MassAttempts THEN Append(Tail(w), ok) ELSE Append(w, ok)

(* One result: logged, counted, and the state rewritten.  A cache that was *)
(* cleared under the run makes the write fail.                             *)
Take(r, k, how) ==
  LET j == run[r].job
      ok == how = "ok"
      w == Slide(run[r].window, ok)
  IN /\ run[r].pc = "loop" /\ <<k, how>> \in run[r].got
     /\ IF how = "aborted"
        THEN /\ run' = [run EXCEPT ![r].got = @ \ {<<k, how>>}, ![r].stop = TRUE]
             /\ UNCHANGED disk
        ELSE IF disk.job[j].state = "none"
        THEN run' = [run EXCEPT ![r].pc = "drain"] /\ UNCHANGED disk
        ELSE /\ run' = [run EXCEPT ![r].got = @ \ {<<k, how>>}, ![r].window = w,
                          ![r].done = IF ok THEN @ + 1 ELSE @,
                          ![r].failed = IF ok THEN @ ELSE @ + 1,
                          ![r].stop = @ \/ MassFailure(w),
                          ![r].final = IF MassFailure(w) THEN "paused" ELSE @,
                          ![r].pc = IF MassFailure(w) THEN "drain" ELSE @]
             /\ disk' = [disk EXCEPT !.job[j].state = "running",
                           !.job[j].log = IF ok THEN @ \cup {k} ELSE @,
                           !.job[j].failed = IF ok THEN @ ELSE run[r].failed + 1]
     /\ UNCHANGED <<active, call, shown, left>>

(* The loop is left when it is stopped or nothing is pending; the pool     *)
(* waits for its workers, whose results nobody looks at any more.          *)
Leave(r) ==
  /\ run[r].pc = "loop"
  /\ run[r].stop \/ (run[r].todo = {} /\ run[r].out = {} /\ run[r].got = {})
  /\ run' = [run EXCEPT ![r].pc = "drain"]
  /\ UNCHANGED <<disk, active, call, shown, left>>

FinalOnlyCount(r) == IF run[r].final # "completed" THEN run[r].final
                     ELSE IF run[r].stop THEN "stopped" ELSE "completed"
Final(r) ==
  IF run[r].final # "completed" THEN run[r].final
  ELSE IF run[r].stop THEN "stopped"
  ELSE IF run[r].failed > 0 /\ run[r].done < Cardinality(Tasks[run[r].job]) THEN "failed"
  ELSE "completed"

(* If the last write fails the thread ends there: it stays in _active and  *)
(* keeps its lock.                                                         *)
Finish(r) ==
  LET j == run[r].job IN
  /\ run[r].pc = "drain" /\ run[r].out = {}
  /\ IF disk.job[j].state = "none"
     THEN run' = [run EXCEPT ![r].pc = "dead"] /\ UNCHANGED disk
     ELSE /\ run' = [run EXCEPT ![r].pc = "unlock", ![r].running = FALSE]
          /\ disk' = [disk EXCEPT !.job[j].state = Final(r), !.job[j].failed = run[r].failed]
  /\ UNCHANGED <<active, call, shown, left>>

Unlock(r) ==
  /\ run[r].pc = "unlock"
  /\ run' = [run EXCEPT ![r].pc = "unlink"]
  /\ disk' = [disk EXCEPT !.job[run[r].job].holder = IF @ = r THEN 0 ELSE @]
  /\ UNCHANGED <<active, call, shown, left>>

(* The file that is removed may by now be the lock of the next run.        *)
Unlink(r) ==
  /\ run[r].pc = "unlink"
  /\ run' = [run EXCEPT ![r].pc = "pop"]
  /\ disk' = [disk EXCEPT !.job[run[r].job].lock = FALSE, !.job[run[r].job].holder = 0]
  /\ UNCHANGED <<active, call, shown, left>>

Pop(r) ==
  /\ run[r].pc = "pop"
  /\ run' = [run EXCEPT ![r].pc = "gone"]
  /\ active' = [active EXCEPT ![run[r].job] = 0]
  /\ UNCHANGED <<disk, call, shown, left>>

-----------------------------------------------------------------------------
(* The map, the clearing of the cache and a crash.                         *)

Spend == left.events > 0 /\ left' = [left EXCEPT !.events = @ - 1]

(* A tile that the page asks for is fetched and kept.                      *)
GetTile(k) ==
  /\ k \notin disk.tiles /\ Spend
  /\ disk' = [disk EXCEPT !.tiles = @ \cup {k}]
  /\ UNCHANGED <<active, run, call, shown>>

(* The look at the status and the removal are not one step.                *)
ClearCall(c) ==
  /\ left.clears /\ call[c].pc = "idle" /\ ~ActiveStatus.running /\ Spend
  /\ shown' = ActiveStatus
  /\ call' = [call EXCEPT ![c].pc = "clear"]
  /\ UNCHANGED <<disk, active, run>>

Clear(c) ==
  /\ call[c].pc = "clear"
  /\ disk' = [tiles |-> {}, job |-> [j \in Jobs |-> NoJob]]
  /\ call' = [call EXCEPT ![c] = NoCall]
  /\ UNCHANGED <<active, run, shown, left>>

(* The files stay as they are, the lock files among them.                  *)
Crash ==
  /\ Spend
  /\ disk' = [disk EXCEPT !.job = [j \in Jobs |-> [disk.job[j] EXCEPT !.holder = 0]]]
  /\ active' = [j \in Jobs |-> 0]
  /\ run' = [r \in Runs |-> IF run[r].pc = "none" THEN NoRun ELSE [NoRun EXCEPT !.pc = "gone"]]
  /\ call' = [c \in Callers |-> IF call[c].pc = "absent" THEN call[c] ELSE NoCall]
  /\ shown' = [running |-> FALSE, job |-> "none"]

-----------------------------------------------------------------------------
RunStep(r) ==
  \/ Scan(r) \/ Leave(r) \/ Finish(r) \/ Unlock(r) \/ Unlink(r) \/ Pop(r)
  \/ \E k \in Tiles : \/ Submit(r, k)
                      \/ \E how \in {"ok", "failed", "aborted"} : Fetch(r, k, how) \/ Take(r, k, how)

Calls ==
  \E c \in Callers :
    \/ \E j \in Jobs : StartCall(c, j) \/ ResumeCall(c, j)
    \/ \E r \in Runs : Create(c, r)
    \/ Launch(c) \/ Show(c) \/ ClearCall(c) \/ Clear(c)

Next ==
  \/ \E r \in Runs : RunStep(r)
  \/ Calls
  \/ StatusCall \/ StopPrewarm \/ Crash
  \/ \E j \in Jobs : Pause(j)
  \/ \E k \in Tiles : GetTile(k)

Spec == Init /\ [][Next]_vars

-----------------------------------------------------------------------------
TypeOK ==
  /\ disk.tiles \subseteq Tiles
  /\ \A j \in Jobs : /\ disk.job[j].state \in Status /\ disk.job[j].log \subseteq Tiles
                     /\ disk.job[j].holder \in 0..MaxRuns /\ disk.job[j].lock \in BOOLEAN
  /\ active \in [Jobs -> 0..MaxRuns]
  /\ \A r \in Runs : run[r].out \cup run[r].todo \subseteq Tiles

(* A job that says it is completed has all its tiles on the disk: over     *)
(* crashes, stops, mass failures, resumed runs and two jobs at a time.     *)
CompletedIsComplete ==
  \A j \in Jobs : disk.job[j].state = "completed" => Tasks[j] \subseteq disk.tiles

(* What is logged lies on the disk, and a run counts no more tiles than    *)
(* are logged: whatever ended the run before, and though two runs of a job *)
(* may go on at once (a run that ends removes a lock file that may by then *)
(* be the next one's), no tile is counted twice.                           *)
ProgressIsTrue ==
  \A j \in Jobs :
    /\ disk.job[j].log \subseteq disk.tiles
    /\ \A r \in Known : run[r].job = j /\ run[r].running /\ disk.job[j].state # "none" =>
         run[r].done <= Cardinality(disk.job[j].log)

(* When a stop finds no thread at work, a start is not refused any more.   *)
StopMakesRoom ==
  [][StopPrewarm /\ (\A r \in Runs : run[r].pc \in {"none", "gone"}) => ~shown'.running]_vars
=============================================================================
