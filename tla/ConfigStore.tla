----------------------------- MODULE ConfigStore -----------------------------
(***************************************************************************)
(* The settings of a mission in the web server (ConfigManager in           *)
(* web_config_server.py, with the routes that change the settings of       *)
(* waypoints): merged into memory, then written over the file.  A setting  *)
(* is a key with a value, 0 when there is none.  One request is served at  *)
(* a time; writing can fail before or after the file was emptied, and the  *)
(* server can end at any point.                                            *)
(***************************************************************************)
EXTENDS Naturals, FiniteSets

CONSTANTS
  Keys,      \* waypoints
  Values,    \* settings of a waypoint, 1 upwards
  Default,   \* DEFAULT_CONFIG: what each key has there
  MaxEdits, MaxCrashes   \* bounds

ValuesAssumption == Values \subseteq Nat \ {0} /\ Default \in [Keys -> Values \cup {0}]

VARIABLES
  memory,    \* config
  file,      \* the settings in the file and whether it can be read
  previous,  \* what update returns to
  request,   \* the request: where it is, what it is, its keys and values
  promised,  \* what the last answer said of each key, Any when none says
  edits, crashes

vars == <<memory, file, previous, request, promised, edits, crashes>>

Any == 99
NoRequest == [pc |-> "idle", kind |-> "none", patch |-> Default, keys |-> {}]
Present(cfg) == {k \in Keys : cfg[k] # 0}

(* _merge_config.                                                          *)
Merge(base, patch) == [k \in Keys |-> IF patch[k] # 0 THEN patch[k] ELSE base[k]]

Init ==
  /\ \E first \in [Keys -> Values \cup {0}] : file = [whole |-> TRUE, cfg |-> first]
  /\ memory = Merge(Default, file.cfg)
  /\ previous = Default /\ request = NoRequest /\ edits = 0 /\ crashes = 0
  /\ promised = file.cfg

-----------------------------------------------------------------------------
(* The routes.  Each sends the whole set of waypoints to update.           *)
Asks(kind, patch, keys) ==
  /\ request.pc = "idle" /\ edits < MaxEdits /\ edits' = edits + 1
  /\ request' = [pc |-> "merge", kind |-> kind, patch |-> patch, keys |-> keys]
  /\ UNCHANGED <<memory, file, previous, promised, crashes>>

(* save_waypoint_sampling_item *)
SaveItem(k, v) == Asks("save", [memory EXCEPT ![k] = v], {k})

(* delete_waypoint_sampling_item *)
Delete(k) == k \in Present(memory) /\ Asks("delete", [memory EXCEPT ![k] = 0], {k})

(* save_waypoint_sampling, save_config, import_mission_config *)
SaveAll(cfg) == Asks("all", cfg, Present(cfg))

(* sync_waypoint_sampling_from_mavros: new waypoints get settings, those   *)
(* the flight controller has not are dropped.                              *)
Sync(route, v) ==
  Asks("sync", [k \in Keys |-> IF k \notin route THEN 0 ELSE IF memory[k] # 0 THEN memory[k] ELSE v],
       route \ Present(memory))

(* reset *)
Reset == Asks("reset", Default, Present(Default))

-----------------------------------------------------------------------------
(* update: what was there is kept for a return.                            *)
MergeStep ==
  /\ request.pc = "merge" /\ previous' = memory
  /\ memory' = IF request.kind = "reset" THEN Default ELSE Merge(memory, request.patch)
  /\ request' = [request EXCEPT !.pc = "open"]
  /\ UNCHANGED <<file, promised, edits, crashes>>

(* save: open for writing empties the file.                                *)
OpenStep ==
  /\ request.pc = "open" /\ file' = [file EXCEPT !.whole = FALSE]
  /\ request' = [request EXCEPT !.pc = "dump"]
  /\ UNCHANGED <<memory, previous, promised, edits, crashes>>

(* The answers: a refused update leaves nothing in memory; a reset and a   *)
(* sync say that they are done, whatever save says.  (A bug to look for:   *)
(* what was refused stays in memory.)                                      *)
NotTakenBack == memory
TakenBack == IF request.kind = "reset" THEN memory ELSE previous

(* A start only writes its file again.                                     *)
Answered ==
  [k \in Keys |-> IF request.kind \in {"load", "reset"} THEN memory[k]
                  ELSE IF k \in request.keys THEN request.patch[k] ELSE promised[k]]
Refused ==
  [k \in Keys |-> IF request.kind = "reset" THEN Any ELSE promised[k]]

DumpStep ==
  /\ request.pc = "dump"
  /\ file' = [whole |-> TRUE, cfg |-> memory] /\ promised' = Answered /\ request' = NoRequest
  /\ UNCHANGED <<memory, previous, edits, crashes>>

SaveFails ==
  /\ request.pc \in {"open", "dump"}
  /\ memory' = TakenBack /\ promised' = Refused /\ request' = NoRequest
  /\ UNCHANGED <<file, previous, edits, crashes>>

-----------------------------------------------------------------------------
(* The server ends; when it starts it loads the file, or keeps the         *)
(* defaults if the file cannot be read, and may write it again.            *)
Loaded == IF file.whole THEN Merge(Default, file.cfg) ELSE Default

Restart ==
  /\ crashes < MaxCrashes /\ crashes' = crashes + 1
  /\ memory' = Loaded
  /\ previous' = Loaded
  /\ \E again \in IF file.whole THEN BOOLEAN ELSE {FALSE} :
       request' = IF again THEN [NoRequest EXCEPT !.pc = "open", !.kind = "load"] ELSE NoRequest
  /\ promised' = IF file.whole THEN promised ELSE [k \in Keys |-> Any]
  /\ UNCHANGED <<file, edits>>

Next ==
  \/ \E k \in Keys : Delete(k) \/ \E v \in Values : SaveItem(k, v)
  \/ \E cfg \in [Keys -> Values \cup {0}] : SaveAll(cfg)
  \/ \E route \in SUBSET Keys, v \in Values : Sync(route, v)
  \/ Reset \/ MergeStep \/ OpenStep \/ DumpStep \/ SaveFails \/ Restart

Spec == Init /\ [][Next]_vars

-----------------------------------------------------------------------------
(* A setting that was saved stays as it was saved, in memory and in a file *)
(* that can be read, over refused changes and restarts, until it is saved  *)
(* anew: nothing of a refused change comes in with a later one.            *)
SavedStays ==
  request.pc = "idle" =>
    \A k \in Keys : promised[k] \notin {0, Any} =>
      memory[k] = promised[k] /\ (file.whole => file.cfg[k] = promised[k])

(* What an answer says is deleted is gone.                                 *)
DeletedIsGone ==
  [][DumpStep /\ request.kind = "delete" => \A k \in request.keys : memory'[k] = 0]_vars
=============================================================================
