----------------------------- MODULE TileFiles -----------------------------
(***************************************************************************)
(* The file of one map tile and those who read, fetch and write it at the  *)
(* same time: pages of the web server (MapTileCache.get_tile), workers of  *)
(* a download (PrewarmCoordinator), the sweep at the begin of a download.  *)
(* All writers use one temporary name.  A file is an inode, which a writer *)
(* keeps open while its name goes to another place; its bytes are written  *)
(* by one call and are a whole tile ("good"), none ("empty") or something  *)
(* that the checks refuse ("bad").                                         *)
(***************************************************************************)
EXTENDS Naturals, FiniteSets

CONSTANTS
  Pages, Workers,  \* threads that ask for the tile, once each
  MaxAttempts,     \* max_attempts of fetch_tile_resilient
  MaxFiles,        \* bound: inodes
  MaxCrashes       \* bound

Actors == Pages \cup Workers
DisjointAssumption == Pages \cap Workers = {}

VARIABLES
  tile, tmp,   \* the inodes of the two names, 0 for none
  content,     \* the bytes of an inode
  made,        \* inodes that were made
  pc, fd,      \* where an actor is, the inode it writes
  attempts,    \* fetches a worker has made
  served,      \* what a page has answered
  abort,       \* the stop event of the download
  shared,      \* whether two have written at the same time
  crashes

files == <<tile, tmp, content, made>>
vars == <<files, pc, fd, attempts, served, abort, shared, crashes>>

Init ==
  /\ tile \in {0, 1} /\ tmp \in {0, 2} /\ made = 2
  /\ content \in [1..2 -> {"good", "bad", "empty"}]
  /\ tile = 0 => content[1] = "empty"
  /\ tmp = 0 => content[2] = "empty"
  /\ pc = [a \in Actors |-> "look"] /\ fd = [a \in Actors |-> 0]
  /\ attempts = [a \in Actors |-> 0] /\ served = [a \in Actors |-> "none"]
  /\ abort = FALSE /\ shared = FALSE /\ crashes = 0

Goto(a, where) == pc' = [pc EXCEPT ![a] = where]

(* verify_tile_bytes and is_blank_tile.  (A bug to look for: a file that   *)
(* is there is a tile.)                                                    *)
AnyFile(c) == TRUE
Valid(c) == c = "good"

-----------------------------------------------------------------------------
(* get_tile: a file that is no tile is removed, by name, after it was      *)
(* read.  A download looks, too, but removes nothing.                      *)
PageLook(a) ==
  /\ a \in Pages /\ pc[a] = "look"
  /\ IF tile # 0 /\ Valid(content[tile])
     THEN served' = [served EXCEPT ![a] = content[tile]] /\ Goto(a, "done")
     ELSE Goto(a, IF tile = 0 THEN "fetch" ELSE "remove") /\ UNCHANGED served
  /\ UNCHANGED <<files, fd, attempts, abort, shared, crashes>>

PageRemoves(a) ==
  /\ pc[a] = "remove" /\ tile' = 0 /\ Goto(a, "fetch")
  /\ UNCHANGED <<tmp, content, made, fd, attempts, served, abort, shared, crashes>>

(* fetch_tile: one attempt, then the placeholder.                          *)
PageFetch(a, answer) ==
  /\ a \in Pages /\ pc[a] = "fetch"
  /\ IF Valid(answer) THEN Goto(a, "open") /\ served' = [served EXCEPT ![a] = answer]
     ELSE Goto(a, "done") /\ UNCHANGED served
  /\ UNCHANGED <<files, fd, attempts, abort, shared, crashes>>

WorkerLook(a) ==
  /\ a \in Workers /\ pc[a] = "look"
  /\ Goto(a, IF tile # 0 /\ Valid(content[tile]) THEN "done" ELSE "fetch")
  /\ UNCHANGED <<files, fd, attempts, served, abort, shared, crashes>>

(* fetch_tile_resilient: it gives up when it is told to, between attempts, *)
(* and after the last one.                                                 *)
WorkerFetch(a, answer) ==
  /\ a \in Workers /\ pc[a] = "fetch" /\ ~abort /\ attempts[a] < MaxAttempts
  /\ attempts' = [attempts EXCEPT ![a] = @ + 1]
  /\ Goto(a, IF Valid(answer) THEN "open" ELSE "fetch")
  /\ UNCHANGED <<files, fd, served, abort, shared, crashes>>

WorkerGivesUp(a) ==
  /\ a \in Workers /\ pc[a] = "fetch" /\ (abort \/ attempts[a] = MaxAttempts) /\ Goto(a, "done")
  /\ UNCHANGED <<files, fd, attempts, served, abort, shared, crashes>>

Abort ==
  /\ ~abort /\ abort' = TRUE
  /\ UNCHANGED <<files, pc, fd, attempts, served, shared, crashes>>

-----------------------------------------------------------------------------
(* write_tile_atomic and _write_tile: open, which empties a file that is   *)
(* there already, write, rename; an error of any of them ends it.          *)
Writing == {a \in Actors : pc[a] \in {"write", "replace"}}

Open(a) ==
  /\ pc[a] = "open"
  /\ IF tmp # 0
     THEN content' = [content EXCEPT ![tmp] = "empty"] /\ fd' = [fd EXCEPT ![a] = tmp] /\ UNCHANGED <<tmp, made>>
     ELSE /\ made < MaxFiles /\ made' = made + 1 /\ tmp' = made' /\ fd' = [fd EXCEPT ![a] = made']
          /\ content' = [f \in 1..made' |-> IF f = made' THEN "empty" ELSE content[f]]
  /\ shared' = (shared \/ Writing # {}) /\ Goto(a, "write")
  /\ UNCHANGED <<tile, attempts, served, abort, crashes>>

Write(a) ==
  /\ pc[a] = "write" /\ content' = [content EXCEPT ![fd[a]] = "good"] /\ Goto(a, "replace")
  /\ UNCHANGED <<tile, tmp, made, fd, attempts, served, abort, shared, crashes>>

Renames(a) ==
  /\ pc[a] = "replace" /\ tmp # 0
  /\ tile' = tmp /\ tmp' = 0 /\ Goto(a, "done") /\ fd' = [fd EXCEPT ![a] = 0]
  /\ UNCHANGED <<content, made, attempts, served, abort, shared, crashes>>

(* The disk is full, or the name has gone.  A worker removes what bears    *)
(* the temporary name, a page leaves it.  (A bug to look for: a writer     *)
(* that failed renames it all the same.)                                   *)
RenamedAnyway(a) == tile' = (IF tmp # 0 THEN tmp ELSE tile) /\ tmp' = 0
LeftBehind(a) == tile' = tile /\ tmp' = IF a \in Workers THEN 0 ELSE tmp

Fails(a) ==
  /\ pc[a] \in {"open", "write"} \/ (pc[a] = "replace" /\ tmp = 0)
  /\ LeftBehind(a) /\ Goto(a, "done") /\ fd' = [fd EXCEPT ![a] = 0]
  /\ UNCHANGED <<content, made, attempts, served, abort, shared, crashes>>

(* sweep_orphan_tmp: what has not been written for a minute.  No writer    *)
(* takes as long.                                                          *)
Sweep ==
  /\ tmp # 0 /\ Writing = {} /\ tmp' = 0
  /\ UNCHANGED <<tile, content, made, pc, fd, attempts, served, abort, shared, crashes>>

(* The server ends; the files stay.                                        *)
Crash ==
  /\ crashes < MaxCrashes /\ crashes' = crashes + 1
  /\ pc' = [a \in Actors |-> IF pc[a] = "look" THEN "look" ELSE "done"]
  /\ fd' = [a \in Actors |-> 0] /\ abort' = FALSE
  /\ UNCHANGED <<files, attempts, served, shared>>

Next ==
  \/ \E a \in Actors :
       \/ PageLook(a) \/ PageRemoves(a) \/ WorkerLook(a) \/ WorkerGivesUp(a)
       \/ Open(a) \/ Write(a) \/ Renames(a) \/ Fails(a)
       \/ \E answer \in {"good", "bad", "empty"} : PageFetch(a, answer) \/ WorkerFetch(a, answer)
  \/ Abort \/ Sweep \/ Crash

Spec == Init /\ [][Next]_vars

-----------------------------------------------------------------------------
(* Nobody is served anything but a whole tile, however many write at the   *)
(* same time, fail or die; and as long as no two wrote at the same time,   *)
(* what bears the tile's name is a whole tile or what was there before.    *)
ServedIsWhole ==
  /\ \A a \in Pages : served[a] \in {"none", "good"}
  /\ ~shared /\ tile > 1 => content[tile] = "good"
=============================================================================
