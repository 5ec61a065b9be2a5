---------------------------- MODULE StorageProofs ----------------------------
(***************************************************************************)
(* What the disk of the page's server holds: nobody is served anything but *)
(* a whole tile, a saved setting stays as it was saved, a record tells how *)
(* its attempt ended, and so on for each part of Storage.  Proved for any  *)
(* values of the constants.                                                *)
(***************************************************************************)
EXTENDS Storage, FiniteSetTheorems, SequenceTheorems, TLAPS

-----------------------------------------------------------------------------
(* One tile: the names that TileFiles gives its variables.                 *)
tile == s1
tmp == s2
content == s3
made == s4
pc == s5
fd == s6
served == s8
shared == s10
USE DEF tile, tmp, content, made, pc, fd, served, shared

(***************************************************************************)
(* As long as no two wrote at the same time, there is one writer at most,  *)
(* the temporary name is of its file or of none, and its file has not got  *)
(* the tile's name yet.                                                    *)
(***************************************************************************)
TileTyped ==
  /\ made \in Nat /\ made >= 2 /\ tile \in 0..made /\ tmp \in 0..made
  /\ DOMAIN content = 1..made /\ DOMAIN served = Tile!Actors
  /\ DOMAIN pc = Tile!Actors /\ fd \in [Tile!Actors -> 0..made]
Served == \A a \in Pages : served[a] \in {"none", "good"}
OneWriter ==
  /\ \A a, b \in Tile!Writing : a = b
  /\ \A a \in Tile!Writing : fd[a] # 0 /\ tmp \in {0, fd[a]} /\ fd[a] # tile
  /\ \A a \in Tile!Writing : pc[a] = "replace" => content[fd[a]] = "good"
NamesDiffer == tmp = 0 \/ tmp # tile
TileIsWhole == tile > 1 => content[tile] = "good"

Alone == OneWriter /\ NamesDiffer /\ TileIsWhole

FilesInv == TileTyped /\ Served /\ (~shared => Alone)

\* At first nobody writes.
LEMMA FilesInit == Tile!Init => FilesInv
<1> SUFFICES ASSUME Tile!Init PROVE FilesInv
  OBVIOUS
<1>1. TileTyped BY DEF Tile!Init, TileTyped
<1>2. Served BY DEF Tile!Init, Served, Tile!Actors
<1>3. Tile!Writing = {} BY DEF Tile!Init, Tile!Writing
<1>4. Alone BY <1>3 DEF Tile!Init, Alone, OneWriter, NamesDiffer, TileIsWhole
<1> QED BY <1>1, <1>2, <1>4 DEF FilesInv

\* What leaves the files alone and begins no writing keeps what is known of them.
LEMMA ReadersKeep ==
  ASSUME FilesInv, NEW a \in Tile!Actors,
         \/ Tile!PageLook(a) \/ Tile!PageRemoves(a) \/ Tile!WorkerLook(a) \/ Tile!WorkerGivesUp(a)
         \/ \E answer \in {"good", "bad", "empty"} : Tile!PageFetch(a, answer) \/ Tile!WorkerFetch(a, answer)
  PROVE  FilesInv'
<1>1. /\ UNCHANGED <<tmp, content, made, fd, shared>> /\ tile' \in {0, tile}
      /\ DOMAIN pc' = Tile!Actors /\ DOMAIN served' = DOMAIN served
      /\ pc[a] \notin {"write", "replace"} /\ pc'[a] \notin {"write", "replace"}
      /\ \A b \in Tile!Actors \ {a} : pc'[b] = pc[b]
  BY DEF FilesInv, TileTyped, Tile!PageLook, Tile!PageRemoves, Tile!WorkerLook, Tile!WorkerGivesUp,
         Tile!PageFetch, Tile!WorkerFetch, Tile!Goto, Tile!files
<1>2. Tile!Writing' = Tile!Writing /\ \A b \in Tile!Writing : pc'[b] = pc[b] BY <1>1 DEF Tile!Writing
<1>3. TileTyped' BY <1>1 DEF FilesInv, TileTyped
<1>4. Served'
  <2>1. served' = served \/ served' = [served EXCEPT ![a] = "good"]
    BY DEF Tile!PageLook, Tile!PageRemoves, Tile!WorkerLook, Tile!WorkerGivesUp, Tile!PageFetch,
           Tile!WorkerFetch, Tile!Valid
  <2> QED BY <2>1 DEF FilesInv, TileTyped, Served, Tile!Actors
<1>5. ~shared' => Alone'
  <2> SUFFICES ASSUME ~shared' PROVE Alone'
    OBVIOUS
  <2>1. Alone BY <1>1 DEF FilesInv
  <2>2. OneWriter' BY <1>1, <1>2, <2>1 DEF Alone, OneWriter
  <2>3. NamesDiffer' /\ TileIsWhole' BY <1>1, <2>1 DEF Alone, NamesDiffer, TileIsWhole
  <2> QED BY <2>2, <2>3 DEF Alone
<1> QED BY <1>3, <1>4, <1>5 DEF FilesInv

\* A writer opens a file of its own, or there are two from now on.
LEMMA OpenKeeps == ASSUME FilesInv, NEW a \in Tile!Actors, Tile!Open(a) PROVE FilesInv'
<1>1. /\ pc[a] = "open" /\ pc' = [pc EXCEPT ![a] = "write"] /\ UNCHANGED <<tile, served>>
      /\ shared' = (shared \/ Tile!Writing # {})
  BY DEF Tile!Open, Tile!Goto
<1>2. \/ /\ tmp # 0 /\ content' = [content EXCEPT ![tmp] = "empty"] /\ fd' = [fd EXCEPT ![a] = tmp]
         /\ UNCHANGED <<tmp, made>>
      \/ /\ tmp = 0 /\ made' = made + 1 /\ tmp' = made' /\ fd' = [fd EXCEPT ![a] = made']
         /\ content' = [f \in 1..made' |-> IF f = made' THEN "empty" ELSE content[f]]
  BY DEF Tile!Open
<1>3. TileTyped' BY <1>1, <1>2, SMTT(20) DEF FilesInv, TileTyped
<1>4. Served' BY <1>1 DEF FilesInv, Served
<1>5. ~shared' => Alone'
  <2> SUFFICES ASSUME ~shared' PROVE Alone'
    OBVIOUS
  <2>1. Alone /\ Tile!Writing = {} BY <1>1 DEF FilesInv
  <2>2. Tile!Writing' = {a} BY <1>1, <2>1 DEF Tile!Writing, FilesInv, TileTyped
  <2>3. fd'[a] = tmp' /\ tmp' # 0 /\ tmp' # tile' /\ pc'[a] = "write"
    BY <1>1, <1>2, <2>1 DEF FilesInv, TileTyped, Alone, NamesDiffer
  <2>4. tile # 0 => content'[tile] = content[tile]
    BY <1>2, <2>1 DEF FilesInv, TileTyped, Alone, NamesDiffer
  <2>5. OneWriter' BY <2>2, <2>3 DEF OneWriter
  <2>6. NamesDiffer' /\ TileIsWhole'
    BY <1>1, <2>1, <2>3, <2>4 DEF FilesInv, TileTyped, Alone, NamesDiffer, TileIsWhole
  <2> QED BY <2>5, <2>6 DEF Alone
<1> QED BY <1>3, <1>4, <1>5 DEF FilesInv

\* What was opened alone is written whole.
LEMMA WriteKeeps == ASSUME FilesInv, NEW a \in Tile!Actors, Tile!Write(a) PROVE FilesInv'
<1>1. /\ pc[a] = "write" /\ pc' = [pc EXCEPT ![a] = "replace"] /\ content' = [content EXCEPT ![fd[a]] = "good"]
      /\ UNCHANGED <<tile, tmp, made, fd, served, shared>>
  BY DEF Tile!Write, Tile!Goto
<1>2. Tile!Writing' = Tile!Writing /\ a \in Tile!Writing BY <1>1 DEF Tile!Writing, FilesInv, TileTyped
<1>3. TileTyped' /\ Served' BY <1>1 DEF FilesInv, TileTyped, Served
<1>4. ~shared' => Alone'
  <2> SUFFICES ASSUME ~shared' PROVE Alone'
    OBVIOUS
  <2>1. Alone BY <1>1 DEF FilesInv
  <2>2. fd[a] \in 1..made /\ content'[fd[a]] = "good"
    BY <1>1, <1>2, <2>1 DEF FilesInv, TileTyped, Alone, OneWriter
  <2>3. OneWriter' BY <1>1, <1>2, <2>1, <2>2 DEF Alone, OneWriter
  <2>4. NamesDiffer' BY <1>1, <2>1 DEF Alone, NamesDiffer
  <2>5. TileIsWhole' BY <1>1, <2>1 DEF FilesInv, TileTyped, Alone, TileIsWhole
  <2> QED BY <2>3, <2>4, <2>5 DEF Alone
<1> QED BY <1>3, <1>4 DEF FilesInv

\* A writer that ends leaves a whole tile behind, or the tile that was there.
LEMMA EndKeeps == ASSUME FilesInv, NEW a \in Tile!Actors, Tile!Renames(a) \/ Tile!Fails(a) PROVE FilesInv'
<1>1. /\ pc' = [pc EXCEPT ![a] = "done"] /\ fd' = [fd EXCEPT ![a] = 0]
      /\ UNCHANGED <<content, made, served, shared>>
  BY DEF Tile!Renames, Tile!Fails, Tile!Goto
<1>2. \/ pc[a] = "replace" /\ tmp # 0 /\ tile' = tmp /\ tmp' = 0
      \/ tile' = tile /\ tmp' \in {0, tmp}
  BY DEF Tile!Renames, Tile!Fails, Tile!LeftBehind
<1>3. Tile!Writing' = Tile!Writing \ {a} /\ (pc[a] = "replace" => a \in Tile!Writing)
  BY <1>1 DEF Tile!Writing, FilesInv, TileTyped
<1>4. TileTyped' BY <1>1, <1>2 DEF FilesInv, TileTyped
<1>5. Served' BY <1>1 DEF FilesInv, Served
<1>6. ~shared' => Alone'
  <2> SUFFICES ASSUME ~shared' PROVE Alone'
    OBVIOUS
  <2>1. Alone BY <1>1 DEF FilesInv
  <2>2. CASE pc[a] = "replace" /\ tmp # 0 /\ tile' = tmp /\ tmp' = 0
    <3>1. Tile!Writing' = {} BY <1>3, <2>1, <2>2 DEF Alone, OneWriter
    <3>2. content[tmp] = "good" BY <1>3, <2>1, <2>2 DEF Alone, OneWriter
    <3> QED BY <1>1, <2>2, <3>1, <3>2 DEF Alone, OneWriter, NamesDiffer, TileIsWhole
  <2>3. CASE tile' = tile /\ tmp' \in {0, tmp}
    <3>1. \A b \in Tile!Writing' : b \in Tile!Writing /\ fd'[b] = fd[b] /\ pc'[b] = pc[b]
      BY <1>1, <1>3 DEF Tile!Writing, FilesInv, TileTyped
    <3>2. OneWriter' BY <1>1, <2>1, <2>3, <3>1 DEF Alone, OneWriter
    <3>3. NamesDiffer' /\ TileIsWhole' BY <1>1, <2>1, <2>3 DEF Alone, NamesDiffer, TileIsWhole
    <3> QED BY <3>2, <3>3 DEF Alone
  <2> QED BY <1>2, <2>2, <2>3
<1> QED BY <1>4, <1>5, <1>6 DEF FilesInv

\* The sweep, the stop of a download and the end of the server.
LEMMA OthersKeep ==
  ASSUME FilesInv, Tile!Abort \/ Tile!Sweep \/ Tile!Crash \/ UNCHANGED Tile!vars
  PROVE  FilesInv'
<1>1. CASE Tile!Abort \/ UNCHANGED Tile!vars
  BY <1>1
  DEF Tile!Abort, Tile!vars, Tile!files, Tile!Writing, FilesInv, TileTyped, Served, Alone, OneWriter,
      NamesDiffer, TileIsWhole
<1>2. CASE Tile!Sweep
  <2>1. Tile!Writing = {} /\ Tile!Writing' = {} BY <1>2 DEF Tile!Sweep, Tile!Writing
  <2>2. TileTyped' /\ Served' BY <1>2 DEF Tile!Sweep, FilesInv, TileTyped, Served
  <2>3. ~shared' => Alone'
    BY <1>2, <2>1 DEF Tile!Sweep, FilesInv, TileTyped, Alone, OneWriter, NamesDiffer, TileIsWhole
  <2> QED BY <2>2, <2>3 DEF FilesInv
<1>3. CASE Tile!Crash
  <2>1. Tile!Writing' = {} BY <1>3 DEF Tile!Crash, Tile!Writing
  <2>2. TileTyped' /\ Served' BY <1>3 DEF Tile!Crash, Tile!files, FilesInv, TileTyped, Served
  <2>3. ~shared' => Alone'
    BY <1>3, <2>1 DEF Tile!Crash, Tile!files, FilesInv, Alone, OneWriter, NamesDiffer, TileIsWhole
  <2> QED BY <2>2, <2>3 DEF FilesInv
<1> QED BY <1>1, <1>2, <1>3

\* However many write, fail or die, a page answers with a whole tile, and what one
\* writer at a time leaves under the tile's name is whole.
THEOREM ServedTilesAreWhole == Spec => []ServedIsWhole
<1> DEFINE Inv == part = "tile" => FilesInv
<1>1. Start => Inv
  BY FilesInit DEF Start
<1>2. Inv /\ [Step]_parts => Inv'
  <2> SUFFICES ASSUME Inv, [Step]_parts, part' = "tile" PROVE FilesInv'
    OBVIOUS
  <2>1. CASE UNCHANGED parts
    <3>1. UNCHANGED <<part, Tile!vars>>
      BY <2>1 DEF parts, Tile!vars, Tile!files, After6, After7, After8
    <3> QED BY <3>1, OthersKeep
  <2>2. CASE Step
    <3>1. FilesInv /\ Tile!Next
      BY <2>2 DEF Step
    <3> QED BY <3>1, ReadersKeep, OpenKeeps, WriteKeeps, EndKeeps, OthersKeep DEF Tile!Next
  <2> QED BY <2>1, <2>2
<1>3. Inv => ServedIsWhole
  BY DEF FilesInv, Served, Alone, TileIsWhole, ServedIsWhole, Tile!ServedIsWhole
<1> QED BY <1>1, <1>2, <1>3, PTL DEF Spec

-----------------------------------------------------------------------------
(* The settings: the names that ConfigStore gives its variables, but for   *)
(* its file.                                                               *)
memory == s1
kept == s2
previous == s3
request == s4
promised == s5
USE DEF memory, kept, previous, request, promised

(***************************************************************************)
(* What is promised holds of the file whenever it can be read, of the      *)
(* memory until a request is merged into it, and of what the request would *)
(* return to after that; and a merged request changed its own keys only.   *)
(***************************************************************************)
Promises(k) == promised[k] \notin {0, Settings!Any}
Kinds == {"none", "save", "delete", "all", "sync", "reset", "load"}

StoreTyped ==
  /\ request.pc \in {"idle", "merge", "open", "dump"} /\ request.kind \in Kinds
  /\ DOMAIN request = {"pc", "kind", "patch", "keys"}
  /\ DOMAIN kept = {"whole", "cfg"} /\ kept.whole \in BOOLEAN

FileKept == \A k \in Waypoints : Promises(k) /\ kept.whole => kept.cfg[k] = promised[k]
MemoryKept == request.pc \in {"idle", "merge"} => \A k \in Waypoints : Promises(k) => memory[k] = promised[k]
ReturnKept ==
  request.pc \in {"open", "dump"} /\ request.kind # "reset" =>
    \A k \in Waypoints : Promises(k) => previous[k] = promised[k]
OwnKeysOnly ==
  request.pc = "merge" =>
    /\ request.kind # "load"
    /\ request.kind # "reset" => \A k \in Waypoints \ request.keys : request.patch[k] \in {0, memory[k]}
Merged ==
  request.pc \in {"open", "dump"} /\ request.kind \notin {"reset", "load"} =>
    \A k \in Waypoints :
      /\ k \in request.keys /\ request.patch[k] # 0 => memory[k] = request.patch[k]
      /\ k \notin request.keys /\ Promises(k) => memory[k] = promised[k]

StoreInv == StoreTyped /\ FileKept /\ MemoryKept /\ ReturnKept /\ OwnKeysOnly /\ Merged

\* The server starts with the file it finds.
LEMMA StoreInit == Settings!Init => StoreInv
<1> SUFFICES ASSUME Settings!Init PROVE StoreInv
  OBVIOUS
<1>1. PICK first \in [Waypoints -> Values \cup {0}] : kept = [whole |-> TRUE, cfg |-> first]
  BY DEF Settings!Init
<1>2. promised = first /\ memory = [k \in Waypoints |-> IF first[k] # 0 THEN first[k] ELSE Default[k]]
  BY <1>1 DEF Settings!Init, Settings!Merge
<1> QED
  BY <1>1, <1>2
  DEF Settings!Init, Settings!NoRequest, StoreInv, StoreTyped, FileKept, MemoryKept, ReturnKept,
      OwnKeysOnly, Merged, Promises, Kinds

\* A request that arrives asks for its own keys and repeats what memory says of the others.
LEMMA AsksKeeps ==
  ASSUME StoreInv, NEW kind \in {"save", "delete", "all", "sync", "reset"}, NEW patch, NEW keys,
         Settings!Asks(kind, patch, keys),
         kind # "reset" => \A k \in Waypoints \ keys : patch[k] \in {0, memory[k]}
  PROVE  StoreInv'
<1>1. /\ request' = [pc |-> "merge", kind |-> kind, patch |-> patch, keys |-> keys]
      /\ UNCHANGED <<memory, kept, previous, promised>> /\ request.pc = "idle"
  BY DEF Settings!Asks
<1> QED
  BY <1>1
  DEF StoreInv, StoreTyped, FileKept, MemoryKept, ReturnKept, OwnKeysOnly, Merged, Promises, Kinds

\* The same of every route.
LEMMA RoutesKeep ==
  ASSUME StoreInv,
         \/ \E k \in Waypoints : Settings!Delete(k) \/ \E v \in Values : Settings!SaveItem(k, v)
         \/ \E cfg \in [Waypoints -> Values \cup {0}] : Settings!SaveAll(cfg)
         \/ \E route \in SUBSET Waypoints, v \in Values : Settings!Sync(route, v)
         \/ Settings!Reset
  PROVE  StoreInv'
<1>0. StoreTyped BY DEF StoreInv
<1>1. ASSUME NEW k \in Waypoints, Settings!Delete(k) PROVE StoreInv'
  <2> DEFINE patch == [memory EXCEPT ![k] = 0]
  <2>1. \A j \in Waypoints \ {k} : patch[j] \in {0, memory[j]} OBVIOUS
  <2>2. Settings!Asks("delete", patch, {k}) BY <1>1 DEF Settings!Delete
  <2> HIDE DEF patch
  <2> QED BY <2>1, <2>2, AsksKeeps
<1>2. ASSUME NEW k \in Waypoints, NEW v \in Values, Settings!SaveItem(k, v) PROVE StoreInv'
  <2> DEFINE patch == [memory EXCEPT ![k] = v]
  <2>1. \A j \in Waypoints \ {k} : patch[j] \in {0, memory[j]} OBVIOUS
  <2>2. Settings!Asks("save", patch, {k}) BY <1>2 DEF Settings!SaveItem
  <2> HIDE DEF patch
  <2> QED BY <2>1, <2>2, AsksKeeps
<1>3. ASSUME NEW cfg \in [Waypoints -> Values \cup {0}], Settings!SaveAll(cfg) PROVE StoreInv'
  <2>1. \A j \in Waypoints \ Settings!Present(cfg) : cfg[j] \in {0, memory[j]} BY DEF Settings!Present
  <2>2. Settings!Asks("all", cfg, Settings!Present(cfg)) BY <1>3 DEF Settings!SaveAll
  <2> QED BY <2>1, <2>2, AsksKeeps
<1>4. ASSUME NEW route \in SUBSET Waypoints, NEW v \in Values, Settings!Sync(route, v) PROVE StoreInv'
  <2> DEFINE patch == [k \in Waypoints |->
                         IF k \notin route THEN 0 ELSE IF memory[k] # 0 THEN memory[k] ELSE v]
             keys == route \ Settings!Present(memory)
  <2>1. \A j \in Waypoints \ keys : patch[j] \in {0, memory[j]} BY DEF Settings!Present
  <2>2. Settings!Asks("sync", patch, keys) BY <1>4 DEF Settings!Sync
  <2> HIDE DEF patch, keys
  <2> QED BY <2>1, <2>2, AsksKeeps
<1>5. CASE Settings!Reset
  <2>1. Settings!Asks("reset", Default, Settings!Present(Default)) BY <1>5 DEF Settings!Reset
  <2> QED BY <2>1, AsksKeeps
<1> QED BY <1>1, <1>2, <1>3, <1>4, <1>5

\* What merges, saves, fails to save or ends the server keeps the promises.
LEMMA SavingKeeps ==
  ASSUME StoreInv,
         Settings!MergeStep \/ Settings!OpenStep \/ Settings!DumpStep \/ Settings!SaveFails \/ Settings!Restart
  PROVE  StoreInv'
<1> USE DEF StoreInv, StoreTyped, FileKept, MemoryKept, ReturnKept, OwnKeysOnly, Merged, Promises
<1>1. CASE Settings!MergeStep BY <1>1 DEF Settings!MergeStep, Settings!Merge
<1>2. CASE Settings!OpenStep BY <1>2 DEF Settings!OpenStep
<1>3. CASE Settings!DumpStep BY <1>3 DEF Settings!DumpStep, Settings!Answered, Settings!NoRequest, Kinds
<1>4. CASE Settings!SaveFails
  BY <1>4 DEF Settings!SaveFails, Settings!TakenBack, Settings!Refused, Settings!NoRequest, Kinds
<1>5. CASE Settings!Restart
  <2>1. kept' = kept /\ memory' = Settings!Loaded /\ previous' = Settings!Loaded
        /\ promised' = IF kept.whole THEN promised ELSE [k \in Waypoints |-> Settings!Any]
    BY <1>5 DEF Settings!Restart
  <2>2. \/ request' = Settings!NoRequest
        \/ kept.whole /\ request' = [Settings!NoRequest EXCEPT !.pc = "open", !.kind = "load"]
    BY <1>5 DEF Settings!Restart
  <2>3. kept.whole => Settings!Loaded = [k \in Waypoints |-> IF kept.cfg[k] # 0 THEN kept.cfg[k] ELSE Default[k]]
    BY DEF Settings!Loaded, Settings!Merge
  <2>4. kept.whole => \A k \in Waypoints : Promises(k) => Settings!Loaded[k] = promised[k]
    BY <2>3
  <2>5. /\ kept'.whole = kept.whole /\ kept'.cfg = kept.cfg
        /\ (\A k \in Waypoints : Promises(k)' => kept.whole /\ Promises(k))
    BY <2>1
  <2>6. \A k \in Waypoints : Promises(k)' => memory'[k] = promised'[k] /\ previous'[k] = promised'[k]
    BY <2>1, <2>4, <2>5
  <2>7. /\ request'.pc \in {"idle", "open"} /\ request'.kind \in {"none", "load"}
        /\ request'.pc = "open" => request'.kind = "load"
        /\ DOMAIN request' = {"pc", "kind", "patch", "keys"}
    <3>1. \/ request' = Settings!NoRequest
          \/ request' = [Settings!NoRequest EXCEPT !.pc = "open", !.kind = "load"]
      BY <2>2
    <3>2. CASE request' = Settings!NoRequest
      BY <3>2 DEF Settings!NoRequest
    <3>3. CASE request' = [Settings!NoRequest EXCEPT !.pc = "open", !.kind = "load"]
      <4>1. request' = [pc |-> "open", kind |-> "load", patch |-> Default, keys |-> {}]
        BY <3>3 DEF Settings!NoRequest
      <4> QED BY <4>1
    <3> QED BY <3>1, <3>2, <3>3
  <2>8. FileKept' BY <2>1, <2>5
  <2> HIDE DEF Settings!Loaded, FileKept
  <2>9. StoreTyped' BY <2>1, <2>7 DEF Kinds
  <2>10. MemoryKept' /\ ReturnKept' BY <2>6, <2>7
  <2>11. OwnKeysOnly' /\ Merged' BY <2>7
  <2> QED BY <2>8, <2>9, <2>10, <2>11
<1> QED BY <1>1, <1>2, <1>3, <1>4, <1>5

\* A setting that was saved is in memory and in the file until it is saved anew.
THEOREM SavedSettingsStay == Spec => []SavedStays
<1> DEFINE Inv == part = "settings" => StoreInv
<1>1. Start => Inv
  BY StoreInit DEF Start
<1>2. Inv /\ [Step]_parts => Inv'
  <2> SUFFICES ASSUME Inv, [Step]_parts, part' = "settings" PROVE StoreInv'
    OBVIOUS
  <2>1. CASE UNCHANGED parts
    BY <2>1
    DEF parts, StoreInv, StoreTyped, FileKept, MemoryKept, ReturnKept, OwnKeysOnly, Merged, Promises
  <2>2. CASE Step
    <3>1. StoreInv /\ Settings!Next
      BY <2>2 DEF Step
    <3> QED BY <3>1, RoutesKeep, SavingKeeps DEF Settings!Next
  <2> QED BY <2>1, <2>2
<1>3. Inv => SavedStays
  BY DEF StoreInv, FileKept, MemoryKept, Promises, SavedStays, Settings!SavedStays
<1> QED BY <1>1, <1>2, <1>3, PTL DEF Spec

-----------------------------------------------------------------------------
(* Packs: the names that MapPacks gives its variables; vehicle is its      *)
(* cache.                                                                  *)
work == s1
base == s2
pack == s3
vehicle == s4
applier == s5
USE DEF work, base, pack, vehicle, applier

(***************************************************************************)
(* What is packed is genuine, and a delta with its base holds all that the *)
(* exporter had.  Who applies a pack has a whole one before him, or his    *)
(* files were cleared away; of what he is to merge, each tile waits, was   *)
(* added, was there, or could not be copied; and what the vehicle had when *)
(* he began it still has.                                                  *)
(***************************************************************************)
Genuine(root) == root \in Packs!Root /\ \A k \in Packs!In(root) : root[k] \in Versions[k]
KeysOf(index) == {entry[1] : entry \in index}

PackIsTrue(p) ==
  /\ DOMAIN p = {"tiles", "readable", "wants", "manifest"}
  /\ DOMAIN p.manifest = {"kind", "base", "count", "sha"}
  /\ p.tiles \in Packs!Root /\ Genuine(p.manifest.sha)
  /\ p.manifest.kind # "delta" => p.manifest.base = {}
  /\ p.wants \subseteq Packs!In(p.manifest.sha) \cup KeysOf(p.manifest.base)

ApplyFields ==
  {"pc", "pack", "staged", "todo", "added", "skipped", "errors", "foretold", "cleared"}

Staged(p) ==
  /\ PackIsTrue(p.pack) /\ p.cleared \in BOOLEAN /\ p.todo \subseteq Packs!In(p.staged)
  /\ p.cleared => p.staged = Packs!Empty
  /\ ~p.cleared => p.pack.readable /\ Packs!Validated(p.pack) /\ p.staged = p.pack.tiles

Merging(p, root) ==
  /\ p.foretold.ok /\ p.foretold.matches
  /\ p.foretold.add = Packs!In(p.pack.tiles) \ p.foretold.skip
  /\ KeysOf(p.pack.manifest.base) \cup p.added \cup p.skipped \cup p.foretold.skip \subseteq Packs!In(root)
  /\ Packs!In(p.pack.tiles) \subseteq p.todo \cup p.added \cup p.skipped \cup p.errors
  /\ p.added \subseteq p.foretold.add
  /\ p.foretold.skip \subseteq p.skipped \cup p.todo

ApplySound(p, root) ==
  /\ DOMAIN p = ApplyFields /\ p.pc \in {"idle", "base", "merge", "done"}
  /\ p.pc # "idle" => Staged(p)
  /\ p.pc \in {"merge", "done"} /\ ~p.cleared => Merging(p, root)
  /\ p.pc = "base" => p.added = {} /\ p.skipped = {}
  /\ p.pc = "done" => p.todo = {}

PacksInv ==
  /\ Genuine(work) /\ Genuine(vehicle) /\ base \in Packs!Root
  /\ PackIsTrue(pack)
  /\ DOMAIN applier = Appliers /\ \A a \in Appliers : ApplySound(applier[a], vehicle)

\* The keys of a directory's index are the keys of its tiles.
LEMMA IndexKeys == ASSUME NEW root PROVE KeysOf(Packs!Index(root)) = Packs!In(root)
<1>1. ASSUME NEW k \in Packs!In(root) PROVE k \in KeysOf(Packs!Index(root))
  <2>1. <<k, SizeOf[root[k]]>> \in Packs!Index(root) BY DEF Packs!Index
  <2> QED BY <2>1 DEF KeysOf
<1>2. ASSUME NEW k \in KeysOf(Packs!Index(root)) PROVE k \in Packs!In(root)
  <2>1. PICK entry \in Packs!Index(root) : k = entry[1] BY DEF KeysOf
  <2>2. PICK j \in Packs!In(root) : entry = <<j, SizeOf[root[j]]>> BY DEF Packs!Index
  <2> QED BY <2>1, <2>2
<1> QED BY <1>1, <1>2

\* Nothing is packed of nothing, and an idle applier has nothing.
LEMMA NoneIsTrue ==
  /\ Genuine(Packs!Empty) /\ Packs!In(Packs!Empty) = {} /\ PackIsTrue(Packs!NoPack)
  /\ \A root : ApplySound(Packs!NoApply, root)
<1>1. Packs!Empty \in Packs!Root BY DEF Packs!Empty, Packs!Root
<1>2. Packs!In(Packs!Empty) = {} BY DEF Packs!Empty, Packs!In
<1>3. PackIsTrue(Packs!NoPack)
  BY <1>1, <1>2 DEF PackIsTrue, Packs!NoPack, Genuine
<1>4. DOMAIN Packs!NoApply = ApplyFields /\ Packs!NoApply.pc = "idle"
  BY DEF Packs!NoApply, ApplyFields
<1> QED BY <1>1, <1>2, <1>3, <1>4 DEF Genuine, ApplySound

\* What the exporter packs is genuine and lacks nothing but what the base has.
LEMMA PackedIsTrue ==
  ASSUME Genuine(work), NEW old \in Packs!Root
  PROVE  PackIsTrue(Packs!Whole(work)) /\ PackIsTrue(Packs!Delta(work, old))
<1>1. PackIsTrue(Packs!Whole(work))
  <2>1. /\ DOMAIN Packs!Whole(work) = {"tiles", "readable", "wants", "manifest"}
        /\ DOMAIN Packs!Whole(work).manifest = {"kind", "base", "count", "sha"}
        /\ Packs!Whole(work).manifest.kind = "full" /\ Packs!Whole(work).manifest.base = {}
        /\ Packs!Whole(work).tiles = work /\ Packs!Whole(work).manifest.sha = work
        /\ Packs!Whole(work).wants = Packs!In(work)
    BY DEF Packs!Whole, Packs!Pack
  <2> QED BY <2>1 DEF PackIsTrue, Genuine
<1>2. PackIsTrue(Packs!Delta(work, old))
  <2> DEFINE lacking == [k \in TileKeys |-> IF k \in Packs!In(old) THEN Absent ELSE work[k]]
  <2>1. Genuine(lacking) /\ Packs!In(work) \subseteq Packs!In(lacking) \cup Packs!In(old)
    BY DEF Genuine, Packs!Root, Packs!In
  <2> HIDE DEF lacking
  <2>2. Packs!Delta(work, old) = Packs!Pack(lacking, "delta", Packs!Index(old), work)
    BY DEF Packs!Delta, lacking
  <2>3. /\ DOMAIN Packs!Delta(work, old) = {"tiles", "readable", "wants", "manifest"}
        /\ DOMAIN Packs!Delta(work, old).manifest = {"kind", "base", "count", "sha"}
        /\ Packs!Delta(work, old).manifest.kind = "delta"
        /\ Packs!Delta(work, old).manifest.base = Packs!Index(old)
        /\ Packs!Delta(work, old).tiles = lacking /\ Packs!Delta(work, old).manifest.sha = lacking
        /\ Packs!Delta(work, old).wants = Packs!In(work)
    BY <2>2 DEF Packs!Pack
  <2> QED BY <2>1, <2>3, IndexKeys DEF PackIsTrue, Genuine
<1> QED BY <1>1, <1>2

\* Who applies a pack does not mind what others bring the vehicle.
LEMMA SoundGrows ==
  ASSUME NEW p, NEW old, NEW new, ApplySound(p, old), Packs!In(old) \subseteq Packs!In(new)
  PROVE  ApplySound(p, new)
BY DEF ApplySound, Merging

\* The exporter's part, and what becomes of a pack on its way.
LEMMA ExporterKeeps ==
  ASSUME PacksInv,
         \/ \E k \in TileKeys, v \in Contents : Packs!Download(k, v)
         \/ Packs!CopyBase \/ Packs!ExportWhole \/ Packs!ExportDelta \/ Packs!Damage
  PROVE  PacksInv'
<1>1. UNCHANGED <<vehicle, applier>>
  BY DEF Packs!Download, Packs!CopyBase, Packs!ExportWhole, Packs!ExportDelta, Packs!Damage
<1>2. Genuine(work)'
  <2>1. ASSUME NEW k \in TileKeys, NEW v \in Contents, Packs!Download(k, v) PROVE Genuine(work)'
    <3>1. work' = [work EXCEPT ![k] = v] /\ v \in Versions[k] BY <2>1 DEF Packs!Download
    <3> QED BY <3>1 DEF PacksInv, Genuine, Packs!Root, Packs!In
  <2>2. CASE UNCHANGED work BY <2>2 DEF PacksInv
  <2> QED
    BY <2>1, <2>2 DEF Packs!CopyBase, Packs!ExportWhole, Packs!ExportDelta, Packs!Damage
<1>3. base' \in Packs!Root
  BY DEF PacksInv, Genuine, Packs!Download, Packs!CopyBase, Packs!ExportWhole, Packs!ExportDelta,
         Packs!Damage
<1>4. PackIsTrue(pack)'
  <2>1. CASE Packs!ExportWhole \/ Packs!ExportDelta
    BY <2>1, PackedIsTrue DEF PacksInv, Packs!ExportWhole, Packs!ExportDelta
  <2>2. CASE Packs!Damage
    <3>1. CASE pack' = Packs!NoPack BY <3>1, NoneIsTrue
    <3>2. CASE pack' = [pack EXCEPT !.readable = FALSE] BY <3>2 DEF PacksInv, PackIsTrue
    <3>3. ASSUME NEW k \in Packs!In(pack.tiles), NEW c \in {Absent, Bad}, pack' = [pack EXCEPT !.tiles[k] = c]
          PROVE  PackIsTrue(pack)'
      <4>1. pack'.tiles = [pack.tiles EXCEPT ![k] = c] /\ pack'.wants = pack.wants
            /\ pack'.manifest = pack.manifest /\ DOMAIN pack' = DOMAIN pack
        BY <3>3 DEF PacksInv, PackIsTrue
      <4>2. pack'.tiles \in Packs!Root
        BY <4>1, PacksAssumption DEF PacksInv, PackIsTrue, Packs!Root, Packs!ContentsType
      <4> QED BY <4>1, <4>2 DEF PacksInv, PackIsTrue
    <3> QED BY <2>2, <3>1, <3>2, <3>3 DEF Packs!Damage
  <2>3. CASE UNCHANGED pack BY <2>3 DEF PacksInv
  <2> QED BY <2>1, <2>2, <2>3 DEF Packs!Download, Packs!CopyBase
<1> QED BY <1>1, <1>2, <1>3, <1>4 DEF PacksInv

\* A pack is staged when it is whole.
LEMMA StageKeeps == ASSUME PacksInv, NEW a \in Appliers, Packs!Stage(a) PROVE PacksInv'
<1> DEFINE staged == [Packs!NoApply EXCEPT !.pc = "base", !.pack = pack, !.staged = pack.tiles]
<1>1. UNCHANGED <<work, base, pack, vehicle>> /\ pack.readable BY DEF Packs!Stage
<1>2. \/ Packs!Validated(pack) /\ applier' = [applier EXCEPT ![a] = staged]
      \/ applier' = [applier EXCEPT ![a] = Packs!NoApply]
  BY DEF Packs!Stage
<1>3. /\ DOMAIN staged = ApplyFields /\ staged.pc = "base" /\ staged.pack = pack /\ staged.staged = pack.tiles
      /\ staged.todo = {} /\ staged.cleared = FALSE /\ staged.added = {} /\ staged.skipped = {}
  BY DEF Packs!NoApply, ApplyFields
<1> HIDE DEF staged
<1>4. Packs!Validated(pack) => ApplySound(staged, vehicle)
  BY <1>1, <1>3 DEF ApplySound, Staged, PacksInv
<1> QED BY <1>1, <1>2, <1>4, NoneIsTrue DEF PacksInv

\* When the base is the vehicle's, what is to be merged and what was there already is known.
LEMMA CompareKeeps == ASSUME PacksInv, NEW a \in Appliers, Packs!Compare(a) PROVE PacksInv'
<1> DEFINE p == applier[a]
           told == Packs!Diff(p.pack, vehicle)
           next == [p EXCEPT !.pc = "merge", !.todo = Packs!In(p.staged), !.foretold = told]
<1>1. UNCHANGED <<work, base, pack, vehicle>> /\ p.pc = "base" BY DEF Packs!Compare
<1>2. \/ Packs!BaseMatches(p.pack, vehicle) /\ applier' = [applier EXCEPT ![a] = next]
      \/ applier' = [applier EXCEPT ![a] = Packs!NoApply]
  BY DEF Packs!Compare
<1>3. ApplySound(p, vehicle) BY DEF PacksInv
<1>4. Packs!BaseMatches(p.pack, vehicle) => ApplySound(next, vehicle)
  <2> SUFFICES ASSUME Packs!BaseMatches(p.pack, vehicle) PROVE ApplySound(next, vehicle)
    OBVIOUS
  <2>1. Staged(p) BY <1>1, <1>3 DEF ApplySound
  <2>2. /\ told.ok = (p.pack.readable /\ Packs!Validated(p.pack)) /\ told.matches = TRUE
        /\ told.add = Packs!In(p.pack.tiles) \ Packs!In(vehicle)
        /\ told.skip = Packs!In(p.pack.tiles) \cap Packs!In(vehicle)
    BY DEF Packs!Diff
  <2>3. KeysOf(p.pack.manifest.base) \subseteq Packs!In(vehicle)
    <3>1. CASE p.pack.manifest.kind = "delta"
      BY <3>1, IndexKeys DEF Packs!BaseMatches
    <3>2. CASE p.pack.manifest.kind # "delta"
      <4>1. p.pack.manifest.base = {} BY <2>1, <3>2 DEF Staged, PackIsTrue
      <4> QED BY <4>1 DEF KeysOf
    <3> QED BY <3>1, <3>2
  <2> HIDE DEF told
  <2>4. /\ DOMAIN next = ApplyFields /\ next.pc = "merge" /\ next.pack = p.pack /\ next.staged = p.staged
        /\ next.added = {} /\ next.skipped = {} /\ next.todo = Packs!In(p.staged)
        /\ next.foretold = told /\ next.cleared = p.cleared
    BY <1>1, <1>3 DEF ApplySound, ApplyFields
  <2> HIDE DEF next
  <2>5. Staged(next) BY <2>1, <2>4 DEF Staged
  <2>6. ~p.cleared => Merging(next, vehicle)
    BY <2>1, <2>2, <2>3, <2>4, ZenonT(30) DEF Staged, Merging
  <2> QED BY <2>4, <2>5, <2>6 DEF ApplySound
<1> HIDE DEF next
<1> QED BY <1>1, <1>2, <1>4, NoneIsTrue DEF PacksInv

\* A tile is merged: it was there, is there now, or is noted.
LEMMA MergeKeeps ==
  ASSUME PacksInv, NEW a \in Appliers, NEW k \in TileKeys, Packs!MergeTile(a, k)
  PROVE  PacksInv'
<1> DEFINE p == applier[a]
           merged == [p EXCEPT !.todo = @ \ {k},
                               !.skipped = IF vehicle[k] # Absent THEN @ \cup {k} ELSE @,
                               !.added = IF vehicle[k] = Absent THEN @ \cup {k} ELSE @]
           noted == [p EXCEPT !.todo = @ \ {k}, !.errors = @ \cup {k}]
<1>1. /\ UNCHANGED <<work, base, pack>> /\ p.pc = "merge" /\ k \in p.todo
      /\ ApplySound(p, vehicle) /\ Staged(p) /\ Genuine(vehicle)
  BY DEF Packs!MergeTile, PacksInv, ApplySound
<1>2. \/ vehicle' = Packs!Merge(a, k) /\ applier' = [applier EXCEPT ![a] = merged]
      \/ vehicle[k] = Absent /\ vehicle' = vehicle /\ applier' = [applier EXCEPT ![a] = noted]
  BY DEF Packs!MergeTile, PacksInv
<1>3. ~p.cleared /\ p.staged = p.pack.tiles /\ p.staged = p.pack.manifest.sha
  BY <1>1, NoneIsTrue DEF Staged, Packs!Validated
<1>4. Merging(p, vehicle) /\ DOMAIN p = ApplyFields
  BY <1>1, <1>3 DEF ApplySound
<1>5. k \in Packs!In(p.staged) /\ p.staged[k] \in Versions[k] /\ p.staged \in Packs!Root /\ p.staged[k] # Absent
  BY <1>1, <1>3 DEF Staged, PackIsTrue, Genuine, Packs!In
<1>6. CASE vehicle' = Packs!Merge(a, k) /\ applier' = [applier EXCEPT ![a] = merged]
  <2>1. \/ vehicle[k] # Absent /\ vehicle' = vehicle
        \/ vehicle[k] = Absent /\ vehicle' = [vehicle EXCEPT ![k] = p.staged[k]]
    BY <1>6 DEF Packs!Merge
  <2>2. Genuine(vehicle)'
    BY <1>1, <1>5, <2>1 DEF Genuine, Packs!Root, Packs!In
  <2>3. Packs!In(vehicle)' = Packs!In(vehicle) \cup {k}
    BY <1>1, <1>5, <2>1 DEF Genuine, Packs!Root, Packs!In
  <2>4. /\ DOMAIN merged = ApplyFields /\ merged.pc = "merge" /\ merged.pack = p.pack
        /\ merged.staged = p.staged /\ merged.todo = p.todo \ {k} /\ merged.cleared = p.cleared
        /\ merged.foretold = p.foretold /\ merged.errors = p.errors
        /\ \/ vehicle[k] # Absent /\ merged.skipped = p.skipped \cup {k} /\ merged.added = p.added
           \/ vehicle[k] = Absent /\ merged.skipped = p.skipped /\ merged.added = p.added \cup {k}
    BY <1>1, <1>4 DEF ApplyFields
  <2> HIDE DEF merged
  <2>5. Staged(merged) BY <1>1, <1>3, <2>4 DEF Staged
  <2>6. vehicle[k] = Absent => k \in p.foretold.add
    BY <1>3, <1>4, <1>5 DEF Merging, Packs!In
  <2>7. Merging(merged, vehicle')
    BY <1>4, <2>3, <2>4, <2>6 DEF Merging, Packs!In
  <2>8. ApplySound(merged, vehicle') BY <2>4, <2>5, <2>7 DEF ApplySound
  <2>9. \A b \in Appliers : ApplySound(applier[b], vehicle')
    BY <2>3, SoundGrows DEF PacksInv, Packs!In
  <2> QED BY <1>1, <1>6, <2>2, <2>8, <2>9 DEF PacksInv
<1>7. CASE vehicle[k] = Absent /\ vehicle' = vehicle /\ applier' = [applier EXCEPT ![a] = noted]
  <2>1. /\ DOMAIN noted = ApplyFields /\ noted.pc = "merge" /\ noted.pack = p.pack
        /\ noted.staged = p.staged /\ noted.todo = p.todo \ {k} /\ noted.cleared = p.cleared
        /\ noted.foretold = p.foretold /\ noted.errors = p.errors \cup {k}
        /\ noted.skipped = p.skipped /\ noted.added = p.added
    BY <1>1, <1>4 DEF ApplyFields
  <2> HIDE DEF noted
  <2>2. Staged(noted) BY <1>1, <1>3, <2>1 DEF Staged
  <2>3. k \notin p.foretold.skip BY <1>4, <1>7 DEF Merging, Packs!In
  <2>4. Merging(noted, vehicle)
    BY <1>4, <2>1, <2>3 DEF Merging
  <2>5. ApplySound(noted, vehicle) BY <2>1, <2>2, <2>4 DEF ApplySound
  <2> QED BY <1>1, <1>7, <2>5 DEF PacksInv
<1> QED BY <1>2, <1>6, <1>7

\* The end of an application, what the page fetches, and what takes the tiles or the
\* appliers away.
LEMMA ApplyEndKeeps ==
  ASSUME PacksInv, NEW a \in Appliers, Packs!Report(a) \/ Packs!Forget(a)
  PROVE  PacksInv'
<1>1. UNCHANGED <<work, base, pack, vehicle>> BY DEF Packs!Report, Packs!Forget
<1>2. CASE Packs!Report(a)
  <2> DEFINE done == [applier[a] EXCEPT !.pc = "done"]
  <2>1. applier' = [applier EXCEPT ![a] = done] /\ applier[a].pc = "merge" /\ applier[a].todo = {}
    BY <1>2 DEF Packs!Report, PacksInv
  <2>2. ApplySound(applier[a], vehicle) BY DEF PacksInv
  <2>3. /\ DOMAIN done = ApplyFields /\ done.pc = "done"
        /\ \A field \in ApplyFields \ {"pc"} : done[field] = applier[a][field]
    BY <2>2 DEF ApplySound, ApplyFields
  <2> HIDE DEF done
  <2>4. /\ done.pack = applier[a].pack /\ done.staged = applier[a].staged /\ done.todo = applier[a].todo
        /\ done.cleared = applier[a].cleared /\ done.foretold = applier[a].foretold
        /\ done.errors = applier[a].errors /\ done.skipped = applier[a].skipped
        /\ done.added = applier[a].added
    BY <2>3 DEF ApplyFields
  <2>5. ApplySound(done, vehicle)
    BY <2>1, <2>2, <2>3, <2>4 DEF ApplySound, Staged, Merging
  <2> QED BY <1>1, <2>1, <2>5 DEF PacksInv
<1>3. CASE Packs!Forget(a)
  BY <1>1, <1>3, NoneIsTrue DEF Packs!Forget, PacksInv
<1> QED BY <1>2, <1>3

LEMMA VehicleKeeps ==
  ASSUME PacksInv, (\E k \in TileKeys, v \in Contents : Packs!Fetch(k, v)) \/ Packs!Clear \/ Packs!Crash
  PROVE  PacksInv'
<1>1. UNCHANGED <<work, base, pack>> BY DEF Packs!Fetch, Packs!Clear, Packs!Crash
<1>2. ASSUME NEW k \in TileKeys, NEW v \in Contents, Packs!Fetch(k, v) PROVE PacksInv'
  <2>1. vehicle' = [vehicle EXCEPT ![k] = v] /\ v \in Versions[k] /\ UNCHANGED applier
    BY <1>2 DEF Packs!Fetch
  <2>2. Genuine(vehicle)' BY <2>1 DEF PacksInv, Genuine, Packs!Root, Packs!In
  <2>3. Packs!In(vehicle) \subseteq Packs!In(vehicle')
    BY <2>1, PacksAssumption DEF PacksInv, Genuine, Packs!Root, Packs!In, Packs!ContentsType
  <2>4. \A a \in Appliers : ApplySound(applier[a], vehicle')
    BY <2>3, SoundGrows DEF PacksInv
  <2> QED BY <1>1, <2>1, <2>2, <2>4 DEF PacksInv
<1>3. CASE Packs!Clear
  <2>1. vehicle' = Packs!Empty BY <1>3 DEF Packs!Clear
  <2>2. ASSUME NEW a \in Appliers PROVE ApplySound(applier'[a], vehicle')
    <3> DEFINE cleared == [applier[a] EXCEPT !.staged = Packs!Empty, !.todo = {}, !.cleared = TRUE]
    <3>1. applier'[a] = IF applier[a].pc = "idle" THEN Packs!NoApply ELSE cleared
      BY <1>3 DEF Packs!Clear
    <3>2. ApplySound(applier[a], vehicle) BY DEF PacksInv
    <3>3. /\ DOMAIN cleared = ApplyFields /\ cleared.pc = applier[a].pc /\ cleared.pack = applier[a].pack
          /\ cleared.staged = Packs!Empty /\ cleared.todo = {} /\ cleared.cleared = TRUE
          /\ cleared.added = applier[a].added /\ cleared.skipped = applier[a].skipped
      BY <3>2 DEF ApplySound, ApplyFields
    <3> HIDE DEF cleared
    <3>4. applier[a].pc # "idle" => ApplySound(cleared, vehicle')
      BY <3>2, <3>3 DEF ApplySound, Staged
    <3> QED BY <3>1, <3>4, NoneIsTrue
  <2>3. DOMAIN applier' = Appliers BY <1>3 DEF Packs!Clear
  <2> QED BY <1>1, <2>1, <2>2, <2>3, NoneIsTrue DEF PacksInv
<1>4. CASE Packs!Crash
  BY <1>1, <1>4, NoneIsTrue DEF Packs!Crash, PacksInv
<1> QED BY <1>2, <1>3, <1>4

\* The vehicle's tiles are genuine whatever happens to the packs, and who reports that a
\* pack is applied has brought all that the exporter had.
THEOREM AppliedPacksAreTrue == Spec => []PacksAreTrue
<1> DEFINE Inv == part = "packs" => PacksInv
<1>1. Start => Inv
  <2> SUFFICES ASSUME Packs!Init PROVE PacksInv
    BY DEF Start
  <2>1. /\ work = Packs!Empty /\ base = Packs!Empty /\ pack = Packs!NoPack /\ vehicle = Packs!Empty
        /\ applier = [p \in Appliers |-> Packs!NoApply]
    BY DEF Packs!Init
  <2> QED BY <2>1, NoneIsTrue DEF PacksInv, Genuine
<1>2. Inv /\ [Step]_parts => Inv'
  <2> SUFFICES ASSUME Inv, [Step]_parts, part' = "packs" PROVE PacksInv'
    OBVIOUS
  <2>1. CASE UNCHANGED parts
    BY <2>1 DEF parts, PacksInv
  <2>2. CASE Step
    <3>1. PacksInv /\ Packs!Next
      BY <2>2 DEF Step
    <3> QED
      BY <3>1, ExporterKeeps, StageKeeps, CompareKeeps, MergeKeeps, ApplyEndKeeps, VehicleKeeps
      DEF Packs!Next, Packs!Apply
  <2> QED BY <2>1, <2>2
<1>3. Inv => PacksAreTrue
  <2> SUFFICES ASSUME PacksInv PROVE Packs!TilesAreGenuine /\ Packs!AppliedIsComplete
    BY DEF PacksAreTrue
  <2>1. Packs!TilesAreGenuine BY DEF PacksInv, Genuine, Packs!TilesAreGenuine
  <2>2. ASSUME NEW a \in Appliers, applier[a].pc = "done", ~applier[a].cleared
        PROVE  /\ applier[a].pack.wants \ applier[a].errors \subseteq Packs!In(vehicle)
               /\ applier[a].foretold.ok /\ applier[a].foretold.matches
               /\ applier[a].added \subseteq applier[a].foretold.add
               /\ applier[a].foretold.skip \subseteq applier[a].skipped
    <3> DEFINE p == applier[a]
    <3>1. Staged(p) /\ Merging(p, vehicle) /\ p.todo = {}
      BY <2>2 DEF PacksInv, ApplySound
    <3> HIDE DEF p
    <3>2. p.pack.wants \subseteq Packs!In(p.pack.tiles) \cup KeysOf(p.pack.manifest.base)
      BY <2>2, <3>1 DEF Staged, PackIsTrue, Packs!Validated, p
    <3>3. /\ p.pack.wants \ p.errors \subseteq Packs!In(vehicle) /\ p.foretold.ok /\ p.foretold.matches
          /\ p.added \subseteq p.foretold.add /\ p.foretold.skip \subseteq p.skipped
      BY <3>1, <3>2 DEF Merging
    <3> QED BY <3>3 DEF p
  <2> QED BY <2>1, <2>2 DEF Packs!AppliedIsComplete
<1> QED BY <1>1, <1>2, <1>3, PTL DEF Spec

-----------------------------------------------------------------------------
(* The files of a mission: the names that MissionFiles gives its           *)
(* variables; stored are its mission files, cached its _mission_cache.     *)
stored == s1
version == s2
current == s3
mem == s4
held == s5
object == s6
closing == s7
callback == s8
raw == s9
builder == s11
cached == s13
reader == s14
asked == s15
acked == s16
used == s17
USE DEF stored, version, current, mem, held, object, closing, callback, raw, builder, cached, reader,
        asked, acked, used

(***************************************************************************)
(* Sound is the content of a mission, in a file or in memory, that has the *)
(* acknowledged results of its samples and, unless a frame may be on its   *)
(* way into a window that is being closed, whole statistics of its closed  *)
(* windows.  A sample is of one mission; the open window's statistics and  *)
(* the result in its object are as new as what is on the disk; what is     *)
(* cached is a file's content if the file has the fingerprint still.       *)
(***************************************************************************)
Content(c) ==
  /\ DOMAIN c = {"state", "win", "count", "result", "points", "body"}
  /\ c.win \in [Samples -> {"none", "open", "closed"}] /\ DOMAIN c.count = Samples
  /\ c.result \in [Samples -> Nat]
ResultsIn(c) == \A s \in Samples : c.win[s] # "none" => s \in used /\ acked[s] <= c.result[s]
FramesIn(c) ==
  ~Overlap =>
    \A s \in Samples : c.win[s] = "closed" => c.count[s] = raw[s].written /\ raw[s].synced = raw[s].written
Sound(c) == Content(c) /\ ResultsIn(c) /\ FramesIn(c)

FilesSound ==
  /\ DOMAIN stored = MissionIds /\ version \in [MissionIds -> Nat]
  /\ \A m \in MissionIds : stored[m] = Mission!NoFile \/ Sound(stored[m])
MemorySound ==
  /\ current \in MissionIds \cup {None} /\ Sound(mem)
  /\ current = None => \A s \in Samples : mem.win[s] = "none"

Holds(m, s) == stored[m] # Mission!NoFile /\ stored[m].win[s] # "none"
OneOwner ==
  \A s \in Samples, m \in MissionIds : Holds(m, s) =>
    /\ mem.win[s] # "none" => m = current
    /\ \A n \in MissionIds : Holds(n, s) => n = m

BooksSound ==
  /\ asked \in Nat /\ acked \in [Samples -> Nat] /\ \A s \in Samples : acked[s] <= asked
  /\ raw \in [Samples -> [written : Nat, synced : Nat]] /\ DOMAIN builder = Samples
  /\ \A s \in Samples \ used : raw[s].written = 0 /\ raw[s].synced = 0 /\ acked[s] = 0

WindowSound ==
  /\ held \in Samples \cup {None} /\ object \in Nat /\ closing \in BOOLEAN
  /\ callback \in (Samples \cap used) \cup {None}
  /\ closing => held # None
  /\ held # None => current # None /\ mem.win[held] # "none"
  /\ held # None /\ ~closing =>
       /\ mem.win[held] = "open" /\ acked[held] <= object
       /\ \A m \in MissionIds : stored[m] # Mission!NoFile => stored[m].win[held] # "closed"
       /\ ~Overlap => builder[held] = raw[held].written
  /\ ~Overlap /\ callback # None => callback = held /\ ~closing

CachedSound(m) ==
  \/ cached[m] = Mission!NoFile
  \/ /\ DOMAIN cached[m] = {"version", "content"} /\ cached[m].version \in Nat
     /\ cached[m].version <= version[m]
     /\ cached[m].version = version[m] /\ stored[m] # Mission!NoFile => cached[m].content = stored[m]
ReaderSound ==
  /\ DOMAIN reader = {"at", "mission", "version", "content", "tries"} /\ reader.at \in {"none", "load", "check"}
  /\ reader.at # "none" => reader.mission \in MissionIds
  /\ reader.at = "check" =>
       /\ reader.version \in Nat /\ reader.version <= version[reader.mission]
       /\ reader.version = version[reader.mission] => reader.content = stored[reader.mission]
CacheSound == DOMAIN cached = MissionIds /\ (\A m \in MissionIds : CachedSound(m)) /\ ReaderSound

MissionInv == FilesSound /\ MemorySound /\ OneOwner /\ BooksSound /\ WindowSound /\ CacheSound

\* A content is no missing file, and that of a new mission is sound.
LEMMA ContentIsThere == ASSUME NEW c, Content(c) PROVE c # Mission!NoFile
<1>1. DOMAIN Mission!NoFile = {"state"} BY DEF Mission!NoFile
<1> QED BY <1>1 DEF Content

LEMMA BlankIsSound ==
  /\ Sound(Mission!Blank) /\ Sound(Mission!Blank)'
  /\ \A s \in Samples : Mission!Blank.win[s] = "none"
BY DEF Sound, Content, ResultsIn, FramesIn, Mission!Blank

\* What holds when the files and the books are as they were, of another content with the
\* same windows and results.
LEMMA SoundStays ==
  ASSUME NEW c, Sound(c), NEW d, Content(d),
         d.win = c.win, d.result = c.result, d.count = c.count
  PROVE  Sound(d)
BY DEF Sound, ResultsIn, FramesIn

\* A file is replaced by another content, while nobody reads one.
Replaces(m, c) ==
  \/ UNCHANGED <<stored, version>>
  \/ /\ reader.at = "none"
     /\ stored' = [stored EXCEPT ![m] = c] /\ version' = [version EXCEPT ![m] = @ + 1]

LEMMA SavedReplaces == ASSUME NEW m, NEW c, Mission!Saved(m, c) PROVE Replaces(m, c)
BY DEF Mission!Saved, Mission!Written, Mission!NotWritten, Mission!Unlocked, Replaces

\* What is cached is out of date as soon as the file has another fingerprint.
LEMMA ReplacedCache ==
  ASSUME FilesSound, CacheSound, NEW m \in MissionIds, NEW c, Replaces(m, c),
         UNCHANGED reader, DOMAIN cached' = MissionIds,
         \A n \in MissionIds : cached'[n] \in {cached[n], Mission!NoFile}
  PROVE  CacheSound'
<1>1. \A n \in MissionIds : (version'[n] = version[n] /\ stored'[n] = stored[n]) \/ version'[n] = version[n] + 1
  BY DEF Replaces, FilesSound
<1>2. ASSUME NEW n \in MissionIds PROVE CachedSound(n)'
  <2>1. CachedSound(n) /\ version[n] \in Nat BY DEF CacheSound, FilesSound
  <2> QED BY <1>1, <2>1 DEF CachedSound
<1>3. ReaderSound' BY DEF CacheSound, ReaderSound, Replaces
<1> QED BY <1>2, <1>3 DEF CacheSound

\* A save of the mission in memory, whose samples are new or were its own, keeps the files
\* sound, their samples of one owner and the cache true.
LEMMA SaveKeeps ==
  ASSUME FilesSound, OneOwner, CacheSound, NEW m \in MissionIds, NEW c, Replaces(m, c), Sound(c)',
         UNCHANGED <<cached, reader, raw, acked>>, used \subseteq used',
         \A s \in Samples : c.win[s] # "none" \/ mem'.win[s] # "none" =>
           s \notin used \/ (mem.win[s] # "none" /\ m = current),
         \A s \in Samples : mem'.win[s] # "none" => current' = m
  PROVE  FilesSound' /\ OneOwner' /\ CacheSound'
<1>1. CacheSound' BY ReplacedCache DEF CacheSound
<1>2. \A n \in MissionIds : stored'[n] = stored[n] \/ (n = m /\ stored'[n] = c)
  BY DEF Replaces, FilesSound
<1>3. FilesSound'
  <2>1. DOMAIN stored' = MissionIds /\ version' \in [MissionIds -> Nat] BY DEF Replaces, FilesSound
  <2>2. ASSUME NEW n \in MissionIds, stored[n] # Mission!NoFile PROVE Sound(stored[n]) /\ Sound(c)'
    BY <2>2 DEF FilesSound
  <2>3. \A n \in MissionIds : stored'[n] = stored[n] /\ stored[n] # Mission!NoFile => Sound(stored[n])'
    BY <2>2 DEF Sound, Content, ResultsIn, FramesIn
  <2>4. \A n \in MissionIds : stored'[n] = c => Sound(stored[n])'
    BY DEF Sound, Content, ResultsIn, FramesIn
  <2> QED BY <1>2, <2>1, <2>3, <2>4 DEF FilesSound
<1>4. OneOwner'
  <2>1. ASSUME NEW s \in Samples, NEW n \in MissionIds, Holds(n, s) PROVE s \in used
    BY <2>1 DEF FilesSound, Holds, Sound, ResultsIn
  <2>2. \A s \in Samples, n \in MissionIds : Holds(n, s)' => Holds(n, s) \/ (n = m /\ c.win[s] # "none")
    BY <1>2 DEF Holds
  <2> QED BY <2>1, <2>2 DEF OneOwner
<1> QED BY <1>1, <1>3, <1>4

\* What leaves the mission and its window alone, and reads, keeps the cache true.
LEMMA ReadingKeeps ==
  ASSUME MissionInv,
         (\E m \in MissionIds : Mission!BeginRead(m)) \/ Mission!Load \/ Mission!CheckRead \/ Mission!Reading
  PROVE  MissionInv'
<1>1. /\ UNCHANGED <<stored, version, current, mem, held, object, closing, callback, raw, builder>>
      /\ UNCHANGED <<asked, acked, used>>
  BY DEF Mission!BeginRead, Mission!Load, Mission!CheckRead, Mission!Reading, Mission!windowVars,
         Mission!pageVars
<1>2. /\ FilesSound' /\ MemorySound' /\ OneOwner' /\ BooksSound' /\ WindowSound'
      /\ \A m \in MissionIds : cached'[m] = cached[m] => CachedSound(m)'
  BY <1>1
  DEF MissionInv, FilesSound, MemorySound, OneOwner, BooksSound, WindowSound, CacheSound, CachedSound,
      Sound, Content, ResultsIn, FramesIn, Holds
<1>3. ASSUME NEW m \in MissionIds, Mission!BeginRead(m) PROVE CacheSound'
  <2>1. cached' = [cached EXCEPT ![m] = Mission!NoFile]
    BY <1>3 DEF Mission!BeginRead
  <2>2. ReaderSound'
    BY <1>1, <1>3 DEF Mission!BeginRead, Mission!Idle, ReaderSound
  <2>3. \A n \in MissionIds : CachedSound(n)'
    BY <1>2, <2>1 DEF CachedSound, MissionInv, CacheSound
  <2> QED BY <2>1, <2>2, <2>3 DEF MissionInv, CacheSound
<1>4. CASE Mission!Load
  <2>1. UNCHANGED cached /\ reader.at = "load" /\ ReaderSound BY <1>4 DEF Mission!Load, MissionInv, CacheSound
  <2>2. /\ reader'.at = "check" /\ reader'.mission = reader.mission /\ DOMAIN reader' = DOMAIN reader
        /\ reader'.version = version[reader.mission] /\ reader'.content = stored[reader.mission]
    BY <1>4, <2>1 DEF Mission!Load, ReaderSound
  <2>3. ReaderSound' BY <1>1, <2>1, <2>2 DEF ReaderSound, MissionInv, FilesSound
  <2> QED BY <1>2, <2>1, <2>3 DEF MissionInv, CacheSound
<1>5. CASE Mission!CheckRead
  <2>1. reader.at = "check" /\ ReaderSound /\ reader.mission \in MissionIds
    BY <1>5 DEF Mission!CheckRead, MissionInv, CacheSound, ReaderSound
  <2>2. PICK m \in MissionIds : m = reader.mission BY <2>1
  <2>3. CASE Mission!Fingerprint(reader.version, version[m]) # 0
    <3>1. /\ Mission!Fingerprint(reader.version, version[m]) = version[m]
          /\ reader.content = stored[m]
      BY <2>1, <2>3, <2>2 DEF Mission!Fingerprint, ReaderSound
    <3>2. /\ cached' = [cached EXCEPT ![m] = [version |-> version[m], content |-> stored[m]]]
          /\ reader' = Mission!Idle
      BY <1>5, <2>3, <2>2, <3>1 DEF Mission!CheckRead
    <3>3. CachedSound(m)'
      BY <1>1, <2>1, <3>1, <3>2 DEF CachedSound, MissionInv, CacheSound, FilesSound
    <3>4. \A n \in MissionIds : CachedSound(n)'
      BY <1>2, <3>2, <3>3 DEF MissionInv, CacheSound
    <3>5. ReaderSound' BY <3>2 DEF ReaderSound, Mission!Idle
    <3> QED BY <1>2, <3>2, <3>4, <3>5 DEF MissionInv, CacheSound
  <2>4. CASE Mission!Fingerprint(reader.version, version[m]) = 0
    <3>1. UNCHANGED cached /\ reader' \in {[reader EXCEPT !.at = "load"], Mission!Idle}
      BY <1>5, <2>4, <2>2 DEF Mission!CheckRead
    <3>2. ReaderSound' BY <2>1, <3>1 DEF ReaderSound, Mission!Idle
    <3> QED BY <1>2, <3>1, <3>2 DEF MissionInv, CacheSound
  <2> QED BY <2>3, <2>4
<1>6. CASE Mission!Reading
  <2>1. UNCHANGED <<cached, reader>> BY <1>6 DEF Mission!Reading, Mission!pageVars
  <2>2. ReaderSound' BY <1>1, <2>1 DEF MissionInv, CacheSound, ReaderSound
  <2> QED BY <1>2, <2>1, <2>2 DEF MissionInv, CacheSound
<1> QED BY <1>2, <1>3, <1>4, <1>5, <1>6 DEF MissionInv

\* A mission begins with nothing in it.
LEMMA StartMissionKeeps == ASSUME MissionInv, NEW m \in MissionIds, Mission!StartMission(m) PROVE MissionInv'
<1>1. /\ current = None /\ current' = m /\ mem' = Mission!Blank /\ used' = used \cup {m}
      /\ UNCHANGED <<held, object, closing, callback, raw, builder, cached, reader, asked, acked>>
      /\ Replaces(m, Mission!Blank)
  BY SavedReplaces DEF Mission!StartMission, Mission!windowVars, Mission!pageVars
<1>2. FilesSound' /\ OneOwner' /\ CacheSound'
  <2>1. PICK c : c = Mission!Blank OBVIOUS
  <2>2. Replaces(m, c) /\ mem' = c /\ \A s \in Samples : c.win[s] = "none"
    BY <1>1, <2>1, BlankIsSound
  <2>3. Sound(c)' BY <2>1, BlankIsSound DEF Sound, Content, ResultsIn, FramesIn
  <2> QED BY <1>1, <2>2, <2>3, SaveKeeps DEF MissionInv
<1>3. MemorySound' BY <1>1, BlankIsSound DEF MemorySound, Sound, Content, ResultsIn, FramesIn
<1>4. BooksSound' BY <1>1 DEF MissionInv, BooksSound
<1>5. WindowSound' BY <1>1 DEF MissionInv, WindowSound
<1> QED BY <1>2, <1>3, <1>4, <1>5 DEF MissionInv

\* It ends when no window is open.
LEMMA StopMissionKeeps == ASSUME MissionInv, Mission!StopMission PROVE MissionInv'
<1>1. PICK m, c : m = current /\ c = [mem EXCEPT !.state = "completed"]
  OBVIOUS
<1>2. /\ m \in MissionIds /\ held = None
      /\ UNCHANGED <<held, object, closing, callback, raw, builder, cached, reader, asked, acked, used>>
      /\ Replaces(m, c)
      /\ (current' = None /\ mem' = Mission!Blank) \/ (current' = m /\ mem' = c)
  BY <1>1
  DEF MissionInv, MemorySound, Mission!StopMission, Mission!Written, Mission!NotWritten,
      Mission!Unlocked, Replaces, Mission!windowVars, Mission!pageVars
<1>3. Sound(mem) BY DEF MissionInv, MemorySound
<1>4. Content(c) /\ c.win = mem.win /\ c.result = mem.result /\ c.count = mem.count
  BY <1>1, <1>3 DEF Sound, Content
<1>5. Sound(c) BY <1>3, <1>4, SoundStays
<1>6. Sound(c)' BY <1>2, <1>5 DEF Sound, Content, ResultsIn, FramesIn
<1>7. FilesSound' /\ OneOwner' /\ CacheSound'
  <2>1. \A s \in Samples : c.win[s] # "none" => mem.win[s] # "none" /\ m = current
    BY <1>1, <1>4
  <2>2. \A s \in Samples : mem'.win[s] # "none" => mem'.win[s] = c.win[s] /\ current' = m
    BY <1>2, BlankIsSound
  <2>3. used \subseteq used' BY <1>2
  <2> QED BY <1>2, <1>6, <2>1, <2>2, <2>3, SaveKeeps DEF MissionInv
<1>8. MemorySound'
  BY <1>2, <1>6, BlankIsSound, MissionAssumption
  DEF MemorySound, Sound, Content, ResultsIn, FramesIn, Mission!NoneIsNothing
<1>9. BooksSound' BY <1>2 DEF MissionInv, BooksSound
<1>10. WindowSound' BY <1>2 DEF MissionInv, WindowSound
<1> QED BY <1>7, <1>8, <1>9, <1>10 DEF MissionInv

\* A window is opened for a sample that nothing is known of yet.
LEMMA StartWindowKeeps == ASSUME MissionInv, NEW s \in Samples, Mission!StartWindow(s) PROVE MissionInv'
<1>1. PICK m, c : m = current /\ c = [mem EXCEPT !.win[s] = "open"]
  OBVIOUS
<1>2. /\ m \in MissionIds /\ held = None /\ s \notin used /\ used' = used \cup {s}
      /\ held' = s /\ object' = 0 /\ builder' = [builder EXCEPT ![s] = 0] /\ mem' = c
      /\ UNCHANGED <<current, closing, callback, raw, cached, reader, asked, acked>>
  BY <1>1 DEF MissionInv, MemorySound, Mission!StartWindow, Mission!pageVars
<1>3. Replaces(m, c)
  <2>1. Mission!Saved(m, c) BY <1>1, <1>2 DEF Mission!StartWindow
  <2> QED BY <2>1, SavedReplaces
<1>4. Sound(mem) BY DEF MissionInv, MemorySound
<1>5. /\ Content(c) /\ c.result = mem.result /\ c.count = mem.count
      /\ c.win = [mem.win EXCEPT ![s] = "open"]
  BY <1>1, <1>4 DEF Sound, Content
<1>6. /\ raw[s].written = 0 /\ acked[s] = 0 /\ mem.win[s] = "none"
      /\ \A n \in MissionIds : stored[n] # Mission!NoFile => stored[n].win[s] = "none"
  BY <1>2, <1>4 DEF MissionInv, BooksSound, FilesSound, Sound, ResultsIn
<1>7. Sound(c)'
  <2>1. ResultsIn(c)' BY <1>2, <1>4, <1>5, <1>6 DEF Sound, Content, ResultsIn
  <2>2. FramesIn(c)' BY <1>2, <1>4, <1>5 DEF Sound, Content, FramesIn
  <2> QED BY <1>5, <2>1, <2>2 DEF Sound, Content
<1>8. FilesSound' /\ OneOwner' /\ CacheSound'
  <2>1. \A t \in Samples : c.win[t] # "none" => t \notin used \/ (mem.win[t] # "none" /\ m = current)
    BY <1>1, <1>2, <1>4, <1>5 DEF Sound, Content
  <2> QED BY <1>1, <1>2, <1>3, <1>7, <2>1, SaveKeeps DEF MissionInv
<1>9. MemorySound'
  BY <1>1, <1>2, <1>7, MissionAssumption
  DEF MissionInv, MemorySound, Sound, Content, ResultsIn, FramesIn, Mission!NoneIsNothing
<1>10. BooksSound' BY <1>2 DEF MissionInv, BooksSound
<1>11. WindowSound'
  <2>1. \A n \in MissionIds : stored'[n] # Mission!NoFile => stored'[n].win[s] # "closed"
    BY <1>2, <1>3, <1>4, <1>5, <1>6 DEF Replaces, MissionInv, FilesSound, Sound, Content
  <2>2. c.win[s] = "open" BY <1>4, <1>5 DEF Sound, Content
  <2>3. held' = s /\ s # None /\ current' # None /\ builder'[s] = raw'[s].written /\ acked'[s] <= object'
    BY <1>1, <1>2, <1>6, MissionAssumption DEF MissionInv, BooksSound, Mission!NoneIsNothing
  <2>4. ~Overlap => callback' = None
    BY <1>2, MissionAssumption DEF MissionInv, WindowSound, Mission!NoneIsNothing
  <2>5. object' \in Nat /\ closing' = FALSE /\ callback' \in (Samples \cap used') \cup {None}
    BY <1>2 DEF MissionInv, WindowSound
  <2> QED BY <1>2, <2>1, <2>2, <2>3, <2>4, <2>5 DEF WindowSound
<1> QED BY <1>8, <1>9, <1>10, <1>11 DEF MissionInv

\* What saves the mission in memory as it is, or with one more point.
LEMMA PointsKeep ==
  ASSUME MissionInv, Mission!WindowClosed \/ Mission!RecordPoint \/ Mission!AddSamplingEvent
  PROVE  MissionInv'
<1>1. PICK m, c : m = current /\ c = mem'
  OBVIOUS
<1>2. Sound(mem) BY DEF MissionInv, MemorySound
<1>3. Content(c) /\ c.win = mem.win /\ c.result = mem.result /\ c.count = mem.count
  <2>1. mem' = mem \/ mem' = [mem EXCEPT !.points = @ + 1]
    BY DEF Mission!WindowClosed, Mission!RecordPoint, Mission!AddSamplingEvent, Mission!Pointed
  <2> QED BY <1>1, <1>2, <2>1 DEF Sound, Content
<1>4. /\ m \in MissionIds
      /\ UNCHANGED <<current, object, callback, raw, builder, cached, reader, asked, acked, used>>
      /\ UNCHANGED <<held, closing>> \/ (held' = None /\ closing' = FALSE /\ (closing => held # None) /\ closing)
  BY <1>1
  DEF MissionInv, MemorySound, WindowSound, Mission!WindowClosed, Mission!RecordPoint,
      Mission!AddSamplingEvent, Mission!windowVars, Mission!pageVars
<1>5. Replaces(m, c)
  <2>1. CASE Mission!WindowClosed
    <3>1. Mission!Saved(m, c) BY <1>1, <2>1 DEF Mission!WindowClosed
    <3> QED BY <3>1, SavedReplaces
  <2>2. CASE Mission!RecordPoint
    <3>1. Mission!Saved(m, c) \/ UNCHANGED <<stored, version>> BY <1>1, <2>2 DEF Mission!RecordPoint
    <3> QED BY <3>1, SavedReplaces DEF Replaces
  <2>3. CASE Mission!AddSamplingEvent
    <3>1. Mission!Saved(m, c) BY <1>1, <2>3 DEF Mission!AddSamplingEvent
    <3> QED BY <3>1, SavedReplaces
  <2> QED BY <2>1, <2>2, <2>3
<1>6. Sound(c) BY <1>2, <1>3, SoundStays
<1>7. Sound(c)' BY <1>4, <1>6 DEF Sound, Content, ResultsIn, FramesIn
<1>8. FilesSound' /\ OneOwner' /\ CacheSound'
  <2>1. \A s \in Samples : c.win[s] # "none" => mem.win[s] # "none" /\ m = current
    BY <1>1, <1>3
  <2> QED BY <1>1, <1>4, <1>5, <1>7, <2>1, SaveKeeps DEF MissionInv
<1>9. MemorySound'
  BY <1>1, <1>3, <1>4, <1>7 DEF MissionInv, MemorySound, Sound, Content, ResultsIn, FramesIn
<1>10. BooksSound' BY <1>4 DEF MissionInv, BooksSound
<1>11. WindowSound'
  <2>1. CASE held' = None /\ closing' = FALSE /\ closing
    BY <1>4, <2>1, MissionAssumption DEF MissionInv, WindowSound, Mission!NoneIsNothing
  <2>2. CASE UNCHANGED <<held, closing>>
    <3>1. mem'.win = mem.win BY <1>1, <1>3
    <3>2. held # None /\ ~closing =>
            \A n \in MissionIds : stored'[n] # Mission!NoFile => stored'[n].win[held] # "closed"
      BY <1>3, <1>5 DEF Replaces, MissionInv, FilesSound, WindowSound
    <3> QED BY <1>4, <2>2, <3>1, <3>2 DEF MissionInv, WindowSound
  <2> QED BY <1>4, <2>1, <2>2
<1> QED BY <1>8, <1>9, <1>10, <1>11 DEF MissionInv

\* A frame is on its way into the open window.
LEMMA FrameArrivesKeeps == ASSUME MissionInv, Mission!FrameArrives PROVE MissionInv'
<1>1. /\ held # None /\ callback' = held /\ (Overlap \/ ~closing)
      /\ UNCHANGED <<stored, version, current, mem, held, object, closing, raw, builder>>
      /\ UNCHANGED <<cached, reader, asked, acked, used>>
  BY DEF Mission!FrameArrives, Mission!pageVars
<1>2. FilesSound' /\ MemorySound' /\ OneOwner' /\ BooksSound' /\ CacheSound'
  BY <1>1
  DEF MissionInv, FilesSound, MemorySound, OneOwner, BooksSound, CacheSound, CachedSound, ReaderSound,
      Sound, Content, ResultsIn, FramesIn, Holds
<1>3. held \in Samples /\ mem.win[held] # "none" BY <1>1 DEF MissionInv, WindowSound
<1>4. held \in used BY <1>3 DEF MissionInv, MemorySound, Sound, ResultsIn
<1>5. WindowSound' BY <1>1, <1>3, <1>4 DEF MissionInv, WindowSound
<1> QED BY <1>2, <1>5 DEF MissionInv

\* The files do not mind what happens to the frames of a window that none calls closed.
LEMMA FramesApart ==
  ASSUME FilesSound, OneOwner, CacheSound, NEW s \in Samples,
         UNCHANGED <<stored, version, current, cached, reader, acked, used>>,
         \A t \in Samples : mem'.win[t] # "none" => mem.win[t] # "none",
         ~Overlap => \A m \in MissionIds : stored[m] # Mission!NoFile => stored[m].win[s] # "closed",
         \A t \in Samples \ {s} : raw'[t] = raw[t]
  PROVE  FilesSound' /\ OneOwner' /\ CacheSound'
<1>1. FilesSound' BY DEF FilesSound, Sound, Content, ResultsIn, FramesIn
<1>2. OneOwner' BY DEF OneOwner, Holds
<1>3. CacheSound' BY DEF CacheSound, CachedSound, ReaderSound
<1> QED BY <1>1, <1>2, <1>3

\* A frame is appended, and counted.
LEMMA AppendKeeps == ASSUME MissionInv, Mission!Append PROVE MissionInv'
<1>1. PICK s, n : s = callback /\ n = Mission!Counted(callback)
  OBVIOUS
<1>2. s \in Samples /\ s \in used /\ callback # None /\ raw[s].written \in Nat /\ raw[s].synced \in Nat
  BY <1>1 DEF Mission!Append, MissionInv, WindowSound, BooksSound
<1>3. /\ callback' = None /\ builder' = [builder EXCEPT ![s] = n]
      /\ UNCHANGED <<stored, version, current, held, object, closing, cached, reader, asked, acked, used>>
  BY <1>1 DEF Mission!Append, Mission!pageVars
<1>4. /\ raw' \in [Samples -> [written : Nat, synced : Nat]] /\ raw'[s].written = raw[s].written + 1
      /\ \A t \in Samples \ {s} : raw'[t] = raw[t]
  <2>1. PICK sync \in BOOLEAN :
          raw' = [raw EXCEPT ![s].written = @ + 1,
                             ![s].synced = IF sync THEN raw[s].written + 1 ELSE @]
    BY <1>1 DEF Mission!Append
  <2>2. raw \in [Samples -> [written : Nat, synced : Nat]] BY DEF MissionInv, BooksSound
  <2>3. /\ DOMAIN raw' = Samples /\ \A t \in Samples \ {s} : raw'[t] = raw[t]
        /\ raw'[s] = [written |-> raw[s].written + 1,
                      synced |-> IF sync THEN raw[s].written + 1 ELSE raw[s].synced]
    BY <1>2, <2>1, <2>2
  <2>4. raw'[s] \in [written : Nat, synced : Nat] /\ raw'[s].written = raw[s].written + 1
    BY <1>2, <2>3
  <2>5. raw' = [t \in Samples |-> raw'[t]] BY <2>1, <2>2
  <2> QED BY <2>2, <2>3, <2>4, <2>5
<1>5. ~Overlap => s = held /\ ~closing /\ held # None /\ n = raw[s].written + 1
  <2>1. ~Overlap => s = held /\ ~closing /\ held # None /\ builder[s] = raw[s].written
    BY <1>1, <1>2 DEF MissionInv, WindowSound
  <2> QED BY <1>1, <1>2, <2>1, MissionAssumption DEF Mission!Counted, Mission!NoneIsNothing
<1>6. /\ Content(mem)' /\ mem'.win = mem.win /\ mem'.result = mem.result
      /\ \A t \in Samples \ {s} : mem'.count[t] = mem.count[t]
  <2>1. mem' = mem \/ mem' = [mem EXCEPT !.count[s] = n] BY <1>1 DEF Mission!Append
  <2>2. Content(mem) BY DEF MissionInv, MemorySound, Sound
  <2> QED BY <1>2, <2>1, <2>2 DEF Content
<1>7. FilesSound' /\ OneOwner' /\ CacheSound'
  <2>1. ~Overlap => \A m \in MissionIds : stored[m] # Mission!NoFile => stored[m].win[s] # "closed"
    BY <1>5 DEF MissionInv, WindowSound
  <2> QED BY <1>2, <1>3, <1>4, <1>6, <2>1, FramesApart DEF MissionInv
<1>8. MemorySound'
  <2>1. Sound(mem) BY DEF MissionInv, MemorySound
  <2>2. ResultsIn(mem)' BY <1>3, <1>6, <2>1 DEF Sound, ResultsIn
  <2>3. FramesIn(mem)'
    <3>1. ~Overlap => mem.win[s] = "open" BY <1>5 DEF MissionInv, WindowSound
    <3> QED BY <1>4, <1>6, <2>1, <3>1 DEF Sound, FramesIn
  <2> QED BY <1>3, <1>6, <2>2, <2>3 DEF MissionInv, MemorySound, Sound
<1>9. BooksSound' BY <1>2, <1>3, <1>4 DEF MissionInv, BooksSound
<1>10. WindowSound'
  <2>1. ~Overlap => builder'[s] = raw'[s].written
    BY <1>2, <1>3, <1>4, <1>5 DEF MissionInv, BooksSound
  <2> QED BY <1>3, <1>5, <1>6, <2>1 DEF MissionInv, WindowSound
<1> QED BY <1>7, <1>8, <1>9, <1>10 DEF MissionInv

\* A window is closed: its frames are on the disk, and counted.
LEMMA CloseWindowKeeps == ASSUME MissionInv, Mission!CloseWindow PROVE MissionInv'
<1>1. PICK s, n : s = held /\ n = IF builder[held] = None THEN raw[held].written ELSE builder[held]
  OBVIOUS
<1>2. /\ s \in Samples /\ held # None /\ ~closing /\ current # None /\ mem.win[s] = "open"
      /\ acked[s] <= object /\ object \in Nat /\ raw[s].written \in Nat /\ (Overlap \/ callback = None)
      /\ ~Overlap => n = raw[s].written
      /\ \A m \in MissionIds : stored[m] # Mission!NoFile => stored[m].win[s] # "closed"
  BY <1>1 DEF Mission!CloseWindow, MissionInv, WindowSound, BooksSound
<1>3. /\ closing' = TRUE /\ builder' = [builder EXCEPT ![s] = None]
      /\ raw' = [raw EXCEPT ![s] = Mission!ForceSync(@)]
      /\ mem' = [mem EXCEPT !.win[s] = "closed", !.result[s] = object, !.count[s] = n]
      /\ UNCHANGED <<stored, version, current, held, object, callback, cached, reader, asked, acked, used>>
  BY <1>1 DEF Mission!CloseWindow, Mission!pageVars
<1>4. /\ raw' \in [Samples -> [written : Nat, synced : Nat]]
      /\ raw'[s].written = raw[s].written /\ raw'[s].synced = raw[s].written
      /\ \A t \in Samples \ {s} : raw'[t] = raw[t]
  BY <1>2, <1>3 DEF Mission!ForceSync, MissionInv, BooksSound
<1>5. Sound(mem) /\ s \in used
  BY <1>2 DEF MissionInv, MemorySound, Sound, ResultsIn
<1>6. /\ Content(mem)' /\ mem'.win = [mem.win EXCEPT ![s] = "closed"]
      /\ mem'.result = [mem.result EXCEPT ![s] = object] /\ mem'.count = [mem.count EXCEPT ![s] = n]
  BY <1>2, <1>3, <1>5 DEF Sound, Content
<1>7. FilesSound' /\ OneOwner' /\ CacheSound'
  <2>1. \A t \in Samples : mem'.win[t] # "none" => mem.win[t] # "none"
    BY <1>2, <1>5, <1>6 DEF Sound, Content
  <2> QED BY <1>2, <1>3, <1>4, <2>1, FramesApart DEF MissionInv
<1>8. MemorySound'
  <2>1. ResultsIn(mem)' BY <1>2, <1>3, <1>5, <1>6 DEF Sound, Content, ResultsIn
  <2>2. FramesIn(mem)' BY <1>2, <1>4, <1>5, <1>6 DEF Sound, Content, FramesIn
  <2> QED BY <1>2, <1>3, <1>6, <2>1, <2>2 DEF MissionInv, MemorySound, Sound
<1>9. BooksSound' BY <1>3, <1>4, <1>5 DEF MissionInv, BooksSound
<1>10. WindowSound'
  <2>1. mem'.win[s] = "closed" BY <1>2, <1>5, <1>6 DEF Sound, Content
  <2> QED BY <1>1, <1>2, <1>3, <2>1 DEF MissionInv, WindowSound
<1> QED BY <1>7, <1>8, <1>9, <1>10 DEF MissionInv

\* A file of the history is deleted, or replaced by another process.
LEMMA OthersWriteKeeps ==
  ASSUME MissionInv, NEW m \in MissionIds, Mission!DeleteMission(m) \/ Mission!Replace(m)
  PROVE  MissionInv'
<1>1. /\ UNCHANGED <<current, mem, held, object, closing, callback, raw, builder, reader, asked, acked>>
      /\ UNCHANGED used
  BY DEF Mission!DeleteMission, Mission!Replace, Mission!windowVars, Mission!pageVars
<1>2. MemorySound' /\ BooksSound'
  BY <1>1 DEF MissionInv, MemorySound, BooksSound, Sound, Content, ResultsIn, FramesIn
<1>3. CASE Mission!DeleteMission(m)
  <2>1. /\ stored' = [stored EXCEPT ![m] = Mission!NoFile] /\ version' = version /\ reader.at = "none"
        /\ cached' = [cached EXCEPT ![m] = Mission!NoFile]
    BY <1>3 DEF Mission!DeleteMission, Mission!Unlocked
  <2>2. FilesSound' /\ OneOwner'
    BY <1>1, <2>1
    DEF MissionInv, FilesSound, OneOwner, Holds, Sound, Content, ResultsIn, FramesIn
  <2>3. CacheSound'
    BY <1>1, <2>1 DEF MissionInv, CacheSound, CachedSound, ReaderSound, FilesSound
  <2>4. WindowSound' BY <1>1, <2>1 DEF MissionInv, WindowSound, FilesSound
  <2> QED BY <1>2, <2>2, <2>3, <2>4 DEF MissionInv
<1>4. CASE Mission!Replace(m)
  <2>1. PICK c : c = [stored[m] EXCEPT !.body = @ + 1]
    OBVIOUS
  <2>2. /\ stored[m] # Mission!NoFile /\ stored' = [stored EXCEPT ![m] = c]
        /\ version' = [version EXCEPT ![m] = @ + 1] /\ UNCHANGED cached
    BY <1>4, <2>1 DEF Mission!Replace, Mission!pageVars
  <2>3. Sound(stored[m]) BY <2>2 DEF MissionInv, FilesSound
  <2>4. /\ Content(c) /\ c.win = stored[m].win /\ c.result = stored[m].result
        /\ c.count = stored[m].count
    BY <2>1, <2>3 DEF Sound, Content
  <2>5. Sound(c)' /\ c # Mission!NoFile
    BY <1>1, <2>3, <2>4, SoundStays, ContentIsThere DEF Sound, Content, ResultsIn, FramesIn
  <2>6. \A n \in MissionIds : stored'[n] = IF n = m THEN c ELSE stored[n]
    BY <2>2 DEF MissionInv, FilesSound
  <2>7. FilesSound'
    <3>1. DOMAIN stored' = MissionIds /\ version' \in [MissionIds -> Nat]
      BY <2>2 DEF MissionInv, FilesSound
    <3>2. \A n \in MissionIds \ {m} : stored'[n] = Mission!NoFile \/ Sound(stored[n])'
      BY <1>1, <2>6 DEF MissionInv, FilesSound, Sound, Content, ResultsIn, FramesIn
    <3>3. Sound(stored[m])' BY <2>5, <2>6 DEF Sound, Content, ResultsIn, FramesIn
    <3> QED BY <3>1, <3>2, <3>3 DEF FilesSound
  <2>8. OneOwner' BY <1>1, <2>2, <2>4, <2>6 DEF MissionInv, OneOwner, Holds
  <2>9. CacheSound'
    BY <1>1, <2>2, <2>6 DEF MissionInv, FilesSound, CacheSound, CachedSound, ReaderSound
  <2>10. WindowSound' BY <1>1, <2>2, <2>4, <2>6 DEF MissionInv, WindowSound
  <2> QED BY <1>2, <2>7, <2>8, <2>9, <2>10 DEF MissionInv
<1> QED BY <1>3, <1>4

\* A manual result goes into the content of the mission that has the sample, and no other
\* has it.
LEMMA ManualResultKeeps ==
  ASSUME MissionInv, NEW m \in MissionIds, NEW s \in Samples, Mission!ManualResult(m, s)
  PROVE  MissionInv'
<1>1. PICK old, c :
        /\ old = IF m = current THEN mem ELSE IF Mission!Hit(m) THEN cached[m].content ELSE stored[m]
        /\ c = [old EXCEPT !.result[s] = asked + 1]
  OBVIOUS
<1>2. /\ (m = current \/ stored[m] # Mission!NoFile) /\ old.win[s] # "none" /\ reader.at = "none"
      /\ asked' = asked + 1 /\ cached' = [cached EXCEPT ![m] = Mission!NoFile]
      /\ mem' = IF m = current THEN c ELSE mem
      /\ object' = IF held = s /\ m = current THEN asked + 1 ELSE object
      /\ UNCHANGED <<current, held, closing, callback, raw, builder, reader, used>>
  BY <1>1 DEF Mission!ManualResult, Mission!Unlocked, Mission!InPlace
<1>3. \/ /\ stored' = [stored EXCEPT ![m] = c] /\ version' = [version EXCEPT ![m] = @ + 1]
         /\ acked' = [acked EXCEPT ![s] = asked + 1]
      \/ UNCHANGED <<stored, version, acked>>
  BY <1>1 DEF Mission!ManualResult, Mission!Written, Mission!NotWritten
<1>4. m # current => old = stored[m]
  BY <1>1, <1>2 DEF Mission!Hit, MissionInv, CacheSound, CachedSound
<1>5. Sound(old) BY <1>1, <1>2, <1>4 DEF MissionInv, MemorySound, FilesSound
<1>6. BooksSound /\ asked + 1 \in Nat /\ \A t \in Samples : acked[t] <= asked BY DEF MissionInv, BooksSound
<1>7. /\ Content(c) /\ c.win = old.win /\ c.count = old.count
      /\ c.result = [old.result EXCEPT ![s] = asked + 1]
  BY <1>1, <1>5, <1>6 DEF Sound, Content
<1>8. /\ m # current => mem.win[s] = "none"
      /\ \A n \in MissionIds \ {m} : stored[n] # Mission!NoFile => stored[n].win[s] = "none"
  <2>1. CASE m = current
    <3>1. mem.win[s] # "none" BY <1>1, <1>2, <2>1
    <3> QED BY <2>1, <3>1 DEF MissionInv, OneOwner, Holds
  <2>2. CASE m # current
    <3>1. Holds(m, s) BY <1>2, <1>4, <2>2 DEF Holds
    <3> QED BY <2>2, <3>1 DEF MissionInv, OneOwner, Holds
  <2> QED BY <2>1, <2>2
<1>9. s \in used /\ acked' \in [Samples -> Nat] /\ (\A t \in Samples \ {s} : acked'[t] = acked[t])
      /\ acked'[s] <= asked + 1
  BY <1>2, <1>3, <1>5, <1>6 DEF Sound, ResultsIn, BooksSound
<1>10. Sound(c)'
  <2>1. ResultsIn(c)' BY <1>2, <1>5, <1>6, <1>7, <1>9 DEF Sound, Content, ResultsIn
  <2>2. FramesIn(c)' BY <1>2, <1>5, <1>7 DEF Sound, FramesIn
  <2> QED BY <1>7, <2>1, <2>2 DEF Sound, Content
<1>11. \A n \in MissionIds : stored'[n] = stored[n] \/ (n = m /\ stored'[n] = c)
  BY <1>3 DEF MissionInv, FilesSound
<1>12. IF m = current THEN c.win = mem.win ELSE stored[m] # Mission!NoFile /\ c.win = stored[m].win
  BY <1>1, <1>2, <1>4, <1>7
<1>13. FilesSound'
  <2>1. DOMAIN stored' = MissionIds /\ version' \in [MissionIds -> Nat] BY <1>3 DEF MissionInv, FilesSound
  <2>2. \A n \in MissionIds : stored'[n] = stored[n] \/ stored'[n] = c BY <1>3 DEF MissionInv, FilesSound
  <2>3. \A n \in MissionIds : stored'[n] = c => Sound(stored[n])'
    BY <1>10 DEF Sound, Content, ResultsIn, FramesIn
  <2>4. ASSUME NEW n \in MissionIds, stored'[n] = stored[n], stored[n] # Mission!NoFile PROVE Sound(stored[n])'
    <3>1. Sound(stored[n]) BY <2>4 DEF MissionInv, FilesSound
    <3>2. stored[n].win[s] # "none" => acked'[s] = acked[s] \/ n = m BY <1>8, <2>4
    <3>3. CASE n = m /\ stored' = [stored EXCEPT ![m] = c]
      BY <1>10, <2>1, <3>3 DEF Sound, Content, ResultsIn, FramesIn, MissionInv, FilesSound
    <3>4. CASE n # m \/ UNCHANGED <<stored, version, acked>>
      BY <1>2, <1>9, <2>4, <3>1, <3>2, <3>4 DEF Sound, Content, ResultsIn, FramesIn
    <3> QED BY <1>3, <3>3, <3>4
  <2> QED BY <2>1, <2>2, <2>3, <2>4 DEF FilesSound
<1>14. MemorySound'
  <2>1. CASE m = current
    <3>1. mem' = c /\ current' = m BY <1>2, <2>1
    <3>2. m # None BY MissionAssumption DEF Mission!NoneIsNothing
    <3> QED BY <1>10, <3>1, <3>2 DEF MemorySound, Sound, Content, ResultsIn, FramesIn
  <2>2. CASE m # current
    <3>1. mem' = mem /\ mem.win[s] = "none" /\ MemorySound BY <1>2, <1>8, <2>2 DEF MissionInv
    <3> QED BY <1>2, <1>9, <3>1 DEF MemorySound, Sound, Content, ResultsIn, FramesIn
  <2> QED BY <2>1, <2>2
<1>15. OneOwner'
  <2>1. \A n \in MissionIds, t \in Samples : Holds(n, t)' =>
          Holds(n, t) \/ (n = m /\ m = current /\ mem.win[t] # "none")
    BY <1>11, <1>12 DEF Holds
  <2>2. mem'.win = mem.win BY <1>1, <1>2, <1>7
  <2> QED BY <1>2, <2>1, <2>2 DEF MissionInv, OneOwner
<1>16. BooksSound' BY <1>2, <1>6, <1>9 DEF BooksSound
<1>17. WindowSound'
  <2>1. mem'.win = mem.win BY <1>1, <1>2, <1>7
  <2>2. held # None /\ held = s => m = current BY <1>8 DEF MissionInv, WindowSound
  <2>3. held # None /\ ~closing => acked'[held] <= object' /\ object' \in Nat
    BY <1>2, <1>6, <1>9, <2>2 DEF MissionInv, WindowSound
  <2>4. held # None /\ ~closing =>
          \A n \in MissionIds : stored'[n] # Mission!NoFile => stored'[n].win[held] # "closed"
    BY <1>11, <1>12 DEF MissionInv, WindowSound
  <2>5. object' \in Nat BY <1>2, <1>6 DEF MissionInv, WindowSound
  <2> QED BY <1>2, <2>1, <2>3, <2>4, <2>5 DEF MissionInv, WindowSound
<1>18. CacheSound'
  <2>1. Replaces(m, c) BY <1>2, <1>3 DEF Replaces
  <2> QED BY <1>2, <2>1, ReplacedCache DEF MissionInv, CacheSound
<1> QED BY <1>13, <1>14, <1>15, <1>16, <1>17, <1>18 DEF MissionInv

\* A loss of power takes what was not synchronized.
LEMMA PowerKeeps == ASSUME MissionInv, Mission!Crash PROVE MissionInv'
<1>1. /\ current' = None /\ mem' = Mission!Blank /\ held' = None /\ object' = 0 /\ closing' = FALSE
      /\ callback' = None /\ builder' = [s \in Samples |-> None]
      /\ cached' = [m \in MissionIds |-> Mission!NoFile] /\ reader' = Mission!Idle
      /\ UNCHANGED <<asked, acked, used>>
  BY DEF Mission!Crash
<1>2. PICK size \in [Samples -> 0..MaxFrames] :
        /\ \A s \in Samples : raw[s].synced <= size[s] /\ size[s] <= raw[s].written
        /\ raw' = [s \in Samples |-> [written |-> size[s], synced |-> size[s]]]
  BY DEF Mission!Crash
<1>3. BooksSound'
  <2>1. \A s \in Samples : size[s] \in Nat BY <1>2 DEF MissionInv, BooksSound
  <2> QED BY <1>1, <1>2, <2>1 DEF MissionInv, BooksSound
<1>4. MemorySound' BY <1>1, BlankIsSound DEF MemorySound, Sound, Content, ResultsIn, FramesIn
<1>5. FilesSound' /\ OneOwner'
  <2>1. /\ DOMAIN stored' = MissionIds /\ version' \in [MissionIds -> Nat]
        /\ \A m \in MissionIds :
             /\ stored'[m] \in {stored[m], [stored[m] EXCEPT !.state = "interrupted"]}
             /\ stored'[m] # stored[m] => stored[m].state = "running"
    BY DEF Mission!Crash, MissionInv, FilesSound
  <2>2. ASSUME NEW m \in MissionIds, stored'[m] # Mission!NoFile
        PROVE  stored[m] # Mission!NoFile /\ Sound(stored[m])' /\ stored'[m].win = stored[m].win
    <3>1. stored[m] # Mission!NoFile
      <4>1. SUFFICES ASSUME stored[m] = Mission!NoFile PROVE FALSE
        OBVIOUS
      <4>2. Mission!NoFile.state = "gone" BY DEF Mission!NoFile
      <4> QED BY <2>1, <2>2, <4>1, <4>2
    <3>2. Sound(stored[m]) BY <3>1 DEF MissionInv, FilesSound
    <3>3. PICK c : c = stored'[m] OBVIOUS
    <3>4. Content(c) /\ c.win = stored[m].win /\ c.count = stored[m].count /\ c.result = stored[m].result
      BY <2>1, <3>2, <3>3 DEF Sound, Content
    <3>5. ResultsIn(c)' BY <1>1, <3>2, <3>4 DEF Sound, ResultsIn
    <3>6. FramesIn(c)'
      <4>1. \A s \in Samples : raw[s].synced = raw[s].written =>
              raw'[s].written = raw[s].written /\ raw'[s].synced = raw[s].written
        BY <1>2 DEF MissionInv, BooksSound
      <4> QED BY <3>2, <3>4, <4>1 DEF Sound, FramesIn
    <3> QED BY <3>1, <3>3, <3>4, <3>5, <3>6 DEF Sound, Content, ResultsIn, FramesIn
  <2>3. FilesSound' BY <2>1, <2>2 DEF MissionInv, FilesSound
  <2>4. \A s \in Samples, m \in MissionIds : Holds(m, s)' => Holds(m, s) BY <2>2 DEF Holds
  <2>5. OneOwner' BY <1>1, <2>4, BlankIsSound DEF MissionInv, OneOwner
  <2> QED BY <2>3, <2>5
<1>6. WindowSound' BY <1>1 DEF WindowSound
<1>7. CacheSound' BY <1>1 DEF CacheSound, CachedSound, ReaderSound, Mission!Idle
<1> QED BY <1>3, <1>4, <1>5, <1>6, <1>7 DEF MissionInv

\* At first there are no files.
LEMMA MissionInit == Mission!Init => MissionInv
<1> SUFFICES ASSUME Mission!Init PROVE MissionInv
  OBVIOUS
<1>1. FilesSound BY DEF Mission!Init, FilesSound
<1>2. MemorySound BY BlankIsSound DEF Mission!Init, MemorySound
<1>3. OneOwner BY DEF Mission!Init, OneOwner, Holds
<1>4. BooksSound BY DEF Mission!Init, BooksSound
<1>5. WindowSound BY DEF Mission!Init, WindowSound
<1>6. CacheSound BY DEF Mission!Init, CacheSound, CachedSound, ReaderSound, Mission!Idle
<1> QED BY <1>1, <1>2, <1>3, <1>4, <1>5, <1>6 DEF MissionInv

\* The invariant of the files of a mission holds of the whole store.
LEMMA MissionHolds == Spec => [](part = "files" => MissionInv)
<1> DEFINE Inv == part = "files" => MissionInv
<1>1. Start => Inv
  BY MissionInit DEF Start
<1>2. Inv /\ [Step]_parts => Inv'
  <2> SUFFICES ASSUME Inv, [Step]_parts, part' = "files" PROVE MissionInv'
    OBVIOUS
  <2>1. CASE UNCHANGED parts
    <3>1. /\ UNCHANGED <<part, stored, version, current, mem, held, object, closing, callback, raw>>
          /\ UNCHANGED <<builder, cached, reader, asked, acked, used>>
      BY <2>1 DEF parts, After6, After7, After8, After11
    <3>2. MissionInv BY <3>1
    <3> QED
      BY <3>1, <3>2
      DEF MissionInv, FilesSound, MemorySound, OneOwner, Holds, BooksSound, WindowSound, CacheSound,
          CachedSound, ReaderSound, Sound, Content, ResultsIn, FramesIn
  <2>2. CASE Step
    <3>1. MissionInv /\ Mission!Next
      BY <2>2 DEF Step
    <3> QED
      BY <3>1, StartMissionKeeps, StopMissionKeeps, StartWindowKeeps, PointsKeep, ReadingKeeps,
         FrameArrivesKeeps, AppendKeeps, CloseWindowKeeps, OthersWriteKeeps, ManualResultKeeps, PowerKeeps
      DEF Mission!Next
  <2> QED BY <2>1, <2>2
<1> QED BY <1>1, <1>2, PTL DEF Spec

\* A result that the page was told is saved stays in its mission, and what is read out of
\* the cache is what the file holds.
THEOREM AcknowledgedStay == Spec => []ResultsStay
<1>1. (part = "files" => MissionInv) => ResultsStay
  <2> SUFFICES ASSUME MissionInv PROVE Mission!AcknowledgedResultsStay /\ Mission!CacheIsTrue
    BY DEF ResultsStay
  <2>1. Mission!AcknowledgedResultsStay
    BY DEF MissionInv, FilesSound, Sound, ResultsIn, Mission!AcknowledgedResultsStay, Mission!Files
  <2>2. Mission!CacheIsTrue
    BY DEF MissionInv, CacheSound, CachedSound, Mission!CacheIsTrue, Mission!Files, Mission!Hit
  <2> QED BY <2>1, <2>2
<1> QED BY <1>1, MissionHolds, PTL

\* Unless a frame may be on its way into a window that is being closed, a closed window's
\* statistics are those of all its frames, and its frames are on the disk.
THEOREM SummariesAreWhole == ~Overlap => (Spec => []SummaryIsWhole)
<1> SUFFICES ASSUME ~Overlap PROVE Spec => []SummaryIsWhole
  OBVIOUS
<1>1. (part = "files" => MissionInv) => SummaryIsWhole
  BY DEF MissionInv, FilesSound, Sound, FramesIn, Mission!SummaryIsWhole, Mission!Files, SummaryIsWhole
<1> QED BY <1>1, MissionHolds, PTL

-----------------------------------------------------------------------------
(* Downloads: the names that MapPrewarm gives its variables.               *)
disk == s1
active == s2
run == s3
call == s4
left == s6
USE DEF disk, active, run, call, left

(* When the cache may be cleared, one thread of the server takes part: a   *)
(* request to resume that looked before the clearing would make a job      *)
(* again that an earlier run is still at.                                  *)
OneClears == \A cast \in Casts : cast.clears => \A c, d \in cast.callers : c = d

(***************************************************************************)
(* A run at work on a job whose files are there counts tiles that are      *)
(* logged, one by one, and unless it failed or was told to stop, those it  *)
(* does not count are still ahead of it.  A run whose job was cleared away *)
(* is harmless: nobody makes that job again.                               *)
(***************************************************************************)
Working == {"created", "scan", "loop", "drain"}
RunFields ==
  {"pc", "job", "todo", "out", "got", "done", "failed", "window", "stop", "final", "running"}
JobFields == {"state", "failed", "log", "lock", "holder"}
KeysIn(got) == {result[1] : result \in got}
Ahead(q) == q.todo \cup q.out \cup KeysIn(q.got)

Apart(q) ==
  /\ Ahead(q) \subseteq Tasks[q.job] /\ q.got \subseteq Tiles \X {"ok", "failed", "aborted"}
  /\ q.todo \cap q.out = {} /\ q.todo \cap KeysIn(q.got) = {} /\ q.out \cap KeysIn(q.got) = {}
  /\ \A x, y \in q.got : x[1] = y[1] => x = y
Counts(q, log) ==
  \E counted \in SUBSET (log \cap Tasks[q.job]) :
    /\ Cardinality(counted) = q.done /\ counted \cap Ahead(q) = {}
    /\ q.failed = 0 /\ ~q.stop => Tasks[q.job] \subseteq counted \cup Ahead(q)

AtWork(q, log, tiles) ==
  /\ q.failed \in Nat /\ q.final \in {"completed", "paused"} /\ Apart(q)
  /\ \A k \in Tiles : <<k, "ok">> \in q.got => k \in tiles
  /\ q.pc \in {"created", "scan"} => Ahead(q) = {} /\ q.got = {} /\ q.done = 0
  /\ q.pc \in {"loop", "drain"} => Counts(q, log)
  /\ q.pc = "drain" /\ ~q.stop /\ q.final = "completed" => Ahead(q) = {}

RunSound(r) ==
  /\ DOMAIN run[r] = RunFields
  /\ run[r].running => run[r].pc \in {"scan", "loop", "drain", "dead"}
  /\ run[r].pc \in Working \cup {"dead", "unlock", "unlink", "pop"} => run[r].job \in Jobs
  /\ run[r].pc = "dead" => disk.job[run[r].job].state = "none"
  /\ run[r].pc \in Working /\ disk.job[run[r].job].state # "none" =>
       AtWork(run[r], disk.job[run[r].job].log, disk.tiles)
RunsSound == DOMAIN run = Prewarm!Runs /\ \A r \in Prewarm!Runs : RunSound(r)

JobSound(j) ==
  /\ DOMAIN disk.job[j] = JobFields /\ disk.job[j].failed \in Nat
  /\ disk.job[j].log \subseteq Tasks[j] \cap disk.tiles
  /\ disk.job[j].state = "completed" => Tasks[j] \subseteq disk.tiles
DiskSound ==
  /\ DOMAIN disk = {"tiles", "job"} /\ disk.tiles \subseteq Tiles
  /\ DOMAIN disk.job = Jobs /\ \A j \in Jobs : JobSound(j)

CallSound(c) ==
  /\ DOMAIN call[c] = {"pc", "job", "run"}
  /\ call[c].pc = "create" =>
       /\ call[c].job \in Jobs
       /\ disk.job[call[c].job].state = "none" => \A r \in Prewarm!Runs : run[r].job # call[c].job
  /\ call[c].pc = "launch" =>
       /\ call[c].run \in Prewarm!Runs /\ run[call[c].run].pc = "created"
       /\ \A d \in Callers : d # c /\ call[d].pc = "launch" => call[d].run # call[c].run
  /\ call[c].pc = "clear" => left.clears
CallsSound ==
  /\ DOMAIN call = Callers /\ \A c \in Callers : CallSound(c)
  /\ DOMAIN left = {"jobs", "events", "clears"}
  /\ left.clears => \A c, d \in Callers : call[c].pc = "absent" \/ call[d].pc = "absent" \/ c = d

ActiveTyped == DOMAIN active = Jobs /\ \A j \in Jobs : active[j] \in Prewarm!Runs \cup {0}
JobsInv == DiskSound /\ RunsSound /\ CallsSound /\ ActiveTyped

\* A job that says nothing has nothing, and is sound with any tiles.
LEMMA NoJobIsSound ==
  /\ DOMAIN Prewarm!NoJob = JobFields /\ Prewarm!NoJob.failed = 0 /\ Prewarm!NoJob.log = {}
  /\ Prewarm!NoJob.state = "none"
BY DEF Prewarm!NoJob, JobFields

LEMMA NoRunIsAhead ==
  /\ DOMAIN Prewarm!NoRun = RunFields /\ Prewarm!NoRun.pc = "none" /\ ~Prewarm!NoRun.running
  /\ Prewarm!NoRun.todo = {} /\ Prewarm!NoRun.out = {} /\ Prewarm!NoRun.got = {}
  /\ Prewarm!NoRun.done = 0
BY DEF Prewarm!NoRun, RunFields

\* MapPrewarm counts as FiniteSets does.
LEMMA SameSizes ==
  ASSUME NEW S
  PROVE  Prewarm!Cardinality(S) = Cardinality(S) /\ (Prewarm!IsFiniteSet(S) <=> IsFiniteSet(S))
BY DEF Prewarm!Cardinality, Cardinality, Prewarm!IsFiniteSet, IsFiniteSet

\* Sets of tasks are finite.
LEMMA TasksFinite == ASSUME NEW j \in Jobs, NEW S \in SUBSET Tasks[j] PROVE IsFiniteSet(S)
<1>1. Tasks \in [Jobs -> SUBSET Tiles] /\ IsFiniteSet(Tiles)
  BY DownloadsAssumption, SameSizes DEF Prewarm!TasksType
<1>2. S \subseteq Tiles BY <1>1
<1> QED BY <1>1, <1>2, FS_Subset

\* At first nothing is there.
LEMMA JobsInit == OneClears /\ Prewarm!Init => JobsInv
<1> SUFFICES ASSUME OneClears, Prewarm!Init PROVE JobsInv
  OBVIOUS
<1>1. /\ disk = [tiles |-> {}, job |-> [j \in Jobs |-> Prewarm!NoJob]]
      /\ active = [j \in Jobs |-> 0] /\ run = [r \in Prewarm!Runs |-> Prewarm!NoRun]
  BY DEF Prewarm!Init
<1>2. PICK cast \in Casts :
        /\ call = [c \in Callers |-> IF c \in cast.callers THEN Prewarm!NoCall
                                     ELSE [Prewarm!NoCall EXCEPT !.pc = "absent"]]
        /\ left = [jobs |-> cast.jobs, events |-> cast.events, clears |-> cast.clears]
  BY DEF Prewarm!Init
<1>3. \A j \in Jobs : disk.job[j] = Prewarm!NoJob BY <1>1
<1>4. DiskSound BY <1>1, <1>3, NoJobIsSound DEF DiskSound, JobSound
<1>5. RunsSound BY <1>1, NoRunIsAhead DEF RunsSound, RunSound, Working
<1>6. CallsSound BY <1>2 DEF CallsSound, CallSound, Prewarm!NoCall, OneClears
<1>7. ActiveTyped BY <1>1 DEF ActiveTyped
<1> QED BY <1>4, <1>5, <1>6, <1>7 DEF JobsInv

\* The other runs do not mind what one run does: a log and the tiles only grow.
LEMMA OthersGoOn ==
  ASSUME RunsSound, NEW q \in Prewarm!Runs, run'[q] = run[q],
         run[q].job \in Jobs =>
           /\ disk.job[run[q].job].state = "none" <=> disk'.job[run[q].job].state = "none"
           /\ disk.job[run[q].job].log \subseteq disk'.job[run[q].job].log,
         disk.tiles \subseteq disk'.tiles
  PROVE  RunSound(q)'
<1>1. RunSound(q) BY DEF RunsSound
<1>2. ASSUME run[q].pc \in Working, disk'.job[run[q].job].state # "none"
      PROVE  AtWork(run[q], disk'.job[run[q].job].log, disk'.tiles)
  <2>1. AtWork(run[q], disk.job[run[q].job].log, disk.tiles) /\ run[q].job \in Jobs
    BY <1>1, <1>2 DEF RunSound
  <2>2. Counts(run[q], disk.job[run[q].job].log) => Counts(run[q], disk'.job[run[q].job].log)
    BY <2>1 DEF Counts
  <2> QED BY <2>1, <2>2 DEF AtWork
<1> QED BY <1>1, <1>2 DEF RunSound

\* Requests under way do not mind what a launched run does.
LEMMA CallsWait ==
  ASSUME CallsSound, UNCHANGED call, left'.clears = left.clears, DOMAIN left' = DOMAIN left,
         \A q \in Prewarm!Runs : run'[q].job = run[q].job /\ (run[q].pc = "created" => run'[q].pc = "created"),
         \A j \in Jobs : disk'.job[j].state = "none" => disk.job[j].state = "none"
  PROVE  CallsSound'
BY DEF CallsSound, CallSound

\* What a step of one run has to show.
LEMMA RunStepKeeps ==
  ASSUME JobsInv, NEW r \in Prewarm!Runs, UNCHANGED <<call, left>>, ActiveTyped',
         DOMAIN run' = Prewarm!Runs, \A q \in Prewarm!Runs \ {r} : run'[q] = run[q],
         run'[r].job = run[r].job, run[r].pc = "created" => run'[r].pc = "created", RunSound(r)',
         DiskSound', disk.tiles \subseteq disk'.tiles,
         \A j \in Jobs : /\ disk.job[j].state = "none" <=> disk'.job[j].state = "none"
                         /\ disk.job[j].log \subseteq disk'.job[j].log
  PROVE  JobsInv'
<1>1. ASSUME NEW q \in Prewarm!Runs PROVE RunSound(q)'
  <2>1. CASE q = r BY <2>1
  <2>2. CASE q # r BY <2>2, OthersGoOn DEF JobsInv
  <2> QED BY <2>1, <2>2
<1>2. CallsSound' BY CallsWait DEF JobsInv
<1> QED BY <1>1, <1>2 DEF JobsInv, RunsSound

\* What a step that writes the state of one job has to show.
LEMMA DiskStep ==
  ASSUME DiskSound, NEW j \in Jobs, DOMAIN disk' = DOMAIN disk, DOMAIN disk'.job = Jobs,
         disk'.tiles \subseteq Tiles, disk.tiles \subseteq disk'.tiles,
         \A i \in Jobs \ {j} : disk'.job[i] = disk.job[i], JobSound(j)'
  PROVE  DiskSound'
<1>1. ASSUME NEW i \in Jobs, i # j PROVE JobSound(i)'
  BY <1>1 DEF DiskSound, JobSound
<1> QED BY <1>1 DEF DiskSound

\* The keys of results.
LEMMA KeysOfResults ==
  ASSUME NEW got, NEW k, NEW how
  PROVE  /\ KeysIn(got \cup {<<k, how>>}) = KeysIn(got) \cup {k}
         /\ <<k, how>> \in got => k \in KeysIn(got)
         /\ KeysIn(got \ {<<k, how>>}) \subseteq KeysIn(got)
         /\ KeysIn(got) \subseteq KeysIn(got \ {<<k, how>>}) \cup {k}
         /\ <<k, how>> \in got /\ (\A x, y \in got : x[1] = y[1] => x = y) =>
              k \notin KeysIn(got \ {<<k, how>>})
<1>1. <<k, how>>[1] = k OBVIOUS
<1> QED BY <1>1 DEF KeysIn

\* A run begins to count with what is logged or lies there already.
LEMMA ScanKeeps == ASSUME JobsInv, NEW r \in Prewarm!Runs, Prewarm!Scan(r) PROVE JobsInv'
<1>1. PICK j : j = run[r].job
  OBVIOUS
<1>2. PICK logged : logged = disk.job[j].log \cup (Tasks[j] \cap disk.tiles)
  OBVIOUS
<1>3. /\ run[r].pc = "scan" /\ disk' = [disk EXCEPT !.job[j].log = logged]
      /\ run' = [run EXCEPT ![r].pc = "loop", ![r].done = Cardinality(logged), ![r].todo = Prewarm!Todo(r)]
      /\ UNCHANGED <<active, call, left>>
  BY <1>1, <1>2, SameSizes DEF Prewarm!Scan
<1>4. RunSound(r) /\ DOMAIN run[r] = RunFields /\ DOMAIN run = Prewarm!Runs /\ j \in Jobs
  BY <1>1, <1>3 DEF JobsInv, RunsSound, RunSound, Working
<1>5. DiskSound /\ JobSound(j) BY <1>4 DEF JobsInv, DiskSound
<1>6. /\ DOMAIN disk' = DOMAIN disk /\ DOMAIN disk'.job = Jobs /\ disk'.tiles = disk.tiles
      /\ \A i \in Jobs \ {j} : disk'.job[i] = disk.job[i]
      /\ DOMAIN disk'.job[j] = JobFields /\ disk'.job[j].state = disk.job[j].state
      /\ disk'.job[j].failed = disk.job[j].failed /\ disk'.job[j].log = logged
  BY <1>3, <1>4, <1>5 DEF DiskSound, JobSound, JobFields
<1>7. /\ DOMAIN run' = Prewarm!Runs /\ \A q \in Prewarm!Runs \ {r} : run'[q] = run[q]
      /\ DOMAIN run'[r] = RunFields /\ run'[r].pc = "loop" /\ run'[r].done = Cardinality(logged)
      /\ run'[r].todo = Tasks[j] \ (disk.job[j].log \cup disk.tiles)
      /\ run'[r].out = run[r].out /\ run'[r].got = run[r].got /\ run'[r].job = j
      /\ run'[r].failed = run[r].failed /\ run'[r].final = run[r].final
  BY <1>1, <1>3, <1>4 DEF RunFields, Prewarm!Todo
<1>8. logged \subseteq Tasks[j] \cap disk.tiles BY <1>2, <1>5 DEF JobSound
<1>9. DiskSound'
  <2>1. JobSound(j)' BY <1>5, <1>6, <1>8 DEF JobSound
  <2> QED BY <1>4, <1>5, <1>6, <2>1, DiskStep DEF DiskSound
<1>10. RunSound(r)'
  <2>1. ASSUME disk.job[j].state # "none" PROVE AtWork(run[r], disk.job[j].log, disk.tiles)'
    <3>1. AtWork(run[r], disk.job[j].log, disk.tiles) BY <1>1, <1>3, <1>4, <2>1 DEF RunSound, Working
    <3>2. run[r].out = {} /\ run[r].got = {} /\ KeysIn(run[r].got) = {}
      BY <1>3, <3>1 DEF AtWork, Ahead, KeysIn
    <3>3. Ahead(run'[r]) = Tasks[j] \ (disk.job[j].log \cup disk.tiles)
      BY <1>7, <3>2 DEF Ahead
    <3>4. Apart(run'[r]) BY <1>7, <3>2, <3>3 DEF Apart
    <3>5. Counts(run'[r], logged)
      <4>1. logged \in SUBSET (logged \cap Tasks[run'[r].job]) BY <1>7, <1>8
      <4>2. logged \cap Ahead(run'[r]) = {} /\ Tasks[run'[r].job] \subseteq logged \cup Ahead(run'[r])
        BY <1>2, <1>5, <1>7, <3>3 DEF JobSound
      <4> QED BY <1>7, <4>1, <4>2 DEF Counts
    <3> QED BY <1>6, <1>7, <3>1, <3>2, <3>4, <3>5 DEF AtWork
  <2> QED BY <1>4, <1>6, <1>7, <2>1 DEF RunSound, Working
<1> QED
  <2>1. ActiveTyped' BY <1>3 DEF JobsInv, ActiveTyped
  <2>2. \A i \in Jobs : /\ disk.job[i].state = "none" <=> disk'.job[i].state = "none"
                        /\ disk.job[i].log \subseteq disk'.job[i].log
    BY <1>2, <1>6
  <2> QED BY <1>1, <1>3, <1>6, <1>7, <1>9, <1>10, <2>1, <2>2, RunStepKeeps

\* What a step of a run that writes no job has to show.
LEMMA RunOnlyKeeps ==
  ASSUME JobsInv, NEW r \in Prewarm!Runs, UNCHANGED <<active, call, left>>,
         DOMAIN run' = Prewarm!Runs, \A q \in Prewarm!Runs \ {r} : run'[q] = run[q],
         run'[r].job = run[r].job, run[r].pc \in {"loop", "drain"}, run'[r].pc \in {"loop", "drain"},
         DOMAIN run'[r] = RunFields,
         disk' = disk \/ \E k \in Tiles : disk' = [disk EXCEPT !.tiles = @ \cup {k}],
         disk.job[run[r].job].state # "none" /\ AtWork(run[r], disk.job[run[r].job].log, disk.tiles) =>
           AtWork(run'[r], disk.job[run[r].job].log, disk'.tiles)
  PROVE  JobsInv'
<1>1. DiskSound /\ RunSound(r) BY DEF JobsInv, RunsSound
<1>2. /\ DOMAIN disk' = DOMAIN disk /\ disk'.job = disk.job /\ disk'.tiles \subseteq Tiles
      /\ disk.tiles \subseteq disk'.tiles
  BY <1>1 DEF DiskSound
<1>3. DiskSound' BY <1>1, <1>2 DEF DiskSound, JobSound
<1>4. ActiveTyped' BY DEF JobsInv, ActiveTyped
<1>5. RunSound(r)' BY <1>1, <1>2 DEF RunSound, Working
<1> QED BY <1>2, <1>3, <1>4, <1>5, RunStepKeeps

\* A tile is given to a worker, or the loop is left.
LEMMA SubmitKeeps ==
  ASSUME JobsInv, NEW r \in Prewarm!Runs, NEW k \in Tiles, Prewarm!Submit(r, k)
  PROVE  JobsInv'
<1>1. /\ run[r].pc = "loop" /\ k \in run[r].todo /\ UNCHANGED <<disk, active, call, left>>
      /\ run' = [run EXCEPT ![r].todo = @ \ {k}, ![r].out = @ \cup {k}]
  BY DEF Prewarm!Submit
<1>2. DOMAIN run[r] = RunFields /\ DOMAIN run = Prewarm!Runs BY DEF JobsInv, RunsSound, RunSound
<1>3. /\ DOMAIN run' = Prewarm!Runs /\ \A q \in Prewarm!Runs \ {r} : run'[q] = run[q]
      /\ DOMAIN run'[r] = RunFields /\ run'[r].pc = "loop" /\ run'[r].job = run[r].job
      /\ run'[r].todo = run[r].todo \ {k} /\ run'[r].out = run[r].out \cup {k}
      /\ run'[r].got = run[r].got /\ run'[r].done = run[r].done /\ run'[r].failed = run[r].failed
      /\ run'[r].stop = run[r].stop /\ run'[r].final = run[r].final
  BY <1>1, <1>2 DEF RunFields
<1>4. ASSUME AtWork(run[r], disk.job[run[r].job].log, disk.tiles)
      PROVE  AtWork(run'[r], disk.job[run[r].job].log, disk'.tiles)
  <2>1. Ahead(run'[r]) = Ahead(run[r]) BY <1>1, <1>3 DEF Ahead
  <2>2. Apart(run'[r]) BY <1>1, <1>3, <1>4, <2>1 DEF AtWork, Apart
  <2>3. Counts(run'[r], disk.job[run[r].job].log) BY <1>1, <1>3, <1>4, <2>1 DEF AtWork, Counts
  <2> QED BY <1>1, <1>3, <1>4, <2>2, <2>3 DEF AtWork
<1> QED BY <1>1, <1>3, <1>4, RunOnlyKeeps

LEMMA LeaveKeeps == ASSUME JobsInv, NEW r \in Prewarm!Runs, Prewarm!Leave(r) PROVE JobsInv'
<1>1. /\ run[r].pc = "loop" /\ run' = [run EXCEPT ![r].pc = "drain"] /\ UNCHANGED <<disk, active, call, left>>
      /\ run[r].stop \/ (run[r].todo = {} /\ run[r].out = {} /\ run[r].got = {})
  BY DEF Prewarm!Leave
<1>2. DOMAIN run[r] = RunFields /\ DOMAIN run = Prewarm!Runs BY DEF JobsInv, RunsSound, RunSound
<1>3. /\ DOMAIN run' = Prewarm!Runs /\ \A q \in Prewarm!Runs \ {r} : run'[q] = run[q]
      /\ DOMAIN run'[r] = RunFields /\ run'[r].pc = "drain" /\ run'[r].job = run[r].job
      /\ run'[r].todo = run[r].todo /\ run'[r].out = run[r].out
      /\ run'[r].got = run[r].got /\ run'[r].done = run[r].done /\ run'[r].failed = run[r].failed
      /\ run'[r].stop = run[r].stop /\ run'[r].final = run[r].final
  BY <1>1, <1>2 DEF RunFields
<1>4. ASSUME AtWork(run[r], disk.job[run[r].job].log, disk.tiles)
      PROVE  AtWork(run'[r], disk.job[run[r].job].log, disk'.tiles)
  <2>1. Ahead(run'[r]) = Ahead(run[r]) BY <1>3 DEF Ahead
  <2>2. ~run[r].stop => Ahead(run[r]) = {} BY <1>1 DEF Ahead, KeysIn
  <2>3. Apart(run'[r]) /\ Counts(run'[r], disk.job[run[r].job].log)
    BY <1>1, <1>3, <1>4, <2>1 DEF AtWork, Apart, Counts
  <2> QED BY <1>1, <1>3, <1>4, <2>1, <2>2, <2>3 DEF AtWork
<1> QED BY <1>1, <1>3, <1>4, RunOnlyKeeps

\* A worker's result, and its tile.
LEMMA FetchKeeps ==
  ASSUME JobsInv, NEW r \in Prewarm!Runs, NEW k \in Tiles, NEW how \in {"ok", "failed", "aborted"},
         Prewarm!Fetch(r, k, how)
  PROVE  JobsInv'
<1>1. /\ run[r].pc \in {"loop", "drain"} /\ k \in run[r].out /\ UNCHANGED <<active, call, left>>
      /\ run' = [run EXCEPT ![r].out = @ \ {k}, ![r].got = @ \cup {<<k, how>>}]
      /\ disk' = IF how = "ok" THEN [disk EXCEPT !.tiles = @ \cup {k}] ELSE disk
  BY DEF Prewarm!Fetch
<1>2. /\ DOMAIN run[r] = RunFields /\ DOMAIN run = Prewarm!Runs
      /\ disk.tiles \subseteq disk'.tiles /\ (how = "ok" => k \in disk'.tiles)
  BY <1>1 DEF JobsInv, RunsSound, RunSound, DiskSound
<1>3. /\ DOMAIN run' = Prewarm!Runs /\ \A q \in Prewarm!Runs \ {r} : run'[q] = run[q]
      /\ DOMAIN run'[r] = RunFields /\ run'[r].pc = run[r].pc /\ run'[r].job = run[r].job
      /\ run'[r].todo = run[r].todo /\ run'[r].out = run[r].out \ {k}
      /\ run'[r].got = run[r].got \cup {<<k, how>>}
      /\ run'[r].done = run[r].done /\ run'[r].failed = run[r].failed
      /\ run'[r].stop = run[r].stop /\ run'[r].final = run[r].final
  BY <1>1, <1>2 DEF RunFields
<1>4. ASSUME AtWork(run[r], disk.job[run[r].job].log, disk.tiles)
      PROVE  AtWork(run'[r], disk.job[run[r].job].log, disk'.tiles)
  <2>1. PICK got, taken : got = run[r].got /\ taken = run'[r].got
    OBVIOUS
  <2>6. taken = got \cup {<<k, how>>} /\ KeysIn(taken) = KeysIn(got) \cup {k}
    <3>1. taken = got \cup {<<k, how>>} BY <1>3, <2>1
    <3>2. KeysIn(got \cup {<<k, how>>}) = KeysIn(got) \cup {k} BY KeysOfResults
    <3> QED BY <3>1, <3>2
  <2>2. Ahead(run'[r]) = Ahead(run[r]) BY <1>1, <1>3, <2>1, <2>6, SMTT(20) DEF Ahead
  <2>3. Apart(run'[r])
    <3>1. Apart(run[r]) BY <1>4 DEF AtWork
    <3>2. k \notin KeysIn(got) BY <1>1, <2>1, <3>1 DEF Apart
    <3>3. \A x, y \in taken : x[1] = y[1] => x = y
      <4>1. \A x \in got : x[1] \in KeysIn(got) BY DEF KeysIn
      <4>2. <<k, how>>[1] = k OBVIOUS
      <4> QED BY <2>1, <2>6, <3>1, <3>2, <4>1, <4>2 DEF Apart
    <3>4. Ahead(run'[r]) \subseteq Tasks[run'[r].job] BY <1>3, <2>2, <3>1 DEF Apart
    <3>5. taken \subseteq Tiles \X {"ok", "failed", "aborted"}
      <4>1. <<k, how>> \in Tiles \X {"ok", "failed", "aborted"} OBVIOUS
      <4> QED BY <2>1, <2>6, <3>1, <4>1 DEF Apart
    <3>6. /\ run[r].todo \cap KeysIn(taken) = {} /\ (run[r].out \ {k}) \cap KeysIn(taken) = {}
          /\ run[r].todo \cap (run[r].out \ {k}) = {}
      <4>1. /\ run[r].todo \cap run[r].out = {} /\ run[r].todo \cap KeysIn(got) = {}
            /\ run[r].out \cap KeysIn(got) = {} /\ k \in run[r].out
        BY <1>1, <2>1, <3>1 DEF Apart
      <4> QED BY <2>6, <4>1
    <3> QED BY <1>3, <2>1, <3>3, <3>4, <3>5, <3>6 DEF Apart
  <2>4. Counts(run'[r], disk.job[run[r].job].log) BY <1>1, <1>3, <1>4, <2>2 DEF AtWork, Counts
  <2>5. \A t \in Tiles : <<t, "ok">> \in run'[r].got => t \in disk'.tiles
    BY <1>2, <1>3, <1>4 DEF AtWork
  <2> QED BY <1>1, <1>3, <1>4, <2>2, <2>3, <2>4, <2>5 DEF AtWork
<1>5. disk' = disk \/ \E t \in Tiles : disk' = [disk EXCEPT !.tiles = @ \cup {t}]
  BY <1>1
<1> QED BY <1>1, <1>3, <1>4, <1>5, RunOnlyKeeps

\* A result is counted: when it is a tile, it is logged and counted with the others.
LEMMA CountsOn ==
  ASSUME NEW q, NEW p, NEW k, NEW how, NEW log, q.job \in Jobs, p.job = q.job, <<k, how>> \in q.got,
         Counts(q, log), Apart(q), q.failed \in Nat,
         p.todo = q.todo, p.out = q.out, p.got = q.got \ {<<k, how>>}, ~p.stop => ~q.stop,
         p.done = IF how = "ok" THEN q.done + 1 ELSE q.done,
         p.failed = IF how = "ok" THEN q.failed ELSE q.failed + 1
  PROVE  Counts(p, IF how = "ok" THEN log \cup {k} ELSE log)
<1>1. PICK got : got = q.got
  OBVIOUS
<1>2. k \in KeysIn(got) /\ KeysIn(got \ {<<k, how>>}) \subseteq KeysIn(got)
  BY <1>1, KeysOfResults
<1>3. KeysIn(got) \subseteq KeysIn(got \ {<<k, how>>}) \cup {k} BY KeysOfResults
<1>4. k \notin KeysIn(got \ {<<k, how>>}) BY <1>1, KeysOfResults DEF Apart
<1>5. /\ Ahead(p) \subseteq Ahead(q) /\ Ahead(q) \subseteq Ahead(p) \cup {k} /\ k \in Ahead(q)
      /\ k \notin Ahead(p)
  BY <1>1, <1>2, <1>3, <1>4 DEF Ahead, Apart
<1>6. k \in Tasks[q.job] BY <1>5 DEF Apart
<1>7. PICK counted \in SUBSET (log \cap Tasks[q.job]) :
        /\ Cardinality(counted) = q.done /\ counted \cap Ahead(q) = {}
        /\ q.failed = 0 /\ ~q.stop => Tasks[q.job] \subseteq counted \cup Ahead(q)
  BY DEF Counts
<1>8. CASE how = "ok"
  <2>1. Cardinality(counted \cup {k}) = p.done
    BY <1>5, <1>7, <1>8, TasksFinite, FS_AddElement
  <2>2. counted \cup {k} \in SUBSET ((log \cup {k}) \cap Tasks[p.job]) BY <1>6, <1>7
  <2>3. (counted \cup {k}) \cap Ahead(p) = {} BY <1>5, <1>7
  <2>4. p.failed = 0 /\ ~p.stop => Tasks[p.job] \subseteq (counted \cup {k}) \cup Ahead(p)
    BY <1>5, <1>7, <1>8
  <2> QED BY <1>8, <2>1, <2>2, <2>3, <2>4 DEF Counts
<1>9. CASE how # "ok"
  <2>1. p.failed # 0 BY <1>9
  <2> QED BY <1>5, <1>7, <1>9, <2>1 DEF Counts
<1> QED BY <1>8, <1>9

\* With a result taken out, what lies ahead stays apart.
LEMMA ApartOn ==
  ASSUME NEW q, NEW p, NEW k, NEW how, p.job = q.job, Apart(q),
         p.todo = q.todo, p.out = q.out, p.got = q.got \ {<<k, how>>}
  PROVE  Apart(p) /\ Ahead(p) \subseteq Ahead(q)
<1>1. PICK got : got = q.got
  OBVIOUS
<1>2. KeysIn(got \ {<<k, how>>}) \subseteq KeysIn(got) BY KeysOfResults
<1>3. Ahead(p) \subseteq Ahead(q) BY <1>1, <1>2 DEF Ahead
<1>4. p.todo \cap KeysIn(p.got) = {} /\ p.out \cap KeysIn(p.got) = {} BY <1>1, <1>2 DEF Apart
<1> QED BY <1>3, <1>4 DEF Apart

\* A result is looked at.
LEMMA TakeKeeps ==
  ASSUME JobsInv, NEW r \in Prewarm!Runs, NEW k \in Tiles, NEW how \in {"ok", "failed", "aborted"},
         Prewarm!Take(r, k, how)
  PROVE  JobsInv'
<1>1. PICK j, w : j = run[r].job /\ w = Prewarm!Slide(run[r].window, how = "ok")
  OBVIOUS
<1>2. run[r].pc = "loop" /\ <<k, how>> \in run[r].got /\ UNCHANGED <<active, call, left>>
  BY DEF Prewarm!Take
<1>3. /\ DiskSound /\ RunSound(r) /\ DOMAIN run[r] = RunFields /\ DOMAIN run = Prewarm!Runs
      /\ j \in Jobs /\ JobSound(j)
  BY <1>1, <1>2 DEF JobsInv, RunsSound, RunSound, Working, DiskSound
<1>4. CASE how = "aborted"
  <2>1. disk' = disk /\ run' = [run EXCEPT ![r].got = @ \ {<<k, how>>}, ![r].stop = TRUE]
    BY <1>4 DEF Prewarm!Take
  <2>2. /\ DOMAIN run' = Prewarm!Runs /\ \A q \in Prewarm!Runs \ {r} : run'[q] = run[q]
        /\ DOMAIN run'[r] = RunFields /\ run'[r].pc = "loop" /\ run'[r].job = run[r].job
        /\ run'[r].todo = run[r].todo /\ run'[r].out = run[r].out /\ run'[r].stop
        /\ run'[r].got = run[r].got \ {<<k, how>>} /\ run'[r].done = run[r].done
        /\ run'[r].failed = run[r].failed /\ run'[r].final = run[r].final
    BY <1>2, <1>3, <2>1 DEF RunFields
  <2>3. ASSUME AtWork(run[r], disk.job[run[r].job].log, disk.tiles)
        PROVE  AtWork(run'[r], disk.job[run[r].job].log, disk'.tiles)
    <3>1. Apart(run'[r]) /\ Ahead(run'[r]) \subseteq Ahead(run[r])
      BY <2>2, <2>3, ApartOn DEF AtWork
    <3>2. Counts(run'[r], disk.job[run[r].job].log)
      BY <1>2, <2>2, <2>3, <3>1 DEF AtWork, Counts
    <3> QED BY <2>1, <2>2, <2>3, <3>1, <3>2 DEF AtWork
  <2> QED BY <1>2, <2>1, <2>2, <2>3, RunOnlyKeeps
<1>5. CASE how # "aborted" /\ disk.job[j].state = "none"
  <2>1. disk' = disk /\ run' = [run EXCEPT ![r].pc = "drain"]
    BY <1>1, <1>5 DEF Prewarm!Take
  <2>2. /\ DOMAIN run' = Prewarm!Runs /\ \A q \in Prewarm!Runs \ {r} : run'[q] = run[q]
        /\ DOMAIN run'[r] = RunFields /\ run'[r].pc = "drain" /\ run'[r].job = run[r].job
    BY <1>3, <2>1 DEF RunFields
  <2> QED BY <1>1, <1>2, <1>5, <2>1, <2>2, RunOnlyKeeps
<1>6. CASE how # "aborted" /\ disk.job[j].state # "none"
  <2>1. /\ run' = [run EXCEPT ![r].got = @ \ {<<k, how>>}, ![r].window = w,
                     ![r].done = IF how = "ok" THEN @ + 1 ELSE @,
                     ![r].failed = IF how = "ok" THEN @ ELSE @ + 1,
                     ![r].stop = @ \/ Prewarm!MassFailure(w),
                     ![r].final = IF Prewarm!MassFailure(w) THEN "paused" ELSE @,
                     ![r].pc = IF Prewarm!MassFailure(w) THEN "drain" ELSE @]
        /\ disk' = [disk EXCEPT !.job[j].state = "running",
                      !.job[j].log = IF how = "ok" THEN @ \cup {k} ELSE @,
                      !.job[j].failed = IF how = "ok" THEN @ ELSE run[r].failed + 1]
    BY <1>1, <1>6 DEF Prewarm!Take
  <2>2. /\ DOMAIN run' = Prewarm!Runs /\ \A q \in Prewarm!Runs \ {r} : run'[q] = run[q]
        /\ DOMAIN run'[r] = RunFields /\ run'[r].job = j
        /\ run'[r].todo = run[r].todo /\ run'[r].out = run[r].out
        /\ run'[r].got = run[r].got \ {<<k, how>>}
        /\ run'[r].done = IF how = "ok" THEN run[r].done + 1 ELSE run[r].done
        /\ run'[r].failed = IF how = "ok" THEN run[r].failed ELSE run[r].failed + 1
    <3>1. /\ DOMAIN run' = Prewarm!Runs /\ \A q \in Prewarm!Runs \ {r} : run'[q] = run[q]
          /\ DOMAIN run'[r] = RunFields
      BY <1>3, <2>1
    <3>2. run'[r].job = run[r].job BY <1>3, <2>1 DEF RunFields
    <3>5. run'[r].todo = run[r].todo BY <1>3, <2>1 DEF RunFields
    <3>6. run'[r].out = run[r].out BY <1>3, <2>1 DEF RunFields
    <3>7. run'[r].got = run[r].got \ {<<k, how>>} BY <1>3, <2>1 DEF RunFields
    <3>3. run'[r].done = IF how = "ok" THEN run[r].done + 1 ELSE run[r].done
      BY <1>3, <2>1 DEF RunFields
    <3>4. run'[r].failed = IF how = "ok" THEN run[r].failed ELSE run[r].failed + 1
      BY <1>3, <2>1 DEF RunFields
    <3> QED BY <1>1, <3>1, <3>2, <3>3, <3>4, <3>5, <3>6, <3>7
  <2>3. run'[r].pc = "loop" \/ (run'[r].pc = "drain" /\ run'[r].final = "paused")
    BY <1>2, <1>3, <2>1 DEF RunFields
  <2>4. (~run'[r].stop => ~run[r].stop) /\ (run'[r].final = run[r].final \/ run'[r].final = "paused")
    <3>1. run'[r].stop = (run[r].stop \/ Prewarm!MassFailure(w)) BY <1>3, <2>1 DEF RunFields
    <3>2. run'[r].final = IF Prewarm!MassFailure(w) THEN "paused" ELSE run[r].final
      BY <1>3, <2>1 DEF RunFields
    <3>3. ~run'[r].stop => ~run[r].stop BY <3>1
    <3> QED BY <3>2, <3>3
  <2>5. /\ DOMAIN disk' = DOMAIN disk /\ DOMAIN disk'.job = Jobs /\ disk'.tiles = disk.tiles
        /\ \A i \in Jobs \ {j} : disk'.job[i] = disk.job[i]
        /\ DOMAIN disk'.job[j] = JobFields /\ disk'.job[j].state = "running"
        /\ disk'.job[j].log = IF how = "ok" THEN disk.job[j].log \cup {k} ELSE disk.job[j].log
        /\ disk'.job[j].failed = IF how = "ok" THEN disk.job[j].failed ELSE run[r].failed + 1
    BY <1>3, <2>1 DEF DiskSound, JobSound, JobFields
  <2>6. AtWork(run[r], disk.job[j].log, disk.tiles)
    BY <1>1, <1>2, <1>3, <1>6 DEF RunSound, Working
  <2>7. Apart(run'[r]) /\ Ahead(run'[r]) \subseteq Ahead(run[r])
    BY <1>1, <2>2, <2>6, ApartOn DEF AtWork
  <2>8. Counts(run'[r], disk'.job[j].log)
    <3>1. Counts(run[r], disk.job[j].log) /\ Apart(run[r]) /\ run[r].failed \in Nat
      BY <1>2, <2>6 DEF AtWork
    <3>2. Counts(run'[r], IF how = "ok" THEN disk.job[j].log \cup {k} ELSE disk.job[j].log)
      BY <1>1, <1>2, <1>3, <2>2, <2>4, <3>1, CountsOn
    <3> QED BY <2>5, <3>2
  <2>9. k \in Tasks[j] /\ (how = "ok" => k \in disk.tiles)
    <3>1. PICK got : got = run[r].got
      OBVIOUS
    <3>2. k \in KeysIn(got) BY <1>2, <3>1, KeysOfResults
    <3> QED BY <1>1, <1>2, <2>6, <3>1, <3>2 DEF AtWork, Apart, Ahead
  <2>10. DiskSound'
    <3>1. JobSound(j)' BY <1>3, <2>5, <2>6, <2>9 DEF JobSound, AtWork
    <3> QED BY <1>3, <2>5, <3>1, DiskStep DEF DiskSound
  <2>11. AtWork(run'[r], disk'.job[j].log, disk'.tiles)
    <3>1. run'[r].failed \in Nat /\ run'[r].final \in {"completed", "paused"}
      BY <2>2, <2>4, <2>6 DEF AtWork
    <3>2. \A t \in Tiles : <<t, "ok">> \in run'[r].got => t \in disk'.tiles
      BY <2>2, <2>5, <2>6 DEF AtWork
    <3> QED BY <2>3, <2>7, <2>8, <3>1, <3>2 DEF AtWork
  <2>12. RunSound(r)' BY <1>1, <1>3, <2>2, <2>3, <2>5, <2>11 DEF RunSound, Working
  <2>13. ActiveTyped' BY <1>2 DEF JobsInv, ActiveTyped
  <2>14. \A i \in Jobs : /\ disk.job[i].state = "none" <=> disk'.job[i].state = "none"
                         /\ disk.job[i].log \subseteq disk'.job[i].log
    BY <1>6, <2>5
  <2> QED BY <1>1, <1>2, <2>2, <2>5, <2>10, <2>12, <2>13, <2>14, RunStepKeeps
<1> QED BY <1>4, <1>5, <1>6

\* The last state of a run is written: a job is called completed when all its tiles are there.
LEMMA CompletedIsEarned ==
  ASSUME JobsInv, NEW r \in Prewarm!Runs, run[r].pc = "drain", run[r].out = {}, run[r].job \in Jobs,
         disk.job[run[r].job].state # "none", Prewarm!Final(r) = "completed"
  PROVE  Tasks[run[r].job] \subseteq disk.tiles
<1>1. PICK j, S : j = run[r].job /\ S = Tasks[j]
  OBVIOUS
<1>2. AtWork(run[r], disk.job[j].log, disk.tiles) /\ disk.job[j].log \subseteq disk.tiles
  BY <1>1 DEF JobsInv, RunsSound, RunSound, Working, DiskSound, JobSound
<1>3. run[r].final = "completed" /\ ~run[r].stop BY <1>2 DEF Prewarm!Final, AtWork
<1>4. ~(run[r].failed > 0 /\ run[r].done < Cardinality(S))
  BY <1>1, <1>3, SameSizes DEF Prewarm!Final
<1>5. PICK counted \in SUBSET (disk.job[j].log \cap S) :
        /\ Cardinality(counted) = run[r].done /\ counted \cap Ahead(run[r]) = {}
        /\ run[r].failed = 0 /\ ~run[r].stop => S \subseteq counted \cup Ahead(run[r])
  BY <1>1, <1>2 DEF AtWork, Counts
<1>6. CASE run[r].failed = 0
  <2>1. Ahead(run[r]) = {} BY <1>2, <1>3 DEF AtWork
  <2> QED BY <1>1, <1>2, <1>3, <1>5, <1>6, <2>1
<1>7. CASE run[r].failed # 0
  <2>1. IsFiniteSet(S) /\ counted \in SUBSET S BY <1>1, <1>5, TasksFinite
  <2>2. Cardinality(counted) \in Nat /\ Cardinality(S) \in Nat
    BY <2>1, FS_CardinalityType, FS_Subset
  <2>3. run[r].failed > 0 BY <1>2, <1>7 DEF AtWork
  <2>4. Cardinality(S) <= Cardinality(counted) BY <1>4, <1>5, <2>2, <2>3
  <2>5. counted = S BY <2>1, <2>2, <2>4, FS_Subset
  <2> QED BY <1>1, <1>2, <1>5, <2>5
<1> QED BY <1>6, <1>7

LEMMA FinishKeeps == ASSUME JobsInv, NEW r \in Prewarm!Runs, Prewarm!Finish(r) PROVE JobsInv'
<1>1. PICK j : j = run[r].job
  OBVIOUS
<1>2. run[r].pc = "drain" /\ run[r].out = {} /\ UNCHANGED <<active, call, left>>
  BY DEF Prewarm!Finish
<1>3. /\ DiskSound /\ RunSound(r) /\ DOMAIN run[r] = RunFields /\ DOMAIN run = Prewarm!Runs
      /\ j \in Jobs /\ JobSound(j)
  BY <1>1, <1>2 DEF JobsInv, RunsSound, RunSound, Working, DiskSound
<1>4. ActiveTyped' BY <1>2 DEF JobsInv, ActiveTyped
<1>5. CASE disk.job[j].state = "none"
  <2>1. disk' = disk /\ run' = [run EXCEPT ![r].pc = "dead"]
    BY <1>1, <1>5 DEF Prewarm!Finish
  <2>2. /\ DOMAIN run' = Prewarm!Runs /\ \A q \in Prewarm!Runs \ {r} : run'[q] = run[q]
        /\ DOMAIN run'[r] = RunFields /\ run'[r].pc = "dead" /\ run'[r].job = j
    BY <1>1, <1>3, <2>1 DEF RunFields
  <2>3. RunSound(r)' BY <1>3, <1>5, <2>1, <2>2 DEF RunSound, Working
  <2>4. DiskSound' BY <1>3, <2>1 DEF DiskSound, JobSound
  <2> QED BY <1>1, <1>2, <1>4, <2>1, <2>2, <2>3, <2>4, RunStepKeeps
<1>6. CASE disk.job[j].state # "none"
  <2>1. /\ run' = [run EXCEPT ![r].pc = "unlock", ![r].running = FALSE]
        /\ disk' = [disk EXCEPT !.job[j].state = Prewarm!Final(r), !.job[j].failed = run[r].failed]
    BY <1>1, <1>6 DEF Prewarm!Finish
  <2>2. /\ DOMAIN run' = Prewarm!Runs /\ \A q \in Prewarm!Runs \ {r} : run'[q] = run[q]
        /\ DOMAIN run'[r] = RunFields /\ run'[r].pc = "unlock" /\ run'[r].job = j
        /\ ~run'[r].running
    BY <1>1, <1>3, <2>1 DEF RunFields
  <2>3. /\ DOMAIN disk' = DOMAIN disk /\ DOMAIN disk'.job = Jobs /\ disk'.tiles = disk.tiles
        /\ \A i \in Jobs \ {j} : disk'.job[i] = disk.job[i]
        /\ DOMAIN disk'.job[j] = JobFields /\ disk'.job[j].state = Prewarm!Final(r)
        /\ disk'.job[j].log = disk.job[j].log /\ disk'.job[j].failed = run[r].failed
    BY <1>3, <2>1 DEF DiskSound, JobSound, JobFields
  <2>4. AtWork(run[r], disk.job[j].log, disk.tiles)
    BY <1>1, <1>2, <1>3, <1>6 DEF RunSound, Working
  <2>5. Prewarm!Final(r) # "none" BY <2>4 DEF Prewarm!Final, AtWork
  <2>6. JobSound(j)'
    BY <1>1, <1>2, <1>3, <1>6, <2>3, <2>4, CompletedIsEarned DEF JobSound, AtWork
  <2>7. DiskSound' BY <1>3, <2>3, <2>6, DiskStep DEF DiskSound
  <2>8. RunSound(r)' BY <1>3, <2>2 DEF RunSound, Working
  <2>9. \A i \in Jobs : /\ disk.job[i].state = "none" <=> disk'.job[i].state = "none"
                        /\ disk.job[i].log \subseteq disk'.job[i].log
    BY <1>6, <2>3, <2>5
  <2> QED BY <1>1, <1>2, <1>4, <2>2, <2>3, <2>7, <2>8, <2>9, RunStepKeeps
<1> QED BY <1>5, <1>6

\* A run that has written its last state only gives up its lock and its place.
LEMMA EndOfRunKeeps ==
  ASSUME JobsInv, NEW r \in Prewarm!Runs,
         Prewarm!Unlock(r) \/ Prewarm!Unlink(r) \/ Prewarm!Pop(r)
  PROVE  JobsInv'
<1>1. PICK j : j = run[r].job
  OBVIOUS
<1>2. /\ run[r].pc \in {"unlock", "unlink", "pop"} /\ UNCHANGED <<call, left>>
      /\ \E next \in {"unlink", "pop", "gone"} : run' = [run EXCEPT ![r].pc = next]
  BY DEF Prewarm!Unlock, Prewarm!Unlink, Prewarm!Pop
<1>3. /\ DiskSound /\ RunSound(r) /\ DOMAIN run[r] = RunFields /\ DOMAIN run = Prewarm!Runs
      /\ j \in Jobs /\ JobSound(j)
  BY <1>1, <1>2 DEF JobsInv, RunsSound, RunSound, DiskSound
<1>4. /\ DOMAIN run' = Prewarm!Runs /\ \A q \in Prewarm!Runs \ {r} : run'[q] = run[q]
      /\ DOMAIN run'[r] = RunFields /\ run'[r].pc \in {"unlink", "pop", "gone"}
      /\ run'[r].job = j /\ run'[r].running = run[r].running
  BY <1>1, <1>2, <1>3 DEF RunFields
<1>5. /\ DOMAIN disk' = DOMAIN disk /\ DOMAIN disk'.job = Jobs /\ disk'.tiles = disk.tiles
      /\ \A i \in Jobs \ {j} : disk'.job[i] = disk.job[i]
      /\ DOMAIN disk'.job[j] = JobFields /\ disk'.job[j].state = disk.job[j].state
      /\ disk'.job[j].log = disk.job[j].log /\ disk'.job[j].failed = disk.job[j].failed
  <2>1. CASE Prewarm!Unlock(r)
    <3>1. disk' = [disk EXCEPT !.job[j].holder = IF @ = r THEN 0 ELSE @]
      BY <1>1, <2>1 DEF Prewarm!Unlock
    <3> QED BY <1>3, <3>1 DEF DiskSound, JobSound, JobFields
  <2>2. CASE Prewarm!Unlink(r)
    <3>1. disk' = [disk EXCEPT !.job[j].lock = FALSE, !.job[j].holder = 0]
      BY <1>1, <2>2 DEF Prewarm!Unlink
    <3> QED BY <1>3, <3>1 DEF DiskSound, JobSound, JobFields
  <2>3. CASE Prewarm!Pop(r)
    <3>1. disk' = disk BY <2>3 DEF Prewarm!Pop
    <3> QED BY <1>3, <3>1 DEF DiskSound, JobSound
  <2> QED BY <2>1, <2>2, <2>3
<1>6. DiskSound'
  <2>1. JobSound(j)' BY <1>3, <1>5 DEF JobSound
  <2> QED BY <1>3, <1>5, <2>1, DiskStep DEF DiskSound
<1>7. RunSound(r)' BY <1>2, <1>3, <1>4 DEF RunSound, Working
<1>8. ActiveTyped'
  <2>1. active' = active \/ active' = [active EXCEPT ![j] = 0]
    BY <1>1 DEF Prewarm!Unlock, Prewarm!Unlink, Prewarm!Pop
  <2> QED BY <2>1 DEF JobsInv, ActiveTyped
<1>9. \A i \in Jobs : /\ disk.job[i].state = "none" <=> disk'.job[i].state = "none"
                      /\ disk.job[i].log \subseteq disk'.job[i].log
  BY <1>5
<1>10. (run[r].pc = "created" => run'[r].pc = "created") /\ run'[r].job = run[r].job
  BY <1>1, <1>2, <1>4
<1>11. UNCHANGED <<call, left>> /\ disk.tiles \subseteq disk'.tiles BY <1>2, <1>5
<1>12. DOMAIN run' = Prewarm!Runs /\ \A q \in Prewarm!Runs \ {r} : run'[q] = run[q] BY <1>4
<1> QED BY <1>6, <1>7, <1>8, <1>9, <1>10, <1>11, <1>12, RunStepKeeps

-----------------------------------------------------------------------------
(* Downloads: the requests, a crash and the clearing of the cache.         *)

\* Only the requests change, and none is made that starts, launches or clears.
LEMMA CallsOnly ==
  ASSUME JobsInv, UNCHANGED <<disk, active, run, left>>, CallsSound'
  PROVE  JobsInv'
BY DEF JobsInv, DiskSound, JobSound, RunsSound, RunSound, CallsSound, ActiveTyped

\* A request is replaced by another, and everybody stays absent who was.
LEMMA CallStep ==
  ASSUME CallsSound, NEW c \in Callers, UNCHANGED <<disk, run>>, DOMAIN call' = Callers,
         DOMAIN left' = DOMAIN left, left'.clears = left.clears, call[c].pc # "absent",
         \A d \in Callers \ {c} : call'[d] = call[d], CallSound(c)', call'[c].pc # "launch"
  PROVE  CallsSound'
<1>1. ASSUME NEW d \in Callers, d # c PROVE CallSound(d)'
  BY <1>1 DEF CallsSound, CallSound
<1>2. left'.clears => \A d, e \in Callers : call'[d].pc = "absent" \/ call'[e].pc = "absent" \/ d = e
  BY DEF CallsSound
<1> QED BY <1>1, <1>2 DEF CallsSound

\* A request to start or to resume a job.
LEMMA StartKeeps ==
  ASSUME JobsInv, NEW c \in Callers, NEW j \in Jobs, Prewarm!StartCall(c, j) \/ Prewarm!ResumeCall(c, j)
  PROVE  JobsInv'
<1>1. /\ call[c].pc = "idle" /\ UNCHANGED <<disk, active, run, left>>
      /\ call' = [call EXCEPT ![c] = [Prewarm!NoCall EXCEPT !.pc = "create", !.job = j]]
      /\ disk.job[j].state = "none" => \A r \in Prewarm!Runs : run[r].job # j
  BY DEF Prewarm!StartCall, Prewarm!ResumeCall
<1>2. /\ DOMAIN call' = Callers /\ DOMAIN call'[c] = {"pc", "job", "run"}
      /\ call'[c].pc = "create" /\ call'[c].job = j /\ \A d \in Callers \ {c} : call'[d] = call[d]
  BY <1>1 DEF JobsInv, CallsSound, Prewarm!NoCall
<1>3. CallSound(c)' BY <1>1, <1>2 DEF CallSound
<1>4. CallsSound' BY <1>1, <1>2, <1>3, CallStep DEF JobsInv
<1> QED BY <1>1, <1>4, CallsOnly

\* A request ends, or waits to clear the cache, or the status is shown.
LEMMA ShowKeeps ==
  ASSUME JobsInv, NEW c \in Callers, Prewarm!Show(c) \/ Prewarm!ClearCall(c)
  PROVE  JobsInv'
<1>1. /\ call[c].pc \in {"show", "idle"} /\ UNCHANGED <<disk, active, run>>
      /\ left' = left \/ left' = [left EXCEPT !.events = @ - 1]
      /\ \/ call' = [call EXCEPT ![c] = Prewarm!NoCall]
         \/ left.clears /\ call' = [call EXCEPT ![c].pc = "clear"]
  BY DEF Prewarm!Show, Prewarm!ClearCall, Prewarm!Spend
<1>2. DOMAIN left' = DOMAIN left /\ left'.clears = left.clears
  BY <1>1 DEF JobsInv, CallsSound
<1>3. /\ DOMAIN call' = Callers /\ DOMAIN call'[c] = {"pc", "job", "run"}
      /\ \A d \in Callers \ {c} : call'[d] = call[d]
      /\ call'[c].pc = "idle" \/ (call'[c].pc = "clear" /\ left.clears)
  BY <1>1 DEF JobsInv, CallsSound, CallSound, Prewarm!NoCall
<1>4. CallSound(c)' BY <1>2, <1>3 DEF CallSound
<1>5. CallsSound' BY <1>1, <1>2, <1>3, <1>4, CallStep DEF JobsInv
<1> QED BY <1>1, <1>5 DEF JobsInv, DiskSound, JobSound, RunsSound, RunSound, ActiveTyped

\* The job's files are made, or opened again, and the run with them.
LEMMA CreateKeeps ==
  ASSUME JobsInv, NEW c \in Callers, NEW r \in Prewarm!Runs, Prewarm!Create(c, r)
  PROVE  JobsInv'
<1>1. PICK j : j = call[c].job
  OBVIOUS
<1>2. call[c].pc = "create" /\ run[r].pc = "none" /\ UNCHANGED <<active, left>>
  BY DEF Prewarm!Create
<1>3. /\ DiskSound /\ CallsSound /\ CallSound(c) /\ DOMAIN run = Prewarm!Runs
      /\ DOMAIN call = Callers /\ DOMAIN call[c] = {"pc", "job", "run"} /\ j \in Jobs /\ JobSound(j)
  BY <1>1, <1>2 DEF JobsInv, RunsSound, CallsSound, CallSound, DiskSound
<1>4. CASE disk.job[j].holder # 0
  <2>1. call' = [call EXCEPT ![c] = Prewarm!NoCall] /\ UNCHANGED <<disk, run>>
    BY <1>1, <1>4 DEF Prewarm!Create
  <2>2. /\ DOMAIN call' = Callers /\ DOMAIN call'[c] = {"pc", "job", "run"} /\ call'[c].pc = "idle"
        /\ \A d \in Callers \ {c} : call'[d] = call[d]
    BY <1>3, <2>1 DEF Prewarm!NoCall
  <2>3. CallSound(c)' BY <2>2 DEF CallSound
  <2>4. CallsSound' BY <1>2, <1>3, <2>1, <2>2, <2>3, CallStep
  <2> QED BY <1>2, <2>1, <2>4, CallsOnly
<1>5. CASE disk.job[j].holder = 0
  <2>1. /\ disk' = [disk EXCEPT !.job[j].lock = TRUE, !.job[j].holder = r, !.job[j].state = "running"]
        /\ run' = [run EXCEPT ![r] = [Prewarm!NoRun EXCEPT !.pc = "created", !.job = j,
                                                          !.failed = disk.job[j].failed]]
        /\ call' = [call EXCEPT ![c].pc = "launch", ![c].run = r]
    BY <1>1, <1>5 DEF Prewarm!Create
  <2>2. /\ DOMAIN disk' = DOMAIN disk /\ DOMAIN disk'.job = Jobs /\ disk'.tiles = disk.tiles
        /\ \A i \in Jobs \ {j} : disk'.job[i] = disk.job[i]
        /\ DOMAIN disk'.job[j] = JobFields /\ disk'.job[j].state = "running"
        /\ disk'.job[j].log = disk.job[j].log /\ disk'.job[j].failed = disk.job[j].failed
    BY <1>3, <2>1 DEF DiskSound, JobSound, JobFields
  <2>3. /\ DOMAIN run' = Prewarm!Runs /\ \A q \in Prewarm!Runs \ {r} : run'[q] = run[q]
        /\ run'[r] = [Prewarm!NoRun EXCEPT !.pc = "created", !.job = j, !.failed = disk.job[j].failed]
    BY <1>3, <2>1
  <2>4. /\ DOMAIN run'[r] = RunFields /\ run'[r].pc = "created" /\ run'[r].job = j
        /\ run'[r].failed = disk.job[j].failed /\ run'[r].todo = {} /\ run'[r].out = {}
        /\ run'[r].got = {} /\ run'[r].done = 0 /\ run'[r].final = "completed" /\ ~run'[r].running
    BY <2>3 DEF Prewarm!NoRun, RunFields
  <2>5. /\ DOMAIN call' = Callers /\ DOMAIN call'[c] = {"pc", "job", "run"}
        /\ call'[c].pc = "launch" /\ call'[c].run = r /\ \A d \in Callers \ {c} : call'[d] = call[d]
    BY <1>3, <2>1
  <2>6. DiskSound'
    <3>1. JobSound(j)' BY <1>3, <2>2 DEF JobSound
    <3> QED BY <1>3, <2>2, <3>1, DiskStep DEF DiskSound
  <2>7. disk.job[j].state = "none" => \A q \in Prewarm!Runs : run[q].job # j
    BY <1>1, <1>2, <1>3 DEF CallSound
  <2>8. RunsSound'
    <3>1. Ahead(run'[r]) = {} /\ KeysIn(run'[r].got) = {} BY <2>4 DEF Ahead, KeysIn
    <3>2. AtWork(run'[r], disk'.job[j].log, disk'.tiles)
      <4>1. Apart(run'[r]) BY <2>4, <3>1 DEF Apart
      <4>2. run'[r].failed \in Nat BY <1>3, <2>4 DEF JobSound
      <4> QED BY <2>4, <3>1, <4>1, <4>2 DEF AtWork
    <3>3. RunSound(r)' BY <1>3, <2>2, <2>4, <3>2 DEF RunSound, Working
    <3>4. ASSUME NEW q \in Prewarm!Runs, q # r PROVE RunSound(q)'
      <4>1. run'[q] = run[q] BY <2>3, <3>4
      <4>2. ASSUME run[q].job \in Jobs
            PROVE  /\ disk.job[run[q].job].state = "none" <=> disk'.job[run[q].job].state = "none"
                   /\ disk.job[run[q].job].log \subseteq disk'.job[run[q].job].log
        BY <2>2, <2>7, <4>2
      <4> QED BY <2>2, <4>1, <4>2, OthersGoOn DEF JobsInv
    <3> QED BY <2>3, <3>3, <3>4 DEF RunsSound
  <2>9. CallsSound'
    <3>1. ASSUME NEW d \in Callers, call'[d].pc = "create" PROVE CallSound(d)'
      <4>1. d # c /\ call'[d] = call[d] /\ CallSound(d) BY <1>3, <2>5, <3>1 DEF CallsSound
      <4>2. ASSUME disk'.job[call[d].job].state = "none", NEW q \in Prewarm!Runs, call[d].job \in Jobs
            PROVE  run'[q].job # call[d].job
        <5>1. call[d].job # j /\ disk.job[call[d].job].state = "none" BY <2>2, <4>2
        <5>2. run[q].job # call[d].job BY <3>1, <4>1, <4>2, <5>1 DEF CallSound
        <5>3. run'[q].job = run[q].job \/ run'[q].job = j BY <2>3, <2>4
        <5> QED BY <5>1, <5>2, <5>3
      <4> QED BY <3>1, <4>1, <4>2 DEF CallSound
    <3>2. ASSUME NEW d \in Callers, d # c, call[d].pc = "launch" PROVE CallSound(d)' /\ call[d].run # r
      <4>1. call'[d] = call[d] /\ CallSound(d) BY <1>3, <2>5, <3>2 DEF CallsSound
      <4>2. call[d].run # r /\ run'[call[d].run] = run[call[d].run]
        BY <1>2, <2>3, <3>2, <4>1 DEF CallSound
      <4> QED BY <2>5, <3>2, <4>1, <4>2 DEF CallSound
    <3>3. CallSound(c)' BY <2>4, <2>5, <3>2 DEF CallSound
    <3>4. ASSUME NEW d \in Callers, d # c, call[d].pc \notin {"launch", "create"} PROVE CallSound(d)'
      BY <1>2, <1>3, <2>5, <3>4 DEF CallSound, CallsSound
    <3>5. left'.clears => \A d, e \in Callers : call'[d].pc = "absent" \/ call'[e].pc = "absent" \/ d = e
      BY <1>2, <1>3, <2>5 DEF CallsSound
    <3> QED BY <1>2, <1>3, <2>5, <3>1, <3>2, <3>3, <3>4, <3>5 DEF CallsSound
  <2> QED BY <1>2, <2>6, <2>8, <2>9 DEF JobsInv, ActiveTyped
<1> QED BY <1>4, <1>5

\* The run is known and begins.
LEMMA LaunchKeeps == ASSUME JobsInv, NEW c \in Callers, Prewarm!Launch(c) PROVE JobsInv'
<1>1. PICK r : r = call[c].run
  OBVIOUS
<1>2. /\ call[c].pc = "launch" /\ UNCHANGED <<disk, left>>
      /\ active' = [active EXCEPT ![call[c].job] = r]
      /\ run' = [run EXCEPT ![r].pc = "scan", ![r].running = TRUE]
      /\ call' = [call EXCEPT ![c].pc = "show"]
  BY <1>1 DEF Prewarm!Launch
<1>3. /\ CallsSound /\ CallSound(c) /\ DOMAIN run = Prewarm!Runs /\ r \in Prewarm!Runs
      /\ RunSound(r) /\ run[r].pc = "created" /\ DOMAIN run[r] = RunFields
  BY <1>1, <1>2 DEF JobsInv, RunsSound, RunSound, CallsSound, CallSound
<1>4. /\ DOMAIN run' = Prewarm!Runs /\ \A q \in Prewarm!Runs \ {r} : run'[q] = run[q]
      /\ DOMAIN run'[r] = RunFields /\ run'[r].pc = "scan" /\ run'[r].job = run[r].job
      /\ run'[r].todo = run[r].todo /\ run'[r].out = run[r].out /\ run'[r].got = run[r].got
      /\ run'[r].done = run[r].done /\ run'[r].failed = run[r].failed /\ run'[r].stop = run[r].stop
      /\ run'[r].final = run[r].final
  BY <1>2, <1>3 DEF RunFields
<1>5. /\ DOMAIN call' = Callers /\ DOMAIN call'[c] = {"pc", "job", "run"}
      /\ call'[c].pc = "show" /\ \A d \in Callers \ {c} : call'[d] = call[d]
  BY <1>2, <1>3 DEF CallsSound, CallSound
<1>6. RunsSound'
  <2>1. RunSound(r)'
    <3>1. ASSUME NEW log, NEW tiles, AtWork(run[r], log, tiles) PROVE AtWork(run'[r], log, tiles)
      <4>1. Ahead(run'[r]) = Ahead(run[r]) BY <1>4 DEF Ahead
      <4>2. Apart(run'[r]) BY <1>4, <3>1, <4>1 DEF AtWork, Apart
      <4> QED BY <1>3, <1>4, <3>1, <4>1, <4>2 DEF AtWork
    <3> QED BY <1>2, <1>3, <1>4, <3>1 DEF RunSound, Working
  <2>2. ASSUME NEW q \in Prewarm!Runs, q # r PROVE RunSound(q)'
    BY <1>2, <1>4, <2>2, OthersGoOn DEF JobsInv
  <2> QED BY <1>4, <2>1, <2>2 DEF RunsSound
<1>7. CallsSound'
  <2>1. CallSound(c)' BY <1>5 DEF CallSound
  <2>2. ASSUME NEW d \in Callers, d # c PROVE CallSound(d)'
    <3>1. CallSound(d) /\ call'[d] = call[d] BY <1>3, <1>5, <2>2 DEF CallsSound
    <3>2. call[d].pc = "launch" => call[d].run # r /\ run'[call[d].run] = run[call[d].run]
      BY <1>1, <1>2, <1>3, <1>4, <2>2, <3>1 DEF CallSound
    <3>3. \A q \in Prewarm!Runs : run'[q].job = run[q].job BY <1>4
    <3>4. CASE call[d].pc = "launch"
      <4>1. \A e \in Callers : e # d /\ call'[e].pc = "launch" => e # c /\ call'[e] = call[e]
        BY <1>5
      <4> QED BY <3>1, <3>2, <3>4, <4>1 DEF CallSound
    <3>5. CASE call[d].pc # "launch" BY <1>2, <3>1, <3>3, <3>5 DEF CallSound
    <3> QED BY <3>4, <3>5
  <2>3. left'.clears => \A d, e \in Callers : call'[d].pc = "absent" \/ call'[e].pc = "absent" \/ d = e
    BY <1>2, <1>3, <1>5 DEF CallsSound
  <2> QED BY <1>2, <1>3, <1>5, <2>1, <2>2, <2>3 DEF CallsSound
<1>8. ActiveTyped' BY <1>2, <1>3 DEF JobsInv, ActiveTyped
<1> QED BY <1>2, <1>6, <1>7, <1>8 DEF JobsInv, DiskSound, JobSound

\* Who clears the cache is alone: no request waits to make a job again.
LEMMA ClearKeeps == ASSUME JobsInv, NEW c \in Callers, Prewarm!Clear(c) PROVE JobsInv'
<1>1. /\ call[c].pc = "clear" /\ disk' = [tiles |-> {}, job |-> [j \in Jobs |-> Prewarm!NoJob]]
      /\ call' = [call EXCEPT ![c] = Prewarm!NoCall] /\ UNCHANGED <<active, run, left>>
  BY DEF Prewarm!Clear
<1>2. CallsSound /\ left.clears /\ \A d \in Callers : d # c => call[d].pc = "absent"
  BY <1>1 DEF JobsInv, CallsSound, CallSound
<1>3. \A j \in Jobs : disk'.job[j] = Prewarm!NoJob BY <1>1
<1>4. DiskSound' BY <1>1, <1>3, NoJobIsSound DEF DiskSound, JobSound
<1>5. RunsSound'
  <2>1. ASSUME NEW r \in Prewarm!Runs PROVE RunSound(r)'
    <3>1. RunSound(r) /\ run'[r] = run[r] BY <1>1 DEF JobsInv, RunsSound
    <3>2. run[r].job \in Jobs => disk'.job[run[r].job].state = "none" BY <1>3, NoJobIsSound
    <3> QED BY <3>1, <3>2 DEF RunSound, Working
  <2> QED BY <1>1, <2>1 DEF JobsInv, RunsSound
<1>6. CallsSound'
  <2>1. /\ DOMAIN call' = Callers /\ DOMAIN call'[c] = {"pc", "job", "run"} /\ call'[c].pc = "idle"
        /\ \A d \in Callers \ {c} : call'[d] = call[d]
    BY <1>1, <1>2 DEF CallsSound, Prewarm!NoCall
  <2>2. ASSUME NEW d \in Callers PROVE CallSound(d)'
    <3>1. CallSound(d) BY <1>2 DEF CallsSound
    <3> QED BY <1>2, <2>1, <3>1 DEF CallSound
  <2> QED BY <1>1, <1>2, <2>1, <2>2 DEF CallsSound
<1> QED BY <1>1, <1>4, <1>5, <1>6 DEF JobsInv, ActiveTyped

\* A run that is told to stop need not count any more what is ahead of it.
LEMMA StopKeeps ==
  ASSUME JobsInv, NEW r, Prewarm!StopRun(r) \/ UNCHANGED run, UNCHANGED <<disk, active, call, left>>
  PROVE  JobsInv'
<1>1. \/ run' = run
      \/ run' = [run EXCEPT ![r].stop = TRUE]
  BY DEF Prewarm!StopRun
<1>2. ASSUME NEW q \in Prewarm!Runs PROVE RunSound(q)' /\ run'[q].job = run[q].job /\ run'[q].pc = run[q].pc
  <2>1. RunSound(q) /\ DOMAIN run[q] = RunFields /\ DOMAIN run = Prewarm!Runs
    BY DEF JobsInv, RunsSound, RunSound
  <2>2. run'[q] = run[q] \/ run'[q] = [run[q] EXCEPT !.stop = TRUE] BY <1>1, <2>1
  <2>3. CASE run'[q] = run[q] BY <2>1, <2>3 DEF RunSound
  <2>4. CASE run'[q] = [run[q] EXCEPT !.stop = TRUE]
    <3>1. /\ DOMAIN run'[q] = RunFields /\ run'[q].pc = run[q].pc /\ run'[q].job = run[q].job
          /\ run'[q].todo = run[q].todo /\ run'[q].out = run[q].out /\ run'[q].got = run[q].got
          /\ run'[q].done = run[q].done /\ run'[q].failed = run[q].failed /\ run'[q].stop
          /\ run'[q].final = run[q].final /\ run'[q].running = run[q].running
      BY <2>1, <2>4 DEF RunFields
    <3>2. ASSUME NEW log, NEW tiles, AtWork(run[q], log, tiles) PROVE AtWork(run'[q], log, tiles)
      <4>1. Ahead(run'[q]) = Ahead(run[q]) BY <3>1 DEF Ahead
      <4>2. Apart(run'[q]) BY <3>1, <3>2, <4>1 DEF AtWork, Apart
      <4>3. Counts(run[q], log) => Counts(run'[q], log) BY <3>1, <4>1 DEF Counts
      <4> QED BY <3>1, <3>2, <4>1, <4>2, <4>3 DEF AtWork
    <3> QED BY <2>1, <3>1, <3>2 DEF RunSound
  <2> QED BY <2>2, <2>3, <2>4
<1>3. DOMAIN run' = Prewarm!Runs BY <1>1 DEF JobsInv, RunsSound
<1>4. CallsSound' BY <1>2, CallsWait DEF JobsInv
<1> QED BY <1>2, <1>3, <1>4 DEF JobsInv, RunsSound, DiskSound, JobSound, ActiveTyped

\* The page fetches a tile.
LEMMA GetTileKeeps == ASSUME JobsInv, NEW k \in Tiles, Prewarm!GetTile(k) PROVE JobsInv'
<1>1. /\ disk' = [disk EXCEPT !.tiles = @ \cup {k}] /\ UNCHANGED <<active, run, call>>
      /\ left' = [left EXCEPT !.events = @ - 1]
  BY DEF Prewarm!GetTile, Prewarm!Spend
<1>2. /\ DOMAIN disk' = DOMAIN disk /\ disk'.job = disk.job /\ disk'.tiles = disk.tiles \cup {k}
      /\ DOMAIN left' = DOMAIN left /\ left'.clears = left.clears
  BY <1>1 DEF JobsInv, DiskSound, CallsSound
<1>3. DiskSound' BY <1>2 DEF JobsInv, DiskSound, JobSound
<1>4. ASSUME NEW q \in Prewarm!Runs PROVE RunSound(q)'
  BY <1>1, <1>2, OthersGoOn DEF JobsInv
<1>5. CallsSound' BY <1>1, <1>2, CallsWait DEF JobsInv
<1> QED BY <1>1, <1>3, <1>4, <1>5 DEF JobsInv, RunsSound, ActiveTyped

\* A crash ends every run and every request; the files stay.
LEMMA CrashKeeps == ASSUME JobsInv, Prewarm!Crash PROVE JobsInv'
<1>1. /\ disk' = [disk EXCEPT !.job = [j \in Jobs |-> [disk.job[j] EXCEPT !.holder = 0]]]
      /\ active' = [j \in Jobs |-> 0]
      /\ run' = [r \in Prewarm!Runs |-> IF run[r].pc = "none" THEN Prewarm!NoRun
                                        ELSE [Prewarm!NoRun EXCEPT !.pc = "gone"]]
      /\ call' = [c \in Callers |-> IF call[c].pc = "absent" THEN call[c] ELSE Prewarm!NoCall]
      /\ left' = [left EXCEPT !.events = @ - 1]
  BY DEF Prewarm!Crash, Prewarm!Spend
<1>2. /\ DOMAIN disk' = DOMAIN disk /\ DOMAIN disk'.job = Jobs /\ disk'.tiles = disk.tiles
      /\ \A j \in Jobs : disk'.job[j] = [disk.job[j] EXCEPT !.holder = 0]
      /\ DOMAIN left' = DOMAIN left /\ left'.clears = left.clears
  BY <1>1 DEF JobsInv, DiskSound, CallsSound
<1>3. DiskSound'
  <2>1. ASSUME NEW j \in Jobs PROVE JobSound(j)'
    <3>1. JobSound(j) BY DEF JobsInv, DiskSound
    <3>2. /\ DOMAIN disk'.job[j] = JobFields /\ disk'.job[j].state = disk.job[j].state
          /\ disk'.job[j].log = disk.job[j].log /\ disk'.job[j].failed = disk.job[j].failed
      BY <1>2, <3>1 DEF JobSound, JobFields
    <3> QED BY <1>2, <3>1, <3>2 DEF JobSound
  <2> QED BY <1>2, <2>1 DEF JobsInv, DiskSound
<1>4. RunsSound'
  <2>1. ASSUME NEW r \in Prewarm!Runs PROVE RunSound(r)'
    <3>1. DOMAIN run'[r] = RunFields /\ run'[r].pc \in {"none", "gone"} /\ ~run'[r].running
      BY <1>1 DEF Prewarm!NoRun, RunFields
    <3> QED BY <3>1 DEF RunSound, Working
  <2> QED BY <1>1, <2>1 DEF RunsSound
<1>5. CallsSound'
  <2>1. ASSUME NEW c \in Callers
        PROVE  /\ DOMAIN call'[c] = {"pc", "job", "run"} /\ call'[c].pc \in {"absent", "idle"}
               /\ call[c].pc = "absent" <=> call'[c].pc = "absent"
    BY <1>1 DEF JobsInv, CallsSound, CallSound, Prewarm!NoCall
  <2>2. \A c \in Callers : CallSound(c)' BY <2>1 DEF CallSound
  <2> QED BY <1>1, <1>2, <2>1, <2>2 DEF JobsInv, CallsSound
<1>6. ActiveTyped' BY <1>1 DEF ActiveTyped
<1> QED BY <1>3, <1>4, <1>5, <1>6 DEF JobsInv

\* What is logged lies on the disk, a running run counts what is logged, and a completed job
\* is complete.
LEMMA JobsInvIsEnough == ASSUME JobsInv PROVE Prewarm!CompletedIsComplete /\ Prewarm!ProgressIsTrue
<1>1. \A j \in Jobs : JobSound(j) BY DEF JobsInv, DiskSound
<1>2. Prewarm!CompletedIsComplete BY <1>1 DEF JobSound, Prewarm!CompletedIsComplete
<1>3. ASSUME NEW j \in Jobs, NEW r \in Prewarm!Known, run[r].job = j, run[r].running,
             disk.job[j].state # "none"
      PROVE  run[r].done <= Prewarm!Cardinality(disk.job[j].log)
  <2>1. r \in Prewarm!Runs BY DEF Prewarm!Known, JobsInv, ActiveTyped
  <2>2. PICK log : log = disk.job[j].log
    OBVIOUS
  <2>3. AtWork(run[r], log, disk.tiles) /\ run[r].pc \in {"scan", "loop", "drain"}
    BY <1>3, <2>1, <2>2 DEF JobsInv, RunsSound, RunSound, Working
  <2>4. log \in SUBSET Tasks[j] BY <1>1, <2>2 DEF JobSound
  <2>5. IsFiniteSet(log) /\ Cardinality(log) \in Nat BY <2>4, TasksFinite, FS_CardinalityType
  <2>6. run[r].done <= Cardinality(log)
    <3>1. CASE run[r].pc = "scan" BY <2>3, <2>5, <3>1 DEF AtWork
    <3>2. CASE run[r].pc \in {"loop", "drain"}
      <4>1. PICK counted \in SUBSET log : Cardinality(counted) = run[r].done
        BY <2>3, <3>2 DEF AtWork, Counts
      <4> QED BY <2>5, <4>1, FS_Subset
    <3> QED BY <2>3, <3>1, <3>2
  <2> QED BY <2>2, <2>6, SameSizes
<1>4. Prewarm!ProgressIsTrue BY <1>1, <1>3 DEF JobSound, Prewarm!ProgressIsTrue
<1> QED BY <1>2, <1>4

LEMMA JobsNext == ASSUME JobsInv, Prewarm!Next PROVE JobsInv'
<1>1. CASE \E r \in Prewarm!Runs : Prewarm!RunStep(r)
  BY <1>1, ScanKeeps, LeaveKeeps, FinishKeeps, EndOfRunKeeps, SubmitKeeps, FetchKeeps, TakeKeeps
  DEF Prewarm!RunStep
<1>2. CASE Prewarm!Calls
  BY <1>2, StartKeeps, CreateKeeps, LaunchKeeps, ShowKeeps, ClearKeeps DEF Prewarm!Calls
<1>3. CASE Prewarm!StatusCall
  <2>1. UNCHANGED <<disk, active, run, call, left>> BY <1>3 DEF Prewarm!StatusCall
  <2> QED BY <2>1, StopKeeps
<1>4. CASE Prewarm!StopPrewarm
  <2>1. PICK j : IF j # "none" /\ active[j] # 0 THEN Prewarm!StopRun(active[j]) ELSE UNCHANGED run
    BY <1>4 DEF Prewarm!StopPrewarm
  <2>2. UNCHANGED <<disk, active, call, left>> BY <1>4 DEF Prewarm!StopPrewarm
  <2> QED BY <2>1, <2>2, StopKeeps
<1>5. CASE Prewarm!Crash BY <1>5, CrashKeeps
<1>6. CASE \E j \in Jobs : Prewarm!Pause(j)
  BY <1>6, StopKeeps DEF Prewarm!Pause
<1>7. CASE \E k \in Tiles : Prewarm!GetTile(k) BY <1>7, GetTileKeeps
<1> QED BY <1>1, <1>2, <1>3, <1>4, <1>5, <1>6, <1>7 DEF Prewarm!Next

\* When whoever may clear the cache is alone, a job that says it is completed has its tiles on
\* the disk, and a run counts what is logged and logs what is there, however many runs of a job
\* there are, through stops, mass failures, crashes and the clearing of the cache.
THEOREM DownloadsAreTrue == OneClears => (Spec => []JobsAreTrue)
<1> SUFFICES ASSUME OneClears PROVE Spec => []JobsAreTrue
  OBVIOUS
<1> DEFINE Inv == part = "downloads" => JobsInv
<1>1. Start => Inv BY JobsInit DEF Start
<1>2. Inv /\ [Step]_parts => Inv'
  <2> SUFFICES ASSUME Inv, [Step]_parts, part' = "downloads" PROVE JobsInv'
    OBVIOUS
  <2>1. CASE UNCHANGED parts
    <3>1. JobsInv /\ UNCHANGED <<disk, active, run, call, left>> BY <2>1 DEF parts
    <3> QED BY <3>1, StopKeeps
  <2>2. CASE Step
    <3>1. JobsInv /\ Prewarm!Next BY <2>2 DEF Step
    <3> QED BY <3>1, JobsNext
  <2> QED BY <2>1, <2>2
<1>3. Inv => JobsAreTrue BY JobsInvIsEnough DEF JobsAreTrue
<1> QED BY <1>1, <1>2, <1>3, PTL DEF Spec

-----------------------------------------------------------------------------
(* The records of attempts: the names that WebRecording gives its          *)
(* variables.                                                              *)
web == s1
start == s2
stop == s3
stage == s4
pump == s5
topic == s6
truth == s7
bound == s8
USE DEF web, start, stop, stage, pump, topic, truth, bound

(***************************************************************************)
(* A server's memory s is sound if what is in it and in its files of an    *)
(* attempt's end is that end, `ends' being how the attempts ended, and the *)
(* file of the mission under way is what is in the memory.                 *)
(***************************************************************************)
WebFields ==
  {"file", "source", "mem", "disk", "window", "context", "trigger", "busy", "latest", "owner", "gen",
   "results"}
Told(kind) == Restarted!OutcomeOf([outcome |-> "none", end |-> kind])

RecordSound(windows, ends) ==
  /\ DOMAIN windows = Restarted!Windows
  /\ \A a \in Attempts : windows[a] \in Restarted!Outcomes => windows[a] = ends[a]
DiskTrue(files, ends) ==
  /\ DOMAIN files = Restarted!Missions
  /\ \A m \in Restarted!Missions :
       DOMAIN files[m] = {"state", "windows"} /\ RecordSound(files[m].windows, ends)
NewsTrue(latest, results, ends) ==
  /\ DOMAIN latest = {"a", "kind", "used"} /\ DOMAIN results = Attempts
  /\ latest.a \in Attempts /\ latest.kind \in Restarted!Terminal => Told(latest.kind) = ends[latest.a]
  /\ \A a \in Attempts :
       /\ DOMAIN results[a] = {"outcome", "admission", "used"}
       /\ results[a].outcome # "none" => results[a].outcome = ends[a]

BooksTrue(s, ends) ==
  /\ DOMAIN s = WebFields
  /\ RecordSound(s.mem, ends) /\ DiskTrue(s.disk, ends) /\ NewsTrue(s.latest, s.results, ends)
WebSound(s, ends) ==
  /\ BooksTrue(s, ends)
  /\ s.file \in Restarted!Missions => s.disk[s.file].windows = s.mem

\* The records in the files of two memories are the same but for those of one window.
SameBut(s, t, window) ==
  \A m \in Restarted!Missions, w \in Restarted!Windows \ {window} :
    t.disk[m].windows[w] = s.disk[m].windows[w]

\* An end that was heard of, as ResultOf and StatusOf give it, is true.
EndTrue(d, ends) ==
  d.a \in Attempts /\ d.end \in Restarted!Terminal => Restarted!OutcomeOf(d) = ends[d.a]

\* What leaves the records, the files and the news alone keeps a memory sound.
LEMMA SameBooks ==
  ASSUME NEW s, NEW t, NEW ends, WebSound(s, ends), DOMAIN t = WebFields,
         t.file = s.file, t.mem = s.mem, t.disk = s.disk, t.latest = s.latest, t.results = s.results
  PROVE  WebSound(t, ends)
BY DEF WebSound, BooksTrue

\* No mission has number zero.
LEMMA MissionsAreNumbered == 0 \notin Restarted!Missions
BY RecordingAssumption DEF Restarted!BoundsAreNumbers, Restarted!Missions

\* Saving writes the record in hand into the file under way, and nothing else.
LEMMA SavedSound ==
  ASSUME NEW s, NEW ends, NEW state,
         BooksTrue(s, ends),
         NEW t, t = Restarted!Saved(s, state)
  PROVE  /\ WebSound(t, ends)
         /\ \A f \in WebFields \ {"disk"} : t[f] = s[f]
         /\ \A m \in Restarted!Missions :
              t.disk[m].windows = IF m = s.file THEN s.mem ELSE s.disk[m].windows
<1>1. CASE s.file = 0
  <2>1. t = s BY <1>1 DEF Restarted!Saved
  <2> QED BY <1>1, <2>1, MissionsAreNumbered DEF WebSound
<1>2. CASE s.file # 0
  <2>1. t = [s EXCEPT !.disk = [s.disk EXCEPT ![s.file] = [state |-> state, windows |-> s.mem]]]
    BY <1>2 DEF Restarted!Saved
  <2>2. /\ DOMAIN t = WebFields /\ \A f \in WebFields \ {"disk"} : t[f] = s[f]
        /\ t.disk = [s.disk EXCEPT ![s.file] = [state |-> state, windows |-> s.mem]]
    BY <2>1 DEF BooksTrue, WebFields
  <2>3. t.file = s.file /\ t.mem = s.mem /\ t.latest = s.latest /\ t.results = s.results
    BY <2>2 DEF WebFields
  <2>4. DOMAIN t.disk = Restarted!Missions
    BY <2>2 DEF BooksTrue, DiskTrue
  <2>5. \A m \in Restarted!Missions :
          t.disk[m] = IF m = s.file THEN [state |-> state, windows |-> s.mem] ELSE s.disk[m]
    BY <2>2 DEF BooksTrue, DiskTrue
  <2>6. DiskTrue(t.disk, ends) BY <2>4, <2>5 DEF BooksTrue, DiskTrue
  <2>7. s.file \in Restarted!Missions => t.disk[s.file].windows = s.mem BY <2>5
  <2> QED BY <2>2, <2>3, <2>5, <2>6, <2>7 DEF WebSound, BooksTrue
<1> QED BY <1>1, <1>2

\* A mission's recording begins with an empty record.
LEMMA StartSound ==
  ASSUME NEW s, NEW ends, NEW source, WebSound(s, ends),
         NEW t, t = Restarted!StartRecording(s, source)
  PROVE  /\ WebSound(t, ends)
         /\ \A f \in {"window", "context", "trigger", "busy", "latest", "owner", "gen", "results"} : t[f] = s[f]
<1> DEFINE begun == [s EXCEPT !.file = Restarted!NextFile(s), !.mem = Restarted!NoFile.windows,
                              !.source = source]
<1>1. CASE s.file # 0
  <2>1. t = [s EXCEPT !.source = IF @ = "none" THEN source ELSE @] BY <1>1 DEF Restarted!StartRecording
  <2>2. DOMAIN t = WebFields /\ \A f \in WebFields \ {"source"} : t[f] = s[f]
    BY <2>1 DEF WebSound, BooksTrue, WebFields
  <2> QED BY <2>2, SameBooks DEF WebFields
<1>2. CASE s.file = 0
  <2>1. t = Restarted!Saved(begun, "running") BY <1>2 DEF Restarted!StartRecording
  <2>2. /\ DOMAIN begun = WebFields
        /\ \A f \in WebFields \ {"file", "mem", "source"} : begun[f] = s[f]
        /\ begun.mem = [w \in Restarted!Windows |-> "none"]
    BY DEF WebSound, BooksTrue, WebFields, Restarted!NoFile
  <2> HIDE DEF begun
  <2>3. RecordSound(begun.mem, ends)
    BY <2>2 DEF RecordSound, Restarted!Windows, Restarted!Outcomes
  <2>4. BooksTrue(begun, ends)
    <3>1. begun.disk = s.disk /\ begun.latest = s.latest /\ begun.results = s.results BY <2>2 DEF WebFields
    <3> QED BY <2>2, <2>3, <3>1 DEF WebSound, BooksTrue
  <2>5. WebSound(t, ends) /\ \A f \in WebFields \ {"disk"} : t[f] = begun[f]
    BY <2>1, <2>4, SavedSound
  <2> QED BY <2>2, <2>5 DEF WebFields
<1> QED BY <1>1, <1>2

\* A window that is opened, if one is, is that of the attempt at hand.
LEMMA OpenSound ==
  ASSUME NEW s, NEW ends, WebSound(s, ends),
         NEW t, t = Restarted!OpenWindow(s)
  PROVE  /\ WebSound(t, ends)
         /\ t.window \in {s.window, s.context}
         /\ \A f \in WebFields \ {"disk", "mem", "window"} : t[f] = s[f]
<1> DEFINE open == [s EXCEPT !.window = s.context, !.mem = [s.mem EXCEPT ![s.context] = "open"]]
<1>1. CASE t = s BY <1>1
<1>2. CASE t # s
  <2>1. t = Restarted!Saved(open, "running") BY <1>2 DEF Restarted!OpenWindow
  <2>2. /\ DOMAIN open = WebFields
        /\ \A f \in WebFields \ {"window", "mem"} : open[f] = s[f]
        /\ open.window = s.context /\ open.mem = [s.mem EXCEPT ![s.context] = "open"]
    BY DEF WebSound, BooksTrue, WebFields
  <2> HIDE DEF open
  <2>3. RecordSound(open.mem, ends)
    BY <2>2 DEF WebSound, BooksTrue, RecordSound, Restarted!Windows, Restarted!Outcomes
  <2>4. BooksTrue(open, ends)
    <3>1. open.disk = s.disk /\ open.latest = s.latest /\ open.results = s.results BY <2>2 DEF WebFields
    <3> QED BY <2>2, <2>3, <3>1 DEF WebSound, BooksTrue
  <2>5. WebSound(t, ends) /\ \A f \in WebFields \ {"disk"} : t[f] = open[f]
    BY <2>1, <2>4, SavedSound
  <2> QED BY <2>2, <2>5 DEF WebFields
<1> QED BY <1>1, <1>2

\* A window is closed by its attempt's end, or by something that is no end.
LEMMA CloseSound ==
  ASSUME NEW s, NEW ends, NEW outcome, WebSound(s, ends),
         s.window \in Attempts => outcome \notin Restarted!Outcomes \/ outcome = ends[s.window],
         NEW t, t = Restarted!CloseWindow(s, outcome)
  PROVE  /\ WebSound(t, ends)
         /\ t.window = Restarted!NoWindow
         /\ \A f \in WebFields \ {"disk", "mem", "window"} : t[f] = s[f]
         /\ SameBut(s, t, s.window)
<1> DEFINE closed == [s EXCEPT !.mem = [s.mem EXCEPT ![s.window] = outcome], !.window = Restarted!NoWindow]
<1>1. CASE s.window = Restarted!NoWindow \/ s.file = 0
  <2>1. t = [s EXCEPT !.window = Restarted!NoWindow] BY <1>1 DEF Restarted!CloseWindow
  <2>2. /\ DOMAIN t = WebFields /\ \A f \in WebFields \ {"window"} : t[f] = s[f]
        /\ t.window = Restarted!NoWindow
    BY <2>1 DEF WebSound, BooksTrue, WebFields
  <2>3. WebSound(t, ends) BY <2>2, SameBooks DEF WebFields
  <2>4. SameBut(s, t, s.window) BY <2>2 DEF SameBut, WebFields
  <2> QED BY <2>2, <2>3, <2>4
<1>2. CASE ~(s.window = Restarted!NoWindow \/ s.file = 0)
  <2>1. t = Restarted!Saved(closed, "running") BY <1>2 DEF Restarted!CloseWindow
  <2>2. /\ DOMAIN closed = WebFields
        /\ \A f \in WebFields \ {"window", "mem"} : closed[f] = s[f]
        /\ closed.window = Restarted!NoWindow /\ closed.mem = [s.mem EXCEPT ![s.window] = outcome]
    BY DEF WebSound, BooksTrue, WebFields
  <2> HIDE DEF closed
  <2>3. RecordSound(closed.mem, ends)
    BY <2>2 DEF WebSound, BooksTrue, RecordSound, Restarted!Windows
  <2>4. BooksTrue(closed, ends)
    <3>1. closed.disk = s.disk /\ closed.latest = s.latest /\ closed.results = s.results BY <2>2 DEF WebFields
    <3> QED BY <2>2, <2>3, <3>1 DEF WebSound, BooksTrue
  <2>5. /\ WebSound(t, ends) /\ \A f \in WebFields \ {"disk"} : t[f] = closed[f]
        /\ \A m \in Restarted!Missions :
             t.disk[m].windows = IF m = closed.file THEN closed.mem ELSE closed.disk[m].windows
    BY <2>1, <2>4, SavedSound
  <2>6. closed.disk = s.disk /\ closed.file = s.file BY <2>2 DEF WebFields
  <2>7. \A w \in Restarted!Windows \ {s.window} : closed.mem[w] = s.mem[w]
    BY <2>2 DEF WebSound, BooksTrue, RecordSound
  <2>8. SameBut(s, t, s.window) BY <2>5, <2>6, <2>7 DEF SameBut, WebSound
  <2> QED BY <2>2, <2>5, <2>8 DEF WebFields
<1> QED BY <1>1, <1>2

\* A mission's recording ends with no end of an attempt.
LEMMA StopSound ==
  ASSUME NEW s, NEW ends, WebSound(s, ends),
         NEW t, t = Restarted!StopRecording(s)
  PROVE  /\ WebSound(t, ends)
         /\ \A f \in {"context", "trigger", "busy", "latest", "owner", "gen", "results"} : t[f] = s[f]
         /\ SameBut(s, t, s.window)
<1>1. PICK closed : closed = Restarted!CloseWindow(s, "unknown")
  OBVIOUS
<1>2. /\ WebSound(closed, ends) /\ SameBut(s, closed, s.window)
      /\ \A f \in WebFields \ {"disk", "mem", "window"} : closed[f] = s[f]
  BY <1>1, CloseSound DEF Restarted!Outcomes
<1>3. PICK saved : saved = Restarted!Saved(closed, "completed")
  OBVIOUS
<1>4. /\ WebSound(saved, ends) /\ \A f \in WebFields \ {"disk"} : saved[f] = closed[f]
      /\ \A m \in Restarted!Missions :
           saved.disk[m].windows = IF m = closed.file THEN closed.mem ELSE closed.disk[m].windows
  BY <1>2, <1>3, SavedSound DEF WebSound
<1>5. t = [saved EXCEPT !.file = 0, !.source = "none"] BY <1>1, <1>3 DEF Restarted!StopRecording
<1>6. DOMAIN t = WebFields /\ t.file = 0 /\ \A f \in WebFields \ {"file", "source"} : t[f] = saved[f]
  BY <1>4, <1>5 DEF WebSound, BooksTrue, WebFields
<1>7. t.mem = saved.mem /\ t.disk = saved.disk /\ t.latest = saved.latest /\ t.results = saved.results
  BY <1>6 DEF WebFields
<1>8. WebSound(t, ends) BY <1>4, <1>6, <1>7, MissionsAreNumbered DEF WebSound, BooksTrue
<1>9. SameBut(s, t, s.window)
  <2>1. \A m \in Restarted!Missions : saved.disk[m].windows = closed.disk[m].windows
    BY <1>2, <1>4 DEF WebSound
  <2> QED BY <1>2, <1>7, <2>1 DEF SameBut
<1> QED BY <1>2, <1>4, <1>6, <1>8, <1>9 DEF WebFields

\* An update of what is in neither the records nor the news.
LEMMA AsideSound ==
  ASSUME NEW s, NEW ends, WebSound(s, ends),
         NEW t, DOMAIN t = DOMAIN s,
         \A f \in {"file", "mem", "disk", "latest", "results"} : t[f] = s[f]
  PROVE  WebSound(t, ends)
<1>1. DOMAIN t = WebFields BY DEF WebSound, BooksTrue
<1> QED BY <1>1, SameBooks

\* What is known of an end from the memory is true, be it the trigger's result or the pump's status.
LEMMA KnownEndsTrue ==
  ASSUME NEW s, NEW ends, WebSound(s, ends)
  PROVE  /\ \A a : EndTrue(Restarted!ResultOf(s, a), ends)
         /\ EndTrue(Restarted!StatusOf(s), ends)
         /\ EndTrue(Restarted!ResultOrStatus(s), ends)
<1>1. NewsTrue(s.latest, s.results, ends) BY DEF WebSound, BooksTrue
<1>2. ASSUME NEW a PROVE EndTrue(Restarted!ResultOf(s, a), ends)
  <2>1. CASE a = Nobody \/ s.results[a].outcome = "none"
    BY <2>1 DEF Restarted!ResultOf, EndTrue, Restarted!Terminal
  <2>2. CASE ~(a = Nobody \/ s.results[a].outcome = "none")
    BY <1>1, <2>2 DEF Restarted!ResultOf, EndTrue, NewsTrue, Restarted!OutcomeOf
  <2> QED BY <2>1, <2>2
<1>3. EndTrue(Restarted!StatusOf(s), ends)
  <2>1. Restarted!OutcomeOf(Restarted!StatusOf(s)) = Told(s.latest.kind)
    BY DEF Restarted!StatusOf, Told, Restarted!OutcomeOf
  <2> QED BY <1>1, <2>1 DEF Restarted!StatusOf, EndTrue, NewsTrue
<1>4. Restarted!ResultOrStatus(s) \in {Restarted!ResultOf(s, Restarted!RecordingAttempt(s)),
                                       Restarted!StatusOf(s)}
  BY DEF Restarted!ResultOrStatus
<1> QED BY <1>2, <1>3, <1>4

\* What is opened for an end is the window of the attempt at hand, if there was none.
LEMMA OpenedSound ==
  ASSUME NEW s, NEW ends, NEW d, WebSound(s, ends),
         NEW t, t = Restarted!Opened(s, d)
  PROVE  /\ WebSound(t, ends)
         /\ t.window = s.window \/ (s.window = Restarted!NoWindow /\ t.window = s.context)
<1>1. CASE t = s BY <1>1
<1>2. CASE t # s
  <2>1. PICK source : t = Restarted!OpenWindow(Restarted!StartRecording(s, source))
                      /\ s.window = Restarted!NoWindow
    BY <1>2 DEF Restarted!Opened
  <2>2. PICK begun : begun = Restarted!StartRecording(s, source)
    OBVIOUS
  <2>3. WebSound(begun, ends) /\ begun.window = s.window /\ begun.context = s.context
    BY <2>2, StartSound
  <2>4. WebSound(t, ends) /\ t.window \in {begun.window, begun.context} BY <2>1, <2>2, <2>3, OpenSound
  <2> QED BY <2>1, <2>3, <2>4
<1> QED BY <1>1, <1>2

\* _finish_owned_recording: a true end closes the record of its own attempt.
LEMMA EndSound ==
  ASSUME NEW s, NEW ends, NEW d, WebSound(s, ends), EndTrue(d, ends),
         NEW t, t = Restarted!Finish(s, d)
  PROVE  WebSound(t, ends)
<1>1. PICK opened : opened = Restarted!Opened(s, d)
  OBVIOUS
<1>2. /\ WebSound(opened, ends)
      /\ opened.window = s.window \/ (s.window = Restarted!NoWindow /\ opened.window = s.context)
  BY <1>1, OpenedSound
<1>3. CASE ~Restarted!Finishes(s, d) BY <1>1, <1>2, <1>3 DEF Restarted!Finish
<1>4. CASE Restarted!Finishes(s, d)
  <2>1. d.a = Restarted!RecordingAttempt(s) /\ d.end \in Restarted!Terminal
    BY <1>4 DEF Restarted!Finishes, Restarted!Concerns
  <2>2. opened.window \in Attempts => d.a = opened.window
    BY <1>2, <2>1, RecordingAssumption
    DEF Restarted!RecordingAttempt, Restarted!NobodyIsNoAttempt, Restarted!Windows
  <2>3. PICK closed : closed = Restarted!CloseWindow(opened, Restarted!OutcomeOf(d))
    OBVIOUS
  <2>4. WebSound(closed, ends)
    <3>1. opened.window \in Attempts => Restarted!OutcomeOf(d) = ends[opened.window]
      BY <2>1, <2>2 DEF EndTrue
    <3> QED BY <1>2, <2>3, <3>1, CloseSound
  <2>5. PICK rest : rest = IF closed.source = "survey" THEN closed ELSE Restarted!StopRecording(closed)
    OBVIOUS
  <2>6. WebSound(rest, ends) BY <2>4, <2>5, StopSound
  <2>7. t = IF d.outcome # "none"
            THEN [rest EXCEPT !.context = Nobody, !.busy = FALSE, !.results[d.a].used = TRUE]
            ELSE [rest EXCEPT !.context = Nobody, !.busy = FALSE, !.latest.used = TRUE]
    BY <1>1, <1>4, <2>3, <2>5 DEF Restarted!Finish
  <2>8. /\ DOMAIN t = WebFields /\ \A f \in {"file", "mem", "disk"} : t[f] = rest[f]
        /\ \/ t.results = [rest.results EXCEPT ![d.a].used = TRUE] /\ t.latest = rest.latest
           \/ t.results = rest.results /\ t.latest = [rest.latest EXCEPT !.used = TRUE]
    BY <2>6, <2>7 DEF WebSound, BooksTrue, WebFields
  <2>9. NewsTrue(t.latest, t.results, ends)
    <3>1. NewsTrue(rest.latest, rest.results, ends) BY <2>6 DEF WebSound, BooksTrue
    <3>2. CASE t.results = [rest.results EXCEPT ![d.a].used = TRUE] /\ t.latest = rest.latest
      BY <3>1, <3>2 DEF NewsTrue
    <3>3. CASE t.results = rest.results /\ t.latest = [rest.latest EXCEPT !.used = TRUE]
      <4>1. /\ DOMAIN t.latest = DOMAIN rest.latest
            /\ t.latest.a = rest.latest.a /\ t.latest.kind = rest.latest.kind
        BY <3>1, <3>3 DEF NewsTrue
      <4> QED BY <3>1, <3>3, <4>1 DEF NewsTrue
    <3> QED BY <2>8, <3>2, <3>3
  <2>10. t.file = rest.file /\ t.mem = rest.mem /\ t.disk = rest.disk BY <2>8
  <2> QED BY <2>6, <2>8, <2>9, <2>10 DEF WebSound, BooksTrue
<1> QED BY <1>3, <1>4

\* A running attempt that opens its record by itself.
LEMMA OpenedBySound ==
  ASSUME NEW s, NEW ends, NEW m, WebSound(s, ends),
         NEW t, t = Restarted!OpenedBy(s, m)
  PROVE  WebSound(t, ends)
<1>1. CASE t = s BY <1>1
<1>2. CASE t # s
  <2>1. PICK named, source : /\ named = [s EXCEPT !.context = m.a]
                             /\ t = Restarted!OpenWindow(Restarted!StartRecording(named, source))
    BY <1>2 DEF Restarted!OpenedBy
  <2>2. WebSound(named, ends)
    <3>1. DOMAIN named = DOMAIN s /\ \A f \in WebFields \ {"context"} : named[f] = s[f]
      BY <2>1 DEF WebSound, BooksTrue, WebFields
    <3> QED BY <3>1, AsideSound DEF WebFields
  <2>3. PICK begun : begun = Restarted!StartRecording(named, source)
    OBVIOUS
  <2>4. WebSound(begun, ends) BY <2>2, <2>3, StartSound
  <2> QED BY <2>1, <2>3, <2>4, OpenSound
<1> QED BY <1>1, <1>2

\* The pump's status: what is heard of an end is noted, and closes the record of its own attempt.
PumpMessages(ends) ==
  {m \in [a : Attempts, kind : {"running"} \cup Restarted!Terminal] :
     m.kind # "running" => Told(m.kind) = ends[m.a]}
ResultMessages(ends) ==
  {m \in [a : Attempts, outcome : Restarted!Outcomes, admission : BOOLEAN] : m.outcome = ends[m.a]}

LEMMA StatusSound ==
  ASSUME NEW s, NEW ends, NEW m \in PumpMessages(ends), WebSound(s, ends)
  PROVE  WebSound(Restarted!AfterStatus(s, m), ends)
<1>1. PICK opened : opened = Restarted!OpenedBy(s, m)
  OBVIOUS
<1>2. WebSound(opened, ends) BY <1>1, OpenedBySound
<1>3. PICK noted : noted = [opened EXCEPT !.latest = [a |-> m.a, kind |-> m.kind, used |-> FALSE],
                                          !.busy = m.kind = "running"]
  OBVIOUS
<1>4. WebSound(noted, ends)
  <2>1. /\ DOMAIN noted = WebFields /\ noted.latest = [a |-> m.a, kind |-> m.kind, used |-> FALSE]
        /\ \A f \in WebFields \ {"latest", "busy"} : noted[f] = opened[f]
    BY <1>2, <1>3 DEF WebSound, BooksTrue, WebFields
  <2>2. noted.file = opened.file /\ noted.mem = opened.mem /\ noted.disk = opened.disk
        /\ noted.results = opened.results
    BY <2>1 DEF WebFields
  <2>3. noted.latest.kind \in Restarted!Terminal => Told(noted.latest.kind) = ends[noted.latest.a]
    BY <2>1 DEF PumpMessages, Restarted!Terminal
  <2>4. DOMAIN noted.latest = {"a", "kind", "used"} BY <2>1
  <2>5. NewsTrue(opened.latest, opened.results, ends) BY <1>2 DEF WebSound, BooksTrue
  <2>6. NewsTrue(noted.latest, noted.results, ends) BY <2>2, <2>3, <2>4, <2>5 DEF NewsTrue
  <2> QED BY <1>2, <2>1, <2>2, <2>6 DEF WebSound, BooksTrue
<1>5. PICK known : known = Restarted!ResultOf(noted, Restarted!RecordingAttempt(opened))
  OBVIOUS
<1>6. EndTrue(known, ends) BY <1>4, <1>5, KnownEndsTrue
<1>7. PICK finished : finished = Restarted!Finish(noted, known)
  OBVIOUS
<1>8. WebSound(finished, ends) BY <1>4, <1>6, <1>7, EndSound
<1>9. PICK ended : ended = [finished EXCEPT !.owner = IF @ = m.a THEN Nobody ELSE @]
  OBVIOUS
<1>10. WebSound(ended, ends)
  <2>1. DOMAIN ended = DOMAIN finished /\ \A f \in WebFields \ {"owner"} : ended[f] = finished[f]
    BY <1>8, <1>9 DEF WebSound, BooksTrue, WebFields
  <2> QED BY <1>8, <2>1, AsideSound DEF WebFields
<1>11. WebSound(Restarted!Finish(ended, Restarted!StatusOf(ended)), ends)
  BY <1>10, KnownEndsTrue, EndSound
<1>12. WebSound(Restarted!StopRecording(ended), ends) BY <1>10, StopSound
<1>13. Restarted!AfterStatus(s, m) \in
         {s, opened, finished, ended, Restarted!StopRecording(ended),
          Restarted!Finish(ended, Restarted!StatusOf(ended))}
  BY <1>1, <1>3, <1>5, <1>7, <1>9 DEF Restarted!AfterStatus
<1> QED BY <1>2, <1>8, <1>10, <1>11, <1>12, <1>13

\* The trigger's notice of an attempt.
LEMMA ContextSound ==
  ASSUME NEW s, NEW ends, NEW a, WebSound(s, ends)
  PROVE  WebSound(Restarted!AfterContext(s, a), ends)
<1>1. PICK heard : heard = [s EXCEPT !.trigger = a]
  OBVIOUS
<1>2. PICK named : named = [s EXCEPT !.trigger = a, !.context = a]
  OBVIOUS
<1>3. WebSound(heard, ends) /\ WebSound(named, ends)
  <2>1. /\ DOMAIN heard = DOMAIN s /\ DOMAIN named = DOMAIN s
        /\ \A f \in WebFields \ {"trigger", "context"} : heard[f] = s[f] /\ named[f] = s[f]
    BY <1>1, <1>2 DEF WebSound, BooksTrue, WebFields
  <2> QED BY <2>1, AsideSound DEF WebFields
<1>4. PICK d : d = Restarted!ResultOf(named, Restarted!RecordingAttempt(named))
  OBVIOUS
<1>5. WebSound(Restarted!Finish(named, d), ends) BY <1>3, <1>4, KnownEndsTrue, EndSound
<1>6. Restarted!AfterContext(s, a) \in {heard, Restarted!Finish(named, d)}
  BY <1>1, <1>2, <1>4 DEF Restarted!AfterContext
<1> QED BY <1>3, <1>5, <1>6

\* The trigger's notice that sampling has begun.
LEMMA StartedSound ==
  ASSUME NEW s, NEW ends, WebSound(s, ends)
  PROVE  WebSound(Restarted!AfterStarted(s), ends)
<1>1. PICK busy : busy = [s EXCEPT !.busy = TRUE]
  OBVIOUS
<1>2. WebSound(busy, ends)
  <2>1. DOMAIN busy = DOMAIN s /\ \A f \in WebFields \ {"busy"} : busy[f] = s[f]
    BY <1>1 DEF WebSound, BooksTrue, WebFields
  <2> QED BY <2>1, AsideSound DEF WebFields
<1>3. PICK begun : begun = Restarted!StartRecording(busy, "trigger")
  OBVIOUS
<1>4. WebSound(begun, ends) BY <1>2, <1>3, StartSound
<1>5. PICK running : running = Restarted!OpenWindow(begun)
  OBVIOUS
<1>6. WebSound(running, ends) BY <1>4, <1>5, OpenSound
<1>7. PICK d : d = Restarted!ResultOrStatus(running)
  OBVIOUS
<1>8. WebSound(Restarted!Finish(running, d), ends) BY <1>6, <1>7, KnownEndsTrue, EndSound
<1>9. Restarted!AfterStarted(s) \in {s, Restarted!Finish(running, d)}
  BY <1>1, <1>3, <1>5, <1>7 DEF Restarted!AfterStarted
<1> QED BY <1>8, <1>9

\* The trigger's notice that sampling has stopped, or that it was refused.
LEMMA StoppedSound ==
  ASSUME NEW s, NEW ends, NEW kind, WebSound(s, ends)
  PROVE  WebSound(Restarted!AfterStopped(s, kind), ends)
<1>1. PICK d : d = Restarted!ResultOrStatus(s)
  OBVIOUS
<1>2. PICK after : after = IF Restarted!RecordingAttempt(s) # Nobody THEN Restarted!Finish(s, d) ELSE s
  OBVIOUS
<1>3. WebSound(after, ends) BY <1>1, <1>2, KnownEndsTrue, EndSound
<1>4. PICK shut : shut = Restarted!CloseWindow(after, "unknown")
  OBVIOUS
<1>5. WebSound(shut, ends) BY <1>3, <1>4, CloseSound DEF Restarted!Outcomes
<1>6. PICK closed : closed = IF kind = "rejected" THEN after ELSE [shut EXCEPT !.context = Nobody]
  OBVIOUS
<1>7. WebSound(closed, ends)
  <2>1. CASE kind = "rejected" BY <1>3, <1>6, <2>1
  <2>2. CASE kind # "rejected"
    <3>1. DOMAIN closed = DOMAIN shut /\ \A f \in WebFields \ {"context"} : closed[f] = shut[f]
      BY <1>5, <1>6, <2>2 DEF WebSound, BooksTrue, WebFields
    <3> QED BY <1>5, <3>1, AsideSound DEF WebFields
  <2> QED BY <2>1, <2>2
<1>8. PICK idle : idle = [closed EXCEPT !.busy = FALSE]
  OBVIOUS
<1>9. WebSound(idle, ends)
  <2>1. DOMAIN idle = DOMAIN closed /\ \A f \in WebFields \ {"busy"} : idle[f] = closed[f]
    BY <1>7, <1>8 DEF WebSound, BooksTrue, WebFields
  <2> QED BY <1>7, <2>1, AsideSound DEF WebFields
<1>10. WebSound(Restarted!StopRecording(idle), ends) BY <1>9, StopSound
<1>11. Restarted!AfterStopped(s, kind) \in {after, idle, Restarted!StopRecording(idle)}
  BY <1>1, <1>2, <1>4, <1>6, <1>8 DEF Restarted!AfterStopped
<1> QED BY <1>3, <1>9, <1>10, <1>11

\* Taking back a start is no end of an attempt either, and of the records in the files it changes
\* that of its own window only.
LEMMA RolledBackSound ==
  ASSUME NEW s, NEW ends, WebSound(s, ends),
         NEW t, t = Restarted!RolledBack(s)
  PROVE  /\ WebSound(t, ends)
         /\ SameBut(s, t, start.window)
<1>1. PICK closed : closed = IF start.window # Restarted!NoWindow /\ s.window = start.window
                             THEN Restarted!CloseWindow(s, "unknown") ELSE s
  OBVIOUS
<1>2. WebSound(closed, ends) BY <1>1, CloseSound DEF Restarted!Outcomes
<1>3. SameBut(s, closed, start.window)
  <2>1. CASE closed = s BY <2>1 DEF SameBut
  <2>2. CASE closed # s BY <1>1, <2>2, CloseSound DEF Restarted!Outcomes
  <2> QED BY <2>1, <2>2
<1>4. PICK ended : /\ ended \in {closed, Restarted!StopRecording(closed)}
                   /\ ended # closed => closed.window = Restarted!NoWindow
                   /\ t = [ended EXCEPT !.context = IF s.context = start.a THEN start.before ELSE @]
  BY <1>1 DEF Restarted!RolledBack
<1>5. WebSound(ended, ends) BY <1>2, <1>4, StopSound
<1>6. SameBut(closed, ended, start.window)
  <2>1. CASE ended = closed BY <2>1 DEF SameBut
  <2>2. CASE ended # closed
    <3>1. SameBut(closed, ended, Restarted!NoWindow) BY <1>2, <1>4, <2>2, StopSound
    <3> QED BY <3>1, RecordingAssumption DEF SameBut, Restarted!NobodyIsNoAttempt
  <2> QED BY <2>1, <2>2
<1>7. DOMAIN t = DOMAIN ended /\ \A f \in WebFields \ {"context"} : t[f] = ended[f]
  BY <1>4, <1>5 DEF WebSound, BooksTrue, WebFields
<1>8. WebSound(t, ends) BY <1>5, <1>7, AsideSound DEF WebFields
<1>9. t.disk = ended.disk BY <1>7 DEF WebFields
<1>10. SameBut(s, t, start.window) BY <1>3, <1>6, <1>9 DEF SameBut
<1> QED BY <1>8, <1>10

(***************************************************************************)
(* An attempt that the pump runs has not ended, one that has ended has an  *)
(* end; the page asks for an attempt of its own that has not begun, and a  *)
(* window it opened is that of this attempt; what is on its way tells the  *)
(* truth; and the memory is sound.                                         *)
(***************************************************************************)
StagesTrue ==
  /\ DOMAIN stage = Attempts /\ DOMAIN truth = Attempts /\ pump \in Restarted!Windows
  /\ \A a \in Attempts :
       /\ truth[a] \in {"none"} \cup Restarted!Outcomes
       /\ pump = a <=> stage[a] = "running"
       /\ stage[a] \in {"new", "asked", "running"} => truth[a] = "none"
       /\ stage[a] = "ended" => truth[a] \in Restarted!Outcomes
StartFields == {"pc", "a", "gen", "ok", "window", "file", "before"}
PageTrue ==
  /\ DOMAIN start = StartFields /\ start.window \in {Restarted!NoWindow, start.a}
  /\ start.pc # "idle" => start.a \in Attempts
  /\ start.pc \in {"prepare", "claim", "call"} => stage[start.a] = "asked"
TopicsTrue ==
  /\ DOMAIN topic = {"pump", "trigger", "result"}
  /\ topic.pump \in Seq(PumpMessages(truth)) /\ topic.result \in Seq(ResultMessages(truth))
CrashesLeft == DOMAIN bound = {"stops", "repeats", "crashes"} /\ bound.crashes \in Nat

RecordsInv ==
  WebSound(web, truth) /\ StagesTrue /\ PageTrue /\ TopicsTrue /\ CrashesLeft

\* How attempts ended stays, and more of them have ended.
Later(ends, more) == \A a \in Attempts : ends[a] # "none" => more[a] = ends[a]

\* The end that a status tells of is an outcome.
LEMMA ToldIsOutcome == ASSUME NEW kind PROVE Told(kind) \in Restarted!Outcomes
BY DEF Told, Restarted!OutcomeOf, Restarted!Outcomes

\* What is true of some ends is true when there are more.
LEMMA StaysSound ==
  ASSUME NEW s, NEW ends, NEW more, WebSound(s, ends), Later(ends, more)
  PROVE  WebSound(s, more)
<1>1. ASSUME NEW windows, RecordSound(windows, ends) PROVE RecordSound(windows, more)
  BY <1>1 DEF RecordSound, Later, Restarted!Outcomes
<1>2. RecordSound(s.mem, more) BY <1>1 DEF WebSound, BooksTrue
<1>3. DiskTrue(s.disk, more)
  <2>1. DiskTrue(s.disk, ends) BY DEF WebSound, BooksTrue
  <2> QED BY <1>1, <2>1 DEF DiskTrue
<1>4. NewsTrue(s.latest, s.results, more)
  <2>1. NewsTrue(s.latest, s.results, ends) BY DEF WebSound, BooksTrue
  <2>2. s.latest.a \in Attempts /\ s.latest.kind \in Restarted!Terminal
          => Told(s.latest.kind) = more[s.latest.a]
    BY <2>1, ToldIsOutcome DEF NewsTrue, Later, Restarted!Outcomes
  <2> QED BY <2>1, <2>2 DEF NewsTrue, Later
<1> QED BY <1>2, <1>3, <1>4 DEF WebSound, BooksTrue

\* The same of messages.
LEMMA MessagesStay ==
  ASSUME NEW ends, NEW more, Later(ends, more)
  PROVE  /\ PumpMessages(ends) \subseteq PumpMessages(more)
         /\ ResultMessages(ends) \subseteq ResultMessages(more)
<1>1. PumpMessages(ends) \subseteq PumpMessages(more)
  BY ToldIsOutcome DEF PumpMessages, Later, Restarted!Outcomes
<1>2. ResultMessages(ends) \subseteq ResultMessages(more)
  BY DEF ResultMessages, Later, Restarted!Outcomes
<1> QED BY <1>1, <1>2

\* A server that begins knows nothing.
LEMMA FreshSound ==
  ASSUME NEW files, NEW ends, DiskTrue(files, ends)
  PROVE  WebSound(Restarted!Fresh(files), ends)
<1>1. PICK s : s = Restarted!Fresh(files)
  OBVIOUS
<1>2. /\ DOMAIN s = WebFields /\ s.file = 0 /\ s.disk = files
      /\ s.mem = [w \in Restarted!Windows |-> "none"]
      /\ s.latest = [a |-> Nobody, kind |-> "none", used |-> FALSE]
      /\ s.results = [a \in Attempts |-> [outcome |-> "none", admission |-> FALSE, used |-> FALSE]]
  BY <1>1 DEF Restarted!Fresh, WebFields, Restarted!NoFile, Restarted!NoStatus, Restarted!NoResult
<1>3. RecordSound(s.mem, ends) BY <1>2 DEF RecordSound, Restarted!Outcomes, Restarted!Windows
<1>4. NewsTrue(s.latest, s.results, ends)
  BY <1>2, RecordingAssumption DEF NewsTrue, Restarted!NobodyIsNoAttempt
<1> QED BY <1>1, <1>2, <1>3, <1>4, MissionsAreNumbered DEF WebSound, BooksTrue

\* At first nothing has ended and nothing is recorded.
LEMMA RecordsInit == Restarted!Init \/ Repeated!Init => RecordsInv
<1> SUFFICES ASSUME Restarted!Init \/ Repeated!Init PROVE RecordsInv
  OBVIOUS
<1>1. PICK files : files = [m \in Restarted!Missions |-> Restarted!NoFile]
  OBVIOUS
<1>2. /\ web = Restarted!Fresh(files)
      /\ pump = Nobody /\ topic = [pump |-> <<>>, trigger |-> <<>>, result |-> <<>>]
      /\ truth = [a \in Attempts |-> "none"] /\ start = Restarted!NoStart
      /\ \E cast : stage = [a \in Attempts |-> IF a \in cast THEN "new" ELSE "over"]
      /\ \E repeats, crashes \in Nat : bound = [stops |-> MaxStops, repeats |-> repeats, crashes |-> crashes]
  <2>1. CASE Restarted!Init
    <3>1. MaxCrashes \in Nat /\ 0 \in Nat BY RecordingAssumption DEF Restarted!BoundsAreNumbers
    <3> QED BY <1>1, <2>1, <3>1 DEF Restarted!Init
  <2>2. CASE Repeated!Init
    <3>1. Repeated!Fresh(files) = Restarted!Fresh(files)
      BY DEF Repeated!Fresh, Restarted!Fresh, Repeated!NoFile, Restarted!NoFile, Repeated!Windows,
             Restarted!Windows, Repeated!NoWindow, Restarted!NoWindow, Repeated!NoStatus,
             Restarted!NoStatus, Repeated!NoResult, Restarted!NoResult
    <3>2. files = [m \in Repeated!Missions |-> Repeated!NoFile]
      BY <1>1 DEF Repeated!Missions, Restarted!Missions, Repeated!NoFile, Restarted!NoFile,
                  Repeated!Windows, Restarted!Windows
    <3>3. Repeated!NoStart = Restarted!NoStart
      BY DEF Repeated!NoStart, Restarted!NoStart, Repeated!NoWindow, Restarted!NoWindow
    <3> QED BY <2>2, <3>1, <3>2, <3>3 DEF Repeated!Init
  <2> QED BY <2>1, <2>2
<1>3. DiskTrue(files, truth)
  <2>1. RecordSound(Restarted!NoFile.windows, truth)
    BY DEF RecordSound, Restarted!NoFile, Restarted!Outcomes, Restarted!Windows
  <2>2. DOMAIN Restarted!NoFile = {"state", "windows"} BY DEF Restarted!NoFile
  <2> QED BY <1>1, <2>1, <2>2 DEF DiskTrue
<1>4. WebSound(web, truth) BY <1>2, <1>3, FreshSound
<1>5. StagesTrue
  BY <1>2, RecordingAssumption DEF StagesTrue, Restarted!NobodyIsNoAttempt, Restarted!Windows
<1>6. PageTrue BY <1>2 DEF PageTrue, StartFields, Restarted!NoStart
<1>7. TopicsTrue BY <1>2 DEF TopicsTrue
<1>8. CrashesLeft BY <1>2 DEF CrashesLeft
<1> QED BY <1>4, <1>5, <1>6, <1>7, <1>8 DEF RecordsInv

\* What delivers a message keeps what is known of those that wait.
LEMMA DeliveryKeeps ==
  ASSUME TopicsTrue, NEW q \in {"pump", "trigger", "result"}, topic[q] # <<>>, Restarted!Take(q),
         UNCHANGED truth
  PROVE  TopicsTrue'
<1>1. DOMAIN topic' = DOMAIN topic /\ topic' = [topic EXCEPT ![q] = Tail(topic[q])]
  BY DEF Restarted!Take
<1>2. q = "pump" => topic'.pump \in Seq(PumpMessages(truth)) BY <1>1, HeadTailProperties DEF TopicsTrue
<1>3. q = "result" => topic'.result \in Seq(ResultMessages(truth))
  BY <1>1, HeadTailProperties DEF TopicsTrue
<1>4. \A r \in {"pump", "trigger", "result"} : r # q => topic'[r] = topic[r] BY <1>1 DEF TopicsTrue
<1> QED BY <1>1, <1>2, <1>3, <1>4 DEF TopicsTrue

\* The three callbacks.
LEMMA CallbacksKeep == ASSUME RecordsInv, Restarted!Callbacks PROVE RecordsInv'
<1>1. UNCHANGED <<start, stage, pump, truth, bound>>
  BY DEF Restarted!Callbacks, Restarted!AutomationStatus, Restarted!TriggerStatus, Restarted!SamplingResult
<1>2. StagesTrue' /\ PageTrue' /\ CrashesLeft'
  BY <1>1 DEF RecordsInv, StagesTrue, PageTrue, CrashesLeft
<1>3. CASE Restarted!AutomationStatus
  <2>1. topic.pump # <<>> /\ web' = Restarted!AfterStatus(web, Head(topic.pump)) /\ Restarted!Take("pump")
    BY <1>3 DEF Restarted!AutomationStatus
  <2>2. Head(topic.pump) \in PumpMessages(truth)
    BY <2>1, HeadTailProperties DEF RecordsInv, TopicsTrue
  <2>3. WebSound(web', truth) BY <2>1, <2>2, StatusSound DEF RecordsInv
  <2>4. TopicsTrue' BY <1>1, <2>1, DeliveryKeeps DEF RecordsInv
  <2> QED BY <1>1, <1>2, <2>3, <2>4 DEF RecordsInv
<1>4. CASE Restarted!TriggerStatus
  <2>1. PICK m : /\ topic.trigger # <<>> /\ Restarted!Take("trigger")
                 /\ web' \in {Restarted!AfterContext(web, m.a), Restarted!AfterStarted(web),
                              Restarted!StartRecording(web, "survey"), Restarted!AfterStopped(web, m.kind)}
    BY <1>4 DEF Restarted!TriggerStatus
  <2>2. WebSound(web, truth) BY DEF RecordsInv
  <2>3. WebSound(web', truth) BY <2>1, <2>2, ContextSound, StartedSound, StartSound, StoppedSound
  <2>4. TopicsTrue' BY <1>1, <2>1, DeliveryKeeps DEF RecordsInv
  <2> QED BY <1>1, <1>2, <2>3, <2>4 DEF RecordsInv
<1>5. CASE Restarted!SamplingResult
  <2>1. PICK m, rest :
          /\ topic.result # <<>> /\ m = Head(topic.result) /\ Restarted!Take("result")
          /\ rest = IF web.results[m.a].outcome # "none" THEN web
                    ELSE [web EXCEPT !.results[m.a] = [outcome |-> m.outcome, used |-> FALSE,
                                                       admission |-> m.admission]]
          /\ web' = Restarted!Finish(rest, Restarted!ResultOf(rest, m.a))
    BY <1>5 DEF Restarted!SamplingResult
  <2>2. m \in ResultMessages(truth) BY <2>1, HeadTailProperties DEF RecordsInv, TopicsTrue
  <2>3. WebSound(rest, truth)
    <3>1. CASE rest = web BY <3>1 DEF RecordsInv
    <3>2. CASE rest # web
      <4>1. WebSound(web, truth) BY DEF RecordsInv
      <4>2. /\ DOMAIN rest = WebFields
            /\ \A f \in WebFields \ {"results"} : rest[f] = web[f]
            /\ rest.results = [web.results EXCEPT ![m.a] = [outcome |-> m.outcome, used |-> FALSE,
                                                            admission |-> m.admission]]
        BY <2>1, <3>2, <4>1 DEF WebSound, BooksTrue, WebFields
      <4>3. rest.file = web.file /\ rest.mem = web.mem /\ rest.disk = web.disk /\ rest.latest = web.latest
        BY <4>2 DEF WebFields
      <4>4. NewsTrue(web.latest, web.results, truth) BY <4>1 DEF WebSound, BooksTrue
      <4>5. NewsTrue(rest.latest, rest.results, truth)
        BY <2>2, <4>2, <4>3, <4>4 DEF NewsTrue, ResultMessages
      <4> QED BY <4>1, <4>2, <4>3, <4>5 DEF WebSound, BooksTrue
    <3> QED BY <3>1, <3>2
  <2>4. EndTrue(Restarted!ResultOf(rest, m.a), truth) BY <2>3, KnownEndsTrue
  <2>5. WebSound(web', truth) BY <2>1, <2>3, <2>4, EndSound
  <2>6. TopicsTrue' BY <1>1, <2>1, DeliveryKeeps DEF RecordsInv
  <2> QED BY <1>1, <1>2, <2>5, <2>6 DEF RecordsInv
<1> QED BY <1>3, <1>4, <1>5 DEF Restarted!Callbacks

\* What changes the memory only aside of records and news, and neither attempts nor messages.
LEMMA AsideKeeps ==
  ASSUME RecordsInv, UNCHANGED <<stage, pump, topic, truth>>, CrashesLeft', PageTrue', WebSound(web', truth)
  PROVE  RecordsInv'
BY DEF RecordsInv, StagesTrue, TopicsTrue

\* The page asks for an attempt of its own.
LEMMA AskKeeps == ASSUME RecordsInv, NEW a \in Attempts, Restarted!Ask(a) PROVE RecordsInv'
<1>1. /\ stage[a] = "new" /\ stage' = [stage EXCEPT ![a] = "asked"]
      /\ UNCHANGED <<web, pump, topic, truth, bound>>
      /\ start' = [pc |-> "prepare", a |-> a, gen |-> web.gen, ok |-> FALSE,
                   window |-> Restarted!NoWindow, file |-> 0, before |-> Nobody]
  BY DEF Restarted!Ask, Restarted!NoStart
<1>2. StagesTrue' BY <1>1 DEF RecordsInv, StagesTrue
<1>3. PageTrue' BY <1>1 DEF RecordsInv, StagesTrue, PageTrue, StartFields
<1> QED BY <1>1, <1>2, <1>3 DEF RecordsInv, TopicsTrue, CrashesLeft

\* The page opens a mission and a window for it, if nothing is recorded.
LEMMA PrepareKeeps == ASSUME RecordsInv, Restarted!Prepare PROVE RecordsInv'
<1>1. /\ start.pc = "prepare" /\ start.a \in Attempts /\ stage[start.a] = "asked"
      /\ UNCHANGED <<pump, topic, truth, bound>>
  BY DEF Restarted!Prepare, RecordsInv, PageTrue
<1>2. CASE web.busy \/ web.window # Restarted!NoWindow
  <2>1. start' = Restarted!NoStart /\ web' = web /\ stage' = [stage EXCEPT ![start.a] = "over"]
    BY <1>2 DEF Restarted!Prepare
  <2>2. StagesTrue' BY <1>1, <2>1 DEF RecordsInv, StagesTrue
  <2>3. PageTrue' BY <2>1 DEF PageTrue, StartFields, Restarted!NoStart
  <2> QED BY <1>1, <2>1, <2>2, <2>3 DEF RecordsInv, TopicsTrue, CrashesLeft
<1>3. CASE ~(web.busy \/ web.window # Restarted!NoWindow)
  <2>1. PICK named, begun :
          /\ named = [web EXCEPT !.context = start.a]
          /\ begun = Restarted!StartRecording(named, "web")
          /\ web' = Restarted!OpenWindow(begun) /\ UNCHANGED stage
          /\ start' = [start EXCEPT !.pc = "claim", !.before = web.context, !.window = web'.window,
                                    !.file = IF web.file = 0 THEN web'.file ELSE 0]
    BY <1>3 DEF Restarted!Prepare
  <2>2. WebSound(web, truth) /\ DOMAIN start = StartFields BY DEF RecordsInv, PageTrue
  <2>3. DOMAIN named = WebFields /\ named.context = start.a
        /\ \A f \in WebFields \ {"context"} : named[f] = web[f]
    BY <2>1, <2>2 DEF WebSound, BooksTrue, WebFields
  <2>4. WebSound(named, truth)
    <3>1. DOMAIN named = DOMAIN web BY <2>2, <2>3 DEF WebSound, BooksTrue
    <3> QED BY <2>2, <2>3, <3>1, AsideSound DEF WebFields
  <2>5. WebSound(begun, truth) /\ begun.context = start.a /\ begun.window = Restarted!NoWindow
    <3>1. named.window = Restarted!NoWindow BY <1>3, <2>3 DEF WebFields
    <3>2. begun = Restarted!StartRecording(named, "web") BY <2>1
    <3> QED BY <2>3, <2>4, <3>1, <3>2, StartSound
  <2>6. WebSound(web', truth) /\ web'.window \in {Restarted!NoWindow, start.a}
    BY <2>1, <2>5, OpenSound
  <2>7. PageTrue'
    BY <1>1, <2>1, <2>2, <2>6 DEF PageTrue, StartFields
  <2> QED BY <1>1, <2>1, <2>6, <2>7, AsideKeeps DEF RecordsInv, CrashesLeft
<1> QED BY <1>2, <1>3

\* The steps of the page that look, claim and give up a claim.
LEMMA ClaimKeeps ==
  ASSUME RecordsInv, Restarted!Claim \/ Restarted!Look \/ Restarted!Rollback PROVE RecordsInv'
<1>1. WebSound(web, truth) /\ PageTrue /\ StagesTrue BY DEF RecordsInv
<1>2. (web' = web \/ \E owner : web' = [web EXCEPT !.owner = owner]) /\ UNCHANGED <<pump, topic, truth, bound>>
  BY DEF Restarted!Claim, Restarted!Look, Restarted!Rollback
<1>3. WebSound(web', truth)
  <2>1. CASE web' = web BY <1>1, <2>1
  <2>2. CASE web' # web
    <3>1. DOMAIN web' = DOMAIN web /\ \A f \in WebFields \ {"owner"} : web'[f] = web[f]
      BY <1>1, <1>2, <2>2 DEF WebSound, BooksTrue, WebFields
    <3> QED BY <1>1, <3>1, AsideSound DEF WebFields
  <2> QED BY <2>1, <2>2
<1>4. StagesTrue'
  BY <1>1, <1>2 DEF Restarted!Claim, Restarted!Look, Restarted!Rollback, StagesTrue, PageTrue
<1>5. PageTrue'
  BY <1>1 DEF Restarted!Claim, Restarted!Look, Restarted!Rollback, StagesTrue, PageTrue, StartFields
<1> QED BY <1>2, <1>3, <1>4, <1>5 DEF RecordsInv, TopicsTrue, CrashesLeft

\* The page takes back what it opened.
LEMMA RestoreKeeps == ASSUME RecordsInv, Restarted!Restore PROVE RecordsInv'
<1>1. /\ web' = Restarted!RolledBack(web) /\ start' = Restarted!NoStart
      /\ UNCHANGED <<stage, pump, topic, truth, bound>>
  BY DEF Restarted!Restore
<1>2. WebSound(web', truth) BY <1>1, RolledBackSound DEF RecordsInv
<1>3. PageTrue' BY <1>1 DEF PageTrue, StartFields, Restarted!NoStart
<1> QED BY <1>1, <1>2, <1>3, AsideKeeps DEF RecordsInv, CrashesLeft

\* The stop's own steps.
LEMMA StopsKeep ==
  ASSUME RecordsInv, Restarted!StopAsk \/ Restarted!StopNote \/ Restarted!StopClose PROVE RecordsInv'
<1>1. WebSound(web, truth) /\ PageTrue /\ CrashesLeft BY DEF RecordsInv
<1>2. /\ UNCHANGED <<start, stage, pump, topic, truth>>
      /\ bound' = bound \/ bound' = [bound EXCEPT !.stops = @ - 1]
      /\ web' \in {web, [web EXCEPT !.gen = @ + 1, !.owner = Nobody], Restarted!StopRecording(web)}
  BY DEF Restarted!StopAsk, Restarted!StopNote, Restarted!StopClose
<1>3. WebSound(web', truth)
  <2>1. CASE web' = [web EXCEPT !.gen = @ + 1, !.owner = Nobody]
    <3>1. DOMAIN web' = DOMAIN web /\ \A f \in WebFields \ {"owner", "gen"} : web'[f] = web[f]
      BY <1>1, <2>1 DEF WebSound, BooksTrue, WebFields
    <3> QED BY <1>1, <3>1, AsideSound DEF WebFields
  <2>2. CASE web' = Restarted!StopRecording(web) BY <1>1, <2>2, StopSound
  <2> QED BY <1>1, <1>2, <2>1, <2>2
<1>4. PageTrue' BY <1>1, <1>2 DEF PageTrue
<1>5. CrashesLeft' BY <1>1, <1>2 DEF CrashesLeft
<1> QED BY <1>2, <1>3, <1>4, <1>5, AsideKeeps

\* A message of the pump that is true is put behind the others.
LEMMA SaidKeeps ==
  ASSUME TopicsTrue, NEW a \in Attempts, NEW kind \in {"running"} \cup Restarted!Terminal,
         Restarted!PumpSays(a, kind), Later(truth, truth'), kind # "running" => Told(kind) = truth'[a]
  PROVE  TopicsTrue'
<1>1. topic' = [topic EXCEPT !.pump = Append(@, [a |-> a, kind |-> kind])]
  BY DEF Restarted!PumpSays, Restarted!Publish
<1>2. DOMAIN topic' = DOMAIN topic /\ topic'.result = topic.result
      /\ topic'.pump = Append(topic.pump, [a |-> a, kind |-> kind])
  BY <1>1 DEF TopicsTrue
<1>3. [a |-> a, kind |-> kind] \in PumpMessages(truth') BY DEF PumpMessages
<1>4. topic.pump \in Seq(PumpMessages(truth')) /\ topic.result \in Seq(ResultMessages(truth'))
  BY MessagesStay, SeqMonotonic DEF TopicsTrue
<1>5. topic'.pump \in Seq(PumpMessages(truth')) BY <1>2, <1>3, <1>4, AppendProperties
<1> QED BY <1>2, <1>4, <1>5 DEF TopicsTrue

\* An attempt that the pump runs ends: its end is what the pump says, and what was known before stays.
LEMMA PumpEndKeeps ==
  ASSUME RecordsInv, NEW a \in Attempts, pump = a, NEW kind \in Restarted!Terminal,
         NEW after \in {"over", "ended", "dropped"},
         pump' = Nobody, stage' = [stage EXCEPT ![a] = after], truth' = [truth EXCEPT ![a] = Told(kind)],
         UNCHANGED <<web, bound>>
  PROVE  /\ WebSound(web, truth)' /\ StagesTrue' /\ CrashesLeft' /\ Later(truth, truth')
         /\ UNCHANGED start => PageTrue'
         /\ Restarted!PumpSays(a, kind) => TopicsTrue'
<1>1. StagesTrue /\ WebSound(web, truth) /\ PageTrue /\ TopicsTrue /\ CrashesLeft BY DEF RecordsInv
<1>2. Told(kind) \in Restarted!Outcomes BY ToldIsOutcome
<1>3. stage[a] = "running" /\ truth[a] = "none" /\ a # Nobody
  BY <1>1, RecordingAssumption DEF StagesTrue, Restarted!NobodyIsNoAttempt
<1>4. StagesTrue'
  <2>1. DOMAIN stage' = Attempts /\ DOMAIN truth' = Attempts /\ pump' \in Restarted!Windows
    BY <1>1 DEF StagesTrue, Restarted!Windows
  <2>2. ASSUME NEW b \in Attempts
        PROVE  /\ truth'[b] \in {"none"} \cup Restarted!Outcomes
               /\ pump' = b <=> stage'[b] = "running"
               /\ stage'[b] \in {"new", "asked", "running"} => truth'[b] = "none"
               /\ stage'[b] = "ended" => truth'[b] \in Restarted!Outcomes
    <3>1. CASE b = a BY <1>1, <1>2, <1>3, <3>1 DEF StagesTrue
    <3>2. CASE b # a
      <4>1. stage'[b] = stage[b] /\ truth'[b] = truth[b] /\ stage[b] # "running" /\ pump' # b
        BY <1>1, <3>2, RecordingAssumption DEF StagesTrue, Restarted!NobodyIsNoAttempt
      <4> QED BY <1>1, <4>1 DEF StagesTrue
    <3> QED BY <3>1, <3>2
  <2> QED BY <2>1, <2>2 DEF StagesTrue
<1>5. Later(truth, truth') BY <1>1, <1>3 DEF Later, StagesTrue
<1>6. WebSound(web, truth)' BY <1>1, <1>5, StaysSound
<1>7. UNCHANGED start => PageTrue' BY <1>1, <1>3 DEF PageTrue, StagesTrue
<1>8. truth'[a] = Told(kind) BY <1>1 DEF StagesTrue
<1>9. Restarted!PumpSays(a, kind) => TopicsTrue' BY <1>1, <1>5, <1>8, SaidKeeps
<1>10. CrashesLeft' BY <1>1 DEF CrashesLeft
<1> QED BY <1>4, <1>5, <1>6, <1>7, <1>9, <1>10

\* It ends by itself, by a stop, or for want of an owner.
LEMMA EndByKeeps ==
  ASSUME RecordsInv, pump # Nobody, NEW kind \in Restarted!Terminal, Restarted!EndBy(pump, kind),
         UNCHANGED <<web, start, bound>>
  PROVE  RecordsInv'
<1>1. pump \in Attempts BY DEF RecordsInv, StagesTrue, Restarted!Windows
<1>2. PICK a \in Attempts : a = pump BY <1>1
<1>3. PICK after \in {"over", "ended", "dropped"} :
        /\ pump' = Nobody /\ Restarted!PumpSays(a, kind) /\ stage' = [stage EXCEPT ![a] = after]
        /\ truth' = [truth EXCEPT ![a] = Told(kind)]
  BY <1>2 DEF Restarted!EndBy, Told
<1>4. /\ WebSound(web, truth)' /\ StagesTrue' /\ CrashesLeft' /\ PageTrue' /\ TopicsTrue'
  BY <1>2, <1>3, PumpEndKeeps
<1> QED BY <1>4 DEF RecordsInv

\* The ends of the pump that are no more than that.
LEMMA EndsKeep ==
  ASSUME RecordsInv, \/ \E kind \in {"finished", "failed"} : Restarted!PumpEnds(kind)
                     \/ Restarted!OwnerLost \/ Restarted!StopCall
  PROVE  RecordsInv'
<1>1. CASE \E kind \in {"finished", "failed"} : Restarted!PumpEnds(kind)
  BY <1>1, EndByKeeps DEF Restarted!PumpEnds, Restarted!Terminal
<1>2. CASE Restarted!OwnerLost
  BY <1>2, EndByKeeps DEF Restarted!OwnerLost, Restarted!Terminal
<1>3. CASE Restarted!StopCall /\ pump # Nobody
  BY <1>3, EndByKeeps DEF Restarted!StopCall, Restarted!Terminal
<1>4. CASE Restarted!StopCall /\ pump = Nobody
  <2>1. UNCHANGED <<web, start, stage, pump, topic, truth, bound>> BY <1>4 DEF Restarted!StopCall
  <2>2. PageTrue' /\ CrashesLeft' /\ WebSound(web', truth) BY <2>1 DEF RecordsInv, PageTrue, CrashesLeft
  <2> QED BY <2>1, <2>2, AsideKeeps
<1> QED BY <1>1, <1>2, <1>3, <1>4

\* The pump admits the page's attempt or does not.
LEMMA CallKeeps == ASSUME RecordsInv, Restarted!Call PROVE RecordsInv'
<1>1. /\ StagesTrue /\ PageTrue /\ TopicsTrue /\ CrashesLeft /\ WebSound(web, truth)
      /\ start.pc = "call" /\ start.a \in Attempts /\ stage[start.a] = "asked"
      /\ UNCHANGED <<web, truth, bound>>
  BY DEF Restarted!Call, RecordsInv, PageTrue
<1>2. PageTrue'
  <2>1. PICK ok : start' = [start EXCEPT !.pc = "look", !.ok = ok] BY DEF Restarted!Call
  <2> QED BY <1>1, <2>1 DEF PageTrue, StartFields
<1>3. CASE UNCHANGED <<pump, stage, topic>>
  BY <1>1, <1>2, <1>3, AsideKeeps DEF CrashesLeft
<1>4. CASE /\ pump = Nobody /\ pump' = start.a /\ stage' = [stage EXCEPT ![start.a] = "running"]
           /\ Restarted!PumpSays(start.a, "running")
  <2>1. StagesTrue'
    BY <1>1, <1>4, RecordingAssumption DEF StagesTrue, Restarted!Windows, Restarted!NobodyIsNoAttempt
  <2>2. Later(truth, truth') BY <1>1 DEF Later
  <2>3. TopicsTrue' BY <1>1, <1>4, <2>2, SaidKeeps
  <2> QED BY <1>1, <1>2, <2>1, <2>3 DEF RecordsInv, CrashesLeft
<1> QED BY <1>3, <1>4 DEF Restarted!Call

\* A stop that came in the meantime takes the page's attempt off the pump.
LEMMA ConfirmKeeps == ASSUME RecordsInv, Restarted!Confirm PROVE RecordsInv'
<1>1. /\ PageTrue /\ CrashesLeft /\ WebSound(web, truth)
      /\ start.pc = "confirm" /\ start.a \in Attempts /\ UNCHANGED <<web, bound>>
  BY DEF Restarted!Confirm, RecordsInv, PageTrue
<1>2. PageTrue'
  <2>1. \/ start' = [start EXCEPT !.pc = "rollback", !.ok = FALSE]
        \/ start' = [start EXCEPT !.pc = "rollback"] \/ start' = Restarted!NoStart
    BY DEF Restarted!Confirm
  <2>2. CASE start' = Restarted!NoStart BY <2>2 DEF PageTrue, StartFields, Restarted!NoStart
  <2>3. CASE start' # Restarted!NoStart
    <3>1. /\ DOMAIN start' = StartFields /\ start'.window = start.window /\ start'.a = start.a
          /\ start'.pc = "rollback"
      BY <1>1, <2>1, <2>3 DEF PageTrue, StartFields
    <3> QED BY <1>1, <3>1 DEF PageTrue
  <2> QED BY <2>2, <2>3
<1>3. CASE UNCHANGED <<pump, topic, stage, truth>>
  BY <1>1, <1>2, <1>3, AsideKeeps DEF CrashesLeft
<1>4. CASE /\ pump = start.a /\ pump' = Nobody /\ Restarted!PumpSays(start.a, "stopped")
           /\ stage' = [stage EXCEPT ![start.a] = "over"]
           /\ truth' = [truth EXCEPT ![start.a] = "cancelled"]
  <2>1. Told("stopped") = "cancelled" BY DEF Told, Restarted!OutcomeOf
  <2>2. /\ WebSound(web, truth)' /\ StagesTrue' /\ CrashesLeft' /\ TopicsTrue'
    BY <1>1, <1>4, <2>1, PumpEndKeeps DEF Restarted!Terminal
  <2> QED BY <1>2, <2>2 DEF RecordsInv
<1> QED BY <1>3, <1>4 DEF Restarted!Confirm

\* An attempt of the trigger begins, or is refused with a result and perhaps a failure of the pump.
LEMMA TriggerKeeps == ASSUME RecordsInv, NEW a \in Attempts, Restarted!TriggerStarts(a) PROVE RecordsInv'
<1>1. /\ StagesTrue /\ PageTrue /\ TopicsTrue /\ CrashesLeft /\ WebSound(web, truth)
      /\ stage[a] = "new" /\ truth[a] = "none" /\ pump # a /\ UNCHANGED <<web, start, bound>>
  BY DEF Restarted!TriggerStarts, RecordsInv, StagesTrue
<1>2. CrashesLeft' BY <1>1 DEF CrashesLeft
<1>3. CASE UNCHANGED truth
  <2>1. PICK notices :
          /\ pump = Nobody /\ pump' = a /\ stage' = [stage EXCEPT ![a] = "running"]
          /\ topic' = [topic EXCEPT !.pump = Append(@, [a |-> a, kind |-> "running"]), !.trigger = notices]
    <3>1. truth' # [truth EXCEPT ![a] = "failed"] BY <1>1, <1>3 DEF StagesTrue
    <3> QED BY <3>1 DEF Restarted!TriggerStarts
  <2>2. StagesTrue'
    BY <1>1, <1>3, <2>1, RecordingAssumption
    DEF StagesTrue, Restarted!Windows, Restarted!NobodyIsNoAttempt
  <2>3. PageTrue' BY <1>1, <2>1 DEF PageTrue, StagesTrue
  <2>4. /\ DOMAIN topic' = DOMAIN topic /\ topic'.result = topic.result
        /\ topic'.pump = Append(topic.pump, [a |-> a, kind |-> "running"])
    BY <1>1, <2>1 DEF TopicsTrue
  <2>5. [a |-> a, kind |-> "running"] \in PumpMessages(truth) BY DEF PumpMessages
  <2>6. TopicsTrue' BY <1>1, <1>3, <2>4, <2>5, AppendProperties DEF TopicsTrue
  <2> QED BY <1>1, <1>2, <1>3, <2>2, <2>3, <2>6 DEF RecordsInv
<1>4. CASE truth' = [truth EXCEPT ![a] = "failed"]
  <2>1. truth' # truth BY <1>1, <1>4 DEF StagesTrue
  <2>2. PICK begun, notices :
          /\ stage' = [stage EXCEPT ![a] = "over"] /\ pump' = pump
          /\ topic' = [topic EXCEPT
               !.pump = IF begun THEN @ \o << [a |-> a, kind |-> "running"], [a |-> a, kind |-> "failed"] >>
                        ELSE @,
               !.result = Append(@, [a |-> a, outcome |-> "failed", admission |-> TRUE]),
               !.trigger = notices]
    BY <2>1 DEF Restarted!TriggerStarts
  <2>3. StagesTrue' BY <1>1, <1>4, <2>2 DEF StagesTrue, Restarted!Outcomes
  <2>4. PageTrue' BY <1>1, <2>2 DEF PageTrue, StagesTrue
  <2>5. Later(truth, truth') /\ truth'[a] = "failed" BY <1>1, <1>4 DEF Later, StagesTrue
  <2>6. WebSound(web, truth)' BY <1>1, <2>5, StaysSound
  <2>7. topic.pump \in Seq(PumpMessages(truth')) /\ topic.result \in Seq(ResultMessages(truth'))
    BY <1>1, <2>5, MessagesStay, SeqMonotonic DEF TopicsTrue
  <2>8. Told("failed") = "failed" BY DEF Told, Restarted!OutcomeOf
  <2>9. /\ [a |-> a, kind |-> "running"] \in PumpMessages(truth')
        /\ [a |-> a, kind |-> "failed"] \in PumpMessages(truth')
        /\ [a |-> a, outcome |-> "failed", admission |-> TRUE] \in ResultMessages(truth')
    BY <2>5, <2>8 DEF PumpMessages, ResultMessages, Restarted!Terminal, Restarted!Outcomes
  <2>10. /\ DOMAIN topic' = DOMAIN topic
         /\ topic'.pump \in {topic.pump, topic.pump \o
                << [a |-> a, kind |-> "running"], [a |-> a, kind |-> "failed"] >>}
         /\ topic'.result = Append(topic.result, [a |-> a, outcome |-> "failed", admission |-> TRUE])
    BY <1>1, <2>2 DEF TopicsTrue
  <2>11. topic'.pump \in Seq(PumpMessages(truth'))
    <3>1. << [a |-> a, kind |-> "running"], [a |-> a, kind |-> "failed"] >> \in Seq(PumpMessages(truth'))
      BY <2>9
    <3> QED BY <2>7, <2>10, <3>1, ConcatProperties
  <2>12. topic'.result \in Seq(ResultMessages(truth')) BY <2>7, <2>9, <2>10, AppendProperties
  <2>13. TopicsTrue' BY <1>1, <2>10, <2>11, <2>12 DEF TopicsTrue
  <2> QED BY <1>2, <2>3, <2>4, <2>6, <2>13 DEF RecordsInv
<1> QED BY <1>3, <1>4 DEF Restarted!TriggerStarts

\* The trigger reports an end as it was.
LEMMA ReportKeeps == ASSUME RecordsInv, NEW a \in Attempts, Restarted!TriggerReports(a) PROVE RecordsInv'
<1>1. /\ StagesTrue /\ PageTrue /\ TopicsTrue /\ CrashesLeft /\ WebSound(web, truth)
      /\ stage[a] = "ended" /\ truth[a] \in Restarted!Outcomes
      /\ stage' = [stage EXCEPT ![a] = "over"] /\ UNCHANGED <<web, start, pump, truth, bound>>
  BY DEF Restarted!TriggerReports, RecordsInv, StagesTrue
<1>2. PICK notices : topic' = [topic EXCEPT !.trigger = notices,
                                 !.result = Append(@, [a |-> a, outcome |-> truth[a], admission |-> FALSE])]
  BY DEF Restarted!TriggerReports
<1>3. [a |-> a, outcome |-> truth[a], admission |-> FALSE] \in ResultMessages(truth)
  BY <1>1 DEF ResultMessages
<1>4. /\ DOMAIN topic' = DOMAIN topic /\ topic'.pump = topic.pump
      /\ topic'.result = Append(topic.result, [a |-> a, outcome |-> truth[a], admission |-> FALSE])
  BY <1>1, <1>2 DEF TopicsTrue
<1>5. TopicsTrue' BY <1>1, <1>3, <1>4, AppendProperties DEF TopicsTrue
<1>6. StagesTrue' BY <1>1 DEF StagesTrue
<1>7. PageTrue' BY <1>1 DEF PageTrue, StagesTrue
<1> QED BY <1>1, <1>5, <1>6, <1>7 DEF RecordsInv, CrashesLeft

\* The end of a survey cleans its attempt up.
LEMMA SurveyKeeps == ASSUME RecordsInv, NEW a \in Attempts, Restarted!SurveyStopped(a) PROVE RecordsInv'
<1>1. /\ StagesTrue /\ PageTrue /\ TopicsTrue /\ pump = a
      /\ pump' = Nobody /\ stage' = [stage EXCEPT ![a] = "dropped"]
      /\ truth' = [truth EXCEPT ![a] = "cancelled"] /\ UNCHANGED <<web, start, bound>>
  BY DEF Restarted!SurveyStopped, RecordsInv, StagesTrue
<1>2. PICK notices : topic' = [topic EXCEPT !.pump = Append(@, [a |-> a, kind |-> "stopped"]),
                                            !.trigger = notices]
  BY DEF Restarted!SurveyStopped
<1>3. Told("stopped") = "cancelled" BY DEF Told, Restarted!OutcomeOf
<1>4. /\ WebSound(web, truth)' /\ StagesTrue' /\ CrashesLeft' /\ PageTrue' /\ Later(truth, truth')
  BY <1>1, <1>3, PumpEndKeeps DEF Restarted!Terminal
<1>5. truth'[a] = "cancelled" BY <1>1 DEF StagesTrue
<1>6. [a |-> a, kind |-> "stopped"] \in PumpMessages(truth')
  BY <1>3, <1>5 DEF PumpMessages, Restarted!Terminal
<1>7. topic.pump \in Seq(PumpMessages(truth')) /\ topic.result \in Seq(ResultMessages(truth'))
  BY <1>1, <1>4, MessagesStay, SeqMonotonic DEF TopicsTrue
<1>8. /\ DOMAIN topic' = DOMAIN topic /\ topic'.result = topic.result
      /\ topic'.pump = Append(topic.pump, [a |-> a, kind |-> "stopped"])
  BY <1>1, <1>2 DEF TopicsTrue
<1>9. TopicsTrue' BY <1>1, <1>6, <1>7, <1>8, AppendProperties DEF TopicsTrue
<1> QED BY <1>4, <1>9 DEF RecordsInv

\* The pump says again what it runs.
LEMMA RepeatKeeps == ASSUME RecordsInv, Restarted!PumpRepeats PROVE RecordsInv'
<1>1. /\ pump \in Attempts /\ Restarted!PumpSays(pump, "running")
      /\ bound' = [bound EXCEPT !.repeats = @ - 1] /\ UNCHANGED <<web, start, stage, pump, truth>>
      /\ StagesTrue /\ PageTrue /\ TopicsTrue /\ CrashesLeft /\ WebSound(web, truth)
  BY DEF Restarted!PumpRepeats, RecordsInv, StagesTrue, Restarted!Windows
<1>2. TopicsTrue' BY <1>1, SaidKeeps DEF Later
<1>3. CrashesLeft' BY <1>1 DEF CrashesLeft
<1> QED BY <1>1, <1>2, <1>3 DEF RecordsInv, StagesTrue, PageTrue

\* A restart knows what is in the files, and hears what the pump runs.
LEMMA RestartKeeps ==
  ASSUME RecordsInv, Restarted!Crash PROVE RecordsInv' /\ bound' # bound
<1>1. /\ StagesTrue /\ TopicsTrue /\ CrashesLeft /\ WebSound(web, truth)
      /\ bound.crashes > 0 /\ bound' = [bound EXCEPT !.crashes = @ - 1]
      /\ web' = Restarted!Fresh(Restarted!Recovered(web.disk)) /\ start' = Restarted!NoStart
      /\ stage' = [a \in Attempts |-> IF stage[a] = "asked" THEN "over" ELSE stage[a]]
      /\ topic' = [pump |-> IF pump = Nobody THEN <<>> ELSE << [a |-> pump, kind |-> "running"] >>,
                   trigger |-> <<>>, result |-> <<>>]
      /\ UNCHANGED <<pump, truth>>
  BY DEF Restarted!Crash, RecordsInv
<1>2. CrashesLeft' /\ bound' # bound BY <1>1 DEF CrashesLeft
<1>3. DiskTrue(Restarted!Recovered(web.disk), truth)
  <2>1. DiskTrue(web.disk, truth) BY <1>1 DEF WebSound, BooksTrue
  <2>2. ASSUME NEW m \in Restarted!Missions
        PROVE  /\ DOMAIN Restarted!Recovered(web.disk)[m] = {"state", "windows"}
               /\ Restarted!Recovered(web.disk)[m].windows = web.disk[m].windows
    BY <2>1 DEF DiskTrue, Restarted!Recovered
  <2>3. DOMAIN Restarted!Recovered(web.disk) = Restarted!Missions BY DEF Restarted!Recovered
  <2> QED BY <2>1, <2>2, <2>3 DEF DiskTrue
<1>4. WebSound(web', truth) BY <1>1, <1>3, FreshSound
<1>5. StagesTrue' BY <1>1 DEF StagesTrue
<1>6. PageTrue' BY <1>1 DEF PageTrue, StartFields, Restarted!NoStart
<1>7. TopicsTrue'
  <2>1. topic'.pump \in Seq(PumpMessages(truth))
    <3>1. CASE pump = Nobody BY <1>1, <3>1
    <3>2. CASE pump # Nobody
      <4>1. pump \in Attempts BY <1>1, <3>2 DEF StagesTrue, Restarted!Windows
      <4>2. [a |-> pump, kind |-> "running"] \in PumpMessages(truth) BY <4>1 DEF PumpMessages
      <4> QED BY <1>1, <3>2, <4>2
    <3> QED BY <3>1, <3>2
  <2> QED BY <1>1, <2>1 DEF TopicsTrue
<1> QED BY <1>1, <1>2, <1>4, <1>5, <1>6, <1>7 DEF RecordsInv

\* Every step keeps the records true.
LEMMA RecordsStep == ASSUME RecordsInv, Restarted!Next PROVE RecordsInv'
<1>1. CASE \E a \in Attempts : Restarted!Ask(a) \/ Restarted!TriggerStarts(a) \/ Restarted!SurveyStopped(a)
  BY <1>1, AskKeeps, TriggerKeeps, SurveyKeeps
<1>2. CASE Restarted!StopAsk BY <1>2, StopsKeep
<1>3. CASE Restarted!PumpRepeats BY <1>3, RepeatKeeps
<1>4. CASE Restarted!Crash BY <1>4, RestartKeeps
<1>5. CASE Restarted!Page
  BY <1>5, PrepareKeeps, ClaimKeeps, CallKeeps, ConfirmKeeps, RestoreKeeps, StopsKeep, EndsKeep
  DEF Restarted!Page
<1>6. CASE Restarted!Callbacks BY <1>6, CallbacksKeep
<1>7. CASE Restarted!Rest BY <1>7, ReportKeeps, EndsKeep DEF Restarted!Rest
<1> QED BY <1>1, <1>2, <1>3, <1>4, <1>5, <1>6, <1>7 DEF Restarted!Next, Restarted!Step

\* What the invariant says of the files.
LEMMA RecordsInvIsEnough == ASSUME RecordsInv PROVE Restarted!RecordsAreTrue
<1>1. DiskTrue(web.disk, truth) BY DEF RecordsInv, WebSound, BooksTrue
<1> QED BY <1>1 DEF DiskTrue, RecordSound, Restarted!RecordsAreTrue

\* Only what takes a start back goes from there to the end of the request, unless the server restarts.
LEMMA OnlyOwnRollback == ASSUME RecordsInv, Restarted!Next PROVE Restarted!RollsBackItsOwn
<1> SUFFICES ASSUME start.pc = "restore", start'.pc = "idle", UNCHANGED bound
             PROVE  \A m \in Restarted!Missions, w \in Restarted!Windows \ {start.a} :
                      web'.disk[m].windows[w] = web.disk[m].windows[w]
  BY DEF Restarted!RollsBackItsOwn
<1>1. ~Restarted!Crash BY RestartKeeps
<1>2. Restarted!Restore
  BY <1>1 DEF Restarted!Next, Restarted!Step, Restarted!Page, Restarted!Callbacks, Restarted!Rest, Restarted!Ask,
    Restarted!TriggerStarts, Restarted!SurveyStopped, Restarted!StopAsk, Restarted!PumpRepeats,
    Restarted!Prepare, Restarted!Claim, Restarted!Call, Restarted!Look, Restarted!Confirm,
    Restarted!Rollback, Restarted!StopNote, Restarted!StopCall, Restarted!StopClose,
    Restarted!AutomationStatus, Restarted!TriggerStatus, Restarted!SamplingResult,
    Restarted!TriggerReports, Restarted!PumpEnds, Restarted!OwnerLost
<1>3. SameBut(web, web', start.window)
  <2>1. web' = Restarted!RolledBack(web) BY <1>2 DEF Restarted!Restore
  <2> QED BY <2>1, RolledBackSound DEF RecordsInv
<1>4. start.window \in {Restarted!NoWindow, start.a} BY DEF RecordsInv, PageTrue
<1> QED BY <1>3, <1>4, RecordingAssumption DEF SameBut, Restarted!NobodyIsNoAttempt

(***************************************************************************)
(* The two parts differ in the bounds that a behaviour begins with, and    *)
(* in nothing else: their steps are the same.                              *)
(***************************************************************************)
\* The names for what is not there, and the kinds of ends.
LEMMA SameNames ==
  /\ Repeated!Missions = Restarted!Missions /\ Repeated!Windows = Restarted!Windows
  /\ Repeated!NoWindow = Restarted!NoWindow /\ Repeated!NoFile = Restarted!NoFile
  /\ Repeated!Outcomes = Restarted!Outcomes /\ Repeated!Terminal = Restarted!Terminal
  /\ Repeated!NoStart = Restarted!NoStart /\ Repeated!NoStop = Restarted!NoStop
BY DEF Repeated!Missions, Restarted!Missions, Repeated!Windows, Restarted!Windows, Repeated!NoWindow,
         Restarted!NoWindow, Repeated!NoFile, Restarted!NoFile, Repeated!Outcomes, Restarted!Outcomes,
         Repeated!Terminal, Restarted!Terminal, Repeated!NoStart, Restarted!NoStart, Repeated!NoStop,
         Restarted!NoStop

\* The steps on the memory, from the inside out.
LEMMA SameSaving ==
  ASSUME NEW s, NEW state PROVE Repeated!Saved(s, state) = Restarted!Saved(s, state)
BY DEF Repeated!Saved, Restarted!Saved

LEMMA SameStarting ==
  ASSUME NEW s, NEW source PROVE Repeated!StartRecording(s, source) = Restarted!StartRecording(s, source)
<1>1. Repeated!NextFile(s) = Restarted!NextFile(s)
  BY SameNames DEF Repeated!NextFile, Restarted!NextFile, Repeated!Cardinality, Restarted!Cardinality,
                   Repeated!IsFiniteSet, Restarted!IsFiniteSet
<1> QED BY <1>1, SameNames, SameSaving DEF Repeated!StartRecording, Restarted!StartRecording

LEMMA SameOpening == ASSUME NEW s PROVE Repeated!OpenWindow(s) = Restarted!OpenWindow(s)
BY SameNames, SameSaving DEF Repeated!OpenWindow, Restarted!OpenWindow

LEMMA SameClosing ==
  ASSUME NEW s, NEW outcome PROVE Repeated!CloseWindow(s, outcome) = Restarted!CloseWindow(s, outcome)
BY SameNames, SameSaving DEF Repeated!CloseWindow, Restarted!CloseWindow

LEMMA SameStopping == ASSUME NEW s PROVE Repeated!StopRecording(s) = Restarted!StopRecording(s)
BY SameClosing, SameSaving DEF Repeated!StopRecording, Restarted!StopRecording

\* What is known of an end.
LEMMA SameKnowing ==
  ASSUME NEW s
  PROVE  /\ Repeated!RecordingAttempt(s) = Restarted!RecordingAttempt(s)
         /\ \A a : Repeated!ResultOf(s, a) = Restarted!ResultOf(s, a)
         /\ Repeated!StatusOf(s) = Restarted!StatusOf(s)
         /\ Repeated!ResultOrStatus(s) = Restarted!ResultOrStatus(s)
         /\ \A a : Repeated!Finished(s, a) <=> Restarted!Finished(s, a)
<1>1. Repeated!RecordingAttempt(s) = Restarted!RecordingAttempt(s)
  BY DEF Repeated!RecordingAttempt, Restarted!RecordingAttempt
<1>2. ASSUME NEW a PROVE Repeated!ResultOf(s, a) = Restarted!ResultOf(s, a)
  BY DEF Repeated!ResultOf, Restarted!ResultOf
<1>3. Repeated!StatusOf(s) = Restarted!StatusOf(s) BY DEF Repeated!StatusOf, Restarted!StatusOf
<1>4. Repeated!ResultOrStatus(s) = Restarted!ResultOrStatus(s)
  BY <1>1, <1>2, <1>3 DEF Repeated!ResultOrStatus, Restarted!ResultOrStatus
<1>5. ASSUME NEW a PROVE Repeated!Finished(s, a) <=> Restarted!Finished(s, a)
  BY DEF Repeated!Finished, Restarted!Finished
<1> QED BY <1>1, <1>2, <1>3, <1>4, <1>5

\* The end of an owned recording.
LEMMA SameEnding ==
  ASSUME NEW s, NEW d
  PROVE  /\ Repeated!Finish(s, d) = Restarted!Finish(s, d)
         /\ Repeated!Finishes(s, d) <=> Restarted!Finishes(s, d)
<1>1. Repeated!OutcomeOf(d) = Restarted!OutcomeOf(d) BY DEF Repeated!OutcomeOf, Restarted!OutcomeOf
<1>2. \A a : Repeated!SourceIn(a) = Restarted!SourceIn(a) BY DEF Repeated!SourceIn, Restarted!SourceIn
<1>3. Repeated!Concerns(s, d) <=> Restarted!Concerns(s, d)
  BY SameKnowing, SameNames DEF Repeated!Concerns, Restarted!Concerns
<1>4. Repeated!Opened(s, d) = Restarted!Opened(s, d)
  BY <1>2, SameNames, SameStarting, SameOpening DEF Repeated!Opened, Restarted!Opened
<1>5. \A t : Repeated!EndsOn(t, d) <=> Restarted!EndsOn(t, d)
  BY <1>2 DEF Repeated!EndsOn, Restarted!EndsOn
<1>6. Repeated!Finishes(s, d) <=> Restarted!Finishes(s, d)
  BY <1>3, <1>4, <1>5, SameNames DEF Repeated!Finishes, Restarted!Finishes
<1>7. Repeated!Finish(s, d) = Restarted!Finish(s, d)
  BY <1>1, <1>3, <1>4, <1>6, SameClosing, SameStopping DEF Repeated!Finish, Restarted!Finish
<1> QED BY <1>6, <1>7

\* The three callbacks.
LEMMA SameCallbacks ==
  ASSUME NEW s
  PROVE  /\ \A m : Repeated!AfterStatus(s, m) = Restarted!AfterStatus(s, m)
         /\ \A a : Repeated!AfterContext(s, a) = Restarted!AfterContext(s, a)
         /\ Repeated!AfterStarted(s) = Restarted!AfterStarted(s)
         /\ \A kind : Repeated!AfterStopped(s, kind) = Restarted!AfterStopped(s, kind)
<1>1. ASSUME NEW m PROVE Repeated!AfterStatus(s, m) = Restarted!AfterStatus(s, m)
  <2>1. Repeated!OpenedBy(s, m) = Restarted!OpenedBy(s, m)
    BY SameNames, SameKnowing, SameStarting, SameOpening DEF Repeated!OpenedBy, Restarted!OpenedBy
  <2> QED BY <2>1, SameKnowing, SameEnding, SameStopping DEF Repeated!AfterStatus, Restarted!AfterStatus
<1>2. ASSUME NEW a PROVE Repeated!AfterContext(s, a) = Restarted!AfterContext(s, a)
  BY SameKnowing, SameEnding DEF Repeated!AfterContext, Restarted!AfterContext
<1>3. Repeated!AfterStarted(s) = Restarted!AfterStarted(s)
  BY SameKnowing, SameEnding, SameStarting, SameOpening DEF Repeated!AfterStarted, Restarted!AfterStarted
<1>4. ASSUME NEW kind PROVE Repeated!AfterStopped(s, kind) = Restarted!AfterStopped(s, kind)
  BY SameKnowing, SameEnding, SameClosing, SameStopping DEF Repeated!AfterStopped, Restarted!AfterStopped
<1> QED BY <1>1, <1>2, <1>3, <1>4

\* Taking back a start.
LEMMA SameTakingBack == ASSUME NEW s PROVE Repeated!RolledBack(s) = Restarted!RolledBack(s)
BY SameNames, SameClosing, SameStopping DEF Repeated!RolledBack, Restarted!RolledBack

\* The steps of the topics.
LEMMA SamePublishing ==
  /\ \A q : Repeated!Take(q) <=> Restarted!Take(q)
  /\ \A a, kind : Repeated!PumpSays(a, kind) <=> Restarted!PumpSays(a, kind)
  /\ Repeated!Delivered <=> Restarted!Delivered
BY DEF Repeated!Take, Restarted!Take, Repeated!PumpSays, Restarted!PumpSays, Repeated!Publish,
       Restarted!Publish, Repeated!Delivered, Restarted!Delivered

\* Each action of the one part is that of the other.
LEMMA SamePage == Repeated!Page <=> Restarted!Page
<1>1. \A a, kind : Repeated!EndBy(a, kind) <=> Restarted!EndBy(a, kind)
  BY SamePublishing DEF Repeated!EndBy, Restarted!EndBy, Repeated!OutcomeOf, Restarted!OutcomeOf
<1>2. Repeated!Prepare <=> Restarted!Prepare
  BY SameNames, SameStarting, SameOpening DEF Repeated!Prepare, Restarted!Prepare
<1>3. Repeated!Claim <=> Restarted!Claim BY DEF Repeated!Claim, Restarted!Claim
<1>4. Repeated!Call <=> Restarted!Call BY SamePublishing DEF Repeated!Call, Restarted!Call
<1>5. Repeated!Look <=> Restarted!Look BY DEF Repeated!Look, Restarted!Look
<1>6. Repeated!Confirm <=> Restarted!Confirm
  BY SameNames, SamePublishing DEF Repeated!Confirm, Restarted!Confirm
<1>7. Repeated!Rollback <=> Restarted!Rollback BY DEF Repeated!Rollback, Restarted!Rollback
<1>8. Repeated!Restore <=> Restarted!Restore
  BY SameNames, SameTakingBack DEF Repeated!Restore, Restarted!Restore
<1>9. Repeated!StopNote <=> Restarted!StopNote BY DEF Repeated!StopNote, Restarted!StopNote
<1>10. Repeated!StopCall <=> Restarted!StopCall BY <1>1 DEF Repeated!StopCall, Restarted!StopCall
<1>11. Repeated!StopClose <=> Restarted!StopClose
  BY SameNames, SameStopping DEF Repeated!StopClose, Restarted!StopClose
<1> QED BY <1>2, <1>3, <1>4, <1>5, <1>6, <1>7, <1>8, <1>9, <1>10, <1>11 DEF Repeated!Page, Restarted!Page

\* The same of the callbacks.
LEMMA SameHearing == Repeated!Callbacks <=> Restarted!Callbacks
<1>1. Repeated!AutomationStatus <=> Restarted!AutomationStatus
  BY SameCallbacks, SamePublishing DEF Repeated!AutomationStatus, Restarted!AutomationStatus
<1>2. Repeated!TriggerStatus <=> Restarted!TriggerStatus
  BY SameCallbacks, SamePublishing, SameStarting DEF Repeated!TriggerStatus, Restarted!TriggerStatus
<1>3. Repeated!SamplingResult <=> Restarted!SamplingResult
  BY SameKnowing, SameEnding, SamePublishing DEF Repeated!SamplingResult, Restarted!SamplingResult
<1> QED BY <1>1, <1>2, <1>3 DEF Repeated!Callbacks, Restarted!Callbacks

\* The same of the pump and the trigger.
LEMMA SameRest == Repeated!Rest <=> Restarted!Rest
<1>1. \A a, kind : Repeated!EndBy(a, kind) <=> Restarted!EndBy(a, kind)
  BY SamePublishing DEF Repeated!EndBy, Restarted!EndBy, Repeated!OutcomeOf, Restarted!OutcomeOf
<1>2. \A a : Repeated!TriggerReports(a) <=> Restarted!TriggerReports(a)
  BY DEF Repeated!TriggerReports, Restarted!TriggerReports
<1>3. \A kind : Repeated!PumpEnds(kind) <=> Restarted!PumpEnds(kind)
  BY <1>1 DEF Repeated!PumpEnds, Restarted!PumpEnds
<1>4. Repeated!OwnerLost <=> Restarted!OwnerLost BY <1>1 DEF Repeated!OwnerLost, Restarted!OwnerLost
<1> QED BY <1>2, <1>3, <1>4 DEF Repeated!Rest, Restarted!Rest

\* The same of a whole step.
LEMMA SameSteps == Repeated!Next <=> Restarted!Next
<1>1. \A a : Repeated!Ask(a) <=> Restarted!Ask(a)
  BY SameNames DEF Repeated!Ask, Restarted!Ask
<1>2. \A a : Repeated!TriggerStarts(a) <=> Restarted!TriggerStarts(a)
  BY SamePublishing DEF Repeated!TriggerStarts, Restarted!TriggerStarts, Repeated!Sampling, Restarted!Sampling
<1>3. \A a : Repeated!SurveyStopped(a) <=> Restarted!SurveyStopped(a)
  BY DEF Repeated!SurveyStopped, Restarted!SurveyStopped
<1>4. Repeated!StopAsk <=> Restarted!StopAsk BY DEF Repeated!StopAsk, Restarted!StopAsk
<1>5. Repeated!PumpRepeats <=> Restarted!PumpRepeats
  BY SamePublishing DEF Repeated!PumpRepeats, Restarted!PumpRepeats
<1>6. Repeated!Crash <=> Restarted!Crash
  <2>1. \A files : Repeated!Recovered(files) = Restarted!Recovered(files)
    BY SameNames DEF Repeated!Recovered, Restarted!Recovered
  <2>2. \A files : Repeated!Fresh(files) = Restarted!Fresh(files)
    BY SameNames DEF Repeated!Fresh, Restarted!Fresh, Repeated!NoStatus, Restarted!NoStatus,
                     Repeated!NoResult, Restarted!NoResult
  <2> QED BY <2>1, <2>2, SameNames DEF Repeated!Crash, Restarted!Crash
<1> QED
  BY <1>1, <1>2, <1>3, <1>4, <1>5, <1>6, SamePage, SameHearing, SameRest
  DEF Repeated!Next, Restarted!Next, Repeated!Step, Restarted!Step

\* And of what is said of them.
LEMMA SameClaims ==
  /\ Repeated!RecordsAreTrue <=> Restarted!RecordsAreTrue
  /\ Repeated!RollsBackItsOwn <=> Restarted!RollsBackItsOwn
BY SameNames DEF Repeated!RecordsAreTrue, Restarted!RecordsAreTrue, Repeated!RollsBackItsOwn,
                 Restarted!RollsBackItsOwn

\* What a file says of an attempt is how that attempt ended, whatever the order in which its end,
\* its result and the notices of other attempts come in, through restarts of the server, stops and
\* starts that are taken back; and taking back a start changes the record of no other attempt.
THEOREM FilesTellTheEnds ==
  Spec => /\ [](part = "restart" => Restarted!RecordsAreTrue)
          /\ [](part = "repeat" => Repeated!RecordsAreTrue)
          /\ [][/\ part = "restart" => Restarted!RollsBackItsOwn
                /\ part = "repeat" => Repeated!RollsBackItsOwn]_parts
<1> DEFINE Inv == part \in {"restart", "repeat"} => RecordsInv
           Own == /\ part = "restart" => Restarted!RollsBackItsOwn
                  /\ part = "repeat" => Repeated!RollsBackItsOwn
<1>1. Start => Inv BY RecordsInit DEF Start
<1>2. Inv /\ [Step]_parts => Inv'
  <2> SUFFICES ASSUME Inv, [Step]_parts, part' \in {"restart", "repeat"} PROVE RecordsInv'
    OBVIOUS
  <2>1. CASE UNCHANGED parts
    <3>1. RecordsInv /\ UNCHANGED <<web, start, stage, pump, topic, truth, bound>>
      BY <2>1 DEF parts, After6, After7
    <3>2. WebSound(web', truth') BY <3>1 DEF RecordsInv
    <3> QED BY <3>1, <3>2 DEF RecordsInv, StagesTrue, PageTrue, TopicsTrue, CrashesLeft
  <2>2. CASE Step
    <3>1. RecordsInv /\ Restarted!Next BY <2>2, SameSteps DEF Step
    <3> QED BY <3>1, RecordsStep
  <2> QED BY <2>1, <2>2
<1>3. Inv => (part = "restart" => Restarted!RecordsAreTrue) /\ (part = "repeat" => Repeated!RecordsAreTrue)
  BY RecordsInvIsEnough, SameClaims
<1>4. Inv /\ [Step]_parts => [Own]_parts
  <2> SUFFICES ASSUME Inv, Step PROVE Own
    OBVIOUS
  <2>1. CASE part \in {"restart", "repeat"}
    <3>1. RecordsInv /\ Restarted!Next BY <2>1, SameSteps DEF Step
    <3> QED BY <3>1, OnlyOwnRollback, SameClaims
  <2>2. CASE part \notin {"restart", "repeat"} BY <2>2
  <2> QED BY <2>1, <2>2
<1> QED BY <1>1, <1>2, <1>3, <1>4, PTL DEF Spec
=============================================================================
