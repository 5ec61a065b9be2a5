------------------------------ MODULE MapPacks ------------------------------
(***************************************************************************)
(* Packs of map tiles between two machines: map_pack_export.py downloads   *)
(* tiles into a directory and packs it, whole or (map_pack_delta.py) as    *)
(* what a base lacks; map_pack_import.py and the web server apply a pack   *)
(* to the cache of the vehicle, while the page goes on fetching tiles.     *)
(*                                                                         *)
(* A directory of tiles is a function from tile keys to contents; Absent   *)
(* is a missing file.  A SHA-256 is the value it is taken of: of keys and  *)
(* contents (hash_tiles_root), or of keys and sizes (tile_index_sha256).   *)
(***************************************************************************)
EXTENDS Naturals, FiniteSets

CONSTANTS Keys, Contents,
          SizeOf,      \* the size of a content
          Versions,    \* the contents that the provider may give of a key
          Bad,         \* a content that only damage makes
          Absent,
          Appliers,    \* threads and processes that apply packs
          Events       \* bound: exports, damages, fetches, failures, crashes

ContentsType == /\ SizeOf \in [Contents -> Nat] /\ Versions \in [Keys -> SUBSET Contents]
                /\ Bad \in Contents /\ Absent \notin Contents

Root == [Keys -> Contents \cup {Absent}]
Empty == [k \in Keys |-> Absent]

VARIABLES
  work,    \* the exporter's directory
  base,    \* the exporter's copy of what the vehicle has
  pack,    \* the pack on its way, or NoPack
  cache,   \* the vehicle's tiles
  applier, \* the appliers
  left     \* what is left of Events

vars == <<work, base, pack, cache, applier, left>>

In(root) == {k \in Keys : root[k] # Absent}
Index(root) == {<<k, SizeOf[root[k]]>> : k \in In(root)}    \* compute_tile_index_sha256

(* build_manifest: count and hashes are taken of the directory.            *)
Pack(tiles, kind, on, new) ==
  [tiles |-> tiles, readable |-> TRUE, wants |-> In(new),
   manifest |-> [kind |-> kind, base |-> on, count |-> Cardinality(In(tiles)), sha |-> tiles]]
NoPack == [tiles |-> Empty, readable |-> FALSE, wants |-> {},
           manifest |-> [kind |-> "none", base |-> {}, count |-> 0, sha |-> Empty]]

(* Only keys that the base lacks go into a delta.                          *)
Delta(new, old) ==
  Pack([k \in Keys |-> IF k \in In(old) THEN Absent ELSE new[k]], "delta", Index(old), new)
Whole(new) == Pack(new, "full", {}, new)

Spend == left > 0 /\ left' = left - 1

-----------------------------------------------------------------------------
(* The exporter.                                                           *)

(* A tile that is there and valid is kept, another one is fetched; a fetch *)
(* that fails leaves a gap.                                                *)
Download(k, v) ==
  /\ Spend /\ work[k] = Absent /\ v \in Versions[k]
  /\ work' = [work EXCEPT ![k] = v]
  /\ UNCHANGED <<base, pack, cache, applier>>

(* The exporter takes a copy of the vehicle's cache as the base.           *)
CopyBase ==
  /\ Spend /\ base' = cache
  /\ UNCHANGED <<work, pack, cache, applier>>

ExportWhole ==
  /\ In(work) # {} /\ pack = NoPack
  /\ pack' = Whole(work)
  /\ UNCHANGED <<work, base, cache, applier, left>>

ExportDelta ==
  /\ pack = NoPack
  /\ pack' = Delta(work, base)
  /\ UNCHANGED <<work, base, cache, applier, left>>

(* The way to the vehicle: a pack is lost, cut, or changed in its bytes.   *)
Damage ==
  /\ Spend /\ pack # NoPack
  /\ \/ pack' = NoPack
     \/ pack' = [pack EXCEPT !.readable = FALSE]
     \/ \E k \in In(pack.tiles), c \in {Absent, Bad} : pack' = [pack EXCEPT !.tiles[k] = c]
  /\ UNCHANGED <<work, base, cache, applier>>

-----------------------------------------------------------------------------
(* apply_delta: staged, validated, compared with the base, merged tile by  *)
(* tile.                                                                   *)

ValidatedCount(p) == Cardinality(In(p.tiles)) = p.manifest.count
Validated(p) == Cardinality(In(p.tiles)) = p.manifest.count /\ p.tiles = p.manifest.sha

BaseUnseen(p, root) == TRUE
BaseMatches(p, root) == p.manifest.kind = "delta" => p.manifest.base = Index(root)

(* diff_pack: what an application would do.                                *)
Diff(p, root) ==
  [ok |-> p.readable /\ Validated(p), matches |-> BaseMatches(p, root),
   add |-> In(p.tiles) \ In(root), skip |-> In(p.tiles) \cap In(root)]

NoApply == [pc |-> "idle", pack |-> NoPack, staged |-> Empty, todo |-> {}, added |-> {},
            skipped |-> {}, errors |-> {}, foretold |-> Diff(NoPack, Empty), cleared |-> FALSE]

Init ==
  /\ work = Empty /\ base = Empty /\ pack = NoPack /\ cache = Empty
  /\ applier = [p \in Appliers |-> NoApply]
  /\ left = Events

Stage(a) ==
  /\ applier[a].pc = "idle" /\ pack.readable
  /\ applier' = [applier EXCEPT ![a] =
       IF Validated(pack) THEN [NoApply EXCEPT !.pc = "base", !.pack = pack, !.staged = pack.tiles]
       ELSE NoApply]
  /\ UNCHANGED <<work, base, pack, cache, left>>

Compare(a) ==
  /\ applier[a].pc = "base"
  /\ applier' = [applier EXCEPT ![a] =
       IF BaseMatches(applier[a].pack, cache)
       THEN [@ EXCEPT !.pc = "merge", !.todo = In(applier[a].staged),
                      !.foretold = Diff(applier[a].pack, cache)]
       ELSE NoApply]
  /\ UNCHANGED <<work, base, pack, cache, left>>

(* A tile that exists is skipped, one that cannot be copied is noted.      *)
Merge(a, k) == IF cache[k] # Absent THEN cache ELSE [cache EXCEPT ![k] = applier[a].staged[k]]

MergeTile(a, k) ==
  /\ applier[a].pc = "merge" /\ k \in applier[a].todo
  /\ \/ /\ cache' = Merge(a, k)
        /\ applier' = [applier EXCEPT ![a].todo = @ \ {k},
                         ![a].skipped = IF cache[k] # Absent THEN @ \cup {k} ELSE @,
                         ![a].added = IF cache[k] = Absent THEN @ \cup {k} ELSE @]
        /\ UNCHANGED left
     \/ /\ Spend /\ cache[k] = Absent /\ UNCHANGED cache
        /\ applier' = [applier EXCEPT ![a].todo = @ \ {k}, ![a].errors = @ \cup {k}]
  /\ UNCHANGED <<work, base, pack>>

Report(a) ==
  /\ applier[a].pc = "merge" /\ applier[a].todo = {}
  /\ applier' = [applier EXCEPT ![a].pc = "done"]
  /\ UNCHANGED <<work, base, pack, cache, left>>

Forget(a) ==
  /\ applier[a].pc = "done"
  /\ applier' = [applier EXCEPT ![a] = NoApply]
  /\ UNCHANGED <<work, base, pack, cache, left>>

(* The page fetches a tile.                                                *)
Fetch(k, v) ==
  /\ Spend /\ cache[k] = Absent /\ v \in Versions[k]
  /\ cache' = [cache EXCEPT ![k] = v]
  /\ UNCHANGED <<work, base, pack, applier>>

(* MapTileCache.clear, which an application under way does not hold off:   *)
(* it takes the staging directory as well.                                 *)
Clear ==
  /\ Spend /\ cache # Empty
  /\ cache' = Empty
  /\ applier' = [p \in Appliers |->
       IF applier[p].pc = "idle" THEN NoApply
       ELSE [applier[p] EXCEPT !.staged = Empty, !.todo = {}, !.cleared = TRUE]]
  /\ UNCHANGED <<work, base, pack>>

(* What was merged by then stays.                                          *)
Crash ==
  /\ Spend
  /\ applier' = [p \in Appliers |-> NoApply]
  /\ UNCHANGED <<work, base, pack, cache>>

-----------------------------------------------------------------------------
(* The page's import and the command line's are both apply_delta.          *)
Apply(a) == Stage(a) \/ Compare(a) \/ (\E k \in Keys : MergeTile(a, k)) \/ Report(a) \/ Forget(a)

Next ==
  \/ \E k \in Keys, v \in Contents : Download(k, v) \/ Fetch(k, v)
  \/ CopyBase \/ ExportWhole \/ ExportDelta \/ Damage \/ Clear \/ Crash
  \/ \E a \in Appliers : Apply(a)

Spec == Init /\ [][Next]_vars

-----------------------------------------------------------------------------
TypeOK == /\ work \in Root /\ base \in Root /\ cache \in Root /\ left \in 0..Events

(* The vehicle never shows a tile that the provider did not give, whatever *)
(* becomes of a pack on its way.                                           *)
TilesAreGenuine == \A k \in In(cache) : cache[k] \in Versions[k]

(* An application that reports no error has brought the vehicle all that   *)
(* the exporter had, from a delta as well, though the page fetches tiles   *)
(* and others apply packs meanwhile; and it has added nothing that         *)
(* diff_pack would not have foretold.  (Unless the cache was cleared under *)
(* it.)                                                                    *)
AppliedIsComplete ==
  \A a \in Appliers : applier[a].pc = "done" /\ ~applier[a].cleared =>
    /\ applier[a].pack.wants \ applier[a].errors \subseteq In(cache)
    /\ applier[a].foretold.ok /\ applier[a].foretold.matches
    /\ applier[a].added \subseteq applier[a].foretold.add
    /\ applier[a].foretold.skip \subseteq applier[a].skipped
=============================================================================
