----------------------------- MODULE MCStorage -----------------------------
(***************************************************************************)
(* Storage on a small instance, for TLC: three attempts of which two are   *)
(* made, a mission with two samples, two downloads of two tiles, two keys  *)
(* of a pack, a tile that two pages and a worker ask for, two waypoints.   *)
(***************************************************************************)
EXTENDS Storage, TLC

CONSTANTS manual, survey, page,         \* attempts
          j1, j2, t1, t2, c1, c2,       \* jobs, tiles and callers
          k1, k2, oldTile, newTile      \* keys and contents

SourceOfAttempt == (manual :> "manual") @@ (survey :> "survey") @@ (page :> "web")
WithRestart == {{manual, page}, {manual, survey}}
WithRepeat == {{survey, page}}

TilesOfJob == (j1 :> {t1, t2}) @@ (j2 :> {t2})

(* One job with something that happens to it, two callers of the other     *)
(* job, one caller of both.                                                *)
Downloads == {[jobs |-> {j1}, callers |-> {c1}, events |-> 1, clears |-> TRUE],
              [jobs |-> {j2}, callers |-> {c1, c2}, events |-> 0, clears |-> FALSE],
              [jobs |-> {j1, j2}, callers |-> {c1}, events |-> 0, clears |-> FALSE]}

SizeOfContent == (oldTile :> 1) @@ (newTile :> 2) @@ (Bad :> 1)
VersionsOfKey == (k1 :> {oldTile, newTile}) @@ (k2 :> {oldTile})
DefaultSettings == (k1 :> 1) @@ (k2 :> 0)
=============================================================================
