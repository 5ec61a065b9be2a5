------------------------------ MODULE MCLinks ------------------------------
(***************************************************************************)
(* Links on a small instance, for TLC: room for one record, so that every  *)
(* admission may evict, or for all; two numbers of the flight controller;  *)
(* three requests over the radio, room for two, and a link that is lost;   *)
(* one task in the relay, which has a run of its own, with its fairness.   *)
(***************************************************************************)
EXTENDS Links, TLC

CONSTANTS gcs, fcu, stop, sample, survey

TaskKinds == (stop :> "plain") @@ (sample :> "task")
AskKinds == (survey :> "survey") @@ TaskKinds
TwoPieces == [r \in {1, 2, 3} |-> IF r = 1 THEN 2 ELSE 1]

\* Of the relay alone, whose loops go on.
RelaySpec == PartsSpec /\ Relay!Loops /\ Relay!Rereads
=============================================================================
