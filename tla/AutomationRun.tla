----------------------------- MODULE AutomationRun -----------------------------
(***************************************************************************)
(* What the step sequencer promises, whatever its threads do: the steps of *)
(* a run complete one at a time and never beyond the last, only a run      *)
(* whose every step completed is called finished, and a confirmed stop or  *)
(* pause keeps the motors at rest until the run is resumed or started.     *)
(* AutomationEngine implements it.                                         *)
(***************************************************************************)
EXTENDS Naturals

CONSTANT Total  \* the steps of a run over all its loops, 0 when it loops for ever

VARIABLES
  active,   \* a run is under way
  done,     \* the steps it has completed
  outcome,  \* how the run that ended last ended
  held,     \* a stop or pause is in force and was written to the device
  output    \* some motor is under way

vars == <<active, done, outcome, held, output>>

Init == active = FALSE /\ done = 0 /\ outcome = "none" /\ held = FALSE /\ output = FALSE

Begin ==
  /\ ~active /\ active' = TRUE /\ done' = 0 /\ held' = FALSE
  /\ UNCHANGED <<outcome, output>>

CompleteOne ==
  /\ active /\ (Total = 0 \/ done < Total) /\ done' = done + 1
  /\ UNCHANGED <<active, outcome, held, output>>

Drive ==
  /\ active /\ ~held /\ output' = TRUE
  /\ UNCHANGED <<active, done, outcome, held>>

Rest ==
  /\ output' = FALSE
  /\ UNCHANGED <<active, done, outcome, held>>

Hold ==
  /\ held' = TRUE /\ output' = FALSE
  /\ UNCHANGED <<active, done, outcome>>

Release ==
  /\ held' = FALSE
  /\ UNCHANGED <<active, done, outcome, output>>

End ==
  /\ active /\ active' = FALSE
  /\ outcome' \in {"finished", "stopped", "failed"}
  /\ outcome' = "finished" => done = Total
  /\ UNCHANGED <<done, held, output>>

Next == Begin \/ CompleteOne \/ Drive \/ Rest \/ Hold \/ Release \/ End

Spec == Init /\ [][Next]_vars
================================================================================
