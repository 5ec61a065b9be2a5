---------------------------- MODULE MCPumpControl ------------------------------
(***************************************************************************)
(* Instances of PumpControl: which requests meet each other.  A behaviour  *)
(* is one of "stops", in the module's own variables, or of "parts", in     *)
(* s1, s2, ...; the others stay as they are.                               *)
(***************************************************************************)
EXTENDS PumpControl, TLC

CONSTANTS a, b, c, d, e

(* Two attempts against a cleanup of the first and a stop of everything.   *)
StopsKind == a :> "start" @@ b :> "start" @@ c :> "cleanup" @@ d :> "stop"
(* One attempt against the detector's stop, a stop of everything and a lost*)
(* connection.                                                             *)
PartsKind == a :> "start" @@ c :> "detector_stop" @@ d :> "stop" @@ e :> "disconnect"
(* One attempt and the injection pump's stop.                              *)
InjectionKind == a :> "start" @@ c :> "injection_off"

NoTarget == [r \in Requests |-> Nobody]
CleanupTarget == [r \in Requests |-> IF r = c THEN a ELSE Nobody]

VARIABLES
  part,
  s1, s2, s3, s4, s5, s6, s7, s8, s9, s10, s11, s12, s13, s14, s15, s16, s17, s18, s19, s20, s21, s22, s23,
  s24

slots ==
  <<s1, s2, s3, s4, s5, s6, s7, s8, s9, s10, s11, s12, s13, s14, s15, s16, s17, s18, s19, s20, s21, s22, s23, s24>>

Parts ==
  INSTANCE PumpControl WITH
    Requests <- {a, c, d, e}, Kind <- PartsKind, Target <- [r \in {a, c, d, e} |-> Nobody], Nobody <- Nobody, at <- s1,
    issued <- s2, token <- s3, cutoff <- s4, since <- s5, answer <- s6, stops <- s7, stopping <- s8,
    cancelled <- s9, lock <- s10, owner <- s11, fault <- s12, link <- s13, reason <- s14, finalized <- s15,
    prep <- s16, preparer <- s17, running <- s18, worker <- s19, doing <- s20, outcome <- s21,
    runToken <- s22, output <- s23, records <- s24

PartsStart ==
  /\ Init
  /\ \/ /\ part = "stops"
        /\ s1 = 0 /\ s2 = 0 /\ s3 = 0 /\ s4 = 0 /\ s5 = 0 /\ s6 = 0 /\ s7 = 0 /\ s8 = 0 /\ s9 = 0 /\ s10 = 0 /\ s11 = 0 /\ s12 = 0
        /\ s13 = 0 /\ s14 = 0 /\ s15 = 0 /\ s16 = 0 /\ s17 = 0 /\ s18 = 0 /\ s19 = 0 /\ s20 = 0 /\ s21 = 0 /\ s22 = 0 /\ s23 = 0 /\ s24 = 0
     \/ part = "parts" /\ Parts!Init

OfStops(A) == part = "stops" /\ A /\ UNCHANGED <<part, slots>>
OfParts(A) == part = "parts" /\ A /\ UNCHANGED <<part, vars>>

PartsSpec ==
  /\ PartsStart
  /\ [][OfStops(Next) \/ OfParts(Parts!Next)]_<<part, vars, slots>>

(* The fairness of PumpControl; b is issued in "stops", e in "parts".      *)
Turn(r, q) == OfStops(Start(r) \/ Stop(r)) \/ OfParts(Parts!Start(q) \/ Parts!Stop(q))
FairPartsSpec ==
  /\ PartsSpec
  /\ \A r \in {a, c, d} : SF_<<part, vars, slots>>(Turn(r, r))
  /\ SF_<<part, vars, slots>>(Turn(b, e))
  /\ SF_<<part, vars, slots>>(OfStops(Preparing) \/ OfParts(Parts!Preparing))
  /\ WF_<<part, vars, slots>>(OfStops(Working) \/ OfParts(Parts!Working))

(* Every request is answered and every start that was accepted is closed.  *)
(* With the detector's stop a start may stay open (see the README), but    *)
(* there, too, what was stopped stays quiet and nothing is closed twice.   *)
EverythingSettles ==
  /\ [](part = "parts" => Parts!StoppedStaysQuiet /\ Parts!ClosedOnce)
  /\ []<>(AllAnswered /\ AllClosed /\ (part = "parts" => Parts!AllAnswered))
================================================================================
