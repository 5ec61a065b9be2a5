-------------------------- MODULE MCAutomationEngine --------------------------
(* Small instances of AutomationEngine. *)
EXTENDS AutomationEngine, TLC

CONSTANTS x, y, c1, c2

\* Two steps: the first turns both motors, the second one of them.
TwoSteps == <<{x, y}, {x}>>
OneStep == <<{x}>>

CallerSymmetry == Permutations(Callers)
===============================================================================
