--------------------------- MODULE MCSamplingControl --------------------------
(***************************************************************************)
(* Instances of SamplingControl for TLC.                                   *)
(***************************************************************************)
EXTENDS SamplingControl

(* A second attempt after the first, a retry, a survey that is paused.     *)
MCScripts == {<<"manual", "fcu">>, <<"waypoint">>, <<"survey", "pause">>}
==============================================================================
