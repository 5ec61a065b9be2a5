----------------------------- MODULE MCPumpNode -----------------------------
(***************************************************************************)
(* PumpNode on a small instance, for TLC: two or three requests of each    *)
(* kind at a time, two pumps, one piece of trouble.                        *)
(***************************************************************************)
EXTENDS PumpNode

CONSTANTS x, a

KindOfRequest == <<"start", "stop", "map", "restore", "query", "configure", "start">>
SettingOfRequest == [r \in 1..7 |-> IF r \in {3, 6, 7} THEN 1 ELSE 0]
RequestMixes == {{2, 3, 4}, {1, 2}, {2, 5}, {1, 3}, {3, 4, 6}, {1, 7}}

(* Packets, one with a header inside; a line; what is left of a packet of  *)
(* which bytes were lost; a header's first byte alone.                     *)
ItemsOfLine == {<<"H", "A", "a", "n">>, <<"H", "B", "H", "A", "b", "n">>, <<"t", "n">>, <<"H", "A", "a">>,
                <<"H", "B">>, <<"H">>}

OnePlanEach ==
  {[calibration |-> p = "c", separation |-> p = "s", injection |-> p = "i"] : p \in {"c", "s", "i"}}

CommandMixes ==
  {<<"raw", "manual_on", "calibrate", "stop">>, <<"step", "calibrate", "start", "stop">>,
   <<"manual_on", "calibrate", "start", "manual_off">>, <<"raw", "start", "stop", "stop">>,
   <<"manual_step", "manual_off", "calibrate", "trouble">>, <<"calibrate", "calibrate", "stop", "raw">>,
   <<"manual_step", "start", "stop", "trouble">>}
=============================================================================
