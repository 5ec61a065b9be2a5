----------------------------- MODULE RouterLink -----------------------------
(***************************************************************************)
(* The bridge's connection to the router (usv_mavlink_router_bridge.py,    *)
(* lib/mavlink_tcp_transport.py): frames are written as far as the socket  *)
(* takes them, and a link that does not carry them to the flight controller*)
(* and back is given up and made anew.  Time goes by ticks; the main loop  *)
(* makes its cycle in every tick.                                          *)
(***************************************************************************)
EXTENDS Integers, Sequences, SequencesExt

CONSTANTS
  FrameSize,         \* units of a frame
  WriteTimeout,      \* ROUTER_WRITE_TIMEOUT_SEC, in ticks
  TelemetryTimeout,  \* FCU_TELEMETRY_TIMEOUT_SEC
  ProbeInterval,     \* FCU_PROBE_INTERVAL_SEC
  ProbeTimeout,      \* FCU_PROBE_TIMEOUT_SEC
  RoundTrip,         \* ticks an answer takes on a good path at the most
  MaxNow, MaxBreaks  \* bounds: the time, how often the path breaks

PathAssumption ==
  /\ FrameSize \in Nat \ {0} /\ ProbeTimeout \in Nat /\ TelemetryTimeout \in Nat
  /\ RoundTrip \in 0..(ProbeTimeout - 1) /\ ProbeInterval \in 1..(ProbeTimeout - 1)
  /\ WriteTimeout \in 1..(ProbeInterval + ProbeTimeout) /\ TelemetryTimeout > 1

VARIABLES
  now, checked, wrote,    \* the time; whether this tick's cycle has checked, has written
  path, brokenAt, breaks, \* the way to the flight controller
  up, connectedAt,        \* _conn, _router_connected_at
  seen, heardAt,          \* _fcu_seen, the latest record of _gps_cache
  probe, backAt,          \* _fcu_probe: token, first and last time; _last_fcu_roundtrip_at
  answers,                \* echoes under way
  frame, offset,          \* what is being written: kind and token, and how far
  attemptAt, writtenAt,   \* last_attempt, last_write_at
  stream                  \* what the router got on this connection of a frame that is not whole

pathVars == <<path, brokenAt, breaks>>
linkVars == <<up, connectedAt>>
writeVars == <<frame, offset, attemptAt, writtenAt, stream>>
vars == <<now, checked, wrote, pathVars, linkVars, seen, heardAt, probe, backAt, answers, writeVars>>

Never == -100
Later(a, b) == IF a > b THEN a ELSE b

Init ==
  /\ now = 0 /\ checked = FALSE /\ wrote = FALSE
  /\ path = "good" /\ brokenAt = 0 /\ breaks = 0
  /\ up = TRUE /\ connectedAt = 0 /\ seen = FALSE /\ heardAt = Never
  /\ probe = <<>> /\ backAt = Never /\ answers = {}
  /\ frame = <<>> /\ offset = 0 /\ attemptAt = Never /\ writtenAt = Never /\ stream = <<>>

-----------------------------------------------------------------------------
(* The path: telemetry and echoes come as long as it is good, telemetry    *)
(* alone ("oneway"), nothing ("silent"), or the socket takes no more.      *)

Hear ==
  /\ up /\ path # "silent" /\ heardAt # now /\ heardAt' = now
  /\ UNCHANGED <<now, checked, wrote, pathVars, linkVars, seen, probe, backAt, answers, writeVars>>

Breaks ==
  /\ path = "good" /\ breaks < MaxBreaks /\ breaks' = breaks + 1
  /\ path' \in {"oneway", "silent", "blocked"} /\ brokenAt' = now
  /\ answers' = IF path' = "blocked" THEN answers ELSE {}
  /\ UNCHANGED <<now, checked, wrote, linkVars, seen, heardAt, probe, backAt, writeVars>>

Mends ==
  /\ ~up /\ path # "good" /\ path' = "good"
  /\ UNCHANGED <<now, checked, wrote, brokenAt, breaks, linkVars, seen, heardAt, probe, backAt, answers, writeVars>>

(* A socket that has taken nothing for a while takes on.                   *)
Clears ==
  /\ up /\ path = "blocked" /\ path' = "good" /\ brokenAt' = now
  /\ UNCHANGED <<now, checked, wrote, breaks, linkVars, seen, heardAt, probe, backAt, answers, writeVars>>

(* A good path is in time; a cycle is done in each tick, and its writing   *)
(* takes 30 ms at the most.                                                *)
Tick ==
  /\ now < MaxNow /\ frame = <<>> /\ (up => checked /\ wrote)
  /\ path # "silent" /\ up => heardAt = now
  /\ path \in {"good", "blocked"} /\ up => \A a \in answers : a.due > now
  /\ now' = now + 1 /\ checked' = FALSE /\ wrote' = FALSE
  /\ UNCHANGED <<pathVars, linkVars, seen, heardAt, probe, backAt, answers, writeVars>>

-----------------------------------------------------------------------------
(* _receive_mavlink_messages: an echo counts if it is the probe's.         *)
Echo(a) ==
  /\ up /\ a \in answers /\ answers' = answers \ {a}
  /\ IF probe # <<>> /\ probe[1].token = a.token
     THEN probe' = <<>> /\ backAt' = now
     ELSE UNCHANGED <<probe, backAt>>
  /\ UNCHANGED <<now, checked, wrote, pathVars, linkVars, seen, heardAt, writeVars>>

(* _check_router_liveness.  (A bug to look for: what is heard counts for   *)
(* the way there, too.)                                                    *)
Stalled == attemptAt # Never /\ now - Later(connectedAt, writtenAt) > WriteTimeout
Unheard == seen' /\ now - Later(connectedAt, heardAt) > TelemetryTimeout
HeardForProbe == seen' /\ probe # <<>> /\ now - Later(heardAt, probe[1].first) > ProbeTimeout
Unanswered == seen' /\ probe # <<>> /\ now - probe[1].first > ProbeTimeout

(* _retire_router                                                          *)
Retire == up' = FALSE /\ probe' = <<>> /\ attemptAt' = Never /\ writtenAt' = Never

Check ==
  /\ up /\ frame = <<>> /\ ~checked /\ checked' = TRUE
  /\ seen' = (seen \/ heardAt >= connectedAt)
  /\ IF Stalled \/ Unheard \/ Unanswered THEN Retire
     ELSE UNCHANGED <<up, probe, attemptAt, writtenAt>>
  /\ UNCHANGED <<now, wrote, pathVars, connectedAt, heardAt, backAt, answers, frame, offset, stream>>

(* _reconnect_router                                                       *)
Reconnect ==
  /\ ~up /\ up' = TRUE /\ connectedAt' = now /\ checked' = TRUE /\ wrote' = TRUE
  /\ stream' = <<>> /\ frame' = <<>> /\ offset' = 0 /\ attemptAt' = Never /\ writtenAt' = Never
  /\ probe' = <<>> /\ backAt' = Never
  /\ UNCHANGED <<now, pathVars, seen, heardAt, answers>>

-----------------------------------------------------------------------------
(* _send_router_probe: the token stays until it is answered.  (A bug to    *)
(* look for: each probe has its own.)                                      *)
Due ==
  /\ seen
  /\ LET sent == IF probe # <<>> THEN probe[1].sent ELSE backAt IN now - sent >= ProbeInterval
NewToken == now
TokenToSend == IF probe # <<>> THEN probe[1].token ELSE now

Begin(f) == frame' = <<f>> /\ offset' = 0 /\ attemptAt' = now /\ wrote' = TRUE

SendProbe ==
  /\ up /\ checked /\ ~wrote /\ Due /\ Begin([kind |-> "probe", token |-> TokenToSend])
  /\ UNCHANGED <<now, checked, pathVars, linkVars, seen, heardAt, probe, backAt, answers, writtenAt, stream>>

(* Heartbeats, telemetry and all the rest.                                 *)
SendOther ==
  /\ up /\ checked /\ ~wrote /\ ~Due /\ Begin([kind |-> "other", token |-> 0])
  /\ UNCHANGED <<now, checked, pathVars, linkVars, seen, heardAt, probe, backAt, answers, writtenAt, stream>>

(* MAVLinkTCPTransport.write: the socket takes some units of the frame.    *)
Written(f) ==
  IF f.kind # "probe" THEN UNCHANGED <<probe, answers>>
  ELSE /\ probe' = <<[token |-> f.token, first |-> IF probe # <<>> THEN probe[1].first ELSE now, sent |-> now]>>
       /\ answers' = IF path = "good" THEN answers \cup {[token |-> f.token, due |-> now + RoundTrip]} ELSE answers

(* The router takes whole frames off the stream.                           *)
Whole == [i \in 1..FrameSize |-> i]
Rest(s) == IF IsPrefix(Whole, s) THEN SubSeq(s, FrameSize + 1, Len(s)) ELSE s

Take(n) ==
  /\ frame # <<>> /\ path # "blocked" /\ offset + n <= FrameSize
  /\ stream' = Rest(stream \o [i \in 1..n |-> offset + i])
  /\ IF offset + n < FrameSize
     THEN offset' = offset + n /\ UNCHANGED <<frame, writtenAt, probe, answers>>
     ELSE offset' = 0 /\ frame' = <<>> /\ writtenAt' = now /\ Written(frame[1])
  /\ UNCHANGED <<now, checked, wrote, pathVars, linkVars, seen, heardAt, backAt, attemptAt>>

(* The deadline of the cycle: an untouched frame is deferred, one begun    *)
(* ends the connection.  (A bug to look for: it is deferred, too.)         *)
DeferAny == TRUE
Untouched == offset = 0

Deadline ==
  /\ frame # <<>> /\ path = "blocked" /\ frame' = <<>> /\ offset' = 0
  /\ IF Untouched THEN UNCHANGED <<up, probe, attemptAt, writtenAt>> ELSE Retire
  /\ UNCHANGED <<now, checked, wrote, pathVars, connectedAt, seen, heardAt, backAt, answers, stream>>

Next ==
  \/ Hear \/ Breaks \/ Mends \/ Clears \/ Tick \/ Check \/ Reconnect
  \/ SendProbe \/ SendOther \/ Deadline
  \/ \E a \in answers : Echo(a)
  \/ \E n \in 1..FrameSize : Take(n)

Spec == Init /\ [][Next]_vars

-----------------------------------------------------------------------------
(* The router gets whole frames, and a piece of one at the most at the     *)
(* very end: 'never put a new frame after an incomplete prefix'.       *)
OnlyWholeFrames == IsPrefix(stream, Whole)

(* A path that is slow but brings every answer is not given up, unless its *)
(* socket has only just begun to take bytes again.                         *)
LeavesOnlyBroken == up /\ ~up' => path # "good" \/ now - brokenAt <= 1

(* A path that does not lead there and back is given up in time, even if   *)
(* telemetry still comes.                                                  *)
BrokenPathIsLeft ==
  up /\ seen /\ path # "good" =>
    now - Later(brokenAt, connectedAt) <= ProbeInterval + ProbeTimeout + 1
=============================================================================
