---------------------------- MODULE MissionFiles ----------------------------
(***************************************************************************)
(* What the server keeps on disk: a JSON file per mission, replaced as a   *)
(* whole (MissionDataManager of web_config_server.py), and a file of raw   *)
(* frames per sample window, appended to and synchronized now and then     *)
(* (SampleRecordingStorage).  Callbacks of ROS, a recorder, requests of    *)
(* the page and whatever else writes the files meet here.  WebRecording    *)
(* says when missions and windows begin and end; here it is any time.      *)
(***************************************************************************)
EXTENDS Naturals, FiniteSets

CONSTANTS
  Missions, Samples, None,
  Interval,       \* MISSION_DATA_POINT_CHECKPOINT_INTERVAL
  Overlap,        \* whether a frame may be on its way into a window that is being closed
  MaxFrames, MaxPoints, MaxResults,           \* bounds: frames of a window, points, manual results
  MaxFailures, MaxCrashes, MaxReplacements    \* bounds: failed writes, crashes, writes by others

NoneIsNothing == None \notin Missions \cup Samples \cup Nat

VARIABLES
  file, version,      \* the mission files and their fingerprints (mtime and size)
  current, mem,       \* current_mission_file, current_mission_data
  held, object,       \* current_sample_window: its sample, and the manual result in that object
  closing, callback,  \* a window closed and not yet saved; the window a frame is to be appended to
  raw, opened, builder,   \* the raw files, open handles, statistics by sample
  fresh,              \* a reading the recorder has not recorded
  cache, reader,      \* _mission_cache; a request that loads a file, under _write_lock
  asked, acked,       \* manual results asked for, and those the page was told are saved
  used, failures, crashes, replaced

vars == <<file, version, current, mem, held, object, closing, callback, raw, opened, builder, fresh, cache,
          reader, asked, acked, used, failures, crashes, replaced>>
windowVars == <<held, object, closing, callback, raw, opened, builder>>
pageVars == <<cache, reader, asked, acked>>
faultVars == <<crashes, replaced>>

NoFile == [state |-> "gone"]
Blank == [state |-> "running", win |-> [s \in Samples |-> "none"], count |-> [s \in Samples |-> 0],
          result |-> [s \in Samples |-> 0], points |-> 0, body |-> 0]
Idle == [at |-> "none", mission |-> None, version |-> 0, content |-> NoFile, tries |-> 0]

Init ==
  /\ file = [m \in Missions |-> NoFile] /\ version = [m \in Missions |-> 0] /\ current = None /\ mem = Blank
  /\ held = None /\ object = 0 /\ closing = FALSE /\ callback = None
  /\ raw = [s \in Samples |-> [written |-> 0, synced |-> 0]] /\ opened = {} /\ builder = [s \in Samples |-> None]
  /\ fresh = FALSE /\ cache = [m \in Missions |-> NoFile] /\ reader = Idle
  /\ asked = 0 /\ acked = [s \in Samples |-> 0] /\ used = {} /\ failures = 0 /\ crashes = 0 /\ replaced = 0

-----------------------------------------------------------------------------
(* _write_lock of the manager, and _atomic_write_json, which may fail.     *)

Unlocked == reader.at = "none"

Written(m, c) ==
  /\ file' = [file EXCEPT ![m] = c] /\ version' = [version EXCEPT ![m] = @ + 1] /\ UNCHANGED failures
NotWritten == failures < MaxFailures /\ failures' = failures + 1 /\ UNCHANGED <<file, version>>
Saved(m, c) == Unlocked /\ (Written(m, c) \/ NotWritten)

StartMission(m) ==
  /\ current = None /\ m \notin used /\ used' = used \cup {m}
  /\ current' = m /\ mem' = Blank /\ Saved(m, Blank)
  /\ UNCHANGED <<windowVars, fresh, pageVars, faultVars>>

StopMission ==
  /\ current # None /\ held = None /\ Unlocked
  /\ \/ /\ Written(current, [mem EXCEPT !.state = "completed"])
        /\ current' = None /\ mem' = Blank
     \/ NotWritten /\ mem' = [mem EXCEPT !.state = "completed"] /\ UNCHANGED current
  /\ UNCHANGED <<windowVars, fresh, pageVars, used, faultVars>>

-----------------------------------------------------------------------------
(* A sample window and its frames.                                         *)

StartWindow(s) ==
  /\ current # None /\ held = None /\ s \notin used /\ used' = used \cup {s}
  /\ held' = s /\ object' = 0 /\ builder' = [builder EXCEPT ![s] = 0]
  /\ mem' = [mem EXCEPT !.win[s] = "open"] /\ Saved(current, mem')
  /\ UNCHANGED <<current, closing, callback, raw, opened, fresh, pageVars, faultVars>>

(* _spectrometer_raw_cb takes no lock when it looks at the window.         *)
FrameArrives ==
  /\ held # None /\ callback = None /\ (Overlap \/ ~closing) /\ raw[held].written < MaxFrames
  /\ callback' = held
  /\ UNCHANGED <<file, version, current, mem, held, object, closing, raw, opened, builder, fresh, pageVars, used, failures, faultVars>>

Counted(s) == IF builder[s] = None THEN 1 ELSE builder[s] + 1

(* append_raw_frame: every frame is flushed, and synchronized when the     *)
(* file has just been opened or the interval is over.                      *)
Append ==
  /\ callback # None /\ callback' = None
  /\ \E sync \in {TRUE, callback \notin opened} :
       raw' = [raw EXCEPT ![callback].written = @ + 1, ![callback].synced = IF sync THEN raw[callback].written + 1 ELSE @]
  /\ opened' = opened \cup {callback} /\ builder' = [builder EXCEPT ![callback] = Counted(callback)]
  /\ mem' = IF mem.win[callback] = "none" THEN mem ELSE [mem EXCEPT !.count[callback] = Counted(callback)]
  /\ UNCHANGED <<file, version, current, held, object, closing, fresh, pageVars, used, failures, faultVars>>

(* _force_sync_raw_file.  (A bug to look for: the file is only flushed.)   *)
Flushed(r) == r
ForceSync(r) == [r EXCEPT !.synced = r.written]

(* close_window: without statistics they are counted from the file again.  *)
CloseWindow ==
  /\ held # None /\ ~closing /\ closing' = TRUE /\ (Overlap \/ callback = None)
  /\ raw' = [raw EXCEPT ![held] = ForceSync(@)] /\ opened' = opened \ {held} /\ builder' = [builder EXCEPT ![held] = None]
  /\ mem' = [mem EXCEPT !.win[held] = "closed", !.result[held] = object,
                        !.count[held] = IF builder[held] = None THEN raw[held].written ELSE builder[held]]
  /\ UNCHANGED <<file, version, current, held, object, callback, fresh, pageVars, used, failures, faultVars>>

(* The rest of _close_sample_window_if_open.                               *)
WindowClosed ==
  /\ closing /\ closing' = FALSE /\ held' = None /\ Saved(current, mem)
  /\ UNCHANGED <<current, mem, object, callback, raw, opened, builder, fresh, pageVars, used, faultVars>>

-----------------------------------------------------------------------------
(* The points for the map.                                                 *)

Reading ==
  /\ ~fresh /\ fresh' = TRUE
  /\ UNCHANGED <<file, version, current, mem, windowVars, pageVars, used, failures, faultVars>>

Pointed == [mem EXCEPT !.points = @ + 1]

(* _record_latest_mission_point: a reading whose checkpoint fails is       *)
(* recorded once more.                                                     *)
RecordPoint ==
  /\ fresh /\ current # None /\ mem.points < MaxPoints /\ mem' = Pointed
  /\ IF mem'.points % Interval = 0 THEN Saved(current, mem') /\ fresh' = (failures' # failures)
     ELSE fresh' = FALSE /\ UNCHANGED <<file, version, failures>>
  /\ UNCHANGED <<current, windowVars, pageVars, used, faultVars>>

AddSamplingEvent ==
  /\ current # None /\ mem.points < MaxPoints /\ mem' = Pointed /\ Saved(current, mem')
  /\ UNCHANGED <<current, windowVars, fresh, pageVars, used, faultVars>>

-----------------------------------------------------------------------------
(* Requests of the page.  get_mission keeps what it has loaded.            *)

Hit(m) == cache[m] # NoFile /\ cache[m].version = version[m]

BeginRead(m) ==
  /\ Unlocked /\ m # current /\ file[m] # NoFile /\ ~Hit(m)
  /\ reader' = [Idle EXCEPT !.at = "load", !.mission = m] /\ cache' = [cache EXCEPT ![m] = NoFile]
  /\ UNCHANGED <<file, version, current, mem, windowVars, fresh, asked, acked, used, failures, faultVars>>

Load ==
  /\ reader.at = "load"
  /\ reader' = [reader EXCEPT !.at = "check", !.version = version[reader.mission], !.content = file[reader.mission],
                              !.tries = @ + 1]
  /\ UNCHANGED <<file, version, current, mem, windowVars, fresh, cache, asked, acked, used, failures, faultVars>>

(* The fingerprint that is kept with what was read, 0 if there is none.    *)
(* (A bug to look for: the file's last one.)                               *)
LastFingerprint(before, after) == after
Fingerprint(before, after) == IF before = after THEN before ELSE 0

CheckRead ==
  LET m == reader.mission
      kept == Fingerprint(reader.version, version[m])
  IN /\ reader.at = "check"
     /\ IF kept # 0 THEN reader' = Idle /\ cache' = [cache EXCEPT ![m] = [version |-> kept, content |-> reader.content]]
        ELSE UNCHANGED cache /\ reader' = IF reader.tries < 3 THEN [reader EXCEPT !.at = "load"] ELSE Idle
     /\ UNCHANGED <<file, version, current, mem, windowVars, fresh, asked, acked, used, failures, faultVars>>

(* Another process replaces a file of the history.                         *)
Replace(m) ==
  /\ m # current /\ file[m] # NoFile /\ replaced < MaxReplacements /\ replaced' = replaced + 1
  /\ file' = [file EXCEPT ![m].body = @ + 1] /\ version' = [version EXCEPT ![m] = @ + 1]
  /\ UNCHANGED <<current, mem, windowVars, fresh, pageVars, used, failures, crashes>>

(* Whether a result is entered into the objects that the recording uses,   *)
(* and not into a copy: the present mission only.  (A bug to look for: a   *)
(* copy in any case.)                                                      *)
AlwaysCopied(m) == FALSE
InPlace(m) == m = current

(* save_manual_result_locked: load, enter, save, in one transaction.       *)
ManualResult(m, s) ==
  LET old == IF m = current THEN mem ELSE IF Hit(m) THEN cache[m].content ELSE file[m]
      new == [old EXCEPT !.result[s] = asked + 1]
  IN /\ Unlocked /\ (m = current \/ file[m] # NoFile) /\ old.win[s] # "none" /\ asked < MaxResults
     /\ asked' = asked + 1 /\ cache' = [cache EXCEPT ![m] = NoFile]
     /\ \/ Written(m, new) /\ acked' = [acked EXCEPT ![s] = asked + 1]
        \/ NotWritten /\ UNCHANGED acked
     /\ mem' = IF m = current THEN new ELSE mem
     /\ object' = IF held = s /\ InPlace(m) THEN asked + 1 ELSE object
     /\ UNCHANGED <<current, held, closing, callback, raw, opened, builder, fresh, reader, used, faultVars>>

(* delete_mission: of the present mission, too, until it is saved again.   *)
DeleteMission(m) ==
  /\ Unlocked /\ file[m] # NoFile /\ file' = [file EXCEPT ![m] = NoFile] /\ cache' = [cache EXCEPT ![m] = NoFile]
  /\ UNCHANGED <<version, current, mem, windowVars, fresh, reader, asked, acked, used, failures, faultVars>>

(* Power fails: what was not synchronized may be lost.  The server that    *)
(* starts again marks the missions that were running.                      *)
Crash ==
  /\ crashes < MaxCrashes /\ crashes' = crashes + 1
  /\ \E kept \in [Samples -> 0..MaxFrames] :
       /\ \A s \in Samples : raw[s].synced <= kept[s] /\ kept[s] <= raw[s].written
       /\ raw' = [s \in Samples |-> [written |-> kept[s], synced |-> kept[s]]]
  /\ LET running == {m \in Missions : file[m].state = "running"}
     IN /\ file' = [m \in Missions |-> IF m \in running THEN [file[m] EXCEPT !.state = "interrupted"] ELSE file[m]]
        /\ version' = [m \in Missions |-> IF m \in running THEN version[m] + 1 ELSE version[m]]
  /\ current' = None /\ mem' = Blank /\ held' = None /\ object' = 0 /\ closing' = FALSE /\ callback' = None
  /\ opened' = {} /\ builder' = [s \in Samples |-> None] /\ fresh' = FALSE
  /\ cache' = [m \in Missions |-> NoFile] /\ reader' = Idle
  /\ UNCHANGED <<asked, acked, used, failures, replaced>>

Next ==
  \/ \E m \in Missions : StartMission(m) \/ BeginRead(m) \/ Replace(m) \/ DeleteMission(m)
  \/ \E s \in Samples : StartWindow(s) \/ \E m \in Missions : ManualResult(m, s)
  \/ StopMission \/ FrameArrives \/ Append \/ CloseWindow \/ WindowClosed
  \/ Reading \/ RecordPoint \/ AddSamplingEvent \/ Load \/ CheckRead \/ Crash

Spec == Init /\ [][Next]_vars

-----------------------------------------------------------------------------
Files == {m \in Missions : file[m] # NoFile}

(* The statistics in a file that calls a window closed are those of all    *)
(* the window's frames, and a loss of power takes none of these away.      *)
SummaryIsWhole ==
  \A m \in Files, s \in Samples :
    file[m].win[s] = "closed" => file[m].count[s] = raw[s].written /\ raw[s].synced = raw[s].written

(* A manual result that was said to be saved is in the file, or a later    *)
(* one is, whatever the recording and other requests do to the mission.    *)
AcknowledgedResultsStay ==
  \A m \in Files, s \in Samples : file[m].win[s] # "none" => acked[s] <= file[m].result[s]

(* What get_mission gives out of its cache is what the file holds.         *)
CacheIsTrue == \A m \in Files : Hit(m) => cache[m].content = file[m]
=============================================================================
