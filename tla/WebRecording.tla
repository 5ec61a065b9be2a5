---------------------------- MODULE WebRecording ----------------------------
(***************************************************************************)
(* The recording side of web_config_server.py: the mission that is being   *)
(* recorded, the sample window of an attempt, the start transaction of the *)
(* web page with its rollback, and the three topics by which the server    *)
(* learns of an attempt's end, which arrive in any order of each other.    *)
(*                                                                         *)
(* `web' is the server's memory and its files.  A callback holds           *)
(* _sample_lifecycle_lock from end to end and is one action; the start and *)
(* stop requests of the page are one action per lock they take or call     *)
(* they make.  The trigger and the pump are what the server sees of them.  *)
(***************************************************************************)
EXTENDS Naturals, Sequences, FiniteSets

CONSTANTS Attempts,     \* attempts that may be made
          SourceOf,     \* who makes it: "manual" (or the FCU), "survey", "web"
          Casts,        \* bound: sets of attempts of which one is made in a behaviour
          MaxMissions,  \* bound: missions that are created
          MaxStops,     \* bound: stops of the page
          MaxRepeats,   \* bound: repetitions of the pump's latched status
          MaxCrashes,   \* bound: restarts of the server
          Nobody

SourceType == SourceOf \in [Attempts -> {"manual", "survey", "web"}]
BoundsAreNumbers == {MaxMissions, MaxStops, MaxRepeats, MaxCrashes} \subseteq Nat

Missions == 1..MaxMissions
Windows == Attempts \cup {Nobody}    \* Nobody: a window without an attempt
NoWindow == "closed"                 \* current_sample_window is None
NobodyIsNoAttempt == Nobody \notin Attempts /\ NoWindow \notin Windows
Outcomes == {"succeeded", "cancelled", "failed"}
Terminal == {"finished", "stopped", "failed"}

VARIABLES
  web,      \* the server's fields and its mission files
  start,    \* the start request of the page
  stop,     \* the stop request of the page
  stage,    \* what became of each attempt
  pump,     \* the owner of the pump
  topic,    \* messages not yet delivered, per topic
  truth,    \* history: how each attempt ended
  left      \* what is left of the bounds

vars == <<web, start, stop, stage, pump, topic, truth, left>>

NoResult == [outcome |-> "none", admission |-> FALSE, used |-> FALSE]
NoStatus == [a |-> Nobody, kind |-> "none", used |-> FALSE]
NoFile == [state |-> "none", windows |-> [w \in Windows |-> "none"]]
NoStart == [pc |-> "idle", a |-> Nobody, gen |-> 0, ok |-> FALSE,
            window |-> NoWindow, file |-> 0, before |-> Nobody]
NoStop == [pc |-> "idle", window |-> NoWindow, file |-> 0]

Fresh(files) ==
  [file |-> 0, source |-> "none", mem |-> NoFile.windows, disk |-> files,
   window |-> NoWindow, context |-> Nobody, trigger |-> Nobody, busy |-> FALSE,
   latest |-> NoStatus, owner |-> Nobody, gen |-> 0,
   results |-> [a \in Attempts |-> NoResult]]

Init ==
  /\ web = Fresh([m \in Missions |-> NoFile])
  /\ start = NoStart /\ stop = NoStop
  /\ \E cast \in Casts : stage = [a \in Attempts |-> IF a \in cast THEN "new" ELSE "over"]
  /\ pump = Nobody
  /\ topic = [pump |-> <<>>, trigger |-> <<>>, result |-> <<>>]
  /\ truth = [a \in Attempts |-> "none"]
  /\ left = [stops |-> MaxStops, repeats |-> MaxRepeats, crashes |-> MaxCrashes]

-----------------------------------------------------------------------------
(* Steps on the server's memory that the callbacks are made of.            *)

NextFile(s) == Cardinality({m \in Missions : s.disk[m].state # "none"}) + 1

Saved(s, state) ==
  IF s.file = 0 THEN s ELSE [s EXCEPT !.disk[s.file] = [state |-> state, windows |-> s.mem]]

StartRecording(s, source) ==
  IF s.file # 0 THEN [s EXCEPT !.source = IF @ = "none" THEN source ELSE @]
  ELSE Saved([s EXCEPT !.file = NextFile(s), !.mem = NoFile.windows, !.source = source], "running")

(* A record that is closed is not opened again; one that is open is used.  *)
OpenWindow(s) ==
  IF s.window # NoWindow \/ s.file = 0 \/ s.mem[s.context] \notin {"none", "open"} THEN s
  ELSE Saved([s EXCEPT !.window = s.context, !.mem[s.context] = "open"], "running")

CloseWindow(s, outcome) ==
  IF s.window = NoWindow \/ s.file = 0 THEN [s EXCEPT !.window = NoWindow]
  ELSE Saved([s EXCEPT !.mem[s.window] = outcome, !.window = NoWindow], "running")

StopRecording(s) ==
  [Saved(CloseWindow(s, "unknown"), "completed") EXCEPT !.file = 0, !.source = "none"]

RecordingAttempt(s) == IF s.window \in Attempts THEN s.window ELSE s.context

(* What is known of an end: the trigger's result, or the pump's status.    *)
ResultOf(s, a) ==
  IF a = Nobody \/ s.results[a].outcome = "none"
  THEN [a |-> Nobody, outcome |-> "none", end |-> "none", admission |-> FALSE, used |-> TRUE]
  ELSE [a |-> a, outcome |-> s.results[a].outcome, end |-> "finished",
        admission |-> s.results[a].admission, used |-> s.results[a].used]
StatusOf(s) ==
  [a |-> s.latest.a, outcome |-> "none", end |-> s.latest.kind, admission |-> FALSE,
   used |-> s.latest.used]
ResultOrStatus(s) ==
  LET a == RecordingAttempt(s) IN
  IF a # Nobody /\ s.results[a].outcome # "none" THEN ResultOf(s, a) ELSE StatusOf(s)

(* _finish_owned_recording: only an end of the attempt that is recorded    *)
(* closes it, and of a trigger's attempt only the trigger's result.  A     *)
(* start that failed before anything was opened is recorded as well.       *)
ConcernsAny(s, d) == ~d.used /\ RecordingAttempt(s) # Nobody /\ d.end \in Terminal
Concerns(s, d) ==
  ~d.used /\ RecordingAttempt(s) # Nobody /\ d.a = RecordingAttempt(s) /\ d.end \in Terminal

SourceIn(a) == IF a = Nobody THEN "none" ELSE SourceOf[a]

Opened(s, d) ==
  IF s.window = NoWindow /\ d.outcome = "failed" /\ d.admission
  THEN OpenWindow(StartRecording(s, IF SourceIn(d.a) = "survey" THEN "survey" ELSE "trigger"))
  ELSE s

EndsOnStatus(s, d) == TRUE
EndsOn(s, d) == SourceIn(s.window) \notin {"manual", "survey"} \/ d.outcome # "none"

Finishes(s, d) ==
  /\ Concerns(s, d)
  /\ Opened(s, d).window # NoWindow
  /\ EndsOn(Opened(s, d), d)

OutcomeOf(d) ==
  IF d.outcome # "none" THEN d.outcome
  ELSE CASE d.end = "finished" -> "succeeded" [] d.end = "stopped" -> "cancelled" [] OTHER -> "failed"

Finish(s, d) ==
  IF ~Finishes(s, d) THEN IF Concerns(s, d) THEN Opened(s, d) ELSE s
  ELSE LET closed == CloseWindow(Opened(s, d), OutcomeOf(d))
           kept == IF closed.source = "survey" THEN closed ELSE StopRecording(closed)
       IN IF d.outcome # "none"
          THEN [kept EXCEPT !.context = Nobody, !.busy = FALSE, !.results[d.a].used = TRUE]
          ELSE [kept EXCEPT !.context = Nobody, !.busy = FALSE, !.latest.used = TRUE]

-----------------------------------------------------------------------------
(* The three callbacks.                                                    *)

NeverFinished(s, a) == FALSE
Finished(s, a) == a # Nobody /\ s.results[a].used

(* A running attempt of the trigger opens its record by itself, in case    *)
(* the notice of its start was missed.                                     *)
OpenedBy(s, m) ==
  IF /\ s.window = NoWindow /\ RecordingAttempt(s) \in {Nobody, m.a}
     /\ SourceOf[m.a] # "web" /\ m.kind = "running"
  THEN OpenWindow(StartRecording([s EXCEPT !.context = m.a],
                                 IF SourceOf[m.a] = "survey" THEN "survey" ELSE "trigger"))
  ELSE s

AfterStatus(s, m) ==
  LET opened == OpenedBy(s, m)
      expected == RecordingAttempt(opened)
      noted == [opened EXCEPT !.latest = [a |-> m.a, kind |-> m.kind, used |-> FALSE],
                              !.busy = m.kind = "running"]
      known == ResultOf(noted, expected)
      ended == [Finish(noted, known) EXCEPT !.owner = IF @ = m.a THEN Nobody ELSE @]
  IN IF Finished(s, m.a) THEN s
     ELSE IF expected \notin {Nobody, m.a} THEN opened
     ELSE IF Finishes(noted, known) THEN Finish(noted, known)
     ELSE IF m.kind = "running" THEN Finish(noted, known)
     ELSE IF Finishes(ended, StatusOf(ended)) THEN Finish(ended, StatusOf(ended))
     ELSE IF expected = Nobody /\ ended.source = "web" THEN StopRecording(ended)
     ELSE ended

AfterContext(s, a) ==
  LET named == [s EXCEPT !.trigger = a, !.context = a] IN
  IF Finished(s, a) THEN [s EXCEPT !.trigger = a]
  ELSE Finish(named, ResultOf(named, RecordingAttempt(named)))

AfterStarted(s) ==
  LET running == OpenWindow(StartRecording([s EXCEPT !.busy = TRUE], "trigger")) IN
  IF Finished(s, s.trigger) THEN s ELSE Finish(running, ResultOrStatus(running))

AfterStopped(s, kind) ==
  LET d == ResultOrStatus(s)
      owned == RecordingAttempt(s) # Nobody
      after == IF owned THEN Finish(s, d) ELSE s
      closed == IF kind = "rejected" THEN after
                ELSE [CloseWindow(after, "unknown") EXCEPT !.context = Nobody]
      idle == [closed EXCEPT !.busy = FALSE]
  IN IF owned /\ ~Finishes(s, d) THEN after
     ELSE IF kind = "stopped" /\ idle.source = "survey" THEN idle
     ELSE StopRecording(idle)

Take(q) == topic' = [topic EXCEPT ![q] = Tail(@)]

AutomationStatus ==
  /\ topic.pump # <<>>
  /\ web' = AfterStatus(web, Head(topic.pump))
  /\ Take("pump")
  /\ UNCHANGED <<start, stop, stage, pump, truth, left>>

TriggerStatus ==
  /\ topic.trigger # <<>>
  /\ LET m == Head(topic.trigger) IN
     web' = CASE m.kind = "context" -> AfterContext(web, m.a)
              [] m.kind = "started" -> AfterStarted(web)
              [] m.kind = "survey" -> StartRecording(web, "survey")
              [] OTHER -> AfterStopped(web, m.kind)
  /\ Take("trigger")
  /\ UNCHANGED <<start, stop, stage, pump, truth, left>>

SamplingResult ==
  /\ topic.result # <<>>
  /\ LET m == Head(topic.result)
         kept == IF web.results[m.a].outcome # "none" THEN web
                 ELSE [web EXCEPT !.results[m.a] = [outcome |-> m.outcome, used |-> FALSE,
                                                    admission |-> m.admission]]
     IN web' = Finish(kept, ResultOf(kept, m.a))
  /\ Take("result")
  /\ UNCHANGED <<start, stop, stage, pump, truth, left>>

-----------------------------------------------------------------------------
(* The start request of the page.                                          *)

Ask(a) ==
  /\ start.pc = "idle" /\ stage[a] = "new" /\ SourceOf[a] = "web"
  /\ stage' = [stage EXCEPT ![a] = "asked"]
  /\ start' = [NoStart EXCEPT !.pc = "prepare", !.a = a, !.gen = web.gen]
  /\ UNCHANGED <<web, stop, pump, topic, truth, left>>

Prepare ==
  /\ start.pc = "prepare"
  /\ IF web.busy \/ web.window # NoWindow
     THEN /\ start' = NoStart /\ UNCHANGED web
          /\ stage' = [stage EXCEPT ![start.a] = "over"]
     ELSE /\ web' = OpenWindow(StartRecording([web EXCEPT !.context = start.a], "web"))
          /\ start' = [start EXCEPT !.pc = "claim", !.before = web.context, !.window = web'.window,
                                    !.file = IF web.file = 0 THEN web'.file ELSE 0]
          /\ UNCHANGED stage
  /\ UNCHANGED <<stop, pump, topic, truth, left>>

Claim ==
  /\ start.pc = "claim"
  /\ IF start.gen # web.gen
     THEN start' = [start EXCEPT !.pc = "rollback"] /\ UNCHANGED web
     ELSE start' = [start EXCEPT !.pc = "call"] /\ web' = [web EXCEPT !.owner = start.a]
  /\ UNCHANGED <<stop, stage, pump, topic, truth, left>>

(* Assumption: what was said of one attempt has been delivered, over all   *)
(* topics, when the pump admits the next.                                  *)
Delivered == \A q \in DOMAIN topic : topic[q] = <<>>

Publish(q, m) == topic' = [topic EXCEPT ![q] = Append(@, m)]
PumpSays(a, kind) == Publish("pump", [a |-> a, kind |-> kind])

Call ==
  /\ start.pc = "call"
  /\ \/ /\ pump = Nobody /\ Delivered
        /\ pump' = start.a /\ stage' = [stage EXCEPT ![start.a] = "running"]
        /\ PumpSays(start.a, "running")
        /\ start' = [start EXCEPT !.pc = "look", !.ok = TRUE]
     \/ /\ start' = [start EXCEPT !.pc = "look", !.ok = FALSE]
        /\ UNCHANGED <<pump, stage, topic>>
  /\ UNCHANGED <<web, stop, truth, left>>

(* The attempt may have failed before the answer to its start was read.    *)
Look ==
  /\ start.pc = "look"
  /\ start' = [start EXCEPT !.pc = "confirm",
                 !.ok = @ /\ ~(web.latest.a = start.a /\ web.latest.kind = "failed")]
  /\ UNCHANGED <<web, stop, stage, pump, topic, truth, left>>

(* A stop that came in the meantime cancels it, by a cleanup of this       *)
(* attempt only.                                                           *)
Confirm ==
  /\ start.pc = "confirm"
  /\ IF start.gen # web.gen
     THEN /\ start' = [start EXCEPT !.pc = "rollback", !.ok = FALSE]
          /\ IF pump = start.a
             THEN /\ pump' = Nobody /\ PumpSays(start.a, "stopped")
                  /\ stage' = [stage EXCEPT ![start.a] = "over"]
                  /\ truth' = [truth EXCEPT ![start.a] = "cancelled"]
             ELSE UNCHANGED <<pump, topic, stage, truth>>
     ELSE /\ start' = IF start.ok THEN NoStart ELSE [start EXCEPT !.pc = "rollback"]
          /\ UNCHANGED <<pump, topic, stage, truth>>
  /\ UNCHANGED <<web, stop, left>>

Rollback ==
  /\ start.pc = "rollback"
  /\ web' = [web EXCEPT !.owner = IF @ = start.a THEN Nobody ELSE @]
  /\ start' = [start EXCEPT !.pc = "restore"]
  /\ stage' = [stage EXCEPT ![start.a] = IF @ = "asked" THEN "over" ELSE @]
  /\ UNCHANGED <<stop, pump, topic, truth, left>>

(* Only what this request has made is taken back.                          *)
RolledBackAll(s) == [StopRecording(s) EXCEPT !.context = start.before]
RolledBack(s) ==
  LET mine == s.context = start.a
      closed == IF start.window # NoWindow /\ s.window = start.window
                THEN CloseWindow(s, "unknown") ELSE s
      ended == IF start.file # 0 /\ mine /\ closed.window = NoWindow /\ closed.file = start.file
               THEN StopRecording(closed) ELSE closed
  IN [ended EXCEPT !.context = IF mine THEN start.before ELSE @]

Restore ==
  /\ start.pc = "restore"
  /\ web' = RolledBack(web)
  /\ start' = NoStart
  /\ UNCHANGED <<stop, stage, pump, topic, truth, left>>

-----------------------------------------------------------------------------
(* The stop request of the page: the pump first, the files afterwards and  *)
(* only if they are still those of the stopped attempt.                    *)

StopAsk ==
  /\ stop.pc = "idle" /\ left.stops > 0
  /\ left' = [left EXCEPT !.stops = @ - 1]
  /\ web' = [web EXCEPT !.gen = @ + 1, !.owner = Nobody]
  /\ stop' = [stop EXCEPT !.pc = "note"]
  /\ UNCHANGED <<start, stage, pump, topic, truth>>

StopNote ==
  /\ stop.pc = "note"
  /\ stop' = [pc |-> "call", window |-> web.window, file |-> web.file]
  /\ UNCHANGED <<web, start, stage, pump, topic, truth, left>>

EndBy(a, kind) ==
  /\ pump' = Nobody
  /\ PumpSays(a, kind)
  /\ stage' = [stage EXCEPT ![a] = IF SourceOf[a] = "web" THEN "over" ELSE "ended"]
  /\ truth' = [truth EXCEPT ![a] = OutcomeOf([outcome |-> "none", end |-> kind])]

StopCall ==
  /\ stop.pc = "call"
  /\ stop' = [stop EXCEPT !.pc = "close"]
  /\ IF pump = Nobody THEN UNCHANGED <<pump, topic, stage, truth>> ELSE EndBy(pump, "stopped")
  /\ UNCHANGED <<web, start, left>>

StopClose ==
  /\ stop.pc = "close"
  /\ stop' = NoStop
  /\ web' = IF web.window = stop.window /\ web.file = stop.file THEN StopRecording(web) ELSE web
  /\ UNCHANGED <<start, stage, pump, topic, truth, left>>

-----------------------------------------------------------------------------
(* The pump and the trigger, as far as their messages go.                  *)

Sampling == {a \in Attempts : stage[a] \in {"running", "ended"} /\ SourceOf[a] # "web"}

(* Accepted, accepted with the answer lost, or refused.                    *)
TriggerStarts(a) ==
  /\ stage[a] = "new" /\ SourceOf[a] # "web" /\ Sampling = {} /\ Delivered
  /\ \/ /\ pump = Nobody /\ pump' = a
        /\ stage' = [stage EXCEPT ![a] = "running"]
        /\ topic' = [topic EXCEPT !.pump = Append(@, [a |-> a, kind |-> "running"]),
                       !.trigger = (IF SourceOf[a] = "survey"
                                    THEN Append(@, [kind |-> "survey", a |-> a]) ELSE @) \o
                                   << [kind |-> "context", a |-> a], [kind |-> "started", a |-> a] >>]
        /\ UNCHANGED truth
     \/ /\ stage' = [stage EXCEPT ![a] = "over"]
        /\ truth' = [truth EXCEPT ![a] = "failed"]
        /\ \E begun \in IF pump = Nobody THEN BOOLEAN ELSE {FALSE} :
             topic' = [topic EXCEPT
               !.pump = IF begun THEN @ \o << [a |-> a, kind |-> "running"], [a |-> a, kind |-> "failed"] >>
                        ELSE @,
               !.result = Append(@, [a |-> a, outcome |-> "failed", admission |-> TRUE]),
               !.trigger = Append(@, [kind |-> "rejected", a |-> a])]
        /\ UNCHANGED pump
  /\ UNCHANGED <<web, start, stop, left>>

PumpEnds(kind) ==
  /\ pump # Nobody
  /\ EndBy(pump, kind)
  /\ UNCHANGED <<web, start, stop, left>>

(* The page renews the lease of its own attempt as long as it is `owner'.  *)
OwnerLost ==
  /\ pump # Nobody /\ SourceOf[pump] = "web" /\ web.owner # pump /\ start.a # pump
  /\ EndBy(pump, "failed")
  /\ UNCHANGED <<web, start, stop, left>>

(* The result goes out before the notice that the sampling has stopped; a  *)
(* survey goes on after a success.                                         *)
TriggerReports(a) ==
  /\ stage[a] = "ended"
  /\ stage' = [stage EXCEPT ![a] = "over"]
  /\ topic' = [topic EXCEPT
       !.result = Append(@, [a |-> a, outcome |-> truth[a], admission |-> FALSE]),
       !.trigger = IF SourceOf[a] # "survey" THEN Append(@, [kind |-> "stopped", a |-> a])
                   ELSE IF truth[a] = "succeeded" THEN @
                   ELSE Append(@, [kind |-> "surveyStopped", a |-> a])]
  /\ UNCHANGED <<web, start, stop, pump, truth, left>>

(* STOP_SURVEY cleans the attempt up and publishes no result.              *)
SurveyStopped(a) ==
  /\ stage[a] = "running" /\ SourceOf[a] = "survey"
  /\ pump' = Nobody
  /\ stage' = [stage EXCEPT ![a] = "dropped"]
  /\ truth' = [truth EXCEPT ![a] = "cancelled"]
  /\ topic' = [topic EXCEPT !.pump = Append(@, [a |-> a, kind |-> "stopped"]),
                 !.trigger = @ \o << [kind |-> "stopped", a |-> a], [kind |-> "surveyStopped", a |-> a] >>]
  /\ UNCHANGED <<web, start, stop, left>>

(* The status is latched and repeated.                                     *)
PumpRepeats ==
  /\ left.repeats > 0 /\ pump # Nobody
  /\ left' = [left EXCEPT !.repeats = @ - 1]
  /\ PumpSays(pump, "running")
  /\ UNCHANGED <<web, start, stop, stage, pump, truth>>

(* A restart finds missions that nobody finished.                          *)
Recovered(files) ==
  [m \in Missions |-> IF files[m].state = "running" THEN [files[m] EXCEPT !.state = "interrupted"]
                      ELSE files[m]]

Crash ==
  /\ left.crashes > 0
  /\ left' = [left EXCEPT !.crashes = @ - 1]
  /\ web' = Fresh(Recovered(web.disk))
  /\ start' = NoStart /\ stop' = NoStop
  /\ stage' = [a \in Attempts |-> IF stage[a] = "asked" THEN "over" ELSE stage[a]]
  /\ topic' = [pump |-> IF pump = Nobody THEN <<>> ELSE << [a |-> pump, kind |-> "running"] >>,
               trigger |-> <<>>, result |-> <<>>]
  /\ UNCHANGED <<pump, truth>>

-----------------------------------------------------------------------------
Page == Prepare \/ Claim \/ Call \/ Look \/ Confirm \/ Rollback \/ Restore
        \/ StopNote \/ StopCall \/ StopClose
Callbacks == AutomationStatus \/ TriggerStatus \/ SamplingResult
Rest == \/ \E a \in Attempts : TriggerReports(a)
        \/ \E kind \in {"finished", "failed"} : PumpEnds(kind)
        \/ OwnerLost

Step ==
  \/ \E a \in Attempts : Ask(a) \/ TriggerStarts(a) \/ SurveyStopped(a)
  \/ StopAsk \/ PumpRepeats \/ Crash
  \/ Page \/ Callbacks \/ Rest

Next == Step /\ web'.file <= MaxMissions

Spec == Init /\ [][Next]_vars

-----------------------------------------------------------------------------
TypeOK ==
  /\ web.file \in 0..MaxMissions /\ web.window \in Windows \cup {NoWindow}
  /\ web.context \in Windows /\ web.trigger \in Windows /\ web.owner \in Windows
  /\ web.source \in {"none", "web", "trigger", "survey"}
  /\ \A m \in Missions :
       /\ web.disk[m].state \in {"none", "running", "completed", "interrupted"}
       /\ \A w \in Windows : web.disk[m].windows[w] \in {"none", "open", "unknown"} \cup Outcomes
  /\ pump \in Windows

(* What a file says of an attempt is how that attempt ended, whatever the  *)
(* order in which its end, its result and the notices of other attempts    *)
(* come in.                                                                *)
RecordsAreTrue ==
  \A m \in Missions, a \in Attempts :
    web.disk[m].windows[a] \in Outcomes => web.disk[m].windows[a] = truth[a]

(* A late message never opens again what was finished: no later mission    *)
(* has a window of an attempt whose end is in a file.                      *)
RecordedOnce ==
  \A m, n \in Missions, a \in Attempts :
    web.disk[m].windows[a] \in Outcomes /\ n > m => web.disk[n].windows[a] = "none"

(* Taking back a start of the page changes the record of no other attempt. *)
RollsBackItsOwn ==
  start.pc = "restore" /\ start'.pc = "idle" /\ UNCHANGED left =>
    \A m \in Missions, w \in Windows \ {start.a} :
      web'.disk[m].windows[w] = web.disk[m].windows[w]

AtRest ==
  /\ start.pc = "idle" /\ stop.pc = "idle" /\ pump = Nobody
  /\ Delivered
  /\ \A a \in Attempts : stage[a] \in {"new", "over", "dropped"}

Closed ==
  /\ web.window = NoWindow
  /\ \A m \in Missions, w \in Windows :
       web.disk[m].windows[w] = "open" => web.disk[m].state = "interrupted"

(* When everything has ended nothing is left open: no window, no record in *)
(* a finished mission.  A survey that was stopped in the middle of a       *)
(* sample is left aside.                                                   *)
NothingLeftOpen ==
  AtRest /\ (\A a \in Attempts : stage[a] # "dropped") => Closed

RecordsHold == RecordsAreTrue /\ RecordedOnce /\ NothingLeftOpen
=============================================================================
