------------------------------ MODULE EventRelay ------------------------------
(***************************************************************************)
(* The way of requests and of their events between a ground station and    *)
(* the payload executor: usv_mavlink_router_bridge.py with the ends of it  *)
(* that mavlink_trigger_node.py and the ground station hold.  The router   *)
(* connection has a session number; a reconnection gets the next one.  An  *)
(* event goes to the ground in several STATUSTEXT chunks.                  *)
(*                                                                         *)
(* A request is its number; what the ground sends later has a larger one.  *)
(* What a request does is abstracted: a task reports an admission,         *)
(* progress and a terminal result, any other request one answer.           *)
(***************************************************************************)
EXTENDS Naturals, Sequences, FiniteSets, SequencesExt

CONSTANTS
  Requests,     \* numbers of requests
  Tasks,        \* the ones that start work
  Safety,       \* the ones of SAFETY_COMMANDS
  Chunks,       \* chunks of one event
  MaxRecent,    \* the 32 events that the bridge keeps
  MaxChunkId,   \* the 65535 chunk identifiers
  MaxTrouble,   \* bound: lost sessions and restarts of the executor
  MaxCopies,    \* copies of a request that the ground sends (3)
  MaxQueue      \* bound: messages under way when one more is asked for

RequestTypes ==
  /\ Requests \subseteq Nat \ {0} /\ Tasks \subseteq Requests /\ Safety \subseteq Requests
  /\ Chunks \in Nat \ {0} /\ MaxRecent \in Nat \ {0} /\ MaxChunkId \in Nat \ {0}

VARIABLES
  ground,    \* the ground station: copies sent, the text it assembles, what it has read
  link,      \* the connection: its session and whether it carries anything
  route,     \* the bridge's RequestLedger
  recent,    \* _recent_events, oldest first
  active,    \* _active_event_send
  chunkId,   \* _event_chunk_id
  known,     \* what the bridge last heard of the executor
  commands,  \* /usv/payload_command
  events,    \* /usv/payload_event
  executor   \* the executor: its instance, its session, its ledger and what it has begun

vars == <<ground, link, route, recent, active, chunkId, known, commands, events, executor>>

bridgeVars == <<route, recent, active, chunkId>>

Phases == {"request", "progress", "terminal"}
NoEvent == [seq |-> 0, phase |-> "none"]
Closes(r, event) == event.phase = "terminal" \/ (event.phase = "request" /\ r \notin Tasks)
Refusal(seq) == [seq |-> seq, phase |-> "refused"]   \* 'failed', 'executor_restarted'
IsClosed(r, event) == event.phase = "refused" \/ Closes(r, event)

NoRoute == [executor |-> 0, session |-> 0, event |-> NoEvent, closed |-> FALSE, recover |-> FALSE]
Routed(r) == route[r].executor # 0
NoRecord == [event |-> NoEvent, reply |-> 0, admitted |-> FALSE]
NoActive == [request |-> 0, event |-> NoEvent, offset |-> 0, id |-> 0]

Up == link.state # "down"

Calm == (link.session - 1) + (executor.instance - 1) < MaxTrouble

Init ==
  /\ ground = [copies |-> [r \in Requests |-> 0], id |-> 0, text |-> <<>>, read |-> {}]
  /\ link = [session |-> 1, state |-> "up"]
  /\ route = [r \in Requests |-> NoRoute]
  /\ recent = <<>> /\ active = NoActive /\ chunkId = 0
  /\ known = [executor |-> 1, session |-> 1]
  /\ commands = <<>> /\ events = <<>>
  /\ executor = [instance |-> 1, session |-> 1, ledger |-> [r \in Requests |-> NoRecord],
                 begun |-> [r \in Requests |-> 0]]

-----------------------------------------------------------------------------
(* The events that the bridge keeps for the ground.                        *)

Kept(r) == {i \in DOMAIN recent : recent[i].request = r}

(* What is still to be sent of a request: an admission and the latest      *)
(* progress, or nothing but its end.                                       *)
PendingWith(old, event) ==
  LET isOther(e) == e.phase # "progress"
  IN IF event.phase = "progress" THEN Append(SelectSeq(old, isOther), event) ELSE <<event>>

(* What goes first when there is no room: what was sent, and then what     *)
(* matters least.                                                          *)
Worth(entry) ==
  CASE entry.pending = <<>> -> 0
    [] entry.pending # <<>> /\ entry.request \in Safety -> 4
    [] entry.pending # <<>> /\ entry.request \notin Safety /\ Last(entry.pending).phase = "terminal" -> 3
    [] entry.pending # <<>> /\ entry.request \notin Safety /\ Last(entry.pending).phase # "terminal"
         -> IF Head(entry.pending).phase \in {"request", "refused"} THEN 2 ELSE 1

Victim(list) ==
  CHOOSE i \in DOMAIN list :
    \A j \in DOMAIN list : \/ Worth(list[i]) < Worth(list[j])
                           \/ Worth(list[i]) = Worth(list[j]) /\ i <= j

Fit(list) == IF Len(list) > MaxRecent THEN RemoveAt(list, Victim(list)) ELSE list

Without(list, r) == LET isOther(e) == e.request # r IN SelectSeq(list, isOther)

(* _payload_event_cb, once the event is known to be of this session.       *)
Keep(r, event) ==
  LET old == {recent[i] : i \in Kept(r)}
      pending == IF old = {} THEN <<>> ELSE (CHOOSE e \in old : TRUE).pending
  IN IF \E e \in old : event.seq <= e.event.seq
     THEN UNCHANGED recent
     ELSE recent' = Fit(Append(Without(recent, r),
                               [request |-> r, event |-> event, pending |-> PendingWith(pending, event)]))

Observe(r, event) ==
  IF Routed(r) /\ event.seq > route[r].event.seq
  THEN route' = [route EXCEPT ![r].event = event, ![r].closed = IsClosed(r, event)]
  ELSE UNCHANGED route

TakeEvent ==
  /\ events # <<>> /\ events' = Tail(events)
  /\ LET e == Head(events)
     IN IF Up /\ e.session = link.session
        THEN Observe(e.request, e.event) /\ Keep(e.request, e.event)
        ELSE UNCHANGED <<route, recent>>
  /\ UNCHANGED <<ground, link, active, chunkId, known, commands, executor>>

-----------------------------------------------------------------------------
(* _send_payload_event, a chunk at a time: the transport may put the next  *)
(* chunk off to a later cycle, in which the choice is made again.          *)

Rank(r, event) == IF r \in Safety THEN 0 ELSE IF event.phase = "terminal" THEN 1 ELSE 2
Fresh == {i \in DOMAIN recent : recent[i].pending # <<>>}
RankOf(i) == Rank(recent[i].request, Head(recent[i].pending))
Best == CHOOSE i \in Fresh : \A j \in Fresh : RankOf(i) < RankOf(j) \/ (RankOf(i) = RankOf(j) /\ i <= j)

NextChunkId == (chunkId % MaxChunkId) + 1

(* A bug to look for: what overtakes goes on where the other was put off.  *)
BegunInItsPlace(r, event) ==
  [request |-> r, event |-> event, offset |-> active.offset,
   id |-> IF active = NoActive THEN NextChunkId ELSE active.id]
Begun(r, event) == [request |-> r, event |-> event, offset |-> 0, id |-> NextChunkId]

Overtaken == \E i \in Fresh : RankOf(i) < Rank(active.request, active.event)

Begin ==
  /\ Up
  /\ active = NoActive \/ Overtaken
  /\ \/ /\ Fresh # {}
        /\ active' = Begun(recent[Best].request, Head(recent[Best].pending))
     \/ /\ Fresh = {}    \* once more what was sent, after a second
        /\ \E i \in DOMAIN recent : active' = Begun(recent[i].request, recent[i].event)
  /\ chunkId' = NextChunkId
  /\ UNCHANGED <<ground, link, route, recent, known, commands, events, executor>>

(* A second after its first chunk the ground gives an unfinished text up,  *)
(* and the bridge begins it again.                                         *)
Second ==
  /\ active.offset > 0
  /\ active' = NoActive
  /\ ground' = [ground EXCEPT !.id = 0, !.text = <<>>]
  /\ UNCHANGED <<link, route, recent, chunkId, known, commands, events, executor>>

(* The ground's assembly of a text, and what it has when a chunk is the    *)
(* last.                                                                   *)
Stale(text, here) == /\ text[1].request = here[1].request /\ text[1].event.seq <= here[1].event.seq
                     /\ \A j \in DOMAIN text : text[j] = text[1]

Assemble(id, offset, request, event) ==
  LET here == Append(IF offset = 0 THEN <<>> ELSE ground.text, [request |-> request, event |-> event])
      follows == offset = 0 \/ (id = ground.id /\ offset = Len(ground.text))
  IN IF ~follows THEN UNCHANGED ground
     ELSE IF Len(here) = Chunks
     THEN ground' = [ground EXCEPT !.id = 0, !.text = <<>>, !.read = {x \in @ : ~Stale(x, here)} \cup {here}]
     ELSE ground' = [ground EXCEPT !.id = id, !.text = here]

Sent(r, event) ==
  LET i == CHOOSE k \in Kept(r) : TRUE
      isOther(e) == e # event
  IN IF Kept(r) = {} THEN recent
     ELSE Append(Without(recent, r), [recent[i] EXCEPT !.pending = SelectSeq(@, isOther)])

SendChunk ==
  /\ Up /\ active # NoActive
  /\ IF link.state = "up" THEN Assemble(active.id, active.offset, active.request, active.event)
     ELSE UNCHANGED ground
  /\ IF active.offset + 1 = Chunks
     THEN /\ recent' = Sent(active.request, active.event)
          /\ active' = NoActive
     ELSE /\ active' = [active EXCEPT !.offset = @ + 1]
          /\ UNCHANGED recent
  /\ UNCHANGED <<link, route, chunkId, known, commands, events, executor>>

(* A log, of chunk identifier 0, ends the assembly of any other text.      *)
SendLog ==
  /\ Up /\ active = NoActive /\ ground' = [ground EXCEPT !.id = 0, !.text = <<>>]
  /\ UNCHANGED <<link, bridgeVars, known, commands, events, executor>>

(* Thirty seconds after it was kept.                                       *)
Expire ==
  /\ \E i \in DOMAIN recent : /\ recent[i].pending = <<>>
                              /\ recent' = RemoveAt(recent, i)
  /\ UNCHANGED <<ground, link, route, active, chunkId, known, commands, events, executor>>

-----------------------------------------------------------------------------
(* The session.                                                            *)

Sever ==
  /\ link.state = "up" /\ Calm
  /\ link' = [link EXCEPT !.state = "severed"]
  /\ UNCHANGED <<ground, bridgeVars, known, commands, events, executor>>

RecoverOnRetire(r) == route[r].recover \/ ~route[r].closed \/ Kept(r) # {}

Retire ==
  /\ link.state = "severed"
  /\ link' = [link EXCEPT !.state = "down"]
  /\ route' = [r \in Requests |->
       [route[r] EXCEPT !.recover = IF Routed(r) /\ route[r].session = link.session
                                    THEN RecoverOnRetire(r) ELSE @]]
  /\ recent' = <<>> /\ active' = NoActive
  /\ UNCHANGED <<ground, chunkId, known, commands, events, executor>>

Reconnect ==
  /\ link.state = "down"
  /\ link' = [session |-> link.session + 1, state |-> "up"]
  /\ ground' = [ground EXCEPT !.id = 0, !.text = <<>>]
  /\ UNCHANGED <<bridgeVars, known, commands, events, executor>>

-----------------------------------------------------------------------------
(* Requests.                                                               *)

ToExecutor(r, who, only) ==
  Append(commands, [executor |-> who, request |-> r, session |-> link.session, only |-> only])

(* _forward_payload_command.  A record keeps the executor that the bridge  *)
(* knew when it was made.                                                  *)
Owner(r) == IF Routed(r) THEN route[r].executor ELSE known.executor

Forward(r) ==
  LET record == IF Routed(r) THEN route[r]
                ELSE [NoRoute EXCEPT !.executor = known.executor, !.session = link.session]
      event == IF record.event.phase \in {"terminal", "refused"} THEN record.event
               ELSE Refusal(record.event.seq + 1)
  IN IF Owner(r) # known.executor
     THEN /\ route' = [route EXCEPT ![r] = [record EXCEPT !.event = event, !.closed = TRUE]]
          /\ Keep(r, event)
          /\ UNCHANGED commands
     ELSE /\ route' = [route EXCEPT ![r] = [record EXCEPT !.session = link.session, !.recover = FALSE]]
          /\ commands' = ToExecutor(r, Owner(r), FALSE)
          /\ UNCHANGED recent

Ask(r) ==
  /\ link.state = "up" /\ ground.copies[r] < MaxCopies /\ Len(commands \o events) < MaxQueue
  /\ \A q \in Requests : q < r => ground.copies[q] > 0
  /\ ground' = [ground EXCEPT !.copies[r] = @ + 1]
  /\ Forward(r)
  /\ UNCHANGED <<link, active, chunkId, known, events, executor>>

(* COMMAND_LONG 512 with the identity of a task.                           *)
Reread(r) ==
  /\ r \in Tasks /\ link.state = "up" /\ Routed(r) /\ route[r].executor = known.executor /\ ~route[r].recover
  /\ route' = [route EXCEPT ![r].recover = TRUE]
  /\ UNCHANGED <<ground, link, recent, active, chunkId, known, commands, events, executor>>

(* _recover_payload_results: one query a cycle, the open requests first    *)
(* and then the oldest.                                                    *)
Before(q, r) == IF route[q].closed = route[r].closed THEN q < r ELSE ~route[q].closed

Recover(r) ==
  /\ Up /\ known.session = link.session /\ Len(commands \o events) < MaxQueue
  /\ route[r].recover
  /\ \A q \in Requests \ {r} : route[q].recover => Before(r, q)
  /\ route' = [route EXCEPT ![r].session = link.session, ![r].recover = FALSE]
  /\ commands' = ToExecutor(r, route[r].executor, TRUE)
  /\ UNCHANGED <<ground, link, recent, active, chunkId, known, events, executor>>

-----------------------------------------------------------------------------
(* The executor.                                                           *)

Publish(r, event, session) == Append(events, [request |-> r, event |-> event, session |-> session])

(* An event is made in the session of the last request for it.             *)
Report(r, event) ==
  /\ executor' = [executor EXCEPT !.ledger[r].event = event]
  /\ events' = Publish(r, event, executor.ledger[r].reply)

(* A repetition gets what is stored, in its own session.  (A bug to look   *)
(* for: in the session of the first request.)                              *)
ReplayToFirst(c) ==
  /\ UNCHANGED executor
  /\ events' = IF executor.ledger[c.request].event = NoEvent THEN events
               ELSE Publish(c.request, executor.ledger[c.request].event, executor.ledger[c.request].reply)
Replay(c) ==
  LET r == c.request IN
  /\ executor' = [executor EXCEPT !.ledger[r].reply = c.session]
  /\ events' = IF executor.ledger[r].event = NoEvent THEN events
               ELSE Publish(r, executor.ledger[r].event, c.session)

(* _mavlink_cmd_rx_cb for a request with an identity.                      *)
OfAnyone(c) == TRUE
OfMine(c) == c.executor = executor.instance

TakeCommand ==
  /\ commands # <<>> /\ commands' = Tail(commands)
  /\ LET c == Head(commands)
         r == c.request
         mine == executor.ledger[r]
     IN \/ /\ c.session # executor.session
           /\ UNCHANGED <<executor, events>>
        \/ /\ c.session = executor.session /\ ~OfMine(c)
           /\ IF mine.event.phase \in {"terminal", "refused"} THEN UNCHANGED <<executor, events>>
              ELSE LET e == Refusal(mine.event.seq + 1)
                   IN /\ executor' = [executor EXCEPT !.ledger[r].event = e,
                            !.ledger[r].reply = IF mine.reply = 0 THEN c.session ELSE @]
                      /\ events' = Publish(r, e, IF mine.reply = 0 THEN c.session ELSE mine.reply)
        \/ /\ c.session = executor.session /\ OfMine(c) /\ c.only
           /\ IF mine.admitted THEN Replay(c) ELSE UNCHANGED <<executor, events>>
        \/ /\ c.session = executor.session /\ OfMine(c) /\ ~c.only
           /\ IF mine.admitted \/ mine.event # NoEvent
              THEN Replay(c)
              ELSE /\ executor' = [executor EXCEPT !.begun[r] = @ + 1,
                        !.ledger[r] = [event |-> NoEvent, reply |-> c.session, admitted |-> TRUE]]
                   /\ UNCHANGED events
  /\ UNCHANGED <<ground, link, bridgeVars, known>>

(* The work goes on: an admission, for a task some progress, an end.       *)
Work(r) ==
  /\ executor.ledger[r].admitted /\ ~IsClosed(r, executor.ledger[r].event)
  /\ LET last == executor.ledger[r].event
     IN \E phase \in Phases :
          /\ phase = "request" <=> last = NoEvent
          /\ phase = "progress" => last.phase = "request"
          /\ Report(r, [seq |-> last.seq + 1, phase |-> phase])
  /\ UNCHANGED <<ground, link, bridgeVars, known, commands>>

TakeSession ==
  /\ executor.session # (IF Up THEN link.session ELSE 0)
  /\ executor' = [executor EXCEPT !.session = IF Up THEN link.session ELSE 0]
  /\ UNCHANGED <<ground, link, bridgeVars, known, commands, events>>

(* The capability message, once a second.                                  *)
TakeProtocol ==
  /\ known # [executor |-> executor.instance, session |-> executor.session]
  /\ known' = [executor |-> executor.instance, session |-> executor.session]
  /\ UNCHANGED <<ground, link, bridgeVars, commands, events, executor>>

(* A new executor has an empty ledger.                                     *)
Restart ==
  /\ Calm
  /\ executor' = [executor EXCEPT !.instance = @ + 1, !.session = 0,
                                  !.ledger = [r \in Requests |-> NoRecord]]
  /\ UNCHANGED <<ground, link, bridgeVars, known, commands, events>>

-----------------------------------------------------------------------------
Next ==
  \/ TakeEvent \/ Begin \/ Second \/ SendChunk \/ SendLog \/ Expire
  \/ Sever \/ Retire \/ Reconnect
  \/ \E r \in Requests : Ask(r) \/ Reread(r) \/ Recover(r) \/ Work(r)
  \/ TakeCommand \/ TakeSession \/ TakeProtocol \/ Restart

Spec == Init /\ [][Next]_vars

SendsChunk(r, k) == SendChunk /\ active.request = r /\ active.offset = k

(* The loops of the bridge and of the executor go on; a cycle is not cut   *)
(* off at the same chunk for ever, for the transport puts off what does    *)
(* not fit into 30 ms; and the ground goes on asking for the state.        *)
Loops ==
  /\ WF_vars(TakeEvent) /\ WF_vars(Begin) /\ WF_vars(Retire) /\ WF_vars(Reconnect)
  /\ WF_vars(TakeCommand) /\ WF_vars(TakeSession) /\ WF_vars(TakeProtocol)
  /\ \A r \in Requests : WF_vars(Work(r)) /\ SF_vars(Recover(r))
  /\ WF_vars(SendChunk) /\ \A k \in 1..(Chunks - 1), r \in Requests : SF_vars(SendsChunk(r, k))
Rereads == \A r \in Requests : WF_vars(Reread(r))

-----------------------------------------------------------------------------
(* What the ground reads is one event from its first chunk to its last,    *)
(* whatever was put off, overtaken or begun again in between.              *)
WholeEvents == \A text \in ground.read : \A i, j \in DOMAIN text : text[i] = text[j]

(* A request is begun once, through lost sessions, copies and restarts of  *)
(* the executor.                                                           *)
BegunOnce == \A r \in Requests : executor.begun[r] <= 1

(* Trouble on the way neither mixes events nor begins a request anew.      *)
RelayIsTrue == WholeEvents /\ BegunOnce

(* The result of what was begun comes to the ground, unless the executor   *)
(* that began it is gone.                                                  *)
HasRead(r) == \E text \in ground.read : text[1].request = r /\ IsClosed(r, text[1].event)
IsOwed(r) == executor.ledger[r].admitted
HasArrived(r) == HasRead(r) \/ executor.instance > 1
ResultArrives == \A r \in Requests : IsOwed(r) ~> HasArrived(r)
=============================================================================
