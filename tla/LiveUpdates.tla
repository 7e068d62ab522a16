----------------------------- MODULE LiveUpdates -----------------------------
(***************************************************************************)
(* One stream of committed events from the outbox to a browser: the        *)
(* publish jobs (jobs.ts), the hub's fan-out (hubs.ts), the replay route   *)
(* (routes/workspace.ts) and the client's cursor, buffer, catch-up and     *)
(* reconnection (apps/client/src/model/hub.ts).                            *)
(*                                                                         *)
(* Events are numbered as their ids are drawn, before their transactions   *)
(* commit.  Sockets are numbered as they are made; a client may have old   *)
(* ones whose close it has yet to hear of.                                 *)
(* Left out: previews, tickets and the ends of a hub (signed out, evicted, *)
(* closed, resync: the adapter starts over from a snapshot), batches (one  *)
(* event a frame), and `accept`, by which a session's hub passes over      *)
(* other sessions' rows.                                                   *)
(***************************************************************************)
EXTENDS Integers, FiniteSets, Sequences

CONSTANTS
  Reconciles,         \* a session's hub: it also replays while its socket is healthy
  PageSize,           \* MAX_REPLAY_PAGE
  MaxPages,           \* MAX_REPLAY_PAGES
  PollAfterFailures,
  MaxEvent,           \* bound
  MaxSocket,          \* bound
  MaxFrames           \* bound: the frames on their way on one socket

ASSUME StreamAssumption ==
  /\ Reconciles \in BOOLEAN
  /\ {PageSize, MaxPages, MaxEvent, MaxSocket} \subseteq Nat \ {0}
  /\ {PollAfterFailures, MaxFrames} \subseteq Nat

Event == 1..MaxEvent
Wire == 1..MaxSocket

VARIABLES
  event,      \* each outbox row
  publish,    \* its publish job
  published,  \* history: the events a hub has been handed
  wire,       \* each socket: what its client knows of it, whether the hub still has it
  frames,     \* what is on its way on it
  client,     \* the variables of createHub
  replay,     \* the catch-up in flight
  applied,    \* history: the events given to onEvent
  exposed     \* history: the events that a cursor may pass; see NothingSkipped

streamVars == <<event, publish, published, wire, frames, client, replay, applied, exposed>>
serverVars == <<event, publish, published>>

NoReplay == [at |-> "none", page |-> {}, head |-> 0, pages |-> 0, required |-> FALSE]

StreamTypeOK ==
  /\ event \in [Event -> {"none", "open", "committed", "rolled_back"}]
  /\ publish \in [Event -> {"none", "due", "done"}]
  /\ published \subseteq Event /\ applied \subseteq Event /\ exposed \subseteq Event
  /\ wire \in [Wire -> [at : {"none", "connecting", "open", "closing", "closed"}, hub : BOOLEAN]]
  /\ frames \in [Wire -> Seq(Event)]
  /\ client \in [cursor : 0..MaxEvent, buffering : BOOLEAN, buffer : SUBSET Event,
                 socket : 0..MaxSocket, open : BOOLEAN, everOpened : BOOLEAN,
                 failures : 0..MaxSocket, timer : BOOLEAN, polling : BOOLEAN]
  /\ replay \in [at : {"none", "asking", "answered", "checking"}, page : SUBSET Event,
                 head : 0..MaxEvent, pages : 0..MaxPages, required : BOOLEAN]

(* createHub calls connect, whose socket is the first. *)
StreamInit ==
  /\ event = [e \in Event |-> "none"]
  /\ publish = [e \in Event |-> "none"]
  /\ published = {} /\ applied = {} /\ exposed = {}
  /\ wire = [s \in Wire |-> [at |-> IF s = 1 THEN "connecting" ELSE "none", hub |-> FALSE]]
  /\ frames = [s \in Wire |-> <<>>]
  /\ client = [cursor |-> 0, buffering |-> TRUE, buffer |-> {}, socket |-> 1, open |-> FALSE,
               everOpened |-> FALSE, failures |-> 0, timer |-> FALSE, polling |-> FALSE]
  /\ replay = NoReplay

Committed == {e \in Event : event[e] = "committed"}
Beyond(id) == {e \in Committed : e > id}
Newest == CHOOSE id \in Committed \cup {0} : \A e \in Committed : e <= id

-----------------------------------------------------------------------------
(* The outbox: preparePublications, in transactions that overlap *)

Draw(e) ==
  /\ event[e] = "none" /\ \A d \in Event : d < e => event[d] # "none"
  /\ event' = [event EXCEPT ![e] = "open"]
  /\ UNCHANGED <<publish, published, wire, frames, client, replay, applied, exposed>>

(* The event and its job commit together. *)
Commit(e) ==
  /\ event[e] = "open"
  /\ event' = [event EXCEPT ![e] = "committed"]
  /\ publish' = [publish EXCEPT ![e] = "due"]
  /\ exposed' = exposed \cup {d \in Event : d < e /\ event[d] = "open"}
  /\ UNCHANGED <<published, wire, frames, client, replay, applied>>

RollBack(e) ==
  /\ event[e] = "open"
  /\ event' = [event EXCEPT ![e] = "rolled_back"]
  /\ UNCHANGED <<publish, published, wire, frames, client, replay, applied, exposed>>

(* deliverPreparedPublications and runPublish: the job is done when the hub has
   acknowledged, or lost before, to be run again. *)
Deliver(e) ==
  LET to == {s \in Wire : wire[s].hub} IN
  /\ publish[e] = "due"
  /\ \A s \in to : Len(frames[s]) < MaxFrames
  /\ frames' = [s \in Wire |-> IF s \in to THEN Append(frames[s], e) ELSE frames[s]]
  /\ publish' \in {publish, [publish EXCEPT ![e] = "done"]}
  /\ published' = published \cup {e}
  /\ exposed' = exposed \cup {d \in Committed \ published : d < e}
  /\ UNCHANGED <<event, wire, client, replay, applied>>

-----------------------------------------------------------------------------
(* The client: intake, applyBuffered, catchUp *)

(* What applying events, each in its turn, does to the cursor. *)
Past(id, es) == CHOOSE top \in es \cup {id} : \A e \in es \cup {id} : e <= top

(* Mutant of Intake: a live frame is applied at once, whatever is being replayed. *)
IntakeLive(e) ==
  /\ client' = [client EXCEPT !.cursor = Past(@, {e})]
  /\ applied' = applied \cup {d \in {e} : d > client.cursor}

Intake(e) ==
  IF client.buffering
  THEN client' = [client EXCEPT !.buffer = @ \cup {e}] /\ UNCHANGED applied
  ELSE /\ client' = [client EXCEPT !.cursor = Past(@, {e})]
       /\ applied' = applied \cup {d \in {e} : d > client.cursor}

(* The first events of page and then the buffer are applied, in id order, and the
   client buffers no more. *)
Drain(page) ==
  LET cursor == Past(client.cursor, page) IN
  /\ client' = [client EXCEPT !.cursor = Past(cursor, client.buffer),
                              !.buffer = {}, !.buffering = FALSE]
  /\ applied' = applied \cup {e \in page : e > client.cursor}
                        \cup {e \in client.buffer : e > cursor}

Receive(s) ==
  /\ wire[s].at = "open" /\ frames[s] # <<>>
  /\ frames' = [frames EXCEPT ![s] = Tail(@)]
  /\ Intake(Head(frames[s]))
  /\ UNCHANGED <<serverVars, wire, replay, exposed>>

(* The route reads the head and a page after the cursor. *)
AnswerReplay ==
  /\ replay.at = "asking"
  /\ replay' = [replay EXCEPT !.at = "answered", !.head = Newest,
       !.page = {e \in Beyond(client.cursor) :
                   Cardinality({d \in Beyond(client.cursor) : d < e}) < PageSize}]
  /\ UNCHANGED <<serverVars, wire, frames, client, applied, exposed>>

More == /\ replay.page # {} /\ replay.head > Past(client.cursor, replay.page)
        /\ replay.pages + 1 < MaxPages

(* The page is applied while what is live stays buffered, and another is asked for. *)
NextPage ==
  /\ replay.at = "answered" /\ More
  /\ client' = [client EXCEPT !.cursor = Past(@, replay.page), !.buffering = TRUE]
  /\ applied' = applied \cup {e \in replay.page : e > client.cursor}
  /\ replay' = [replay EXCEPT !.at = "asking", !.page = {}, !.head = 0, !.pages = @ + 1]
  /\ UNCHANGED <<serverVars, wire, frames, exposed>>

(* The last page; reconcileSemantics follows, with the catch-up still in flight. *)
LastPage ==
  /\ replay.at = "answered" /\ ~More
  /\ Drain(replay.page)
  /\ replay' = IF Reconciles THEN [NoReplay EXCEPT !.at = "checking"] ELSE NoReplay
  /\ exposed' = IF replay.page # {}    \* MAX_REPLAY_PAGES were not enough
                THEN exposed \cup {e \in Beyond(Past(client.cursor, replay.page)) : e <= replay.head}
                ELSE exposed
  /\ UNCHANGED <<serverVars, wire, frames>>

(* A replay that only audits a healthy socket has failed. *)
AuditFails ==
  /\ replay.at \in {"asking", "answered"} /\ ~replay.required
  /\ Drain({})
  /\ replay' = [NoReplay EXCEPT !.at = "checking"]
  /\ UNCHANGED <<serverVars, wire, frames, exposed>>

Checked ==
  /\ replay.at = "checking"
  /\ replay' = NoReplay
  /\ UNCHANGED <<serverVars, wire, frames, client, applied, exposed>>

-----------------------------------------------------------------------------
(* Sockets *)

(* dropAndReconnect: what it closes is the latest socket, whichever that is. *)
Dropped ==
  /\ client' = [client EXCEPT !.open = FALSE, !.socket = 0, !.timer = TRUE]
  /\ wire' = [s \in Wire |-> IF s = client.socket
                             THEN [at |-> "closing", hub |-> FALSE] ELSE wire[s]]
  /\ frames' = [s \in Wire |-> IF s = client.socket THEN <<>> ELSE frames[s]]

CatchUpFails ==
  /\ replay.at \in {"asking", "answered"} /\ replay.required
  /\ Dropped
  /\ replay' = NoReplay
  /\ UNCHANGED <<serverVars, applied, exposed>>

(* Nothing inbound for SILENCE_MS, on whichever socket the timer was last armed for. *)
Silent ==
  /\ \E s \in Wire : wire[s].at = "open"
  /\ Dropped
  /\ UNCHANGED <<serverVars, replay, applied, exposed>>

Used == {s \in Wire : wire[s].at # "none"}

(* The timer of scheduleReconnect: connect, which forgets what is buffered. *)
Dial ==
  /\ client.timer /\ ~client.polling
  /\ Used # Wire
  /\ LET s == Cardinality(Used) + 1 IN
       /\ wire' = [wire EXCEPT ![s].at = "connecting"]
       /\ client' = [client EXCEPT !.timer = FALSE, !.buffering = TRUE, !.buffer = {}, !.socket = s]
  /\ exposed' = exposed \cup client.buffer
  /\ UNCHANGED <<serverVars, frames, replay, applied>>

(* The hub accepts the socket and onopen runs: initialCatchUp, unless one is in flight. *)
Opens(s) ==
  /\ wire[s].at = "connecting"
  /\ wire' = [wire EXCEPT ![s] = [at |-> "open", hub |-> TRUE]]
  /\ IF replay.at = "none"
     THEN /\ replay' = [NoReplay EXCEPT !.at = "asking", !.required = TRUE]
          /\ client' = [client EXCEPT !.open = TRUE, !.everOpened = TRUE, !.failures = 0,
                                      !.buffering = TRUE]
          /\ UNCHANGED exposed
     ELSE /\ client' = [client EXCEPT !.open = TRUE, !.everOpened = TRUE, !.failures = 0]
          /\ exposed' = exposed \cup Beyond(client.cursor)
          /\ UNCHANGED replay
  /\ UNCHANGED <<serverVars, frames, applied>>

(* The hub, or the network, has let go of a socket that looks open: what is on its way
   may still arrive, until the client gives it up. *)
GoesDead(s) ==
  /\ wire[s].hub
  /\ wire' = [wire EXCEPT ![s].hub = FALSE]
  /\ UNCHANGED <<serverVars, frames, client, replay, applied, exposed>>

(* onclose, of any socket that was made, at once or late: it forgets the latest socket.
   Two handshakes refused before any socket was open, and the client polls. *)
Closes(s) ==
  LET failed == IF client.everOpened THEN client.failures ELSE client.failures + 1
      gaveUp == ~client.everOpened /\ PollAfterFailures > 0 /\ failed >= PollAfterFailures
      after == [client EXCEPT !.open = FALSE, !.socket = 0, !.failures = failed]
  IN
  /\ wire[s].at \in {"connecting", "open", "closing"}
  /\ wire' = [wire EXCEPT ![s] = [at |-> "closed", hub |-> FALSE]]
  /\ frames' = [frames EXCEPT ![s] = <<>>]
  /\ client' = IF gaveUp
               THEN [after EXCEPT !.polling = TRUE, !.buffering = FALSE, !.buffer = {}, !.timer = FALSE]
               ELSE [after EXCEPT !.timer = TRUE]
  /\ UNCHANGED <<serverVars, replay, applied, exposed>>

(* poll: nothing else moves the cursor between the question and the answer. *)
Poll ==
  /\ client.polling
  /\ LET page == {e \in Beyond(client.cursor) :
                    Cardinality({d \in Beyond(client.cursor) : d < e}) < PageSize} IN
       /\ client' = [client EXCEPT !.cursor = Past(@, page)]
       /\ applied' = applied \cup page
  /\ UNCHANGED <<serverVars, wire, frames, replay, exposed>>

(* reconcile, on its timer or with a new ticket. *)
Reconcile ==
  /\ Reconciles /\ client.open /\ replay.at = "none"
  /\ client' = [client EXCEPT !.buffering = TRUE]
  /\ replay' = [NoReplay EXCEPT !.at = "asking"]
  /\ UNCHANGED <<serverVars, wire, frames, applied, exposed>>

StreamNext ==
  \/ \E e \in Event : Draw(e) \/ Commit(e) \/ RollBack(e) \/ Deliver(e)
  \/ \E s \in Wire : Receive(s) \/ Opens(s) \/ GoesDead(s) \/ Closes(s)
  \/ AnswerReplay \/ NextPage \/ LastPage \/ AuditFails \/ Checked
  \/ CatchUpFails \/ Silent \/ Dial \/ Poll \/ Reconcile

StreamSpec == StreamInit /\ [][StreamNext]_streamVars

-----------------------------------------------------------------------------
(* Properties *)

(* "a connected client cannot miss a committed event" (hubs.ts): the cursor passes no
   event that was not applied, through drops, dead sockets, failed replays and
   frames that arrive during a replay.  The events it may pass are `exposed`: a later
   id was committed or published before them; a catch-up of the previous connection
   was still in flight as they came; they were buffered as another connection was
   dialled; or they lie beyond the pages of one catch-up. *)
NothingSkipped == \A e \in Committed : e <= client.cursor /\ e \notin exposed => e \in applied
=============================================================================
