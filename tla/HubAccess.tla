------------------------------ MODULE HubAccess ------------------------------
(***************************************************************************)
(* Who may listen to the push hubs of a workspace (hubs.ts, auth/tickets,  *)
(* routes/hubs.ts), seen from one person whose membership ends.            *)
(*                                                                         *)
(* A hub asks no database.  It has the window the Worker put on a socket   *)
(* when it was opened, and extends it for a ticket the Worker signed; an   *)
(* `evict` job closes the sockets of a removed member, hub by hub.         *)
(* Times are in ticks, of which a window has Window: a request that finds  *)
(* a member and opens a socket or signs a ticket takes no time against it. *)
(* Left out: signatures, other people's and other workspaces' tickets      *)
(* (they close the socket), and the audience of an event.                  *)
(***************************************************************************)
EXTENDS Integers

CONSTANTS
  Hub,      \* the workspace's hub and those of the person's sessions
  Socket,
  HubOf,    \* of each socket
  Window,   \* TICKET_TTL_SECONDS, in ticks
  MaxTime   \* bound

ASSUME WindowAssumption == Window \in Nat \ {0} /\ MaxTime \in Nat
ASSUME HubOfAssumption == HubOf \in [Socket -> Hub]

Time == 0..(MaxTime + Window)

VARIABLES
  now,         \* Date.now(), everywhere
  isMember,    \* the row in members is active
  removedAt,   \* history: when it last ceased to be
  told,        \* history: when an event last reached the person
  tickets,     \* the expiries of the tickets the person was given
  listening,   \* each socket: where it is and until when it is authorized
  toEvict      \* the hubs the evict job has yet to reach

accessVars == <<now, isMember, removedAt, told, tickets, listening, toEvict>>

Unused == [at |-> "unused", until |-> 0]

AccessTypeOK ==
  /\ now \in 0..MaxTime /\ removedAt \in 0..MaxTime /\ told \in 0..MaxTime
  /\ isMember \in BOOLEAN
  /\ tickets \subseteq Time
  /\ listening \in [Socket -> [at : {"unused", "upgrading", "open", "closed"}, until : Time]]
  /\ toEvict \subseteq Hub

AccessInit ==
  /\ now = 0 /\ removedAt = 0 /\ told = 0
  /\ isMember = TRUE
  /\ tickets = {}
  /\ listening = [s \in Socket |-> Unused]
  /\ toEvict = {}

-----------------------------------------------------------------------------
(* The Worker, which asks the members table *)

(* The route answers with the attachment, which has yet to reach the hub. *)
Upgrade(s) ==
  /\ isMember
  /\ listening[s].at = "unused"
  /\ listening' = [listening EXCEPT ![s] = [at |-> "upgrading", until |-> now + Window]]
  /\ UNCHANGED <<now, isMember, removedAt, told, tickets, toEvict>>

(* authSession, every four minutes: mintHubTicket. *)
MintTicket ==
  /\ isMember
  /\ tickets' = tickets \cup {now + Window}
  /\ UNCHANGED <<now, isMember, removedAt, told, listening, toEvict>>

(* revokeAccess, with its job. *)
Remove ==
  /\ isMember
  /\ isMember' = FALSE /\ removedAt' = now
  /\ toEvict' = Hub
  /\ UNCHANGED <<now, told, tickets, listening>>

Return ==
  /\ ~isMember
  /\ isMember' = TRUE
  /\ UNCHANGED <<now, removedAt, told, tickets, listening, toEvict>>

-----------------------------------------------------------------------------
(* A hub *)

IsOpen(s) == listening[s].at = "open"
Shut(s) == listening' = [listening EXCEPT ![s].at = "closed"]

Accept(s) ==
  /\ listening[s].at = "upgrading"
  /\ listening' = [listening EXCEPT ![s].at = "open"]
  /\ UNCHANGED <<now, isMember, removedAt, told, tickets, toEvict>>

(* Mutant of Extended: the window starts again. *)
ExtendedFromNow(exp) == now + Window
Extended(exp) == exp

(* webSocketMessage: of a socket whose own window may be over. *)
PresentTicket(s, exp) ==
  /\ IsOpen(s) /\ exp \in tickets
  /\ IF exp > now
     THEN listening' = [listening EXCEPT ![s].until = Extended(exp)]
     ELSE Shut(s)
  /\ UNCHANGED <<now, isMember, removedAt, told, tickets, toEvict>>

(* publish and publishTransient *)
Publish(h) ==
  LET at == {s \in Socket : IsOpen(s) /\ HubOf[s] = h}
      heard == {s \in at : listening[s].until > now}
  IN
  /\ listening' = [s \in Socket |-> IF s \in at \ heard
                                    THEN [listening[s] EXCEPT !.at = "closed"] ELSE listening[s]]
  /\ told' = IF heard = {} THEN told ELSE now
  /\ UNCHANGED <<now, isMember, removedAt, tickets, toEvict>>

(* runEvict: retried, so a hub may be reached twice; and the last retry may be lost. *)
Evict(h) ==
  /\ h \in toEvict
  /\ toEvict' \in {toEvict, toEvict \ {h}}
  /\ listening' = [s \in Socket |-> IF IsOpen(s) /\ HubOf[s] = h
                                    THEN [listening[s] EXCEPT !.at = "closed"] ELSE listening[s]]
  /\ UNCHANGED <<now, isMember, removedAt, told, tickets>>

Disconnects(s) ==
  /\ IsOpen(s)
  /\ Shut(s)
  /\ UNCHANGED <<now, isMember, removedAt, told, tickets, toEvict>>

Tick ==
  /\ now < MaxTime
  /\ now' = now + 1
  /\ UNCHANGED <<isMember, removedAt, told, tickets, listening, toEvict>>

AccessNext ==
  \/ \E s \in Socket : \/ Upgrade(s) \/ Accept(s) \/ Disconnects(s)
                       \/ \E exp \in Time : PresentTicket(s, exp)
  \/ \E h \in Hub : Publish(h) \/ Evict(h)
  \/ MintTicket \/ Remove \/ Return \/ Tick

AccessSpec == AccessInit /\ [][AccessNext]_accessVars

-----------------------------------------------------------------------------
(* Properties *)

(* Nothing reaches a removed member once a window has passed, whatever sockets were
   being opened and whatever tickets were kept: "a removal takes effect within one
   window even if the evict fan-out is lost entirely" (auth/tickets). *)
RemovalTakesEffect == ~isMember => told < removedAt + Window
=============================================================================
