------------------------------ MODULE RunQueue ------------------------------
(***************************************************************************)
(* Messages queued behind a run (run_queue): a person queues them while a  *)
(* run works, Stop parks them, and the minute Cron turns one of them per   *)
(* session into a run of its own once the session is free.                 *)
(*                                                                         *)
(* A run is only what the queue reads of it: its status, and whether its   *)
(* stop is requested.  RunControl models the rest.                         *)
(* Every request holds its run's row lock (loadRun), so a request is one   *)
(* action; the Cron's drain holds none, so its SELECT and its commit are   *)
(* two, and a second Cron may overlap it.                                  *)
(* Left out: the text of a message, and with it editQueueItem.             *)
(***************************************************************************)
EXTENDS Integers, FiniteSetsExt

CONSTANTS
  NTurn,      \* bound: how many runs are admitted by POST .../turns
  NItem,      \* bound: how many messages are queued
  SessionOf,  \* the session of each such run
  Cron,       \* the Crons that may be draining at once
  Batch,      \* the LIMIT of the drain's SELECT (20 in the code)
  Removable   \* the sessions whose owner may be removed from the workspace

Turn == 1..NTurn
Item == NTurn + 1 .. NTurn + NItem
Run == Turn \cup Item        \* the run of a queued message bears the message's name
Session == {SessionOf[t] : t \in Turn}

ASSUME BoundsAssumption == NTurn \in Nat /\ NItem \in Nat
ASSUME SessionOfAssumption == DOMAIN SessionOf = Turn
ASSUME BatchAssumption == Batch \in Nat \ {0}
ASSUME RemovableAssumption == Removable \subseteq Session

Active == {"working", "stopping"}
Terminal == {"stopped", "ended"}

VARIABLES
  run,       \* runs.status
  item,      \* the run_queue rows
  drain,     \* the messages a Cron has selected, before its commit
  readOnly,  \* the sessions of removed members
  pressed,   \* the runs whose stop is requested
  sent       \* history: how many runs a message became

vars == <<run, item, drain, readOnly, pressed, sent>>

NoItem == [status |-> "none", run |-> 0, session |-> 0, position |-> 0]

TypeOK ==
  /\ run \in [Run -> Active \cup Terminal \cup {"none"}]
  /\ item \in [Item -> [status : {"none", "queued", "paused", "sent", "removed"},
                        run : Run \cup {0}, session : Session \cup {0}, position : 0..NItem]]
  /\ drain \in [Cron -> SUBSET Item]
  /\ readOnly \subseteq Session
  /\ pressed \subseteq Run
  /\ sent \in [Item -> 0..2]

Init ==
  /\ run = [r \in Run |-> "none"]
  /\ item = [i \in Item |-> NoItem]
  /\ drain = [c \in Cron |-> {}]
  /\ readOnly = {}
  /\ pressed = {}
  /\ sent = [i \in Item |-> 0]

SessionOfRun(r) == IF r \in Turn THEN SessionOf[r] ELSE item[r].session
Busy(s) == \E r \in Run : run[r] \in Active /\ SessionOfRun(r) = s
Write(r, s) == run' = [run EXCEPT ![r] = s]

-----------------------------------------------------------------------------

CreateTurn(t) ==
  /\ run[t] = "none"
  /\ ~Busy(SessionOf[t])
  /\ SessionOf[t] \notin readOnly
  /\ Write(t, "working")
  /\ UNCHANGED <<item, drain, readOnly, pressed, sent>>

(* The engine's write, guarded by the terminal statuses and not by Stop. *)
SetRunStatus(r, s) ==
  /\ run[r] \in Active
  /\ s = "stopped" => r \in pressed
  /\ Write(r, s)
  /\ UNCHANGED <<item, drain, readOnly, pressed, sent>>

(* Stop parks what is queued: "Stop pauses the queue rather than dropping it". *)
Stop(r) ==
  /\ run[r] \in Active
  /\ SessionOfRun(r) \notin readOnly
  /\ Write(r, "stopping")
  /\ pressed' = pressed \cup {r}
  /\ item' = [i \in Item |-> IF item[i].run = r /\ item[i].status = "queued"
                             THEN [item[i] EXCEPT !.status = "paused"] ELSE item[i]]
  /\ UNCHANGED <<drain, readOnly, sent>>

Retry(r) ==
  /\ run[r] \in Terminal
  /\ ~Busy(SessionOfRun(r))
  /\ SessionOfRun(r) \notin readOnly
  /\ Write(r, "working")
  /\ pressed' = pressed \ {r}
  /\ UNCHANGED <<item, drain, readOnly, sent>>

(* A message queued on a stopping or stopped run is parked. *)
ItemStatus(r) == IF run[r] \in {"stopping", "stopped"} THEN "paused" ELSE "queued"
(* Mutant of NextPosition: the last position, not the one after it. *)
NextPositionLast(r) ==
  Max({-1} \cup {item[i].position : i \in {j \in Item : item[j].run = r}})
NextPosition(r) ==
  Max({-1} \cup {item[i].position : i \in {j \in Item : item[j].run = r}}) + 1

QueueMessage(r, i) ==
  /\ run[r] # "none"
  /\ SessionOfRun(r) \notin readOnly
  /\ item[i].status = "none"
  /\ \A j \in Item : j < i => item[j].status # "none"
  /\ item' = [item EXCEPT ![i] = [status |-> ItemStatus(r), run |-> r,
                                  session |-> SessionOfRun(r), position |-> NextPosition(r)]]
  /\ UNCHANGED <<run, drain, readOnly, pressed, sent>>

RemoveQueueItem(i) ==
  /\ item[i].status \in {"queued", "paused"}
  /\ item[i].session \notin readOnly
  /\ item' = [item EXCEPT ![i].status = "removed"]
  /\ UNCHANGED <<run, drain, readOnly, pressed, sent>>

(* DELETE .../members: the member's sessions become read-only. *)
RemoveMember(s) ==
  /\ s \in Removable \ readOnly
  /\ readOnly' = readOnly \cup {s}
  /\ UNCHANGED <<run, item, drain, pressed, sent>>

-----------------------------------------------------------------------------
(* The drain *)

(* Mutant of Eligible: the messages of stopped runs are not looked at. *)
EligibleEnded ==
  {i \in Item : /\ item[i].status = "queued"
                /\ run[item[i].run] = "ended"
                /\ ~Busy(item[i].session)}

Eligible ==
  {i \in Item : /\ item[i].status = "queued"
                /\ run[item[i].run] \in Terminal
                /\ ~Busy(item[i].session)}

(* Mutant of Page: without the order. *)
PageAny(page) ==
  /\ page \subseteq Eligible
  /\ IF Cardinality(Eligible) <= Batch THEN page = Eligible ELSE Cardinality(page) = Batch

(* ORDER BY position LIMIT Batch, ties in any order. *)
Page(page) ==
  /\ page \subseteq Eligible
  /\ IF Cardinality(Eligible) <= Batch THEN page = Eligible ELSE Cardinality(page) = Batch
  /\ \A i \in page, j \in Eligible \ page : item[i].position <= item[j].position

(* Of the page, the first message of each session that can still be written. *)
Picks(page, picks) ==
  /\ picks \subseteq page
  /\ \A i \in page : item[i].session \notin readOnly <=>
       \E j \in picks : item[j].session = item[i].session
  /\ \A j \in picks, i \in page : item[i].session = item[j].session =>
       item[j].position <= item[i].position
  /\ \A i, j \in picks : item[i].session = item[j].session => i = j

DrainSelect(c) ==
  /\ drain[c] = {}
  /\ \E page \in SUBSET Eligible : \E picks \in SUBSET page :
       /\ Page(page) /\ Picks(page, picks)
       /\ picks # {}
       /\ drain' = [drain EXCEPT ![c] = picks]
  /\ UNCHANGED <<run, item, readOnly, pressed, sent>>

(* Mutant of Insertable: without the unique index on client_turn_id. *)
InsertableAgain(i) == ~Busy(item[i].session)

(* One transaction for all of them.  Two unique indexes may refuse an INSERT, and
   with it the transaction: one active run per session, one run per message. *)
Insertable(i) == run[i] = "none" /\ ~Busy(item[i].session)

DrainCommit(c) ==
  /\ drain[c] # {}
  /\ \A i \in drain[c] : Insertable(i)
  /\ run' = [r \in Run |-> IF r \in drain[c] THEN "working" ELSE run[r]]
  /\ item' = [i \in Item |-> IF i \in drain[c] THEN [item[i] EXCEPT !.status = "sent"] ELSE item[i]]
  /\ sent' = [i \in Item |-> IF i \in drain[c] THEN sent[i] + 1 ELSE sent[i]]
  /\ drain' = [drain EXCEPT ![c] = {}]
  /\ UNCHANGED <<readOnly, pressed>>

(* Refused, or the process is lost before the commit. *)
DrainAbort(c) ==
  /\ drain[c] # {}
  /\ drain' = [drain EXCEPT ![c] = {}]
  /\ UNCHANGED <<run, item, readOnly, pressed, sent>>

Next ==
  \/ \E t \in Turn : CreateTurn(t)
  \/ \E r \in Run : \/ Stop(r) \/ Retry(r)
                    \/ \E s \in {"working", "stopped", "ended"} : SetRunStatus(r, s)
                    \/ \E i \in Item : QueueMessage(r, i)
  \/ \E i \in Item : RemoveQueueItem(i)
  \/ \E s \in Removable : RemoveMember(s)
  \/ \E c \in Cron : DrainSelect(c) \/ DrainCommit(c) \/ DrainAbort(c)

Spec == Init /\ [][Next]_vars

(* Fairness.  Runs end (RunControl), and a Cron that drains each minute is some
   day not interrupted. *)
Fairness ==
  /\ \A r \in Run : WF_vars(SetRunStatus(r, "ended"))
  /\ \A c \in Cron : SF_vars(DrainSelect(c)) /\ SF_vars(DrainCommit(c)) /\ WF_vars(DrainAbort(c))

FairSpec == Spec /\ Fairness

-----------------------------------------------------------------------------

(* A message becomes at most one run, however many Crons drain at once: "this row
   can only be created once per queued message" (drainRunQueues). *)
SentOnce == \A i \in Item : sent[i] <= 1

(* The messages of a run are sent in the order of their positions: none that is
   still queued is overtaken (queueMessage, drainRunQueues). *)
SentInOrder ==
  \A i, j \in Item :
    item[i].run = item[j].run /\ item[i].position < item[j].position
      /\ item[i].status = "queued" => item[j].status # "sent"

(* A queued message is sent, removed or parked in the end, when no message of a
   removed member's session is queued: an ended run and a free session are enough. *)
Writable(i) == item[i].status = "queued" /\ item[i].session \notin readOnly
Unwritable(i) == item[i].status = "queued" /\ item[i].session \in readOnly
SentUnlessUnwritable ==
  \A i \in Item : Writable(i) ~> ~Writable(i) \/ \E j \in Item : Unwritable(j)

(* The same without the exception: "Drain one queued message per session whose run
   has finished" (drainRunQueues), whatever became of other sessions. *)
EventuallySent == \A i \in Item : Writable(i) ~> ~Writable(i)

(* Only a queued message is sent: a removed one stays removed, and a parked one is
   left alone (removeQueueItem, drainRunQueues). *)
OnlyQueuedIsSent ==
  [][\A i \in Item : item'[i].status = "sent" => item[i].status \in {"queued", "sent"}]_vars
=============================================================================
