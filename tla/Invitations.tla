---------------------------- MODULE Invitations ----------------------------
(***************************************************************************)
(* The invitations of one address and the pooled capacity held for them    *)
(* (routes/members.ts and invitations.ts, member-provisioning/service.ts,  *)
(* hermes-cloud/capacity.ts, and the workos_sync job of jobs.ts).          *)
(*                                                                         *)
(* An invitation reserves a seat: at once, or, `backed` by a setup, in a   *)
(* job of its own that delivers it once the seat is there (which of them   *)
(* is a release flag: a choice).  Transactions lock the invitation and are *)
(* one action each.  A send has three: it commits `sending`, calls WorkOS  *)
(* and commits the answer; its lease may expire under it, it may be lost,  *)
(* and it may find that WorkOS is not configured.  A seat whose grant has  *)
(* drifted from what was reviewed fails its transaction, and a later one   *)
(* quarantines it.                                                         *)
(* Left out: roles and job roles, the WorkOS organization (it is there),   *)
(* revoking at WorkOS, development without WorkOS, members who leave, and  *)
(* the Cloud connection (it is a choice).  An operation's revision only    *)
(* makes the jobs of the revision before do nothing: `due` is of the       *)
(* current one.                                                            *)
(***************************************************************************)
EXTENDS Integers, FiniteSets

CONSTANTS
  Seat,
  Sender,        \* the workers of the send jobs
  MaxInvitation  \* bound

Invitation == 1..MaxInvitation
NoInvitation == 0

ASSUME InvitationAssumption == MaxInvitation \in Nat \ {0}

VARIABLES
  invitation,  \* each row
  late,        \* the rows whose expires_at is past
  operation,   \* member_provisioning_operations, by the invitation it is of
  seat,        \* hermes_cloud_capacity
  current,     \* the seats whose grant is as it was reviewed
  reported,    \* the seats that failed a transaction, to be quarantined
  proof,       \* the readiness proof of someone about to join
  sendDue,     \* the send jobs that are not over
  sender,      \* what each worker is doing
  mailed,      \* history: how often WorkOS accepted a row
  misled,      \* history: how often a row WorkOS may have was taken for one it has not
  strayed      \* history: the rows that reserved a seat as they expired

inviteVars == <<invitation, late, operation, seat, current, reported, proof,
                sendDue, sender, mailed, misled, strayed>>

NoRowYet == [status |-> "none", delivery |-> "not_required", workos |-> FALSE]
NoOperation == [preparation |-> "none", cancellation |-> "none", due |-> FALSE]
FreeSeat == [state |-> "available", holder |-> NoInvitation]
NoProof == <<>>
Resting == [at |-> "idle", of |-> NoInvitation]

(* Of delivery, `failed` may be tried again and `stuck` has a terminal reason. *)
InviteTypeOK ==
  /\ invitation \in [Invitation ->
       [status : {"none", "pending", "accepted", "withdrawn", "expired", "resent"},
        delivery : {"not_required", "queued", "sending", "delivered", "failed", "stuck"},
        workos : BOOLEAN]]
  /\ late \subseteq Invitation
  /\ operation \in [Invitation ->
       [preparation : {"none", "awaiting_connection", "queued", "ready", "failed"},
        cancellation : {"none", "requested", "complete"}, due : BOOLEAN]]
  /\ seat \in [Seat -> [state : {"available", "reserved", "assigned", "quarantined"},
                        holder : Invitation \cup {NoInvitation}]]
  /\ current \subseteq Seat /\ reported \subseteq Seat
  /\ proof \in {NoProof} \cup (Invitation \X Seat)
  /\ sendDue \subseteq Invitation
  /\ sender \in [Sender -> [at : {"idle", "calling", "accepted", "unavailable", "refused", "failing"},
                            of : Invitation \cup {NoInvitation}]]
  /\ mailed \in [Invitation -> Nat] /\ misled \in [Invitation -> Nat]
  /\ strayed \subseteq Invitation

InviteInit ==
  /\ invitation = [i \in Invitation |-> NoRowYet]
  /\ operation = [i \in Invitation |-> NoOperation]
  /\ seat = [c \in Seat |-> FreeSeat]
  /\ current = Seat
  /\ late = {} /\ reported = {} /\ sendDue = {} /\ strayed = {}
  /\ proof = NoProof
  /\ sender = [w \in Sender |-> Resting]
  /\ mailed = [i \in Invitation |-> 0] /\ misled = [i \in Invitation |-> 0]

-----------------------------------------------------------------------------
(* Reservations *)

Backed(i) == operation[i].preparation # "none"
Pending(i) == invitation[i].status = "pending"

HeldBy(seats, i) == {c \in Seat : seats[c] = [state |-> "reserved", holder |-> i]}
Available(seats) == {c \in Seat : seats[c].state = "available"}
(* releaseInvitationCapacity *)
Released(seats, rows) ==
  [c \in Seat |-> IF \E i \in rows : c \in HeldBy(seats, i) THEN FreeSeat ELSE seats[c]]

(* expireInvitationReservations, with which most transactions begin: a setup that is
   not over keeps its row until WorkOS has it. *)
Expiring ==
  {i \in late : Pending(i) /\ (Backed(i) /\ ~invitation[i].workos => operation[i].cancellation = "complete")}
Swept ==
  [rows |-> [i \in Invitation |-> IF i \in Expiring
      THEN [invitation[i] EXCEPT !.status = "expired", !.delivery =
              IF @ \in {"delivered", "stuck"} THEN @ ELSE "failed"]
      ELSE invitation[i]],
   operations |-> [i \in Invitation |-> IF i \in Expiring /\ Backed(i)
      THEN [operation[i] EXCEPT !.cancellation = "complete", !.due = FALSE] ELSE operation[i]],
   seats |-> Released(seat, Expiring)]

(* reserveCapacityForInvitation from these seats: the one the row has, or one of those
   available, as long as none of them all has drifted. *)
Considered(seats, i) == HeldBy(seats, i) \cup Available(seats)
Reserves(seats, i) ==
  /\ Considered(seats, i) \subseteq current
  /\ IF HeldBy(seats, i) # {} THEN seat' = seats
     ELSE \E c \in Available(seats) :
            seat' = [seats EXCEPT ![c] = [state |-> "reserved", holder |-> i]]
  /\ strayed' = strayed \cup ({i} \cap Expiring)

(* linkedGrantIsCurrent throws, and its transaction does nothing. *)
Drifts(seats) ==
  \E c \in seats \ current :
    /\ reported' = reported \cup {c}
    /\ UNCHANGED <<invitation, late, operation, seat, current, proof, sendDue, sender, mailed, misled, strayed>>

-----------------------------------------------------------------------------
(* Invite, resend, withdraw *)

NextRow(i) == \A j \in Invitation : invitation[j].status = "none" <=> j >= i
Unsent == [status |-> "pending", delivery |-> "not_required", workos |-> FALSE]
Queued == [Unsent EXCEPT !.delivery = "queued"]

(* inviteInTransaction, of an address that has no live invitation and is no member. *)
InviteSetup(i) ==
  /\ NextRow(i)
  /\ \A j \in Invitation : invitation[j].status \notin {"pending", "accepted"}
  /\ invitation' = [invitation EXCEPT ![i] = Unsent]
  /\ \E p \in {"queued", "awaiting_connection"} :
       operation' = [operation EXCEPT ![i] = [preparation |-> p, cancellation |-> "none", due |-> TRUE]]
  /\ UNCHANGED <<late, seat, current, reported, proof, sendDue, sender, mailed, misled, strayed>>

InviteNow(i) ==
  /\ NextRow(i)
  /\ \A j \in Invitation : invitation[j].status \notin {"pending", "accepted"}
  /\ \/ /\ Reserves(seat, i)
        /\ invitation' = [invitation EXCEPT ![i] = Queued]
        /\ sendDue' = sendDue \cup {i}
        /\ UNCHANGED <<late, operation, current, reported, proof, sender, mailed, misled>>
     \/ Drifts(Considered(seat, i))

(* A second request finds the row, and makes sure of its seat. *)
InviteAgain(i) ==
  /\ Pending(i) /\ ~Backed(i)
  /\ \/ /\ Reserves(Swept.seats, i)
        /\ invitation' = Swept.rows /\ operation' = Swept.operations
        /\ UNCHANGED <<late, current, reported, proof, sendDue, sender, mailed, misled>>
     \/ Drifts(Considered(Swept.seats, i))

(* Only one row of an address may be pending: another makes the insert fail. *)
Resendable(i, next) ==
  /\ invitation[i].status \in {"pending", "expired"} /\ NextRow(next)
  /\ \A j \in Invitation \ {i} : Swept.rows[j].status # "pending"
Superseded(i, next, as) == [Swept.rows EXCEPT ![i].status = "resent", ![next] = as]
(* transferInvitationCapacity *)
Transferred(i, next) ==
  [c \in Seat |-> IF c \in HeldBy(Swept.seats, i)
                  THEN [state |-> "reserved", holder |-> next] ELSE Swept.seats[c]]

(* resendInTransaction *)
ResendNow(i, next) ==
  /\ Resendable(i, next) /\ ~Backed(i)
  /\ \/ /\ HeldBy(Swept.seats, i) \subseteq current
        /\ IF HeldBy(Swept.seats, i) # {}
           THEN seat' = Transferred(i, next) /\ UNCHANGED strayed
           ELSE Reserves(Swept.seats, next)
        /\ invitation' = Superseded(i, next, Queued)
        /\ operation' = Swept.operations
        /\ sendDue' = sendDue \cup {next}
        /\ UNCHANGED <<late, current, reported, proof, sender, mailed, misled>>
     \/ Drifts(HeldBy(Swept.seats, i))
     \/ HeldBy(Swept.seats, i) = {} /\ Drifts(Considered(Swept.seats, next))

(* rebindMemberProvisioningOperation: the operation follows the new row. *)
ResendSetup(i, next) ==
  LET op == Swept.operations[i]
      holds == HeldBy(Swept.seats, i) # {}
  IN
  /\ Resendable(i, next) /\ Backed(i)
  /\ op.cancellation = "none"
  /\ \/ /\ HeldBy(Swept.seats, i) \subseteq current
        /\ seat' = Transferred(i, next)
        /\ invitation' = Superseded(i, next, Unsent)
        /\ operation' = [Swept.operations EXCEPT ![i] = NoOperation,
             ![next] = [op EXCEPT !.preparation = IF @ = "ready" /\ ~holds THEN "queued" ELSE @,
                                  !.due = TRUE]]
        /\ UNCHANGED <<late, current, reported, proof, sendDue, sender, mailed, misled, strayed>>
     \/ Drifts(HeldBy(Swept.seats, i))

(* Mutant of Freed: the job of the cancellation is left to release the seat. *)
FreedLater(i) == seat
Freed(i) == Released(seat, {i})

(* withdrawInvitation, of any row that was not accepted. *)
Withdraw(i) ==
  /\ invitation[i].status \notin {"none", "accepted"}
  /\ invitation' = [invitation EXCEPT ![i].status = "withdrawn"]
  /\ operation' = IF Backed(i) /\ operation[i].cancellation = "none"
                  THEN [operation EXCEPT ![i].cancellation = "requested", ![i].due = TRUE]
                  ELSE operation
  /\ seat' = Freed(i)
  /\ UNCHANGED <<late, current, reported, proof, sendDue, sender, mailed, misled, strayed>>

(* The expiry job, or an Admin who lists the invitations. *)
ExpireInvitations ==
  /\ Expiring # {}
  /\ invitation' = Swept.rows /\ operation' = Swept.operations /\ seat' = Swept.seats
  /\ UNCHANGED <<late, current, reported, proof, sendDue, sender, mailed, misled, strayed>>

ComesLate(i) ==
  /\ Pending(i)
  /\ late' = late \cup {i}
  /\ UNCHANGED <<invitation, operation, seat, current, reported, proof, sendDue, sender, mailed, misled, strayed>>

-----------------------------------------------------------------------------
(* runMemberProvisioningStep, by a job of the operation's current revision *)

Ended(i) == \/ operation[i].cancellation = "requested"
            \/ invitation[i].status \in {"withdrawn", "expired", "resent"}
Ready(i) == operation[i].preparation = "ready"
Bump(i, p, c) == [operation EXCEPT ![i] = [preparation |-> p, cancellation |-> c, due |-> FALSE]]

StepCancels(i) ==
  /\ operation[i].due /\ Ended(i)
  /\ seat' = Released(seat, {i})
  /\ operation' = Bump(i, operation[i].preparation, "complete")
  /\ UNCHANGED <<invitation, late, current, reported, proof, sendDue, sender, mailed, misled, strayed>>

Proceeds(i) == operation[i].due /\ Pending(i) /\ operation[i].cancellation # "requested"

(* The Admin who asked for it is one no more. *)
StepRevoked(i) ==
  /\ Proceeds(i)
  /\ seat' = Released(seat, {i})
  /\ operation' = Bump(i, "failed", operation[i].cancellation)
  /\ UNCHANGED <<invitation, late, current, reported, proof, sendDue, sender, mailed, misled, strayed>>

(* queueSetupInvitationDelivery: the seven days begin. *)
Delivers(rows, i) ==
  IF rows[i].status = "pending" /\ rows[i].delivery = "not_required"
  THEN /\ invitation' = [rows EXCEPT ![i].delivery = "queued"]
       /\ sendDue' = sendDue \cup {i} /\ late' = late \ {i}
  ELSE invitation' = rows /\ UNCHANGED <<sendDue, late>>

StepDelivers(i) ==
  /\ Proceeds(i) /\ Ready(i) /\ HeldBy(seat, i) # {}
  /\ \/ /\ HeldBy(seat, i) \subseteq current
        /\ Delivers(invitation, i)
        /\ \E again \in BOOLEAN : operation' = [operation EXCEPT ![i].due = again]
        /\ UNCHANGED <<seat, current, reported, proof, sender, mailed, misled, strayed>>
     \/ Drifts(HeldBy(seat, i))

StepReserves(i) ==
  LET op == Swept.operations[i] IN
  /\ Proceeds(i) /\ ~(Ready(i) /\ HeldBy(seat, i) # {})
  /\ \/ /\ Reserves(Swept.seats, i)
        /\ Delivers(Swept.rows, i)
        /\ operation' = IF i \in Expiring THEN Swept.operations     \* its revision has moved on
                        ELSE [Swept.operations EXCEPT ![i] = [op EXCEPT !.preparation = "ready", !.due = FALSE]]
        /\ UNCHANGED <<current, reported, proof, sender, mailed, misled>>
     \/ /\ Considered(Swept.seats, i) = {}
        /\ invitation' = Swept.rows /\ seat' = Swept.seats
        /\ \E p \in {"awaiting_connection", "failed"} :
             operation' = IF i \in Expiring THEN Swept.operations
                          ELSE [Swept.operations EXCEPT ![i] = [op EXCEPT !.preparation = p, !.due = FALSE]]
        /\ UNCHANGED <<late, current, reported, proof, sendDue, sender, mailed, misled, strayed>>
     \/ Drifts(Considered(Swept.seats, i))

(* wakeMemberProvisioningForCloudConnection *)
Wake(i) ==
  /\ operation[i].preparation = "awaiting_connection" /\ operation[i].cancellation = "none"
  /\ operation' = [operation EXCEPT ![i].preparation = "queued", ![i].due = TRUE]
  /\ UNCHANGED <<invitation, late, seat, current, reported, proof, sendDue, sender, mailed, misled, strayed>>

-----------------------------------------------------------------------------
(* runWorkosSync, send_invitation and resend_invitation *)

Does(w, place) == sender[w].at = place
Goes(w, place, i) == sender' = [sender EXCEPT ![w] = [at |-> place, of |-> i]]
Rests(w) == sender' = [sender EXCEPT ![w] = Resting]
(* The job is over, or lost before it was, to be run again. *)
JobMayBeOver(i) == sendDue' \in {sendDue, sendDue \ {i}}

(* capacityRoleForInvitation and hasCurrentReservedCapacityForInvitation: a seat that
   has drifted makes the transaction fail. *)
Contract(i) == Backed(i) => Ready(i) /\ operation[i].cancellation = "none"
Promised(i) == Contract(i) /\ HeldBy(Swept.seats, i) # {}

(* Mutant of MaySend: what was interrupted is sent again. *)
MaySendAgain(row) == row.delivery # "stuck"
MaySend(row) == row.delivery \notin {"sending", "stuck"}

Begin(w, i) == Does(w, "idle") /\ i \in sendDue
Deliverable(i) == Swept.rows[i].status = "pending" /\ ~Swept.rows[i].workos

SendNothing(w, i) ==
  /\ Begin(w, i) /\ ~Deliverable(i)
  /\ invitation' = IF Swept.rows[i].status = "pending"
                   THEN [Swept.rows EXCEPT ![i].delivery = "delivered"] ELSE Swept.rows
  /\ operation' = Swept.operations /\ seat' = Swept.seats
  /\ JobMayBeOver(i)
  /\ UNCHANGED <<late, current, reported, proof, sender, mailed, misled, strayed>>

SendRefused(w, i) ==
  /\ Begin(w, i) /\ Deliverable(i)
  /\ ~MaySend(Swept.rows[i]) \/ ~Promised(i)
  /\ invitation' = Swept.rows /\ operation' = Swept.operations /\ seat' = Swept.seats
  /\ Goes(w, "failing", i)
  /\ UNCHANGED <<late, current, reported, proof, sendDue, mailed, misled, strayed>>

(* WorkOS accepted the row, or may: a worker is at the call, or has yet to record that
   WorkOS was unavailable. *)
Asking(i) == {w \in Sender : sender[w].of = i /\ sender[w].at \in {"calling", "unavailable"}}
MayHaveIt(i) == mailed[i] > 0 \/ Asking(i) # {}

(* A claim that finds WorkOS not configured gives up the row, one that is being sent
   included, and leaves the job to be tried again. *)
SendUnconfigured(w, i) ==
  /\ Begin(w, i)
  /\ Pending(i) /\ invitation[i].delivery \in {"queued", "sending", "not_required"}
  /\ invitation' = [invitation EXCEPT ![i].delivery = "failed"]
  /\ misled' = IF invitation[i].delivery = "sending" /\ MayHaveIt(i)
               THEN [misled EXCEPT ![i] = @ + 1] ELSE misled
  /\ UNCHANGED <<late, operation, seat, current, reported, proof, sendDue, sender, mailed, strayed>>

SendBegins(w, i) ==
  /\ Begin(w, i) /\ Deliverable(i)
  /\ MaySend(Swept.rows[i]) /\ Promised(i) /\ HeldBy(Swept.seats, i) \subseteq current
  /\ invitation' = [Swept.rows EXCEPT ![i].delivery = "sending"]
  /\ operation' = Swept.operations /\ seat' = Swept.seats
  /\ Goes(w, "calling", i)
  /\ UNCHANGED <<late, current, reported, proof, sendDue, mailed, misled, strayed>>

(* WorkOS accepts the email and says so; or it is unavailable (429, 5xx) or refuses
   (another 4xx, or no answer), and may have accepted it nonetheless. *)
CallWorkos(w, answer, taken) ==
  LET i == sender[w].of IN
  /\ Does(w, "calling")
  /\ answer = "accepted" => taken = 1
  /\ Goes(w, answer, i)
  /\ mailed' = [mailed EXCEPT ![i] = @ + taken]
  /\ misled' = IF answer = "unavailable" THEN [misled EXCEPT ![i] = @ + taken] ELSE misled
  /\ UNCHANGED <<invitation, late, operation, seat, current, reported, proof, sendDue, strayed>>

(* Whatever is recorded is recorded of a row that is still pending. *)
Recorded(i, delivery, workos) ==
  invitation' = IF Pending(i) THEN [invitation EXCEPT ![i].delivery = delivery, ![i].workos = @ \/ workos]
                ELSE invitation

RecordDelivered(w) ==
  LET i == sender[w].of IN
  /\ Does(w, "accepted")
  /\ Recorded(i, "delivered", TRUE)
  /\ late' = IF Pending(i) THEN late \ {i} ELSE late
  /\ Rests(w) /\ JobMayBeOver(i)
  /\ UNCHANGED <<operation, seat, current, reported, proof, mailed, misled, strayed>>

(* workos_invitation_local_commit_failed, recorded or not. *)
RecordCommitFails(w) ==
  LET i == sender[w].of IN
  /\ Does(w, "accepted")
  /\ Recorded(i, "stuck", TRUE) \/ UNCHANGED invitation
  /\ Rests(w) /\ JobMayBeOver(i)
  /\ UNCHANGED <<late, operation, seat, current, reported, proof, mailed, misled, strayed>>

RecordFailed(w) ==
  LET i == sender[w].of IN
  /\ sender[w].at \in {"unavailable", "refused", "failing"}
  /\ Recorded(i, IF Does(w, "unavailable") THEN "failed" ELSE "stuck", FALSE)
  /\ Rests(w)
  /\ IF Does(w, "unavailable") THEN UNCHANGED sendDue ELSE JobMayBeOver(i)
  /\ UNCHANGED <<late, operation, seat, current, reported, proof, mailed, misled, strayed>>

SenderLost(w) ==
  /\ ~Does(w, "idle")
  /\ Rests(w)
  /\ UNCHANGED <<invitation, late, operation, seat, current, reported, proof, sendDue, mailed, misled, strayed>>

-----------------------------------------------------------------------------
(* Joining, and capacity that drifts *)

(* verifyReservedCapacityForInvitation probes the runtime; thirty seconds later the
   proof is worth nothing. *)
Prove(i, c) ==
  /\ Pending(i) /\ Contract(i) /\ c \in HeldBy(seat, i)
  /\ \/ /\ c \in current
        /\ proof' = <<i, c>>
        /\ UNCHANGED <<invitation, late, operation, seat, current, reported, sendDue, sender, mailed, misled, strayed>>
     \/ Drifts({c})

ProofTooOld ==
  /\ proof # NoProof
  /\ proof' = NoProof
  /\ UNCHANGED <<invitation, late, operation, seat, current, reported, sendDue, sender, mailed, misled, strayed>>

(* By the link, a sign-in or the poller: mirrorMembership, then consumeReservedCapacity. *)
Join(i, c) ==
  /\ Pending(i) /\ Contract(i) /\ c \in HeldBy(seat, i) /\ proof = <<i, c>>
  /\ \/ /\ c \in current
        /\ invitation' = [invitation EXCEPT ![i].status = "accepted"]
        /\ seat' = [seat EXCEPT ![c].state = "assigned"]
        /\ proof' = NoProof
        /\ UNCHANGED <<late, operation, current, reported, sendDue, sender, mailed, misled, strayed>>
     \/ Drifts({c})

(* What was reviewed changes, and may be changed back; a revoked grant stays so. *)
GrantChanges(c) ==
  /\ seat[c].state # "quarantined"
  /\ current' = IF c \in current THEN current \ {c} ELSE current \cup {c}
  /\ UNCHANGED <<invitation, late, operation, seat, reported, proof, sendDue, sender, mailed, misled, strayed>>

(* persistCapacityGrantDrift, in a transaction after the one that failed. *)
Quarantinable(c) == seat[c].state \in {"available", "reserved"}
QuarantineSeat(c) ==
  /\ c \in reported
  /\ reported' = reported \ {c}
  /\ IF Quarantinable(c)
     THEN /\ seat' = [seat EXCEPT ![c] = [state |-> "quarantined", holder |-> NoInvitation]]
          /\ current' = current \ {c}
     ELSE UNCHANGED <<seat, current>>
  /\ UNCHANGED <<invitation, late, operation, proof, sendDue, sender, mailed, misled, strayed>>

ReportLost(c) ==
  /\ c \in reported
  /\ reported' = reported \ {c}
  /\ UNCHANGED <<invitation, late, operation, seat, current, proof, sendDue, sender, mailed, misled, strayed>>

-----------------------------------------------------------------------------

InviteRequest(i) ==
  \/ InviteSetup(i) \/ InviteNow(i) \/ InviteAgain(i) \/ Withdraw(i) \/ ComesLate(i)
  \/ \E next \in Invitation : ResendNow(i, next) \/ ResendSetup(i, next)

SetupStep(i) == StepCancels(i) \/ StepRevoked(i) \/ StepDelivers(i) \/ StepReserves(i) \/ Wake(i)

SendStep(w) ==
  \/ \E i \in Invitation : SendNothing(w, i) \/ SendRefused(w, i) \/ SendBegins(w, i) \/ SendUnconfigured(w, i)
  \/ \E answer \in {"accepted", "unavailable", "refused"}, taken \in {0, 1} : CallWorkos(w, answer, taken)
  \/ RecordDelivered(w) \/ RecordCommitFails(w) \/ RecordFailed(w) \/ SenderLost(w)

SeatStep(c) ==
  \/ \E i \in Invitation : Prove(i, c) \/ Join(i, c)
  \/ GrantChanges(c) \/ QuarantineSeat(c) \/ ReportLost(c)

InviteNext ==
  \/ \E i \in Invitation : InviteRequest(i) \/ SetupStep(i)
  \/ \E w \in Sender : SendStep(w)
  \/ \E c \in Seat : SeatStep(c)
  \/ ExpireInvitations \/ ProofTooOld

InviteSpec == InviteInit /\ [][InviteNext]_inviteVars

-----------------------------------------------------------------------------
(* Properties *)

(* WorkOS accepts the email of an invitation once, and once more only where the code
   was misled: by an answer of 5xx to what WorkOS accepted, or by a claim that found
   WorkOS not configured and gave up a row that was being sent.  A worker that is lost
   or outlives its lease, an unknown outcome, a failed commit, and whatever happens to
   the row meanwhile send no second one: "Replaying this job could send a second email"
   (runWorkosSync). *)
InvitedOnceUnlessMisled == \A i \in Invitation : mailed[i] <= 1 + misled[i]

(* The same without the exceptions, which is not so. *)
InvitedOnce == \A i \in Invitation : mailed[i] <= 1

(* A seat is held for one invitation that can still be accepted, and the seat of
   somebody who joined stays theirs, through withdrawals, resends, expiry, setups that
   run late and quarantines that come late (capacity.ts).  A row that expires in the
   very transaction that goes on to reserve for it is `strayed`. *)
CapacityIsHeld ==
  /\ \A c \in Seat : /\ seat[c].state = "reserved" /\ seat[c].holder \notin strayed => Pending(seat[c].holder)
                     /\ seat[c].state = "assigned" => invitation[seat[c].holder].status = "accepted"
  /\ \A i \in Invitation : invitation[i].status = "accepted" =>
       Cardinality({c \in Seat : seat[c] = [state |-> "assigned", holder |-> i]}) = 1
  /\ \A c, d \in Seat : c # d /\ seat[c].holder = seat[d].holder => seat[c].holder = NoInvitation
=============================================================================
