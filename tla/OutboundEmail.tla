--------------------------- MODULE OutboundEmail ---------------------------
(***************************************************************************)
(* Approved mail (outbound-email/*, routes/outbound-email.ts), on top of   *)
(* Approvals: the vote that finalizes an approval queues a row for each    *)
(* recipient with a job to send it; the job commits `sending`, calls the   *)
(* provider, and commits the answer; an uncertain send is settled by a     *)
(* person, which may reopen the approval.                                  *)
(*                                                                         *)
(* A send holds its row's lock in each of its transactions, so each is one *)
(* action.  Its job is claimed, reported and retried as in Jobs: a lease   *)
(* may expire under its worker, so that two send the same row, and a       *)
(* worker may be lost anywhere.                                            *)
(* Left out: the agent's own address and simulated replies (other          *)
(* transports of the same steps), the test deployments' allow-list, and    *)
(* what partner engagements record of a send.                              *)
(***************************************************************************)
EXTENDS Approvals

CONSTANTS
  Recipient,
  Worker,
  NoMail,      \* what an idle worker works on
  Blockable,   \* the recipients who may become suppressed
  MaxAttempt,  \* bound: how often one row is tried
  MaxCrash     \* bound: how many workers are lost

Mail == Revision \X Recipient

ASSUME MailAssumption ==
  /\ NoMail \notin Mail
  /\ Blockable \subseteq Recipient
  /\ MaxAttempt \in Nat /\ MaxCrash \in Nat

VARIABLES
  outbox,      \* outbound_email_outbox: one row per revision and recipient
  job,         \* its outbound_email_send job: none, due, leased or done
  worker,      \* the workers of these jobs
  connected,   \* the sender's account has status connected
  suppressed,  \* contact_suppressions
  hook,        \* the approval_continue job of each revision: none, due or done
  delivered,   \* history: how often the provider accepted the mail of a row
  crashes      \* history: for the bound MaxCrash

mailVars == <<outbox, job, worker, connected, suppressed, hook, delivered, crashes>>
outreachVars == <<approvalVars, mailVars>>

NoRow == [state |-> "none", settled |-> "none", attempts |-> 0]
Idle == [at |-> "idle", mail |-> NoMail, answer |-> "none"]
(* What the provider does with a call, and whether it says so: `lost` was accepted,
   `unclear` was not, and both look like a failure that may have been either. *)
Answer == {"accepted", "lost", "unclear", "throttled", "refused"}

OutboundTypeOK ==
  /\ ApprovalsTypeOK
  /\ outbox \in [Mail -> [state : {"none", "pending_connection", "queued", "sending",
                                   "sent", "ambiguous", "cancelled", "failed"},
                          settled : {"none", "sent", "not_sent"},
                          attempts : 0..MaxAttempt]]
  /\ job \in [Mail -> {"none", "due", "leased", "done"}]
  /\ worker \in [Worker -> [at : {"idle", "claimed", "calling", "answered", "returned", "threw"},
                            mail : Mail \cup {NoMail}, answer : Answer \cup {"none"}]]
  /\ connected \in BOOLEAN
  /\ suppressed \subseteq Recipient
  /\ hook \in [Revision -> {"none", "due", "done"}]
  /\ delivered \in [Mail -> Nat]
  /\ crashes \in 0..MaxCrash

OutboundInit ==
  /\ ApprovalsInit
  /\ outbox = [o \in Mail |-> NoRow]
  /\ job = [o \in Mail |-> "none"]
  /\ worker = [w \in Worker |-> Idle]
  /\ connected \in BOOLEAN
  /\ suppressed = {}
  /\ hook = [r \in Revision |-> "none"]
  /\ delivered = [o \in Mail |-> 0]
  /\ crashes = 0

-----------------------------------------------------------------------------
(* The vote that finalizes: finalizeApproval and queueApprovedEmail *)

Earlier(i) == {o \in Mail : o[1] < approval.revision /\ o[2] = i /\ outbox[o].state # "none"}

(* No earlier attempt, or none that may have reached the recipient.  settled_outcome
   is NULL in a row that was cancelled unsettled, so bool_and skips that row: here
   it counts as one that was not sent. *)
MayQueue(i) == \A o \in Earlier(i) : outbox[o].state = "cancelled"

(* Mutant of Continues: a resend continues the agent's run again. *)
ContinuesAgain == TRUE
(* "The agent's run already continued after the first approval." *)
Continues == \A i \in Recipient : Earlier(i) = {}

FinalizeMail(m, read) ==
  LET r == approval.revision
      fresh == {o \in Mail : o[1] = r /\ MayQueue(o[2])}
  IN
  /\ FinalVote(m, read)
  /\ \A o \in fresh : o[2] \notin suppressed     \* it throws, and the vote is not recorded
  /\ outbox' = [o \in Mail |-> IF o \in fresh
       THEN [NoRow EXCEPT !.state = IF connected THEN "queued" ELSE "pending_connection"]
       ELSE outbox[o]]
  /\ job' = [o \in Mail |-> IF o \in fresh /\ connected THEN "due" ELSE job[o]]
  /\ hook' = IF Continues THEN [hook EXCEPT ![r] = "due"] ELSE hook
  /\ UNCHANGED <<worker, connected, suppressed, delivered, crashes>>

(* runApprovalContinue for mail, which has no continuation intent: it completes the
   work of the revision it was enqueued for, and may run again before it is done. *)
ContinueMail(r) ==
  /\ hook[r] = "due"
  /\ hook' \in {hook, [hook EXCEPT ![r] = "done"]}
  /\ approval' = IF approval.status = "approved" /\ approval.revision = r
                 THEN [approval EXCEPT !.work = "completed"] ELSE approval
  /\ UNCHANGED <<revisions, votes, routes, active, lapsed>>
  /\ UNCHANGED <<outbox, job, worker, connected, suppressed, delivered, crashes>>

-----------------------------------------------------------------------------
(* The send job *)

At(w, place) == worker[w].at = place
Go(w, place) == worker' = [worker EXCEPT ![w].at = place]
Move(o, state) == outbox' = [outbox EXCEPT ![o].state = state]
Report(effect) == approval' = [approval EXCEPT !.effect = effect, !.work = "completed"]
ApprovalOnly == UNCHANGED <<revisions, votes, routes, active, lapsed>>
SendOnly == UNCHANGED <<job, suppressed, hook, crashes>>

Claim(w, o) ==
  /\ At(w, "idle")
  /\ job[o] = "due"
  /\ job' = [job EXCEPT ![o] = "leased"]
  /\ worker' = [worker EXCEPT ![w] = [at |-> "claimed", mail |-> o, answer |-> "none"]]
  /\ UNCHANGED approvalVars
  /\ UNCHANGED <<outbox, connected, suppressed, hook, delivered, crashes>>

(* Nothing to do: a final state, or no mailbox yet. *)
PrepareNothing(w) ==
  /\ At(w, "claimed")
  /\ outbox[worker[w].mail].state \notin {"queued", "sending"}
  /\ Go(w, "returned")
  /\ UNCHANGED approvalVars
  /\ SendOnly /\ UNCHANGED <<outbox, connected, delivered>>

(* Mutant of PrepareInterrupted: what was interrupted is tried again. *)
PrepareResend(w) ==
  /\ At(w, "claimed")
  /\ outbox[worker[w].mail].state = "sending"
  /\ Go(w, "calling")
  /\ UNCHANGED approvalVars
  /\ SendOnly /\ UNCHANGED <<outbox, connected, delivered>>
(* Mutant of PrepareInterrupted: it is left as it is. *)
PrepareLeaves(w) ==
  /\ At(w, "claimed")
  /\ outbox[worker[w].mail].state = "sending"
  /\ Go(w, "returned")
  /\ UNCHANGED approvalVars
  /\ SendOnly /\ UNCHANGED <<outbox, connected, delivered>>

(* "an earlier attempt stopped without recording the provider's answer" *)
PrepareInterrupted(w) ==
  /\ At(w, "claimed")
  /\ outbox[worker[w].mail].state = "sending"
  /\ Move(worker[w].mail, "ambiguous")
  /\ Report("failed") /\ ApprovalOnly
  /\ Go(w, "returned")
  /\ SendOnly /\ UNCHANGED <<connected, delivered>>

Authorized(o) == approval.status = "approved" /\ approval.revision = o[1]

PrepareCancelled(w) ==
  LET o == worker[w].mail IN
  /\ At(w, "claimed")
  /\ outbox[o].state = "queued"
  /\ ~Authorized(o) \/ o[2] \in suppressed
  /\ Move(o, "cancelled")
  /\ Go(w, "returned")
  /\ UNCHANGED approvalVars
  /\ SendOnly /\ UNCHANGED <<connected, delivered>>

(* SendingAccountUnavailable: disconnected, or the provider refuses the grant. *)
PrepareUnavailable(w) ==
  LET o == worker[w].mail IN
  /\ At(w, "claimed")
  /\ outbox[o].state = "queued"
  /\ Authorized(o) /\ o[2] \notin suppressed
  /\ connected' = FALSE
  /\ Move(o, "pending_connection")
  /\ Go(w, "returned")
  /\ UNCHANGED approvalVars
  /\ SendOnly /\ UNCHANGED delivered

PrepareSend(w) ==
  LET o == worker[w].mail IN
  /\ At(w, "claimed")
  /\ outbox[o].state = "queued" /\ outbox[o].attempts < MaxAttempt
  /\ Authorized(o) /\ o[2] \notin suppressed
  /\ connected
  /\ outbox' = [outbox EXCEPT ![o].state = "sending", ![o].attempts = @ + 1]
  /\ Go(w, "calling")
  /\ UNCHANGED approvalVars
  /\ SendOnly /\ UNCHANGED <<connected, delivered>>

(* The transaction fails, and with it the job. *)
PrepareThrows(w) ==
  /\ At(w, "claimed")
  /\ Go(w, "threw")
  /\ UNCHANGED approvalVars
  /\ SendOnly /\ UNCHANGED <<outbox, connected, delivered>>

(* The provider's call, outside any transaction. *)
CallProvider(w, answer) ==
  /\ At(w, "calling")
  /\ worker' = [worker EXCEPT ![w].at = "answered", ![w].answer = answer]
  /\ delivered' = IF answer \in {"accepted", "lost"}
                  THEN [delivered EXCEPT ![worker[w].mail] = @ + 1] ELSE delivered
  /\ UNCHANGED approvalVars
  /\ SendOnly /\ UNCHANGED <<outbox, connected>>

RecordSent(w) ==
  LET o == worker[w].mail IN
  /\ At(w, "answered") /\ worker[w].answer = "accepted"
  /\ IF outbox[o].state = "sending"
     THEN Move(o, "sent") /\ Report("executed") /\ ApprovalOnly
     ELSE UNCHANGED <<outbox, approvalVars>>
  /\ Go(w, "returned")
  /\ SendOnly /\ UNCHANGED <<connected, delivered>>

(* Mutant of AfterFailure: what the provider said becomes the state. *)
AfterFailureRaw(answer) == answer
AfterFailure(answer) ==
  CASE answer = "throttled" -> "queued" [] answer = "refused" -> "failed" [] OTHER -> "ambiguous"

(* A failed send moves its row only out of sending, but reports to the approval in
   any case. *)
RecordFailure(w) ==
  LET o == worker[w].mail
      answer == worker[w].answer
  IN
  /\ At(w, "answered") /\ answer # "accepted"
  /\ outbox' = IF outbox[o].state = "sending"
               THEN [outbox EXCEPT ![o].state = AfterFailure(answer)] ELSE outbox
  /\ IF answer = "throttled" THEN UNCHANGED approvalVars ELSE Report("failed") /\ ApprovalOnly
  /\ Go(w, IF answer = "throttled" THEN "threw" ELSE "returned")
  /\ SendOnly /\ UNCHANGED <<connected, delivered>>

(* finishJob and failJob, by the job's id. *)
Finish(w) ==
  /\ At(w, "returned")
  /\ job' = [job EXCEPT ![worker[w].mail] = "done"]
  /\ worker' = [worker EXCEPT ![w] = Idle]
  /\ UNCHANGED approvalVars
  /\ UNCHANGED <<outbox, connected, suppressed, hook, delivered, crashes>>

Fail(w) ==
  /\ At(w, "threw")
  /\ job' = [job EXCEPT ![worker[w].mail] = IF @ = "leased" THEN "due" ELSE @]
  /\ worker' = [worker EXCEPT ![w] = Idle]
  /\ UNCHANGED approvalVars
  /\ UNCHANGED <<outbox, connected, suppressed, hook, delivered, crashes>>

Crash(w) ==
  /\ ~At(w, "idle") /\ crashes < MaxCrash
  /\ worker' = [worker EXCEPT ![w] = Idle]
  /\ crashes' = crashes + 1
  /\ UNCHANGED approvalVars
  /\ UNCHANGED <<outbox, job, connected, suppressed, hook, delivered>>

(* CLAIM_SECONDS have passed, whether or not the worker still works. *)
Expire(o) ==
  /\ job[o] = "leased"
  /\ job' = [job EXCEPT ![o] = "due"]
  /\ UNCHANGED approvalVars
  /\ UNCHANGED <<outbox, worker, connected, suppressed, hook, delivered, crashes>>

-----------------------------------------------------------------------------
(* What people do *)

(* completeSendingOAuth: the rows that wait for this address are queued, each with
   its job, new or revived; of a job still at work nothing is changed. *)
Waiting == {o \in Mail : \/ outbox[o].state = "pending_connection"
                         \/ outbox[o].state = "queued" /\ outbox[o].attempts = 0 /\ job[o] = "done"}

Connect ==
  /\ connected' = TRUE
  /\ outbox' = [o \in Mail |-> IF o \in Waiting THEN [outbox[o] EXCEPT !.state = "queued"] ELSE outbox[o]]
  /\ job' = [o \in Mail |-> IF o \in Waiting /\ job[o] \in {"none", "done"} THEN "due" ELSE job[o]]
  /\ connected' # connected \/ Waiting # {}
  /\ UNCHANGED approvalVars
  /\ UNCHANGED <<worker, suppressed, hook, delivered, crashes>>

(* disconnectOutboundEmail: what was only queued waits for a mailbox again. *)
Disconnect ==
  /\ connected
  /\ connected' = FALSE
  /\ outbox' = [o \in Mail |-> IF outbox[o].state = "queued"
                               THEN [outbox[o] EXCEPT !.state = "pending_connection"] ELSE outbox[o]]
  /\ UNCHANGED approvalVars
  /\ UNCHANGED <<job, worker, suppressed, hook, delivered, crashes>>

Suppress(i) ==
  /\ i \in Blockable \ suppressed
  /\ suppressed' = suppressed \cup {i}
  /\ UNCHANGED approvalVars
  /\ UNCHANGED <<outbox, job, worker, connected, hook, delivered, crashes>>

(* maySettleUncertainSend: an Admin, or a reviewer under some step of the policy. *)
MaySettle(m) == m \in active /\ (m \in Admin \/ \E s \in Step : m \in Eligible(s))

(* settleEmailSend: the mailbox shows the mail. *)
SettleSent(m, o) ==
  LET row == [outbox EXCEPT ![o].state = "sent", ![o].settled = "sent"]
      open == {p \in Mail : p[1] = approval.revision /\ row[p].state \notin {"none", "sent"}}
  IN
  /\ MaySettle(m)
  /\ outbox[o].state = "ambiguous"
  /\ outbox' = row
  /\ IF open = {} THEN Report("executed") /\ ApprovalOnly ELSE UNCHANGED approvalVars
  /\ UNCHANGED <<job, worker, connected, suppressed, hook, delivered, crashes>>

(* settleEmailSend and reopenApprovalForResend: the mailbox does not show it, so the
   approval is decided again.  Neither happens when it cannot be reopened. *)
SettleNotSent(m, o) ==
  /\ MaySettle(m)
  /\ outbox[o].state = "ambiguous"
  /\ outbox' = [outbox EXCEPT ![o].state = "cancelled", ![o].settled = "not_sent"]
  /\ \/ approval.status = "pending" /\ UNCHANGED approvalVars
     \/ approval.status = "approved" /\ WriteRevision
  /\ UNCHANGED <<job, worker, connected, suppressed, hook, delivered, crashes>>

-----------------------------------------------------------------------------

(* What a worker that is not lost goes on to do, whatever its transaction finds. *)
Proceed(w) ==
  \/ PrepareNothing(w) \/ PrepareThrows(w)
  \/ \E answer \in Answer : CallProvider(w, answer)
  \/ RecordSent(w) \/ RecordFailure(w)
  \/ Finish(w) \/ Fail(w)

Send(w) ==
  \/ \E o \in Mail : Claim(w, o)
  \/ PrepareInterrupted(w) \/ PrepareCancelled(w)
  \/ PrepareUnavailable(w) \/ PrepareSend(w)
  \/ Proceed(w) \/ Crash(w)

OutboundNext ==
  \/ ApprovalsQuiet /\ UNCHANGED mailVars
  \/ \E m \in Member, read \in Revision : FinalizeMail(m, read)
  \/ \E r \in Revision : ContinueMail(r)
  \/ \E w \in Worker : Send(w)
  \/ \E o \in Mail : Expire(o)
  \/ Connect \/ Disconnect
  \/ \E i \in Recipient : Suppress(i)
  \/ \E m \in Member, o \in Mail : SettleSent(m, o) \/ SettleNotSent(m, o)

OutboundSpec == OutboundInit /\ [][OutboundNext]_outreachVars

(* Fairness.  The minute Cron claims what is due, a lease expires, a worker that is
   not lost takes its next step, and not every transaction of it throws. *)
SendFairness ==
  /\ \A o \in Mail : WF_outreachVars(Expire(o)) /\ SF_outreachVars(\E w \in Worker : Claim(w, o))
  /\ \A w \in Worker : WF_outreachVars(Proceed(w)) /\ SF_outreachVars(PrepareInterrupted(w))

OutboundFairSpec == OutboundSpec /\ SendFairness

-----------------------------------------------------------------------------
(* Properties *)

(* The provider accepts mail for a recipient once, and once more for each send that
   a person has found not to have happened: no crash, expired lease, lost answer,
   throttled call, revision or resend sends it again (runOutboundEmailSendJob:
   "Uncertain provider outcomes never retry"; queueApprovedEmail). *)
NotSentTwice ==
  /\ \A o \in Mail : delivered[o] <= 1
  /\ \A o, p \in Mail :
       o[2] = p[2] /\ o[1] < p[1] /\ delivered[o] > 0 /\ delivered[p] > 0
         => outbox[o].settled = "not_sent"

(* Across all revisions an approval continues its agent's work at most once
   (finalizeApproval). *)
ContinuesOnce == \A q, r \in Revision : hook[q] # "none" /\ hook[r] # "none" => q = r

(* No row stays `sending`: whoever was lost, its outcome becomes known, or uncertain
   for a person to settle, as long as no worker outlives its lease into another's
   (runOutboundEmailSendJob: "an earlier attempt stopped without recording the
   provider's answer"). *)
Sending(o) == outbox[o].state = "sending"
OneWorkerEach ==
  \A v, w \in Worker : v # w /\ worker[v].mail = worker[w].mail => worker[v] = Idle
SendingResolves == []OneWorkerEach => \A o \in Mail : Sending(o) ~> ~Sending(o)

(* Every recipient of an approved mail was reached, may have been, or has a row of
   the approved revision: "the pending revision covers every unsent recipient"
   (reopenApprovalForResend). *)
CoversUnsent ==
  approval.status = "approved" =>
    \A i \in Recipient : \E r \in Revision :
      \/ r = approval.revision /\ outbox[<<r, i>>].state # "none"
      \/ outbox[<<r, i>>].state \in {"sending", "sent", "ambiguous", "failed"}

(* "connecting this address again sends it": a queued row that is authorized has a
   job that is not over (completeSendingOAuth). *)
QueuedHasJob == \A o \in Mail : outbox[o].state = "queued" => job[o] \in {"due", "leased"}
=============================================================================
