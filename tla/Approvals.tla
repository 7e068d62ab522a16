----------------------------- MODULE Approvals -----------------------------
(***************************************************************************)
(* The decision of one approval request (domain/approvals.ts): revisions,  *)
(* votes under a policy of steps with quorums, routing to one reviewer,    *)
(* expiry, and the revision that a person, or a send that did not happen,  *)
(* makes of it.                                                            *)
(*                                                                         *)
(* Every command locks the row, so it is one action.  A command names the  *)
(* revision its sender read, which may be an old one.  What finalizing     *)
(* starts (mail, a continuing run) is in the modules that extend this one. *)
(* Left out: the typed content and its checks, hashes (they change with    *)
(* the revision), receipts, audit, and the replay of a command by its      *)
(* idempotency key, which returns without a change.                        *)
(***************************************************************************)
EXTENDS Integers, FiniteSets

CONSTANTS
  Member,
  NoMember,           \* a step nobody is routed to
  Requester,          \* the member whose agent proposed it, or NoMember
  Admin,
  Owner,              \* the members the policy must make unavoidable
  Quorum,             \* of each step, in the order of the steps
  Reviewer,           \* of each step: the members its selectors match
  Parallel,           \* policy.mode
  PreventSelfReview,  \* policy.prevent_self_review
  Effect,             \* the effect_status a fresh revision gets
  MaxRevision         \* bound

Step == DOMAIN Quorum
Revision == 1..MaxRevision

ASSUME NoMemberAssumption == NoMember \notin Member
ASSUME PolicyAssumption ==
  /\ Step \subseteq Nat /\ IsFiniteSet(Step) /\ IsFiniteSet(Member)
  /\ Quorum \in [Step -> Nat \ {0}]
  /\ Reviewer \in [Step -> SUBSET Member]
  /\ Parallel \in BOOLEAN /\ PreventSelfReview \in BOOLEAN
  /\ Admin \subseteq Member /\ Owner \subseteq Member
  /\ Requester \in Member \cup {NoMember}
  /\ Effect \in {"waiting", "unavailable", "not_required"}   \* effectFor
  /\ MaxRevision \in Nat \ {0}

VARIABLES
  approval,   \* the approval_requests row
  revisions,  \* approval_revisions: the status of each revision
  votes,      \* approval_votes; read is history: the revision the voter had read
  routes,     \* the current revision's approval_routes: the latest of each step
  active,     \* the members whose membership is active
  lapsed      \* expires_at of the current revision is past

approvalVars == <<approval, revisions, votes, routes, active, lapsed>>

Decision == {"approve", "decline", "request_changes"}
Vote == [revision : Revision, step : Step, by : Member, decision : Decision, read : Revision]
Status == {"pending", "approved", "declined", "changes_requested", "expired"}
EffectStatus == {"waiting", "unavailable", "not_required", "executed", "failed"}
WorkStatus == {"waiting", "ready", "admitted", "cancelled", "completed"}

ApprovalsTypeOK ==
  /\ approval \in [status : Status, revision : Revision, work : WorkStatus, effect : EffectStatus]
  /\ revisions \in [Revision -> Status \cup {"none", "superseded"}]
  /\ votes \subseteq Vote
  /\ routes \in [Step -> Member \cup {NoMember}]
  /\ active \subseteq Member
  /\ lapsed \in BOOLEAN

-----------------------------------------------------------------------------
(* The policy *)

(* eligibleForStep.  Selector and self-review are asked of active members. *)
Eligible(s) == {m \in active \cap Reviewer[s] : PreventSelfReview => m # Requester}

(* canSatisfyDistinctReviewers: reviewers enough for every step, none for two. *)
Satisfiable(without) ==
  \E pick \in [Step -> SUBSET Member] :
    /\ \A s \in Step : pick[s] \subseteq Eligible(s) \ without /\ Cardinality(pick[s]) = Quorum[s]
    /\ \A s, t \in Step : s # t => pick[s] \cap pick[t] = {}

(* validatePolicyFeasibility *)
Feasible == Satisfiable({}) /\ \A o \in Owner : ~Satisfiable({o})

CurrentVotes(vs) == {v \in vs : v.revision = approval.revision}

(* progress: the approvals that count, which are those of members still eligible. *)
ValidApprovals(vs, s) ==
  {m \in Eligible(s) : \E v \in CurrentVotes(vs) :
     v.by = m /\ v.step = s /\ v.decision = "approve"}
Completed(vs, s) == Cardinality(ValidApprovals(vs, s)) >= Quorum[s]
Current ==
  {s \in Step : /\ ~Completed(votes, s)
                /\ Parallel \/ \A t \in Step : t < s => Completed(votes, t)}

(* The steps a member may vote on: a step routed to another is closed to them. *)
OpenTo(m) == {s \in Current : m \in Reviewer[s] /\ routes[s] \in {NoMember, m}}

ApprovalsInit ==
  /\ active \in SUBSET Member
  /\ Feasible                     \* proposeApproval refuses any other policy
  /\ approval = [status |-> "pending", revision |-> 1, work |-> "waiting", effect |-> Effect]
  /\ revisions = [r \in Revision |-> IF r = 1 THEN "pending" ELSE "none"]
  /\ votes = {}
  /\ routes = [s \in Step |-> NoMember]
  /\ lapsed = FALSE

-----------------------------------------------------------------------------
(* decideApproval *)

Settle(status, work) ==
  /\ approval' = [approval EXCEPT !.status = status, !.work = work]
  /\ revisions' = [revisions EXCEPT ![approval.revision] = status]

(* Mutant of MayDecide: the revision the reviewer read is not asked for. *)
MayDecideUnbound(m, read) ==
  /\ approval.status = "pending" /\ ~lapsed
  /\ m \in active
  /\ PreventSelfReview => m # Requester
  /\ ~\E v \in CurrentVotes(votes) : v.by = m
  /\ OpenTo(m) # {}

MayDecide(m, read) ==
  /\ read = approval.revision                            \* assertBinding
  /\ approval.status = "pending" /\ ~lapsed
  /\ m \in active
  /\ PreventSelfReview => m # Requester
  /\ ~\E v \in CurrentVotes(votes) : v.by = m            \* duplicate_reviewer
  /\ OpenTo(m) # {}                                      \* reviewer_not_eligible

(* The first such step of the policy takes the vote. *)
VoteStep(m) == CHOOSE s \in OpenTo(m) : \A t \in OpenTo(m) : s <= t
WithVote(m, read, d) ==
  votes \cup {[revision |-> approval.revision, step |-> VoteStep(m), by |-> m,
               decision |-> d, read |-> read]}

AllApproved(vs) == \A s \in Step : Completed(vs, s)

(* An approving vote that leaves a step short of its quorum. *)
CastVote(m, read) ==
  /\ MayDecide(m, read)
  /\ ~AllApproved(WithVote(m, read, "approve"))
  /\ votes' = WithVote(m, read, "approve")
  /\ UNCHANGED <<approval, revisions, routes, active, lapsed>>

(* The vote that completes the last step: finalizeApproval. *)
FinalVote(m, read) ==
  /\ MayDecide(m, read)
  /\ AllApproved(WithVote(m, read, "approve"))
  /\ votes' = WithVote(m, read, "approve")
  /\ Settle("approved", "ready")
  /\ UNCHANGED <<routes, active, lapsed>>

Refuse(m, read, d) ==
  /\ MayDecide(m, read)
  /\ votes' = WithVote(m, read, d)
  /\ Settle(IF d = "decline" THEN "declined" ELSE "changes_requested", "cancelled")
  /\ UNCHANGED <<routes, active, lapsed>>

(* Whoever reads or decides a pending approval past its expiry marks it. *)
MarkExpired ==
  /\ approval.status = "pending" /\ lapsed
  /\ Settle("expired", "cancelled")
  /\ UNCHANGED <<votes, routes, active, lapsed>>

(* Mutant of WriteRevision: whatever the revision was, it is superseded. *)
WriteRevisionOver ==
  /\ Feasible /\ approval.revision < MaxRevision
  /\ revisions' = [revisions EXCEPT ![approval.revision] = "superseded",
                                    ![approval.revision + 1] = "pending"]
  /\ approval' = [status |-> "pending", revision |-> approval.revision + 1,
                  work |-> "waiting", effect |-> Effect]
  /\ routes' = [s \in Step |-> NoMember]
  /\ lapsed' = FALSE
  /\ UNCHANGED <<votes, active>>

(* writeRevision: an undecided revision is superseded, an approved one stands. *)
WriteRevision ==
  LET old == approval.revision IN
  /\ Feasible /\ old < MaxRevision
  /\ revisions' = [revisions EXCEPT
       ![old] = IF @ \in {"pending", "changes_requested"} THEN "superseded" ELSE @,
       ![old + 1] = "pending"]
  /\ approval' = [status |-> "pending", revision |-> old + 1,
                  work |-> "waiting", effect |-> Effect]
  /\ routes' = [s \in Step |-> NoMember]
  /\ lapsed' = FALSE
  /\ UNCHANGED <<votes, active>>

(* reviseApproval: of a pending approval also when it has lapsed unnoticed. *)
Revise(m, read) ==
  /\ read = approval.revision
  /\ approval.status \in {"pending", "changes_requested"}
  /\ m \in active /\ (m \in Admin \/ m = Requester)
  /\ WriteRevision

(* routeApproval: to an eligible member who neither voted on nor holds another step. *)
Route(admin, s, m, read) ==
  /\ read = approval.revision
  /\ approval.status = "pending" /\ ~lapsed
  /\ admin \in active \cap Admin
  /\ m \in Eligible(s)
  /\ \A v \in CurrentVotes(votes) : v.by = m => v.step = s
  /\ \A t \in Step \ {s} : routes[t] # m
  /\ routes' = [routes EXCEPT ![s] = m]
  /\ UNCHANGED <<approval, revisions, votes, active, lapsed>>

-----------------------------------------------------------------------------
(* What happens to it *)

(* Members leave, or lose a role, and come back. *)
MemberChanges(m) ==
  /\ active' = IF m \in active THEN active \ {m} ELSE active \cup {m}
  /\ UNCHANGED <<approval, revisions, votes, routes, lapsed>>

Lapse ==
  /\ ~lapsed
  /\ lapsed' = TRUE
  /\ UNCHANGED <<approval, revisions, votes, routes, active>>

ApprovalStep(m, read) ==
  \/ CastVote(m, read)
  \/ \E d \in Decision \ {"approve"} : Refuse(m, read, d)
  \/ Revise(m, read)
  \/ \E s \in Step, to \in Member : Route(m, s, to, read)

(* All but the vote that finalizes, which starts something elsewhere. *)
ApprovalsQuiet ==
  \/ \E m \in Member, read \in Revision : ApprovalStep(m, read)
  \/ \E m \in Member : MemberChanges(m)
  \/ MarkExpired \/ Lapse

ApprovalsNext ==
  \/ ApprovalsQuiet
  \/ \E m \in Member, read \in Revision : FinalVote(m, read)

ApprovalsSpec == ApprovalsInit /\ [][ApprovalsNext]_approvalVars

-----------------------------------------------------------------------------
(* Properties *)

(* The members who signed a step, having read what they signed. *)
Signed(s) ==
  {m \in Eligible(s) : \E v \in CurrentVotes(votes) :
     v.by = m /\ v.step = s /\ v.decision = "approve" /\ v.read = approval.revision}

(* An approval is final only with the quorum of every step, at that moment: distinct
   members, eligible still, none of whom counts twice, each of whom read this very
   revision, and nobody refused it (decideApproval, progress). *)
ApprovedByQuorum ==
  [][approval.status # "approved" /\ approval'.status = "approved" =>
       /\ \A s \in Step : Cardinality(Signed(s)') >= Quorum[s]
       /\ \A s, t \in Step : s # t => Signed(s)' \cap Signed(t)' = {}
       /\ \A v \in CurrentVotes(votes)' : v.decision = "approve"]_approvalVars

(* The outcome of a revision stands, and so do its votes, whatever becomes of the
   request: "An approved revision stays `approved` when an unsent email is reopened"
   (writeRevision). *)
OutcomesStand ==
  [][/\ \A r \in Revision : revisions[r] \in {"approved", "declined", "expired", "superseded"}
           => revisions'[r] = revisions[r]
     /\ votes \subseteq votes'
     /\ \A v \in votes' \ votes : revisions[v.revision] = "pending"]_approvalVars
=============================================================================
