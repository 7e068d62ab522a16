----------------------------- MODULE WorkspaceMC -----------------------------
(***************************************************************************)
(* Small instances of the parts of a workspace around its runs.  Parts     *)
(* that share no state are checked one at a time: `part`, chosen at the    *)
(* start, is the one that moves.  An approval is of mail or of a run plan. *)
(***************************************************************************)
EXTENDS OutboundEmail, RunPlan, TokenRefresh, HubAccess, LiveUpdates, Invitations, Decisions

CONSTANTS
  a, b, c,     \* members
  hw, s1,      \* a hub and its socket
  c1           \* a seat

VARIABLE part

workspaceVars == <<outreachVars, planVars, tokenVars, accessVars, streamVars, inviteVars, decisionVars, part>>

TwoSteps == <<1, 1>>
Reviewers == <<{a, b, c}, {b, c}>>
Hubs == [s \in {s1} |-> hw]

-----------------------------------------------------------------------------
(* Bounds on the approval of mail *)

(* Each revision is voted on by b and then c; nobody leaves, nothing is routed,
   expires or is refused, and only a resend makes a revision. *)
DecidedPlainly ==
  /\ active = Member /\ ~lapsed
  /\ routes = [s \in Step |-> NoMember]
  /\ approval.status \in {"pending", "approved"}
  /\ \A r \in Revision : revisions[r] # "superseded"
  /\ \A v \in votes : v.by = IF v.step = 1 THEN b ELSE c

(* No send of the mail has begun. *)
NothingSent ==
  /\ \A w \in Worker : worker[w] = Idle
  /\ \A o \in Mail : job[o] \in {"none", "due"} /\ outbox[o].attempts = 0
  /\ suppressed = {} /\ crashes = 0

(* What the approval continues is done before a send, a recipient is suppressed only
   before the first one, and the mail of the first revision alone is tried again. *)
EarlyEvents ==
  /\ (\E r \in Revision : hook[r] = "due") => \A w \in Worker : worker[w] = Idle
  /\ suppressed # {} => \A o \in Mail : outbox[o].attempts = 0
  /\ \A o \in Mail : outbox[o].attempts > 1 => approval.revision = 1

(* Every decision, or a plain decision and every way to send. *)
DecisionOrSends == NothingSent \/ (DecidedPlainly /\ EarlyEvents)

(* The decisions of a run plan are those of mail, which has them all: here it is
   approved plainly, in its first revision, and may lapse. *)
PlanDecidedPlainly ==
  /\ active = Member
  /\ routes = [s \in Step |-> NoMember]
  /\ approval.revision = 1
  /\ approval.status \in {"pending", "approved", "expired"}
  /\ \A v \in votes : v.by = IF v.step = 1 THEN b ELSE c

(* Of events and sockets there are four in all, a third event is drawn after the first
   two were published, and only the first socket sees a job publish twice or a
   transaction roll back. *)
ShortStream ==
  /\ Cardinality({e \in Event : event[e] # "none"}) + Cardinality(Used) <= 4
  /\ event[3] # "none" => publish[1] = "done" /\ publish[2] = "done" /\ event[3] # "rolled_back"
  /\ Cardinality(Used) > 1 => \A e \in Event : /\ event[e] # "rolled_back"
                                               /\ publish[e] = "due" => e \notin published

(* While two workers send, nothing is late and the setup was the first invitation's;
   there is no second one before that one is sent; and one seat drifts at a time, or
   somebody joins, while nothing is sent or late.  A row misleads the code once. *)
Sends == {w \in Sender : sender[w] # Resting}
Drifting == reported # {} \/ \E s \in Seat \ current : seat[s].state # "quarantined"
FewInvitations ==
  /\ Sends # {} => seat[c1].state # "available"
  /\ Cardinality(Sends) > 1 => late = {} /\ Backed(1)
  /\ invitation[2].status # "none" => Sends = {} /\ 1 \notin sendDue
  /\ Drifting \/ proof # NoProof => Sends = {} /\ late = {} /\ 1 \notin sendDue
  /\ Cardinality(reported \cup (Seat \ current)) <= 1
  /\ \A i \in Invitation : misled[i] <= 1

(* Roles for the decision change until it is made, and those for its effects from then
   on; no more than one person loses either; two presses at most wait. *)
FewPress ==
  /\ Cardinality(decides) >= 2 /\ Cardinality(carries) >= 2
  /\ needed.decision = 2 => needed.effect = 2
  /\ decided = Nobody \/ asked = "declined" => carries = Person
  /\ decided # Nobody => decides = Person \/ \E p \in Person : pressing[p] # "none"
  /\ Cardinality({p \in Person : pressing[p] # "none"}) <= 2

Bounds ==
  /\ part = "decide" => FewPress
  /\ part = "invite" => FewInvitations
  /\ part = "stream" => ShortStream
  /\ part = "mail" => DecisionOrSends
  /\ part = "plan" => PlanDecidedPlainly

-----------------------------------------------------------------------------

WorkspaceInit ==
  /\ part \in {"mail", "plan", "token", "access", "stream", "invite", "decide"}
  /\ OutboundInit /\ PlanInit /\ TokenInit /\ AccessInit /\ StreamInit /\ InviteInit
  /\ DecisionInit
  /\ part # "mail" => active = Member /\ ~connected
  /\ part # "decide" => decides = {} /\ carries = {} /\ needed = [decision |-> 1, effect |-> 1]

MailMoves ==
  /\ part = "mail"
  /\ OutboundNext
  /\ UNCHANGED <<planVars, tokenVars, accessVars, streamVars, inviteVars, decisionVars, part>>

PlanMoves ==
  /\ part = "plan"
  /\ PlanNext
  /\ UNCHANGED <<mailVars, tokenVars, accessVars, streamVars, inviteVars, decisionVars, part>>

TokenMoves ==
  /\ part = "token"
  /\ TokenNext
  /\ UNCHANGED <<outreachVars, planVars, accessVars, streamVars, inviteVars, decisionVars, part>>

AccessMoves ==
  /\ part = "access"
  /\ AccessNext
  /\ UNCHANGED <<outreachVars, planVars, tokenVars, streamVars, inviteVars, decisionVars, part>>

StreamMoves ==
  /\ part = "stream"
  /\ StreamNext
  /\ UNCHANGED <<outreachVars, planVars, tokenVars, accessVars, inviteVars, decisionVars, part>>

InviteMoves ==
  /\ part = "invite"
  /\ InviteNext
  /\ UNCHANGED <<outreachVars, planVars, tokenVars, accessVars, streamVars, decisionVars, part>>

DecisionMoves ==
  /\ part = "decide"
  /\ DecisionNext
  /\ UNCHANGED <<outreachVars, planVars, tokenVars, accessVars, streamVars, inviteVars, part>>

WorkspaceNext == MailMoves \/ PlanMoves \/ TokenMoves \/ AccessMoves \/ StreamMoves
                 \/ InviteMoves \/ DecisionMoves

WorkspaceSpec ==
  WorkspaceInit /\ [][WorkspaceNext]_workspaceVars /\ SendFairness

(* Every part is in a state of its types. *)
WorkspaceTypeOK ==
  /\ part = "mail" => OutboundTypeOK
  /\ part = "plan" => PlanTypeOK
  /\ part = "token" => TokenTypeOK
  /\ part = "access" => AccessTypeOK
  /\ part = "stream" => StreamTypeOK
  /\ part = "invite" => InviteTypeOK
  /\ part = "decide" => DecisionTypeOK
=============================================================================
