-------------------------- MODULE ApprovalsProofs --------------------------
(***************************************************************************)
(* Proofs about Approvals and what an approval continues, OutboundEmail    *)
(* and RunPlan, for every policy, membership, budget and number of         *)
(* revisions, recipients, workers, attempts and model calls: an approval   *)
(* has the quorum of each step and outcomes stand; no mail is sent twice   *)
(* and an agent's work continues once; the reviewed tokens and calls are   *)
(* never exceeded, and a plan is run once and over only when it is.        *)
(***************************************************************************)
EXTENDS OutboundEmail, RunPlan, FiniteSetTheorems, WellFoundedInduction, TLAPS

(* Nobody votes twice on a revision, and a vote is of the revision its voter read. *)
VotesAreBound ==
  /\ \A v \in votes : v.read = v.revision
  /\ \A v, w \in votes : v.revision = w.revision /\ v.by = w.by => v = w

(* The request shows the status of its revision; later revisions do not exist yet. *)
RevisionIsCurrent ==
  /\ revisions[approval.revision] = approval.status
  /\ \A r \in Revision : r > approval.revision => revisions[r] = "none"
  /\ \A v \in votes : v.revision <= approval.revision

(* A refusal ends the revision it was given to. *)
PendingIsUnrefused ==
  approval.status = "pending" => \A v \in CurrentVotes(votes) : v.decision = "approve"

IInv == ApprovalsTypeOK /\ VotesAreBound /\ RevisionIsCurrent /\ PendingIsUnrefused

-----------------------------------------------------------------------------
(* The policy *)

(* Among any steps there is a first one. *)
LEMMA FirstStep ==
  ASSUME NEW S \in SUBSET Step, S # {}
  PROVE  \E s \in S : \A t \in S : s <= t
<1> DEFINE R == OpToRel(<, Nat)
<1>1. IsWellFoundedOn(R, Nat)
  BY NatLessThanWellFounded
<1>2. S \subseteq Nat
  BY PolicyAssumption
<1>3. \A x, y \in Nat : <<x, y>> \in R <=> x < y
  BY DEF OpToRel
<1> HIDE DEF R
<1>4. PICK s \in S : \A t \in S : ~(<<t, s>> \in R)
  BY <1>1, <1>2, WFMin
<1>5. ASSUME NEW t \in S PROVE s <= t
  <2>1. s \in Nat /\ t \in Nat
    BY <1>2
  <2>2. ~(t < s)
    BY <1>3, <1>4, <2>1
  <2> QED BY <2>1, <2>2
<1> QED BY <1>5

(* The step that takes a vote is one its voter may vote on. *)
LEMMA VoteStepIsOpen ==
  ASSUME NEW m, OpenTo(m) # {}
  PROVE  VoteStep(m) \in OpenTo(m) /\ VoteStep(m) \in Step
<1>1. OpenTo(m) \in SUBSET Step
  BY DEF OpenTo, Current
<1>2. \E s \in OpenTo(m) : \A t \in OpenTo(m) : s <= t
  BY <1>1, FirstStep
<1> QED BY <1>1, <1>2 DEF VoteStep

-----------------------------------------------------------------------------
(* What the actions have in common *)

ApprovalState == [status : Status, revision : Revision, work : WorkStatus, effect : EffectStatus]
RevisionStatus == Status \cup {"none", "superseded"}

LEMMA TypesNamed ==
  ApprovalsTypeOK <=> /\ approval \in ApprovalState
                      /\ revisions \in [Revision -> RevisionStatus]
                      /\ votes \subseteq Vote
                      /\ routes \in [Step -> Member \cup {NoMember}]
                      /\ active \subseteq Member
                      /\ lapsed \in BOOLEAN
  BY DEF ApprovalsTypeOK, ApprovalState, RevisionStatus

(* A vote that decideApproval accepts is the voter's only one on this revision. *)
LEMMA VoteKeeps ==
  ASSUME IInv, NEW m \in Member, NEW read \in Revision, NEW d \in Decision,
         MayDecide(m, read), votes' = WithVote(m, read, d), approval'.revision = approval.revision
  PROVE  /\ votes' \subseteq Vote
         /\ VotesAreBound'
         /\ \A v \in votes' : v.revision <= approval.revision
         /\ \A v \in votes' \ votes : v.revision = approval.revision /\ v.decision = d
<1> DEFINE new == [revision |-> approval.revision, step |-> VoteStep(m), by |-> m,
                   decision |-> d, read |-> read]
<1>1. approval.revision \in Revision /\ votes \subseteq Vote
  BY DEF IInv, ApprovalsTypeOK
<1>2. read = approval.revision /\ OpenTo(m) # {}
      /\ \A v \in votes : v.revision = approval.revision => v.by # m
  BY DEF MayDecide, CurrentVotes
<1>3. VoteStep(m) \in Step
  BY <1>2, VoteStepIsOpen
<1>4. votes' = votes \cup {new}
  BY DEF WithVote
<1>5. new \in Vote /\ new.revision = approval.revision /\ new.read = read /\ new.by = m
      /\ new.decision = d
  BY <1>1, <1>3 DEF Vote
<1> HIDE DEF new
<1>6. VotesAreBound'
  BY <1>2, <1>4, <1>5 DEF IInv, VotesAreBound
<1>7. \A v \in votes' : v.revision <= approval.revision
  BY <1>1, <1>4, <1>5 DEF IInv, RevisionIsCurrent, Revision
<1> QED BY <1>1, <1>4, <1>5, <1>6, <1>7

(* A status that settles the current revision is that of the request. *)
LEMMA SettleKeeps ==
  ASSUME IInv, NEW s \in Status \ {"pending"}, NEW w \in WorkStatus, Settle(s, w)
  PROVE  /\ approval' \in ApprovalState /\ approval'.revision = approval.revision
         /\ approval'.status = s
         /\ revisions' \in [Revision -> RevisionStatus]
         /\ revisions'[approval.revision] = s
         /\ \A r \in Revision : r # approval.revision => revisions'[r] = revisions[r]
<1>1. /\ approval \in ApprovalState /\ revisions \in [Revision -> RevisionStatus]
      /\ approval.revision \in Revision
  BY TypesNamed DEF IInv, ApprovalState
<1>2. /\ approval' = [approval EXCEPT !.status = s, !.work = w]
      /\ revisions' = [revisions EXCEPT ![approval.revision] = s]
  BY DEF Settle
<1>3. approval' \in ApprovalState /\ approval'.revision = approval.revision /\ approval'.status = s
  BY <1>1, <1>2 DEF ApprovalState
<1>4. s \in RevisionStatus
  BY DEF RevisionStatus
<1> QED BY <1>1, <1>2, <1>3, <1>4

(* A vote and the status it leads to, together. *)
LEMMA DecideKeeps ==
  ASSUME IInv, NEW m \in Member, NEW read \in Revision, NEW d \in Decision, MayDecide(m, read),
         votes' = WithVote(m, read, d), UNCHANGED <<routes, active, lapsed>>,
         NEW s \in Status \ {"pending"}, NEW w \in WorkStatus, Settle(s, w)
  PROVE  IInv'
<1>0. votes' \subseteq Vote
  BY VoteKeeps, SettleKeeps
<1>1. approval.revision \in Revision
  BY DEF IInv, ApprovalsTypeOK
<1>2. ApprovalsTypeOK'
  BY <1>0, SettleKeeps DEF IInv, ApprovalsTypeOK, ApprovalState, RevisionStatus
<1>3. RevisionIsCurrent'
  BY <1>1, VoteKeeps, SettleKeeps DEF IInv, RevisionIsCurrent, Revision
<1>4. PendingIsUnrefused'
  BY SettleKeeps DEF PendingIsUnrefused
<1> QED BY <1>2, <1>3, <1>4, VoteKeeps, SettleKeeps DEF IInv

(* The next revision starts without votes, and the ones before it keep their outcome. *)
LEMMA WriteRevisionKeeps == IInv /\ WriteRevision => IInv'
<1> SUFFICES ASSUME IInv, WriteRevision PROVE IInv'
  OBVIOUS
<1> DEFINE old == approval.revision
<1>1. /\ approval \in ApprovalState /\ revisions \in [Revision -> RevisionStatus]
      /\ old \in Revision /\ old < MaxRevision
  BY TypesNamed DEF IInv, ApprovalState, WriteRevision
<1>2. old + 1 \in Revision /\ MaxRevision \in Nat
  BY <1>1, PolicyAssumption DEF Revision
<1>3. /\ approval' = [status |-> "pending", revision |-> old + 1, work |-> "waiting", effect |-> Effect]
      /\ votes' = votes /\ active' = active
      /\ routes' = [s \in Step |-> NoMember] /\ lapsed' = FALSE
  BY DEF WriteRevision
<1>4. Effect \in EffectStatus
  BY PolicyAssumption DEF EffectStatus
<1>5. approval' \in ApprovalState /\ approval'.revision = old + 1 /\ approval'.status = "pending"
  BY <1>2, <1>3, <1>4 DEF ApprovalState, Status, WorkStatus
<1>6. /\ revisions' \in [Revision -> RevisionStatus]
      /\ revisions'[old + 1] = "pending"
      /\ \A r \in Revision : r # old /\ r # old + 1 => revisions'[r] = revisions[r]
  BY <1>1, <1>2 DEF WriteRevision, RevisionStatus, Status
<1> HIDE DEF old
<1>7. ApprovalsTypeOK'
  BY <1>3, <1>5, <1>6 DEF IInv, ApprovalsTypeOK, ApprovalState, RevisionStatus
<1>8. VotesAreBound'
  BY <1>3 DEF IInv, VotesAreBound
<1>9. \A v \in votes : v.revision <= old /\ v.revision \in Revision
  BY DEF IInv, RevisionIsCurrent, ApprovalsTypeOK, Vote, old
<1>10. RevisionIsCurrent'
  <2>1. \A r \in Revision : r > old => revisions[r] = "none"
    BY DEF IInv, RevisionIsCurrent, old
  <2>2. ASSUME NEW r \in Revision, r > old + 1 PROVE revisions'[r] = "none"
    BY <1>1, <1>6, <2>1, <2>2 DEF Revision
  <2>3. \A v \in votes : v.revision <= old + 1
    BY <1>1, <1>9 DEF Revision
  <2> QED BY <1>3, <1>5, <1>6, <2>2, <2>3 DEF RevisionIsCurrent
<1>11. PendingIsUnrefused'
  BY <1>1, <1>3, <1>5, <1>9 DEF PendingIsUnrefused, CurrentVotes, Revision
<1> QED BY <1>7, <1>8, <1>10, <1>11 DEF IInv

(* What a send or the continuing run reports leaves decisions alone. *)
LEMMA ReportKeeps ==
  ASSUME IInv, approval' \in ApprovalState,
         approval'.status = approval.status, approval'.revision = approval.revision,
         UNCHANGED <<revisions, votes, routes, active, lapsed>>
  PROVE  IInv'
<1>1. ApprovalsTypeOK'
  BY DEF IInv, ApprovalsTypeOK, ApprovalState, RevisionStatus
<1> QED BY <1>1 DEF IInv, VotesAreBound, RevisionIsCurrent, PendingIsUnrefused, CurrentVotes

-----------------------------------------------------------------------------

(* The first revision is proposed without votes. *)
LEMMA InitKeeps == ApprovalsInit => IInv
<1> SUFFICES ASSUME ApprovalsInit PROVE IInv
  OBVIOUS
<1>1. 1 \in Revision /\ Effect \in EffectStatus
  BY PolicyAssumption DEF Revision, EffectStatus
<1>2. approval \in ApprovalState /\ approval.revision = 1 /\ approval.status = "pending"
  BY <1>1 DEF ApprovalsInit, ApprovalState, Status, WorkStatus
<1>3. revisions \in [Revision -> RevisionStatus]
  BY DEF ApprovalsInit, RevisionStatus, Status
<1>4. ApprovalsTypeOK
  BY <1>2, <1>3, TypesNamed DEF ApprovalsInit
<1>5. RevisionIsCurrent
  BY <1>1, <1>2 DEF ApprovalsInit, RevisionIsCurrent
<1> QED BY <1>4, <1>5 DEF ApprovalsInit, IInv, VotesAreBound, PendingIsUnrefused, CurrentVotes

(* An approving vote that leaves the revision pending. *)
LEMMA CastVoteKeeps ==
  ASSUME IInv, NEW m \in Member, NEW read \in Revision, CastVote(m, read)
  PROVE  IInv'
<1>1. /\ MayDecide(m, read) /\ votes' = WithVote(m, read, "approve")
      /\ UNCHANGED <<approval, revisions, routes, active, lapsed>>
  BY DEF CastVote
<1>2. "approve" \in Decision
  BY DEF Decision
<1>3. /\ votes' \subseteq Vote /\ VotesAreBound'
      /\ \A v \in votes' : v.revision <= approval.revision
      /\ \A v \in votes' \ votes : v.decision = "approve"
  BY <1>1, <1>2, VoteKeeps
<1>4. ApprovalsTypeOK'
  BY <1>1, <1>3 DEF IInv, ApprovalsTypeOK
<1>5. RevisionIsCurrent'
  BY <1>1, <1>3 DEF IInv, RevisionIsCurrent
<1>6. PendingIsUnrefused'
  BY <1>1, <1>3 DEF IInv, PendingIsUnrefused, CurrentVotes
<1> QED BY <1>3, <1>4, <1>5, <1>6 DEF IInv

(* The vote that finalizes. *)
LEMMA FinalVoteKeeps ==
  ASSUME IInv, NEW m \in Member, NEW read \in Revision, FinalVote(m, read)
  PROVE  IInv'
<1>1. "approve" \in Decision /\ "approved" \in Status \ {"pending"} /\ "ready" \in WorkStatus
  BY DEF Decision, Status, WorkStatus
<1> QED BY <1>1, DecideKeeps DEF FinalVote

(* Every step but the vote that finalizes. *)
LEMMA QuietKeeps == IInv /\ ApprovalsQuiet => IInv'
<1> SUFFICES ASSUME IInv, ApprovalsQuiet PROVE IInv'
  OBVIOUS
<1>1. ASSUME NEW m \in Member, NEW read \in Revision, CastVote(m, read) PROVE IInv'
  BY <1>1, CastVoteKeeps
<1>2. ASSUME NEW m \in Member, NEW read \in Revision, NEW d \in Decision \ {"approve"},
             Refuse(m, read, d)
      PROVE  IInv'
  <2> DEFINE s == IF d = "decline" THEN "declined" ELSE "changes_requested"
  <2>1. s \in Status \ {"pending"} /\ "cancelled" \in WorkStatus
    BY DEF Status, WorkStatus
  <2> QED BY <1>2, <2>1, DecideKeeps DEF Refuse
<1>3. ASSUME NEW m \in Member, NEW read \in Revision, Revise(m, read) PROVE IInv'
  BY <1>3, WriteRevisionKeeps DEF Revise
<1>4. ASSUME NEW m \in Member, NEW read \in Revision, NEW s \in Step, NEW to \in Member,
             Route(m, s, to, read)
      PROVE  IInv'
  BY <1>4 DEF Route, IInv, ApprovalsTypeOK, VotesAreBound, RevisionIsCurrent, PendingIsUnrefused,
              CurrentVotes
<1>5. ASSUME NEW m \in Member, MemberChanges(m) PROVE IInv'
  BY <1>5 DEF MemberChanges, IInv, ApprovalsTypeOK, VotesAreBound, RevisionIsCurrent,
              PendingIsUnrefused, CurrentVotes
<1>6. CASE MarkExpired
  <2>1. "expired" \in Status \ {"pending"} /\ "cancelled" \in WorkStatus
    BY DEF Status, WorkStatus
  <2>2. /\ approval' \in ApprovalState /\ approval'.revision = approval.revision
        /\ approval'.status = "expired"
        /\ revisions' \in [Revision -> RevisionStatus]
        /\ revisions'[approval.revision] = "expired"
        /\ \A r \in Revision : r # approval.revision => revisions'[r] = revisions[r]
    BY <1>6, <2>1, SettleKeeps DEF MarkExpired
  <2>3. UNCHANGED <<votes, routes, active, lapsed>>
    BY <1>6 DEF MarkExpired
  <2>4. ApprovalsTypeOK'
    BY <2>2, <2>3 DEF IInv, ApprovalsTypeOK, ApprovalState, RevisionStatus
  <2>5. RevisionIsCurrent'
    BY <2>2, <2>3 DEF IInv, RevisionIsCurrent, ApprovalsTypeOK, Revision
  <2> QED BY <2>2, <2>3, <2>4, <2>5 DEF IInv, VotesAreBound, PendingIsUnrefused
<1>7. CASE Lapse
  BY <1>7 DEF Lapse, IInv, ApprovalsTypeOK, VotesAreBound, RevisionIsCurrent, PendingIsUnrefused,
              CurrentVotes
<1> QED BY <1>1, <1>2, <1>3, <1>4, <1>5, <1>6, <1>7 DEF ApprovalsQuiet, ApprovalStep

-----------------------------------------------------------------------------
(* What a step may do to a decision *)

OutcomesKept ==
  /\ \A r \in Revision : revisions[r] \in {"approved", "declined", "expired", "superseded"}
       => revisions'[r] = revisions[r]
  /\ votes \subseteq votes'
  /\ \A v \in votes' \ votes : revisions[v.revision] = "pending"

QuorumReached ==
  approval.status # "approved" /\ approval'.status = "approved" =>
    /\ \A s \in Step : Cardinality(Signed(s)') >= Quorum[s]
    /\ \A s, t \in Step : s # t => Signed(s)' \cap Signed(t)' = {}
    /\ \A v \in CurrentVotes(votes)' : v.decision = "approve"

(* The approvals that counted when the last step was completed were each read and
   signed, no member's for two steps. *)
LEMMA FinalVoteReachesQuorum ==
  ASSUME IInv, NEW m \in Member, NEW read \in Revision, FinalVote(m, read)
  PROVE  QuorumReached
<1>1. "approve" \in Decision /\ "approved" \in Status \ {"pending"} /\ "ready" \in WorkStatus
  BY DEF Decision, Status, WorkStatus
<1>2. /\ MayDecide(m, read) /\ votes' = WithVote(m, read, "approve")
      /\ Settle("approved", "ready") /\ active' = active
      /\ AllApproved(votes')
  BY DEF FinalVote
<1>3. approval'.revision = approval.revision
  BY <1>1, <1>2, SettleKeeps
<1>4. /\ VotesAreBound'
      /\ \A v \in votes' \ votes : v.decision = "approve"
  BY <1>1, <1>2, <1>3, VoteKeeps
<1>5. CurrentVotes(votes)' = CurrentVotes(votes')
  BY <1>3 DEF CurrentVotes
<1>6. \A v \in CurrentVotes(votes') : v.decision = "approve" /\ v.read = approval'.revision
  <2>1. approval.status = "pending"
    BY <1>2 DEF MayDecide
  <2>2. \A v \in CurrentVotes(votes') : v \in votes => v \in CurrentVotes(votes)
    BY DEF CurrentVotes
  <2>3. \A v \in CurrentVotes(votes') : v.read = approval'.revision
    BY <1>3, <1>4 DEF CurrentVotes, VotesAreBound
  <2> QED BY <1>4, <2>1, <2>2, <2>3 DEF IInv, PendingIsUnrefused, CurrentVotes
<1>7. ASSUME NEW s \in Step PROVE Signed(s)' = ValidApprovals(votes', s)
  BY <1>2, <1>5, <1>6 DEF Signed, ValidApprovals, Eligible
<1>8. ASSUME NEW s \in Step PROVE Cardinality(Signed(s)') >= Quorum[s]
  BY <1>2, <1>7 DEF AllApproved, Completed
<1>9. ASSUME NEW s \in Step, NEW t \in Step, s # t PROVE Signed(s)' \cap Signed(t)' = {}
  <2>1. ASSUME NEW x \in Signed(s)', x \in Signed(t)' PROVE FALSE
    <3>1. PICK v \in CurrentVotes(votes') : v.by = x /\ v.step = s
      BY <1>5, <2>1 DEF Signed
    <3>2. PICK w \in CurrentVotes(votes') : w.by = x /\ w.step = t
      BY <1>5, <2>1 DEF Signed
    <3>3. v = w
      BY <1>4, <3>1, <3>2 DEF CurrentVotes, VotesAreBound
    <3> QED BY <1>9, <3>1, <3>2, <3>3
  <2> QED BY <2>1
<1> QED BY <1>5, <1>6, <1>8, <1>9 DEF QuorumReached

(* A vote is added, and settles nothing but the pending revision it is of. *)
LEMMA VoteKeepsOutcomes ==
  ASSUME IInv, NEW m \in Member, NEW read \in Revision, NEW d \in Decision, MayDecide(m, read),
         votes' = WithVote(m, read, d), approval'.revision = approval.revision,
         \A r \in Revision : r # approval.revision => revisions'[r] = revisions[r]
  PROVE  OutcomesKept
<1>1. revisions[approval.revision] = "pending"
  BY DEF MayDecide, IInv, RevisionIsCurrent
<1>2. \A v \in votes' \ votes : v.revision = approval.revision
  BY VoteKeeps
<1>3. votes \subseteq votes'
  BY DEF WithVote
<1> QED BY <1>1, <1>2, <1>3 DEF OutcomesKept

LEMMA FinalVoteKeepsOutcomes ==
  ASSUME IInv, NEW m \in Member, NEW read \in Revision, FinalVote(m, read)
  PROVE  OutcomesKept
<1>1. "approve" \in Decision /\ "approved" \in Status \ {"pending"} /\ "ready" \in WorkStatus
  BY DEF Decision, Status, WorkStatus
<1>2. Settle("approved", "ready") /\ MayDecide(m, read) /\ votes' = WithVote(m, read, "approve")
  BY DEF FinalVote
<1>3. /\ approval'.revision = approval.revision
      /\ \A r \in Revision : r # approval.revision => revisions'[r] = revisions[r]
  BY <1>1, <1>2, SettleKeeps
<1> QED BY <1>1, <1>2, <1>3, VoteKeepsOutcomes

(* A new revision supersedes only one that is undecided, and nobody approves it. *)
LEMMA WriteRevisionKeepsOutcomes ==
  ASSUME IInv, WriteRevision
  PROVE  OutcomesKept /\ QuorumReached
<1> DEFINE old == approval.revision
<1>1. revisions \in [Revision -> RevisionStatus] /\ old \in Nat /\ old + 1 \in Revision
  BY TypesNamed, PolicyAssumption DEF IInv, ApprovalState, WriteRevision, Revision
<1>2. revisions[old + 1] = "none"
  BY <1>1 DEF IInv, RevisionIsCurrent
<1>3. /\ votes' = votes /\ approval'.status = "pending"
      /\ revisions' = [revisions EXCEPT
           ![old] = IF revisions[old] \in {"pending", "changes_requested"}
                    THEN "superseded" ELSE revisions[old],
           ![old + 1] = "pending"]
  BY DEF WriteRevision
<1>4. \A r \in Revision : revisions'[r] # revisions[r] =>
        r = old + 1 \/ (r = old /\ revisions[r] \in {"pending", "changes_requested"})
  <2> HIDE DEF old
  <2>1. old + 1 # old
    BY <1>1
  <2>2. ASSUME NEW r \in Revision, r # old, r # old + 1 PROVE revisions'[r] = revisions[r]
    BY <1>1, <1>3, <2>2
  <2>3. ASSUME old \in Revision, revisions[old] \notin {"pending", "changes_requested"}
        PROVE  revisions'[old] = revisions[old]
    BY <1>1, <1>3, <2>1, <2>3
  <2> QED BY <2>2, <2>3
<1> QED BY <1>2, <1>3, <1>4 DEF OutcomesKept, QuorumReached

LEMMA QuietKeepsOutcomes == IInv /\ ApprovalsQuiet => OutcomesKept /\ QuorumReached
<1> SUFFICES ASSUME IInv, ApprovalsQuiet PROVE OutcomesKept /\ QuorumReached
  OBVIOUS
<1>1. ASSUME NEW m \in Member, NEW read \in Revision, CastVote(m, read)
      PROVE  OutcomesKept /\ QuorumReached
  <2>1. "approve" \in Decision
    BY DEF Decision
  <2> QED BY <1>1, <2>1, VoteKeepsOutcomes DEF CastVote, QuorumReached
<1>2. ASSUME NEW m \in Member, NEW read \in Revision, NEW d \in Decision \ {"approve"},
             Refuse(m, read, d)
      PROVE  OutcomesKept /\ QuorumReached
  <2> DEFINE s == IF d = "decline" THEN "declined" ELSE "changes_requested"
  <2>1. s \in Status \ {"pending"} /\ "cancelled" \in WorkStatus /\ s # "approved"
    BY DEF Status, WorkStatus
  <2>2. Settle(s, "cancelled") /\ MayDecide(m, read) /\ votes' = WithVote(m, read, d)
    BY <1>2 DEF Refuse
  <2> HIDE DEF s
  <2>3. /\ approval'.revision = approval.revision /\ approval'.status = s
        /\ \A r \in Revision : r # approval.revision => revisions'[r] = revisions[r]
    BY <2>1, <2>2, SettleKeeps
  <2> QED BY <2>1, <2>2, <2>3, VoteKeepsOutcomes DEF QuorumReached
<1>3. ASSUME NEW m \in Member, NEW read \in Revision, Revise(m, read)
      PROVE  OutcomesKept /\ QuorumReached
  BY <1>3, WriteRevisionKeepsOutcomes DEF Revise
<1>4. ASSUME NEW m \in Member, NEW read \in Revision, NEW s \in Step, NEW to \in Member,
             Route(m, s, to, read)
      PROVE  OutcomesKept /\ QuorumReached
  BY <1>4 DEF Route, OutcomesKept, QuorumReached
<1>5. ASSUME NEW m \in Member, MemberChanges(m) PROVE OutcomesKept /\ QuorumReached
  BY <1>5 DEF MemberChanges, OutcomesKept, QuorumReached
<1>6. CASE MarkExpired
  <2>1. "expired" \in Status \ {"pending"} /\ "cancelled" \in WorkStatus
    BY DEF Status, WorkStatus
  <2>2. /\ approval'.status = "expired"
        /\ \A r \in Revision : r # approval.revision => revisions'[r] = revisions[r]
    BY <1>6, <2>1, SettleKeeps DEF MarkExpired
  <2>3. revisions[approval.revision] = "pending"
    BY <1>6 DEF MarkExpired, IInv, RevisionIsCurrent
  <2> QED BY <1>6, <2>2, <2>3 DEF MarkExpired, OutcomesKept, QuorumReached
<1>7. CASE Lapse
  BY <1>7 DEF Lapse, OutcomesKept, QuorumReached
<1> QED BY <1>1, <1>2, <1>3, <1>4, <1>5, <1>6, <1>7 DEF ApprovalsQuiet, ApprovalStep

-----------------------------------------------------------------------------
(* Theorems *)

(* A step that changes nothing keeps the invariant. *)
LEMMA StutterKeeps == IInv /\ UNCHANGED approvalVars => IInv'
  BY DEF approvalVars, IInv, ApprovalsTypeOK, VotesAreBound, RevisionIsCurrent, PendingIsUnrefused,
         CurrentVotes

(* The invariant of decideApproval, reviseApproval, routeApproval and markExpired. *)
LEMMA Invariant == ApprovalsSpec => []IInv
<1>1. IInv /\ [ApprovalsNext]_approvalVars => IInv'
  BY QuietKeeps, FinalVoteKeeps, StutterKeeps DEF ApprovalsNext
<1> QED BY <1>1, InitKeeps, PTL DEF ApprovalsSpec

(* ApprovalsTypeOK always holds: the policy never routes a vote to a step it has not. *)
THEOREM ApprovalsTyping == ApprovalsSpec => []ApprovalsTypeOK
<1>1. IInv => ApprovalsTypeOK
  BY DEF IInv
<1> QED BY <1>1, Invariant, PTL

(* ApprovedByQuorum holds of every behaviour: the vote that finalizes completes every
   step with distinct, eligible members who read this revision (decideApproval). *)
THEOREM ApprovedByQuorumAlways == ApprovalsSpec => ApprovedByQuorum
<1>1. IInv /\ [ApprovalsNext]_approvalVars => [QuorumReached]_approvalVars
  BY QuietKeepsOutcomes, FinalVoteReachesQuorum DEF ApprovalsNext
<1> QED BY <1>1, Invariant, PTL DEF ApprovalsSpec, ApprovedByQuorum, QuorumReached

(* OutcomesStand holds of every behaviour: a revision leaves pending once, except for a
   requested change, and a vote is never taken back (writeRevision, decideApproval). *)
THEOREM OutcomesStandAlways == ApprovalsSpec => OutcomesStand
<1>1. IInv /\ [ApprovalsNext]_approvalVars => [OutcomesKept]_approvalVars
  BY QuietKeepsOutcomes, FinalVoteKeepsOutcomes DEF ApprovalsNext
<1> QED BY <1>1, Invariant, PTL DEF ApprovalsSpec, OutcomesStand, OutcomesKept

-----------------------------------------------------------------------------
(* OutboundEmail *)

RowState == {"none", "pending_connection", "queued", "sending", "sent", "ambiguous",
             "cancelled", "failed"}
MailRow == [state : RowState, settled : {"none", "sent", "not_sent"}, attempts : 0..MaxAttempt]
WorkerState == [at : {"idle", "claimed", "calling", "answered", "returned", "threw"},
                mail : Mail \cup {NoMail}, answer : Answer \cup {"none"}]

(* The types, and that a worker which is not idle has a row to work on. *)
MailTypeOK ==
  /\ outbox \in [Mail -> MailRow]
  /\ job \in [Mail -> {"none", "due", "leased", "done"}]
  /\ worker \in [Worker -> WorkerState]
  /\ \A w \in Worker : worker[w].at # "idle" => worker[w].mail \in Mail
  /\ connected \in BOOLEAN
  /\ suppressed \subseteq Recipient
  /\ hook \in [Revision -> {"none", "due", "done"}]
  /\ delivered \in [Mail -> Nat]
  /\ crashes \in 0..MaxCrash

(* A worker's call for a row is with the provider, or its answer is not recorded. *)
InFlight(w, o) == worker[w].mail = o /\ worker[w].at \in {"calling", "answered"}
Untouched(o) == delivered[o] = 0 /\ \A w \in Worker : ~InFlight(w, o)

Fresh == {"none", "pending_connection", "queued"}
FreshIsUntouched == \A o \in Mail : outbox[o].state \in Fresh => Untouched(o)
CancelledIsUntouched ==
  \A o \in Mail : outbox[o].state = "cancelled" /\ outbox[o].settled # "not_sent" => Untouched(o)

(* One call at a time, and it delivers at most once. *)
OneCall ==
  /\ \A o \in Mail, v, w \in Worker : InFlight(v, o) /\ InFlight(w, o) => v = w
  /\ \A o \in Mail : delivered[o] <= 1
  /\ \A o \in Mail, w \in Worker :
       InFlight(w, o) /\ (worker[w].at = "calling" \/ worker[w].answer \notin {"accepted", "lost"})
         => delivered[o] = 0

(* Rows are made when a revision is approved, after all the earlier ones were cancelled. *)
RowsFollow ==
  /\ \A o \in Mail : outbox[o].state # "none" =>
       /\ o[1] <= approval.revision
       /\ o[1] = approval.revision => approval.status = "approved"
  /\ \A o, p \in Mail : o[2] = p[2] /\ o[1] < p[1] /\ outbox[o].state # "none"
                        /\ outbox[p].state # "none" => outbox[o].state = "cancelled"

RowsInv == FreshIsUntouched /\ CancelledIsUntouched /\ OneCall /\ RowsFollow

(* The work of a revision continues when it is approved; a revision after it exists
   only because a row was settled as not sent. *)
HookFollows ==
  /\ ContinuesOnce
  /\ \A r \in Revision : hook[r] # "none" =>
       /\ r <= approval.revision
       /\ r = approval.revision => approval.status = "approved"
       /\ r < approval.revision => \E o \in Mail : o[1] < approval.revision /\ outbox[o].state # "none"

MailInv == IInv /\ MailTypeOK /\ RowsInv /\ HookFollows

-----------------------------------------------------------------------------

(* What the invariant gives each step. *)
LEMMA Basics ==
  ASSUME MailInv
  PROVE  /\ approval \in ApprovalState /\ approval.revision \in Revision
         /\ outbox \in [Mail -> MailRow] /\ worker \in [Worker -> WorkerState]
         /\ \A r \in Revision : r \in Nat
         /\ \A o \in Mail : o[1] \in Revision /\ o[2] \in Recipient
  BY TypesNamed, PolicyAssumption DEF MailInv, IInv, ApprovalState, MailTypeOK, Revision, Mail

(* What becomes of a row while no call begins and none is answered. *)
Moves(o) ==
  LET was == outbox[o] is == outbox'[o] IN
  \/ is.state = was.state /\ is.settled = was.settled
  \/ was.state \in {"pending_connection", "queued"}
     /\ is.state \in {"pending_connection", "queued", "cancelled"}
  \/ was.state \in {"sending", "ambiguous"} /\ is.state \in {"sent", "ambiguous", "failed"}
  \/ was.state = "ambiguous" /\ is.state = "cancelled" /\ is.settled = "not_sent"
  \/ was.state = "sending" /\ is.state = "queued" /\ Untouched(o)'

(* How the request may change beside it. *)
Onward ==
  /\ approval'.revision \in Revision /\ approval'.revision >= approval.revision
  /\ approval'.revision = approval.revision /\ approval.status = "approved"
       => approval'.status = "approved"

LEMMA MovesKeep ==
  ASSUME MailInv,
         \A w \in Worker, o \in Mail : InFlight(w, o)' => InFlight(w, o) /\ worker'[w] = worker[w],
         delivered' = delivered,
         \A o \in Mail : Moves(o),
         Onward
  PROVE  RowsInv'
<1>1. \A o \in Mail : Untouched(o) => Untouched(o)'
  BY DEF Untouched
<1>2. \A o \in Mail : o[1] \in Nat
  BY Basics
<1>3. approval.revision \in Nat /\ approval'.revision \in Nat
  BY Basics DEF Onward
<1>4. FreshIsUntouched'
  BY <1>1 DEF MailInv, RowsInv, FreshIsUntouched, Fresh, Moves
<1>5. CancelledIsUntouched'
  BY <1>1 DEF MailInv, RowsInv, FreshIsUntouched, CancelledIsUntouched, Fresh, Moves
<1>6. OneCall'
  BY DEF MailInv, RowsInv, OneCall, InFlight
<1>7. \A o \in Mail : outbox'[o].state # "none" => outbox[o].state # "none"
  BY DEF Moves
<1>8. \A o \in Mail : outbox[o].state = "cancelled" => outbox'[o].state = "cancelled"
  BY DEF Moves
<1>9. RowsFollow'
  BY <1>2, <1>3, <1>7, <1>8 DEF MailInv, RowsInv, RowsFollow, Onward
<1> QED BY <1>4, <1>5, <1>6, <1>9 DEF RowsInv

LEMMA HookKeeps ==
  ASSUME MailInv, \A r \in Revision : hook'[r] # "none" => hook[r] # "none",
         \A o \in Mail : outbox[o].state # "none" => outbox'[o].state # "none",
         Onward,
         approval'.revision > approval.revision /\ approval.status = "approved" =>
           \E o \in Mail : o[1] < approval'.revision /\ outbox[o].state # "none"
  PROVE  HookFollows'
<1>1. approval.revision \in Nat /\ approval'.revision \in Nat
  BY Basics DEF Onward
<1>2. \A r \in Revision : r \in Nat
  BY Basics
<1>3. \A o \in Mail : o[1] \in Nat
  BY Basics
<1>4. ContinuesOnce'
  BY DEF MailInv, HookFollows, ContinuesOnce
<1>5. ASSUME NEW r \in Revision, hook'[r] # "none"
      PROVE  /\ r <= approval'.revision
             /\ r = approval'.revision => approval'.status = "approved"
             /\ r < approval'.revision =>
                  \E o \in Mail : o[1] < approval'.revision /\ outbox'[o].state # "none"
  <2>1. /\ r <= approval.revision
        /\ r = approval.revision => approval.status = "approved"
        /\ r < approval.revision => \E o \in Mail : o[1] < approval.revision /\ outbox[o].state # "none"
    BY <1>5 DEF MailInv, HookFollows
  <2>2. CASE r < approval.revision
    <3>1. PICK o \in Mail : o[1] < approval.revision /\ outbox[o].state # "none"
      BY <2>1, <2>2
    <3>2. o[1] < approval'.revision /\ outbox'[o].state # "none"
      BY <1>1, <1>3, <3>1 DEF Onward
    <3> QED BY <1>1, <1>2, <2>2, <3>2 DEF Onward
  <2>3. CASE r = approval.revision
    BY <1>1, <1>2, <2>1, <2>3 DEF Onward
  <2> QED BY <1>1, <1>2, <2>1, <2>2, <2>3
<1> QED BY <1>4, <1>5 DEF HookFollows

(* A step that begins and answers no call, and leaves the revision and its status. *)
LEMMA StepKeeps ==
  ASSUME MailInv, IInv', MailTypeOK',
         \A w \in Worker, o \in Mail : InFlight(w, o)' => InFlight(w, o) /\ worker'[w] = worker[w],
         delivered' = delivered,
         \A o \in Mail : Moves(o),
         approval'.revision = approval.revision, approval'.status = approval.status,
         \A r \in Revision : hook'[r] # "none" => hook[r] # "none"
  PROVE  MailInv'
<1>1. approval.revision \in Revision /\ approval.revision \in Nat
  BY Basics
<1>2. Onward
  BY <1>1 DEF Onward
<1>3. \A o \in Mail : outbox[o].state # "none" => outbox'[o].state # "none"
  BY DEF Moves
<1>4. ~(approval'.revision > approval.revision)
  BY <1>1
<1>5. RowsInv'
  BY <1>2, MovesKeep
<1>6. HookFollows'
  BY <1>2, <1>3, <1>4, HookKeeps
<1> QED BY <1>5, <1>6 DEF MailInv

(* Go moves a worker on with its row and answer. *)
LEMMA GoKeeps ==
  ASSUME MailInv, NEW w \in Worker, NEW place \in {"claimed", "calling", "returned", "threw"},
         Go(w, place), ~At(w, "idle")
  PROVE  /\ worker' \in [Worker -> WorkerState]
         /\ \A v \in Worker : worker'[v].at # "idle" => worker'[v].mail \in Mail
         /\ worker'[w].at = place
         /\ \A v \in Worker : v # w => worker'[v] = worker[v]
<1>1. worker \in [Worker -> WorkerState]
  BY Basics
<1>2. worker' = [worker EXCEPT ![w] = [worker[w] EXCEPT !.at = place]]
  BY <1>1 DEF Go
<1>3. [worker[w] EXCEPT !.at = place] \in WorkerState
  BY <1>1 DEF WorkerState
<1>4. worker'[w].mail = worker[w].mail /\ worker'[w].at = place
  BY <1>1, <1>2 DEF WorkerState
<1> QED BY <1>1, <1>2, <1>3, <1>4 DEF MailInv, MailTypeOK, At

(* A worker that goes on without a call leaves its own behind. *)
LEMMA GoesOn ==
  ASSUME MailInv, NEW w \in Worker, NEW place \in {"returned", "threw"},
         Go(w, place), ~At(w, "idle")
  PROVE  \A v \in Worker, o \in Mail : InFlight(v, o)' => InFlight(v, o) /\ worker'[v] = worker[v]
  BY GoKeeps DEF InFlight

(* A worker that rests has nothing in flight. *)
LEMMA RestKeeps ==
  ASSUME MailInv, NEW w \in Worker, worker' = [worker EXCEPT ![w] = Idle]
  PROVE  /\ worker' \in [Worker -> WorkerState]
         /\ \A v \in Worker : worker'[v].at # "idle" => worker'[v].mail \in Mail
         /\ \A v \in Worker, o \in Mail :
              InFlight(v, o)' => InFlight(v, o) /\ worker'[v] = worker[v]
<1>1. worker \in [Worker -> WorkerState]
  BY Basics
<1>2. Idle \in WorkerState /\ Idle.at = "idle"
  BY DEF Idle, WorkerState
<1>3. \A v \in Worker : worker'[v] = IF v = w THEN Idle ELSE worker[v]
  BY <1>1
<1>4. worker' \in [Worker -> WorkerState]
  BY <1>1, <1>2
<1>5. \A v \in Worker : worker'[v].at # "idle" => v # w
  BY <1>2, <1>3
<1> QED BY <1>3, <1>4, <1>5 DEF MailInv, MailTypeOK, InFlight

(* The states of a row that is moved. *)
LEMMA MoveKeeps ==
  ASSUME MailInv, NEW o \in Mail, NEW s \in RowState, Move(o, s)
  PROVE  /\ outbox' \in [Mail -> MailRow]
         /\ outbox'[o].state = s /\ outbox'[o].settled = outbox[o].settled
         /\ \A p \in Mail : p # o => outbox'[p] = outbox[p]
<1>1. outbox \in [Mail -> MailRow]
  BY Basics
<1>2. outbox' = [outbox EXCEPT ![o] = [outbox[o] EXCEPT !.state = s]]
  BY <1>1 DEF Move
<1>3. [outbox[o] EXCEPT !.state = s] \in MailRow
  BY <1>1 DEF MailRow
<1> QED BY <1>1, <1>2, <1>3 DEF MailRow

(* What a send reports leaves the decision alone. *)
LEMMA ReportIsKept ==
  ASSUME MailInv, NEW e \in EffectStatus, Report(e), ApprovalOnly
  PROVE  IInv' /\ approval'.revision = approval.revision /\ approval'.status = approval.status
<1>1. approval \in ApprovalState
  BY Basics
<1>2. approval' = [approval EXCEPT !.effect = e, !.work = "completed"]
  BY DEF Report
<1>3. /\ approval' \in ApprovalState
      /\ approval'.revision = approval.revision /\ approval'.status = approval.status
  BY <1>1, <1>2 DEF ApprovalState, WorkStatus
<1> QED BY <1>3, ReportKeeps DEF MailInv, ApprovalOnly

-----------------------------------------------------------------------------
(* The send job, action by action *)

(* The request does not change, nor does what continues it. *)
RequestStays == UNCHANGED approvalVars /\ UNCHANGED hook

LEMMA RequestStaysKeeps ==
  ASSUME MailInv, RequestStays, MailTypeOK',
         \A w \in Worker, o \in Mail : InFlight(w, o)' => InFlight(w, o) /\ worker'[w] = worker[w],
         delivered' = delivered,
         \A o \in Mail : Moves(o)
  PROVE  MailInv'
<1>1. IInv'
  BY StutterKeeps DEF MailInv, RequestStays
<1>2. /\ approval'.revision = approval.revision /\ approval'.status = approval.status
      /\ \A r \in Revision : hook'[r] # "none" => hook[r] # "none"
  BY DEF RequestStays, approvalVars
<1> QED BY <1>1, <1>2, StepKeeps

LEMMA ClaimKeeps ==
  ASSUME MailInv, NEW w \in Worker, NEW o \in Mail, Claim(w, o)
  PROVE  MailInv'
<1> DEFINE new == [at |-> "claimed", mail |-> o, answer |-> "none"]
<1>1. worker \in [Worker -> WorkerState] /\ worker' = [worker EXCEPT ![w] = new]
  BY Basics DEF Claim
<1>2. new \in WorkerState /\ new.at = "claimed" /\ new.mail = o
  BY DEF WorkerState
<1> HIDE DEF new
<1>3. \A v \in Worker : worker'[v] = IF v = w THEN new ELSE worker[v]
  BY <1>1
<1>4. worker' \in [Worker -> WorkerState]
  BY <1>1, <1>2
<1>5. MailTypeOK'
  BY <1>2, <1>3, <1>4 DEF Claim, MailInv, MailTypeOK
<1>6. \A v \in Worker, p \in Mail : InFlight(v, p)' => InFlight(v, p) /\ worker'[v] = worker[v]
  BY <1>2, <1>3 DEF InFlight
<1> QED BY <1>5, <1>6, RequestStaysKeeps DEF Claim, RequestStays, Moves

(* Whatever leaves the row as it was and moves the worker on. *)
LEMMA NothingMovesKeeps ==
  ASSUME MailInv, NEW w \in Worker, NEW place \in {"returned", "threw"}, Go(w, place), ~At(w, "idle"),
         UNCHANGED approvalVars, SendOnly, UNCHANGED <<outbox, connected, delivered>>
  PROVE  MailInv'
<1>1. MailTypeOK'
  BY GoKeeps DEF MailInv, MailTypeOK, SendOnly
<1> QED BY <1>1, GoesOn, RequestStaysKeeps DEF RequestStays, SendOnly, Moves

(* The row moves, the worker is done with it, and the request stays. *)
LEMMA RowMovesKeeps ==
  ASSUME MailInv, NEW w \in Worker, Go(w, "returned"), ~At(w, "idle"),
         NEW o \in Mail, NEW s \in RowState, Move(o, s),
         outbox[o].state = "queued", s \in {"cancelled", "pending_connection"},
         UNCHANGED approvalVars, SendOnly, connected' \in BOOLEAN, UNCHANGED delivered
  PROVE  MailInv'
<1>1. MailTypeOK'
  BY GoKeeps, MoveKeeps DEF MailInv, MailTypeOK, SendOnly
<1>2. \A p \in Mail : Moves(p)
  BY MoveKeeps DEF Moves
<1> QED BY <1>1, <1>2, GoesOn, RequestStaysKeeps DEF RequestStays, SendOnly

(* The row moves and the outcome is reported to the request. *)
LEMMA OutcomeKeeps ==
  ASSUME MailInv, NEW w \in Worker, Go(w, "returned"), ~At(w, "idle"),
         NEW o \in Mail, NEW s \in {"sent", "ambiguous", "failed"}, Move(o, s),
         outbox[o].state = "sending",
         NEW e \in EffectStatus, Report(e), ApprovalOnly,
         SendOnly, UNCHANGED <<connected, delivered>>
  PROVE  MailInv'
<1>0. s \in RowState
  BY DEF RowState
<1>1. MailTypeOK'
  BY <1>0, GoKeeps, MoveKeeps DEF MailInv, MailTypeOK, SendOnly
<1>2. \A p \in Mail : Moves(p)
  BY <1>0, MoveKeeps DEF Moves
<1>3. \A r \in Revision : hook'[r] # "none" => hook[r] # "none"
  BY DEF SendOnly
<1> QED BY <1>1, <1>2, <1>3, GoesOn, ReportIsKept, StepKeeps

(* A row begins to be sent: nothing of it was in flight, or delivered. *)
LEMMA PrepareSendKeeps ==
  ASSUME MailInv, NEW w \in Worker, PrepareSend(w)
  PROVE  MailInv'
<1> DEFINE o == worker[w].mail
<1>1. /\ At(w, "claimed") /\ ~At(w, "idle") /\ o \in Mail
      /\ outbox[o].state = "queued" /\ outbox[o].attempts < MaxAttempt
      /\ outbox' = [outbox EXCEPT ![o].state = "sending", ![o].attempts = @ + 1]
      /\ Go(w, "calling")
      /\ UNCHANGED <<job, suppressed, hook, crashes, connected, delivered>>
      /\ UNCHANGED approvalVars
  BY DEF PrepareSend, At, SendOnly, MailInv, MailTypeOK
<1> HIDE DEF o
<1>2. outbox \in [Mail -> MailRow]
  BY Basics
<1>3. [outbox[o] EXCEPT !.state = "sending", !.attempts = outbox[o].attempts + 1] \in MailRow
  BY <1>1, <1>2, MailAssumption DEF MailRow, RowState
<1>4. /\ outbox' \in [Mail -> MailRow] /\ outbox'[o].state = "sending"
      /\ \A p \in Mail : p # o => outbox'[p] = outbox[p]
  BY <1>1, <1>2, <1>3 DEF MailRow
<1>5. /\ worker' \in [Worker -> WorkerState]
      /\ \A v \in Worker : worker'[v].at # "idle" => worker'[v].mail \in Mail
      /\ worker'[w].at = "calling"
      /\ \A v \in Worker : v # w => worker'[v] = worker[v]
  BY <1>1, GoKeeps
<1>5a. worker'[w].mail = o
  BY <1>1, Basics DEF Go, o, WorkerState
<1>6. MailTypeOK'
  BY <1>1, <1>4, <1>5 DEF MailInv, MailTypeOK
<1>7. Untouched(o)
  BY <1>1 DEF MailInv, RowsInv, FreshIsUntouched, Fresh
<1>8. \A p \in Mail : p # o /\ Untouched(p) => Untouched(p)'
  BY <1>1, <1>5, <1>5a DEF Untouched, InFlight
<1>9. FreshIsUntouched' /\ CancelledIsUntouched'
  BY <1>4, <1>8 DEF MailInv, RowsInv, FreshIsUntouched, CancelledIsUntouched, Fresh
<1>10. OneCall'
  <2>1. ASSUME NEW v \in Worker, NEW p \in Mail, InFlight(v, p)', v # w
        PROVE  p # o /\ InFlight(v, p) /\ worker'[v] = worker[v]
    BY <1>5, <1>7, <2>1 DEF InFlight, Untouched
  <2>2. \A p \in Mail : InFlight(w, p)' => p = o
    BY <1>5a DEF InFlight
  <2>3. delivered'[o] = 0
    BY <1>1, <1>7 DEF Untouched
  <2> QED BY <1>1, <2>1, <2>2, <2>3 DEF MailInv, RowsInv, OneCall
<1>11. \A p \in Mail : (outbox'[p].state = "cancelled" <=> outbox[p].state = "cancelled")
                      /\ (outbox'[p].state = "none" <=> outbox[p].state = "none")
  BY <1>1, <1>4
<1>12. RowsFollow'
  BY <1>1, <1>11 DEF approvalVars, MailInv, RowsInv, RowsFollow
<1>13. HookFollows'
  BY <1>1, <1>11 DEF approvalVars, MailInv, HookFollows, ContinuesOnce
<1>14. IInv'
  BY <1>1, StutterKeeps DEF MailInv
<1> QED BY <1>6, <1>9, <1>10, <1>12, <1>13, <1>14 DEF MailInv, RowsInv

(* The provider answers the one call for a row, and may have accepted it. *)
LEMMA CallKeeps ==
  ASSUME MailInv, NEW w \in Worker, NEW answer \in Answer, CallProvider(w, answer)
  PROVE  MailInv'
<1> DEFINE o == worker[w].mail
<1> DEFINE n == IF answer \in {"accepted", "lost"} THEN 1 ELSE 0
<1>1. /\ At(w, "calling") /\ o \in Mail
      /\ worker' = [worker EXCEPT ![w] = [worker[w] EXCEPT !.at = "answered", !.answer = answer]]
      /\ UNCHANGED <<job, suppressed, hook, crashes, outbox, connected>>
      /\ UNCHANGED approvalVars
  BY DEF CallProvider, At, SendOnly, MailInv, MailTypeOK
<1>2. InFlight(w, o) /\ delivered[o] = 0
  BY <1>1 DEF At, InFlight, MailInv, RowsInv, OneCall
<1>3. delivered \in [Mail -> Nat] /\ worker \in [Worker -> WorkerState]
  BY Basics DEF MailInv, MailTypeOK
<1>4. /\ delivered' \in [Mail -> Nat] /\ delivered'[o] = n
      /\ \A p \in Mail : p # o => delivered'[p] = delivered[p]
  BY <1>1, <1>2, <1>3 DEF CallProvider
<1>5. [worker[w] EXCEPT !.at = "answered", !.answer = answer] \in WorkerState
  BY <1>3 DEF WorkerState
<1>6. /\ worker' \in [Worker -> WorkerState]
      /\ worker'[w].mail = o /\ worker'[w].at = "answered" /\ worker'[w].answer = answer
      /\ \A v \in Worker : v # w => worker'[v] = worker[v]
  BY <1>1, <1>3, <1>5 DEF WorkerState
<1> HIDE DEF o
<1>7. MailTypeOK'
  BY <1>1, <1>4, <1>6 DEF MailInv, MailTypeOK
<1>8. \A p \in Mail : ~Untouched(o) /\ (Untouched(p) => Untouched(p)')
  BY <1>2, <1>4, <1>6 DEF Untouched, InFlight
<1>9. FreshIsUntouched' /\ CancelledIsUntouched'
  BY <1>1, <1>8 DEF MailInv, RowsInv, FreshIsUntouched, CancelledIsUntouched
<1>10. \A v \in Worker, p \in Mail : InFlight(v, p)' <=> InFlight(v, p)
  BY <1>2, <1>6 DEF InFlight
<1>11. OneCall'
  <2>1. \A v \in Worker : InFlight(v, o) => v = w
    BY <1>1, <1>2 DEF MailInv, RowsInv, OneCall
  <2>2. \A p \in Mail : delivered'[p] <= 1
    BY <1>4 DEF MailInv, RowsInv, OneCall
  <2>3. ASSUME NEW v \in Worker, NEW p \in Mail, InFlight(v, p)',
               worker'[v].at = "calling" \/ worker'[v].answer \notin {"accepted", "lost"}
        PROVE  delivered'[p] = 0
    <3>1. CASE v = w
      BY <1>4, <1>6, <2>3, <3>1 DEF InFlight
    <3>2. CASE v # w
      BY <1>4, <1>6, <1>10, <2>1, <2>3, <3>2 DEF MailInv, RowsInv, OneCall
    <3> QED BY <3>1, <3>2
  <2> QED BY <1>10, <2>2, <2>3 DEF MailInv, RowsInv, OneCall
<1>12. RowsFollow' /\ HookFollows'
  BY <1>1 DEF approvalVars, MailInv, RowsInv, RowsFollow, HookFollows, ContinuesOnce
<1>13. IInv'
  BY <1>1, StutterKeeps DEF MailInv
<1> QED BY <1>7, <1>9, <1>11, <1>12, <1>13 DEF MailInv, RowsInv

(* The provider's failure is recorded: only a throttled call is queued again, which
   was not accepted. *)
LEMMA RecordFailureKeeps ==
  ASSUME MailInv, NEW w \in Worker, RecordFailure(w)
  PROVE  MailInv'
<1>0. PICK o \in Mail : o = worker[w].mail
  BY DEF RecordFailure, At, MailInv, MailTypeOK
<1> DEFINE answer == worker[w].answer
<1> DEFINE s == IF outbox[o].state = "sending" THEN AfterFailure(answer) ELSE outbox[o].state
<1> DEFINE place == IF answer = "throttled" THEN "threw" ELSE "returned"
<1>1. /\ At(w, "answered") /\ ~At(w, "idle") /\ Go(w, place)
      /\ SendOnly /\ UNCHANGED <<connected, delivered>>
  BY DEF RecordFailure, At
<1>2. place \in {"returned", "threw"}
  OBVIOUS
<1>3. outbox \in [Mail -> MailRow] /\ AfterFailure(answer) \in {"queued", "failed", "ambiguous"}
  BY Basics DEF AfterFailure
<1>4. s \in RowState
  BY <1>1, <1>3 DEF MailRow, RowState
<1>5. Move(o, s)
  BY <1>0, <1>1, <1>3 DEF RecordFailure, Move, MailRow
<1>6. \A p \in Mail : (outbox'[p].state = IF p = o THEN s ELSE outbox[p].state)
                     /\ outbox'[p].settled = outbox[p].settled
  BY <1>1, <1>4, <1>5, MoveKeeps
<1>7. ASSUME s = "queued", outbox[o].state = "sending" PROVE Untouched(o)'
  <2>1. answer = "throttled"
    BY <1>7 DEF AfterFailure
  <2>2. InFlight(w, o) /\ delivered[o] = 0
    BY <1>0, <1>1, <2>1 DEF At, InFlight, MailInv, RowsInv, OneCall
  <2>3. \A v \in Worker : v # w => ~InFlight(v, o)
    BY <1>1, <2>2 DEF MailInv, RowsInv, OneCall
  <2>4. \A v \in Worker : ~InFlight(v, o)'
    <3>1. worker'[w].at = place /\ \A v \in Worker : v # w => worker'[v] = worker[v]
      BY <1>1, <1>2, GoKeeps
    <3> QED BY <2>3, <3>1 DEF InFlight
  <2> QED BY <1>1, <2>2, <2>4 DEF Untouched
<1>8. ASSUME NEW p \in Mail PROVE Moves(p)
  <2>1. CASE p = o /\ outbox[o].state = "sending"
    <3>1. outbox'[o].state \in {"queued", "failed", "ambiguous"}
      BY <1>3, <1>6, <2>1
    <3>2. outbox'[o].state = "queued" => Untouched(o)'
      BY <1>6, <1>7, <2>1
    <3> QED BY <2>1, <3>1, <3>2 DEF Moves
  <2>2. CASE ~(p = o /\ outbox[o].state = "sending")
    BY <1>6, <2>2 DEF Moves
  <2> QED BY <2>1, <2>2
<1>9. MailTypeOK'
  BY <1>1, <1>2, <1>4, <1>5, GoKeeps, MoveKeeps DEF MailInv, MailTypeOK, SendOnly
<1>10. \A v \in Worker, p \in Mail : InFlight(v, p)' => InFlight(v, p) /\ worker'[v] = worker[v]
  BY <1>1, <1>2, GoesOn
<1>11. IInv' /\ approval'.revision = approval.revision /\ approval'.status = approval.status
  <2>1. CASE answer = "throttled"
    BY <2>1, StutterKeeps DEF RecordFailure, MailInv, approvalVars
  <2>2. CASE answer # "throttled"
    <3>1. "failed" \in EffectStatus
      BY DEF EffectStatus
    <3> QED BY <2>2, <3>1, ReportIsKept DEF RecordFailure
  <2> QED BY <2>1, <2>2
<1> HIDE DEF answer, s, place
<1>12. \A r \in Revision : hook'[r] # "none" => hook[r] # "none"
  BY <1>1 DEF SendOnly
<1> QED BY <1>1, <1>8, <1>9, <1>10, <1>11, <1>12, StepKeeps

(* Every step of a worker. *)
LEMMA SendKeeps ==
  ASSUME MailInv, NEW w \in Worker, Send(w)
  PROVE  MailInv'
<1> DEFINE o == worker[w].mail
<1>0. ~At(w, "idle") => o \in Mail
  BY DEF At, MailInv, MailTypeOK
<1>1. ASSUME NEW p \in Mail, Claim(w, p) PROVE MailInv'
  BY <1>1, ClaimKeeps
<1>2. CASE PrepareNothing(w)
  BY <1>2, NothingMovesKeeps DEF PrepareNothing, At
<1>3. CASE PrepareThrows(w)
  BY <1>3, NothingMovesKeeps DEF PrepareThrows, At
<1>4. CASE PrepareInterrupted(w)
  <2>1. "failed" \in EffectStatus
    BY DEF EffectStatus
  <2> QED BY <1>0, <1>4, <2>1, OutcomeKeeps DEF PrepareInterrupted, At
<1>5. CASE PrepareCancelled(w)
  <2>1. "cancelled" \in RowState
    BY DEF RowState
  <2>2. connected' \in BOOLEAN
    BY <1>5 DEF PrepareCancelled, MailInv, MailTypeOK
  <2> QED BY <1>0, <1>5, <2>1, <2>2, RowMovesKeeps DEF PrepareCancelled, At
<1>6. CASE PrepareUnavailable(w)
  <2>1. "pending_connection" \in RowState
    BY DEF RowState
  <2> QED BY <1>0, <1>6, <2>1, RowMovesKeeps DEF PrepareUnavailable, At
<1>7. CASE PrepareSend(w)
  BY <1>7, PrepareSendKeeps
<1>8. ASSUME NEW answer \in Answer, CallProvider(w, answer) PROVE MailInv'
  BY <1>8, CallKeeps
<1>9. CASE RecordSent(w)
  <2>1. "executed" \in EffectStatus
    BY DEF EffectStatus
  <2>2. CASE outbox[o].state = "sending"
    BY <1>0, <1>9, <2>1, <2>2, OutcomeKeeps DEF RecordSent, At
  <2>3. CASE outbox[o].state # "sending"
    BY <1>9, <2>3, NothingMovesKeeps DEF RecordSent, At
  <2> QED BY <2>2, <2>3
<1>10. CASE RecordFailure(w)
  BY <1>10, RecordFailureKeeps
<1>11. CASE Finish(w) \/ Fail(w) \/ Crash(w)
  <2>1. /\ worker' = [worker EXCEPT ![w] = Idle]
        /\ RequestStays /\ UNCHANGED <<outbox, connected, suppressed, delivered>>
    BY <1>11 DEF Finish, Fail, Crash, RequestStays
  <2>2. job' \in [Mail -> {"none", "due", "leased", "done"}] /\ crashes' \in 0..MaxCrash
    BY <1>11, MailAssumption DEF Finish, Fail, Crash, MailInv, MailTypeOK
  <2>3. MailTypeOK'
    BY <2>1, <2>2, RestKeeps DEF MailInv, MailTypeOK, RequestStays
  <2> QED BY <2>1, <2>3, RestKeeps, RequestStaysKeeps DEF Moves
<1> QED BY <1>1, <1>2, <1>3, <1>4, <1>5, <1>6, <1>7, <1>8, <1>9, <1>10, <1>11 DEF Send, Proceed

-----------------------------------------------------------------------------
(* What people do, and time *)

(* A step that leaves the workers, the request and what was delivered. *)
LEMMA OutsideKeeps ==
  ASSUME MailInv, RequestStays, MailTypeOK', UNCHANGED <<worker, delivered>>, \A o \in Mail : Moves(o)
  PROVE  MailInv'
  BY RequestStaysKeeps DEF InFlight

LEMMA ExpireKeeps ==
  ASSUME MailInv, NEW o \in Mail, Expire(o)
  PROVE  MailInv'
<1>1. MailTypeOK'
  BY DEF Expire, MailInv, MailTypeOK
<1> QED BY <1>1, OutsideKeeps DEF Expire, RequestStays, Moves

LEMMA ConnectKeeps ==
  ASSUME MailInv, Connect \/ Disconnect
  PROVE  MailInv'
<1>1. outbox \in [Mail -> MailRow] /\ job \in [Mail -> {"none", "due", "leased", "done"}]
  BY Basics DEF MailInv, MailTypeOK
<1>2. \A o \in Mail, s \in RowState : [outbox[o] EXCEPT !.state = s] \in MailRow
  BY <1>1 DEF MailRow
<1>3. "queued" \in RowState /\ "pending_connection" \in RowState
  BY DEF RowState
<1>4. outbox' \in [Mail -> MailRow] /\ \A o \in Mail : Moves(o)
  <2>1. CASE Connect
    <3>1. \A o \in Mail : outbox'[o] = IF o \in Waiting THEN [outbox[o] EXCEPT !.state = "queued"]
                                      ELSE outbox[o]
      BY <2>1 DEF Connect
    <3>2. \A o \in Waiting : outbox[o].state \in {"pending_connection", "queued"}
      BY DEF Waiting
    <3>3. outbox' \in [Mail -> MailRow]
      BY <1>1, <1>2, <1>3, <2>1 DEF Connect
    <3> QED BY <1>1, <3>1, <3>2, <3>3 DEF Moves, MailRow
  <2>2. CASE Disconnect
    <3>1. \A o \in Mail : outbox'[o] = IF outbox[o].state = "queued"
                                      THEN [outbox[o] EXCEPT !.state = "pending_connection"]
                                      ELSE outbox[o]
      BY <2>2 DEF Disconnect
    <3>2. outbox' \in [Mail -> MailRow]
      BY <1>1, <1>2, <1>3, <2>2 DEF Disconnect
    <3> QED BY <1>1, <3>1, <3>2 DEF Moves, MailRow
  <2> QED BY <2>1, <2>2
<1>5. job' \in [Mail -> {"none", "due", "leased", "done"}] /\ connected' \in BOOLEAN
  BY <1>1 DEF Connect, Disconnect
<1>6. RequestStays /\ UNCHANGED <<worker, suppressed, delivered, crashes>>
  BY DEF Connect, Disconnect, RequestStays
<1>7. MailTypeOK'
  BY <1>4, <1>5, <1>6 DEF MailInv, MailTypeOK, RequestStays
<1> QED BY <1>4, <1>6, <1>7, OutsideKeeps

LEMMA SuppressKeeps ==
  ASSUME MailInv, NEW i \in Recipient, Suppress(i)
  PROVE  MailInv'
<1>1. MailTypeOK'
  BY DEF Suppress, MailInv, MailTypeOK
<1> QED BY <1>1, OutsideKeeps DEF Suppress, RequestStays, Moves

(* A row found to have been sent. *)
LEMMA SettleSentKeeps ==
  ASSUME MailInv, NEW m \in Member, NEW o \in Mail, SettleSent(m, o)
  PROVE  MailInv'
<1>1. outbox \in [Mail -> MailRow] /\ outbox[o].state = "ambiguous"
  BY Basics DEF SettleSent
<1>2. outbox' = [outbox EXCEPT ![o] = [outbox[o] EXCEPT !.state = "sent", !.settled = "sent"]]
  BY <1>1 DEF SettleSent
<1>3. [outbox[o] EXCEPT !.state = "sent", !.settled = "sent"] \in MailRow
  BY <1>1 DEF MailRow, RowState
<1>4. outbox' \in [Mail -> MailRow] /\ \A p \in Mail : Moves(p)
  BY <1>1, <1>2, <1>3 DEF Moves, MailRow
<1>5. MailTypeOK'
  BY <1>4 DEF SettleSent, MailInv, MailTypeOK
<1>6. IInv' /\ approval'.revision = approval.revision /\ approval'.status = approval.status
  <2>1. CASE UNCHANGED approvalVars
    BY <2>1, StutterKeeps DEF MailInv, approvalVars
  <2>2. CASE Report("executed") /\ ApprovalOnly
    <3>1. "executed" \in EffectStatus
      BY DEF EffectStatus
    <3> QED BY <2>2, <3>1, ReportIsKept
  <2> QED BY <2>1, <2>2 DEF SettleSent
<1>7. /\ \A w \in Worker, p \in Mail : InFlight(w, p)' => InFlight(w, p) /\ worker'[w] = worker[w]
      /\ delivered' = delivered /\ \A r \in Revision : hook'[r] # "none" => hook[r] # "none"
  BY DEF SettleSent, InFlight
<1> QED BY <1>4, <1>5, <1>6, <1>7, StepKeeps

(* A row found not to have been sent, and the revision that may send it again. *)
LEMMA SettleNotSentKeeps ==
  ASSUME MailInv, NEW m \in Member, NEW o \in Mail, SettleNotSent(m, o)
  PROVE  MailInv'
<1>1. outbox \in [Mail -> MailRow] /\ outbox[o].state = "ambiguous"
      /\ approval.revision \in Nat /\ o[1] \in Nat /\ approval.revision \in Revision
  BY Basics DEF SettleNotSent
<1>2. outbox' = [outbox EXCEPT ![o] = [outbox[o] EXCEPT !.state = "cancelled", !.settled = "not_sent"]]
  BY <1>1 DEF SettleNotSent
<1>3. [outbox[o] EXCEPT !.state = "cancelled", !.settled = "not_sent"] \in MailRow
  BY <1>1 DEF MailRow, RowState
<1>4. outbox' \in [Mail -> MailRow] /\ \A p \in Mail : Moves(p)
  BY <1>1, <1>2, <1>3 DEF Moves, MailRow
<1>5. MailTypeOK'
  BY <1>4 DEF SettleNotSent, MailInv, MailTypeOK
<1>6. /\ \A w \in Worker, p \in Mail : InFlight(w, p)' => InFlight(w, p) /\ worker'[w] = worker[w]
      /\ delivered' = delivered /\ \A r \in Revision : hook'[r] # "none" => hook[r] # "none"
  BY DEF SettleNotSent, InFlight
<1>7. CASE UNCHANGED approvalVars
  <2>1. IInv' /\ approval'.revision = approval.revision /\ approval'.status = approval.status
    BY <1>7, StutterKeeps DEF MailInv, approvalVars
  <2> QED BY <1>4, <1>5, <1>6, <2>1, StepKeeps
<1>8. CASE WriteRevision
  <2>1. IInv'
    BY <1>8, WriteRevisionKeeps DEF MailInv
  <2>2. approval'.revision = approval.revision + 1 /\ approval'.revision \in Revision
    BY <1>8, <2>1 DEF WriteRevision, IInv, ApprovalsTypeOK
  <2>3. Onward
    BY <1>1, <2>2 DEF Onward
  <2>4. RowsInv'
    BY <1>4, <1>6, <2>3, MovesKeep
  <2>5. o[1] < approval'.revision
    BY <1>1, <2>2 DEF MailInv, RowsInv, RowsFollow
  <2>6. HookFollows'
    BY <1>1, <1>4, <1>6, <2>3, <2>5, HookKeeps DEF Moves
  <2> QED BY <1>5, <2>1, <2>4, <2>6 DEF MailInv
<1> QED BY <1>7, <1>8 DEF SettleNotSent

(* The vote that finalizes queues rows whose recipients nothing earlier may have reached. *)
LEMMA FinalizeMailKeeps ==
  ASSUME MailInv, NEW m \in Member, NEW read \in Revision, FinalizeMail(m, read)
  PROVE  MailInv'
<1> DEFINE r == approval.revision
<1> DEFINE fresh == {o \in Mail : o[1] = r /\ MayQueue(o[2])}
<1> DEFINE new == [NoRow EXCEPT !.state = IF connected THEN "queued" ELSE "pending_connection"]
<1>1. /\ FinalVote(m, read)
      /\ outbox' = [o \in Mail |-> IF o \in fresh THEN new ELSE outbox[o]]
      /\ job' = [o \in Mail |-> IF o \in fresh /\ connected THEN "due" ELSE job[o]]
      /\ hook' = IF Continues THEN [hook EXCEPT ![r] = "due"] ELSE hook
      /\ UNCHANGED <<worker, connected, suppressed, delivered, crashes>>
  BY DEF FinalizeMail
<1>2. /\ r \in Revision /\ r \in Nat /\ outbox \in [Mail -> MailRow]
      /\ \A o \in Mail : o[1] \in Nat /\ o[2] \in Recipient
      /\ \A q \in Revision : q \in Nat
  BY Basics
<1>3. approval.status = "pending"
  BY <1>1 DEF FinalVote, MayDecide
<1>4. approval'.revision = r /\ approval'.status = "approved"
  <2>1. "approved" \in Status \ {"pending"} /\ "ready" \in WorkStatus
    BY DEF Status, WorkStatus
  <2> QED BY <1>1, <2>1, SettleKeeps DEF FinalVote, MailInv
<1>5. new \in MailRow /\ new.state \in {"queued", "pending_connection"}
  BY MailAssumption DEF NoRow, MailRow, RowState
<1>6. \A o \in fresh : o \in Mail /\ o[1] = r /\ \A p \in Earlier(o[2]) : outbox[p].state = "cancelled"
  BY DEF MayQueue
<1> HIDE DEF fresh, new, r
<1>7. \A o \in Mail : o[1] = r => outbox[o].state = "none"
  BY <1>3 DEF MailInv, RowsInv, RowsFollow, r
<1>8. \A o \in Mail : outbox[o].state # "none" => o[1] < r
  BY <1>2, <1>7 DEF MailInv, RowsInv, RowsFollow, r
<1>9. MailTypeOK'
  <2>1. outbox' \in [Mail -> MailRow]
    BY <1>1, <1>2, <1>5
  <2>2. job' \in [Mail -> {"none", "due", "leased", "done"}]
    BY <1>1 DEF MailInv, MailTypeOK
  <2>3. hook' \in [Revision -> {"none", "due", "done"}]
    BY <1>1, <1>2 DEF MailInv, MailTypeOK
  <2> QED BY <1>1, <2>1, <2>2, <2>3 DEF MailInv, MailTypeOK
<1>10. \A o \in Mail : outbox'[o] = IF o \in fresh THEN new ELSE outbox[o]
  BY <1>1
<1>11. \A o \in Mail : Untouched(o) => Untouched(o)'
  BY <1>1 DEF Untouched, InFlight
<1>12. FreshIsUntouched' /\ CancelledIsUntouched'
  <2>1. \A o \in fresh : Untouched(o)
    BY <1>6, <1>7 DEF MailInv, RowsInv, FreshIsUntouched, Fresh
  <2> QED BY <1>5, <1>10, <1>11, <2>1
          DEF MailInv, RowsInv, FreshIsUntouched, CancelledIsUntouched, Fresh
<1>13. OneCall'
  BY <1>1 DEF MailInv, RowsInv, OneCall, InFlight
<1>14. RowsFollow'
  <2>1. ASSUME NEW o \in Mail, outbox'[o].state # "none"
        PROVE  o[1] <= r
    BY <1>2, <1>6, <1>8, <1>10, <2>1
  <2>2. ASSUME NEW o \in Mail, NEW p \in Mail, o[2] = p[2], o[1] < p[1],
               outbox'[o].state # "none", outbox'[p].state # "none"
        PROVE  outbox'[o].state = "cancelled"
    <3>1. p[1] <= r /\ o \notin fresh
      BY <1>2, <1>6, <2>1, <2>2
    <3>2. outbox'[o] = outbox[o] /\ outbox[o].state # "none"
      BY <1>10, <2>2, <3>1
    <3>3. CASE p \in fresh
      <4>1. o \in Earlier(p[2])
        BY <1>6, <2>2, <3>2, <3>3 DEF Earlier, r
      <4> QED BY <1>6, <3>2, <3>3, <4>1
    <3>4. CASE p \notin fresh
      BY <1>10, <2>2, <3>2, <3>4 DEF MailInv, RowsInv, RowsFollow
    <3> QED BY <3>3, <3>4
  <2> QED BY <1>4, <2>1, <2>2 DEF RowsFollow
<1>15. HookFollows'
  <2>1. \A q \in Revision : hook[q] # "none" =>
          q < r /\ \E o \in Mail : o[1] < r /\ outbox[o].state # "none"
    BY <1>2, <1>3 DEF MailInv, HookFollows, r
  <2>2. \A o \in Mail : outbox[o].state # "none" => outbox'[o].state # "none"
    BY <1>5, <1>10
  <2>3. CASE Continues
    <3>1. \A o \in Mail : ~(o[1] < r /\ outbox[o].state # "none")
      BY <1>2, <2>3 DEF Continues, Earlier, r
    <3>2. \A q \in Revision : hook[q] = "none"
      BY <2>1, <3>1
    <3>3. \A q \in Revision : hook'[q] # "none" => q = r
      BY <1>1, <2>3, <3>2 DEF MailInv, MailTypeOK
    <3>4. ContinuesOnce'
      BY <3>3 DEF ContinuesOnce
    <3>5. r <= approval'.revision /\ ~(r < approval'.revision)
      BY <1>2, <1>4
    <3> QED BY <1>4, <3>3, <3>4, <3>5 DEF HookFollows
  <2>4. CASE ~Continues
    <3>1. hook' = hook
      BY <1>1, <2>4
    <3>2. \A q \in Revision : hook'[q] # "none" =>
            q < r /\ \E o \in Mail : o[1] < r /\ outbox'[o].state # "none"
      BY <2>1, <2>2, <3>1
    <3>3. ContinuesOnce'
      BY <3>1 DEF MailInv, HookFollows, ContinuesOnce
    <3> QED BY <1>2, <1>4, <3>2, <3>3 DEF HookFollows
  <2> QED BY <2>3, <2>4
<1>16. IInv'
  BY <1>1, FinalVoteKeeps DEF MailInv
<1> QED BY <1>9, <1>12, <1>13, <1>14, <1>15, <1>16 DEF MailInv, RowsInv

LEMMA ContinueMailKeeps ==
  ASSUME MailInv, NEW r \in Revision, ContinueMail(r)
  PROVE  MailInv'
<1>1. approval \in ApprovalState /\ hook \in [Revision -> {"none", "due", "done"}]
  BY Basics DEF MailInv, MailTypeOK
<1>2. hook' \in [Revision -> {"none", "due", "done"}]
      /\ \A q \in Revision : hook'[q] # "none" => hook[q] # "none"
  BY <1>1 DEF ContinueMail
<1>3. /\ approval' \in ApprovalState
      /\ approval'.revision = approval.revision /\ approval'.status = approval.status
  BY <1>1 DEF ContinueMail, ApprovalState, WorkStatus
<1>4. IInv'
  BY <1>3, ReportKeeps DEF ContinueMail, MailInv
<1>5. MailTypeOK'
  BY <1>2 DEF ContinueMail, MailInv, MailTypeOK
<1> QED BY <1>2, <1>3, <1>4, <1>5, StepKeeps DEF ContinueMail, Moves, InFlight

(* A decision short of finalizing starts a new revision only of an unapproved one. *)
LEMMA QuietIsOnward ==
  ASSUME MailInv, ApprovalsQuiet
  PROVE  Onward /\ (approval'.revision > approval.revision => approval.status # "approved")
<1>1. approval.revision \in Revision /\ approval.revision \in Nat
  BY Basics
<1>2. ASSUME NEW m \in Member, NEW read \in Revision, CastVote(m, read)
      PROVE  approval' = approval
  BY <1>2 DEF CastVote
<1>3. ASSUME NEW m \in Member, NEW read \in Revision, NEW d \in Decision \ {"approve"},
             Refuse(m, read, d)
      PROVE  approval'.revision = approval.revision /\ approval.status = "pending"
  <2> DEFINE s == IF d = "decline" THEN "declined" ELSE "changes_requested"
  <2>1. s \in Status \ {"pending"} /\ "cancelled" \in WorkStatus
    BY DEF Status, WorkStatus
  <2>2. Settle(s, "cancelled")
    BY <1>3 DEF Refuse
  <2> HIDE DEF s
  <2> QED BY <1>3, <2>1, <2>2, SettleKeeps DEF Refuse, MayDecide, MailInv
<1>4. ASSUME NEW m \in Member, NEW read \in Revision, Revise(m, read)
      PROVE  /\ approval'.revision = approval.revision + 1 /\ approval'.revision \in Revision
             /\ approval.status # "approved"
  <2>1. IInv'
    BY <1>4, WriteRevisionKeeps DEF Revise, MailInv
  <2> QED BY <1>4, <2>1 DEF Revise, WriteRevision, IInv, ApprovalsTypeOK
<1>5. ASSUME NEW m \in Member, NEW read \in Revision, NEW s \in Step, NEW to \in Member,
             Route(m, s, to, read)
      PROVE  approval' = approval
  BY <1>5 DEF Route
<1>6. ASSUME NEW m \in Member, MemberChanges(m) PROVE approval' = approval
  BY <1>6 DEF MemberChanges
<1>7. ASSUME MarkExpired
      PROVE  approval'.revision = approval.revision /\ approval.status = "pending"
  <2>1. "expired" \in Status \ {"pending"} /\ "cancelled" \in WorkStatus
    BY DEF Status, WorkStatus
  <2> QED BY <1>7, <2>1, SettleKeeps DEF MarkExpired, MailInv
<1>8. ASSUME Lapse PROVE approval' = approval
  BY <1>8 DEF Lapse
<1>9. \/ approval' = approval
      \/ approval'.revision = approval.revision /\ approval.status = "pending"
      \/ approval'.revision = approval.revision + 1 /\ approval'.revision \in Revision
         /\ approval.status # "approved"
  BY <1>2, <1>3, <1>4, <1>5, <1>6, <1>7, <1>8 DEF ApprovalsQuiet, ApprovalStep
<1> QED BY <1>1, <1>9 DEF Onward

LEMMA DecisionKeeps ==
  ASSUME MailInv, ApprovalsQuiet, UNCHANGED mailVars
  PROVE  MailInv'
<1>1. IInv'
  BY QuietKeeps DEF MailInv
<1>2. UNCHANGED <<outbox, job, worker, connected, suppressed, hook, delivered, crashes>>
  BY DEF mailVars
<1>3. MailTypeOK'
  BY <1>2 DEF MailInv, MailTypeOK
<1>4. RowsInv'
  BY <1>2, QuietIsOnward, MovesKeep DEF Moves, InFlight
<1>5. HookFollows'
  BY <1>2, QuietIsOnward, HookKeeps
<1> QED BY <1>1, <1>3, <1>4, <1>5 DEF MailInv

-----------------------------------------------------------------------------
(* Theorems *)

LEMMA MailStep == MailInv /\ [OutboundNext]_outreachVars => MailInv'
<1> SUFFICES ASSUME MailInv, [OutboundNext]_outreachVars PROVE MailInv'
  OBVIOUS
<1>1. CASE UNCHANGED outreachVars
  <2>1. UNCHANGED approvalVars
        /\ UNCHANGED <<outbox, job, worker, connected, suppressed, hook, delivered, crashes>>
    BY <1>1 DEF outreachVars, mailVars
  <2>2. MailTypeOK'
    BY <2>1 DEF MailInv, MailTypeOK
  <2> QED BY <2>1, <2>2, OutsideKeeps DEF RequestStays, Moves
<1>2. CASE OutboundNext
  BY <1>2, DecisionKeeps, FinalizeMailKeeps, ContinueMailKeeps, SendKeeps, ExpireKeeps,
     ConnectKeeps, SuppressKeeps, SettleSentKeeps, SettleNotSentKeeps DEF OutboundNext
<1> QED BY <1>1, <1>2

LEMMA MailInit == OutboundInit => MailInv
<1> SUFFICES ASSUME OutboundInit PROVE MailInv
  OBVIOUS
<1>1. NoRow \in MailRow /\ NoRow.state = "none" /\ Idle \in WorkerState /\ Idle.at = "idle"
  BY MailAssumption DEF NoRow, MailRow, RowState, Idle, WorkerState
<1>2. MailTypeOK
  BY <1>1, MailAssumption DEF OutboundInit, MailTypeOK
<1>3. RowsInv
  BY <1>1 DEF OutboundInit, RowsInv, FreshIsUntouched, CancelledIsUntouched, Untouched, InFlight,
              OneCall, RowsFollow
<1>4. HookFollows
  BY DEF OutboundInit, HookFollows, ContinuesOnce
<1>5. IInv
  BY InitKeeps DEF OutboundInit
<1> QED BY <1>2, <1>3, <1>4, <1>5 DEF MailInv

LEMMA MailInvariant == OutboundSpec => []MailInv
  BY MailInit, MailStep, PTL DEF OutboundSpec

LEMMA MailTyped == MailInv => OutboundTypeOK
  BY DEF MailInv, IInv, MailTypeOK, OutboundTypeOK, MailRow, RowState, WorkerState

(* OutboundTypeOK always holds, after every answer of the provider. *)
THEOREM OutboundTyping == OutboundSpec => []OutboundTypeOK
<1> QED BY MailTyped, MailInvariant, PTL

(* NotSentTwice always holds: `sending` is committed before the call, an interrupted send
   is never tried again, and a later revision queues only what was cancelled. *)
THEOREM NotSentTwiceAlways == OutboundSpec => []NotSentTwice
<1>1. MailInv => NotSentTwice
  <2> SUFFICES ASSUME MailInv PROVE NotSentTwice
    OBVIOUS
  <2>1. \A o \in Mail : delivered[o] <= 1 /\ delivered[o] \in Nat
    BY DEF MailInv, MailTypeOK, RowsInv, OneCall
  <2>2. \A o \in Mail : delivered[o] > 0 => outbox[o].state # "none"
    BY <2>1 DEF MailInv, RowsInv, FreshIsUntouched, Fresh, Untouched
  <2>3. ASSUME NEW o \in Mail, NEW p \in Mail, o[2] = p[2], o[1] < p[1],
               delivered[o] > 0, delivered[p] > 0
        PROVE  outbox[o].settled = "not_sent"
    <3>1. outbox[o].state = "cancelled"
      BY <2>2, <2>3 DEF MailInv, RowsInv, RowsFollow
    <3> QED BY <2>1, <2>3, <3>1 DEF MailInv, RowsInv, CancelledIsUntouched, Untouched
  <2> QED BY <2>1, <2>3 DEF NotSentTwice
<1> QED BY <1>1, MailInvariant, PTL

(* ContinuesOnce always holds: a revision after the one that continued exists only for
   a send that was settled, whose row tells finalizeApproval not to continue again. *)
THEOREM ContinuesOnceAlways == OutboundSpec => []ContinuesOnce
<1>1. MailInv => ContinuesOnce
  BY DEF MailInv, HookFollows
<1> QED BY <1>1, MailInvariant, PTL

(* The decisions of mail, which may be reopened after its approval, keep the outcomes of
   Approvals: ApprovedByQuorum and OutcomesStand hold of every behaviour here too. *)
THEOREM MailDecisions == OutboundSpec => ApprovedByQuorum /\ OutcomesStand
<1>1. MailInv /\ [OutboundNext]_outreachVars
        => [QuorumReached]_approvalVars /\ [OutcomesKept]_approvalVars
  <2> SUFFICES ASSUME MailInv, [OutboundNext]_outreachVars, approvalVars' # approvalVars
               PROVE  QuorumReached /\ OutcomesKept
    BY DEF approvalVars
  <2>0. OutboundNext /\ IInv
    BY DEF outreachVars, MailInv
  <2>1. CASE ApprovalsQuiet
    BY <2>0, <2>1, QuietKeepsOutcomes
  <2>2. ASSUME NEW m \in Member, NEW read \in Revision, FinalizeMail(m, read)
        PROVE  QuorumReached /\ OutcomesKept
    BY <2>0, <2>2, FinalVoteReachesQuorum, FinalVoteKeepsOutcomes DEF FinalizeMail
  <2>3. CASE UNCHANGED <<revisions, votes>> /\ approval'.status = approval.status
    BY <2>3 DEF QuorumReached, OutcomesKept
  <2>4. ASSUME NEW e \in EffectStatus, Report(e), ApprovalOnly
        PROVE  UNCHANGED <<revisions, votes>> /\ approval'.status = approval.status
    BY <2>4, ReportIsKept DEF ApprovalOnly
  <2>5. ASSUME NEW r \in Revision, ContinueMail(r)
        PROVE  UNCHANGED <<revisions, votes>> /\ approval'.status = approval.status
    BY <2>5, Basics DEF ContinueMail, ApprovalState
  <2>6. ASSUME NEW w \in Worker, Send(w)
        PROVE  UNCHANGED <<revisions, votes>> /\ approval'.status = approval.status
    <3>1. "failed" \in EffectStatus /\ "executed" \in EffectStatus
      BY DEF EffectStatus
    <3> QED BY <2>4, <2>6, <3>1 DEF Send, Proceed, Claim, PrepareNothing, PrepareThrows, PrepareInterrupted,
               PrepareCancelled, PrepareUnavailable, PrepareSend, CallProvider, RecordSent,
               RecordFailure, Finish, Fail, Crash, approvalVars
  <2>7. ASSUME NEW m \in Member, NEW o \in Mail, SettleSent(m, o)
        PROVE  UNCHANGED <<revisions, votes>> /\ approval'.status = approval.status
    <3>1. "executed" \in EffectStatus
      BY DEF EffectStatus
    <3> QED BY <2>4, <2>7, <3>1 DEF SettleSent, approvalVars
  <2>8. ASSUME NEW m \in Member, NEW o \in Mail, SettleNotSent(m, o)
        PROVE  QuorumReached /\ OutcomesKept
    BY <2>0, <2>8, WriteRevisionKeepsOutcomes DEF SettleNotSent
  <2>9. ~Connect /\ ~Disconnect /\ (\A o \in Mail : ~Expire(o)) /\ \A i \in Recipient : ~Suppress(i)
    BY DEF Connect, Disconnect, Expire, Suppress
  <2> QED BY <2>0, <2>1, <2>2, <2>3, <2>5, <2>6, <2>7, <2>8, <2>9 DEF OutboundNext
<1>2. OutboundSpec => [][QuorumReached]_approvalVars /\ [][OutcomesKept]_approvalVars
  BY <1>1, MailInvariant, PTL DEF OutboundSpec
<1> QED BY <1>2 DEF ApprovedByQuorum, OutcomesStand, QuorumReached, OutcomesKept

-----------------------------------------------------------------------------
(* RunPlan *)

RunState == [status : {"none", "working"} \cup RunOver, attempt : 0..(RetryCap + 1),
             stop : BOOLEAN, of : Revision \cup {0}]
BudgetState == [state : {"none", "active", "exhausted", "closed", "cancelled"},
                reserved : Nat, actual : Nat, calls : Nat]
Says == {"nothing", "usage", "rejected"}
CallState == [at : {"none", "reserved", "answered", "settled", "lost"}, bound : Nat,
              used : Nat, says : Says]
IntentState == {"none", "pending_authorization", "admitted"} \cup Blocked \cup IntentOver

(* What was charged, beside what is consumed or reserved for it. *)
CallInv ==
  /\ budget \in BudgetState /\ call \in [ModelCall -> CallState] /\ billed \in Nat
  /\ \A k \in ModelCall : /\ call[k].used <= call[k].bound
                          /\ call[k].says = "rejected" => call[k].used = 0
                          /\ call[k].at \in {"none", "reserved"} => call[k].used = 0
  /\ \A k, l \in Held : k = l
  /\ Held = {} => budget.reserved = 0 /\ billed <= budget.actual
  /\ \A k \in Held : budget.reserved = call[k].bound /\ billed <= budget.actual + call[k].used
  /\ budget.actual + budget.reserved <= TokenCap

(* Every call that was made is counted. *)
Made == {k \in ModelCall : call[k].at # "none"}
CountInv == IsFiniteSet(Made) /\ Cardinality(Made) = budget.calls /\ budget.calls <= CallCap

SpendInv == CallInv /\ CountInv

USE BudgetAssumption

-----------------------------------------------------------------------------
(* The budget *)

(* A budget and calls that stay, but for the budget's state, stay within bounds. *)
LEMMA StateOnlyKeeps ==
  ASSUME SpendInv, UNCHANGED <<call, billed>>, budget' \in BudgetState,
         budget'.reserved = budget.reserved, budget'.actual = budget.actual,
         budget'.calls = budget.calls
  PROVE  SpendInv'
  BY DEF SpendInv, CallInv, CountInv, Made, Held

LEMMA ReserveKeeps ==
  ASSUME SpendInv, NEW k \in ModelCall, NEW bound \in 1..MaxBound, Reserve(k, bound)
  PROVE  SpendInv'
<1> DEFINE new == [NoCall EXCEPT !.at = "reserved", !.bound = bound]
<1>1. /\ call[k].at = "none" /\ Held = {} /\ budget.calls < CallCap
      /\ budget.actual + budget.reserved + bound <= TokenCap
      /\ call' = [call EXCEPT ![k] = new] /\ billed' = billed
  BY DEF Reserve, MayReserve
<1>2. budget \in BudgetState /\ call \in [ModelCall -> CallState]
  BY DEF SpendInv, CallInv
<1>0. bound \in Nat
  OBVIOUS
<1>3. /\ budget' \in BudgetState
      /\ budget'.reserved = budget.reserved + bound /\ budget'.actual = budget.actual
      /\ budget'.calls = budget.calls + 1
  <2> DEFINE st == IF budget.calls + 1 >= CallCap THEN "exhausted" ELSE budget.state
  <2>1. st \in {"none", "active", "exhausted", "closed", "cancelled"}
        /\ budget.reserved + bound \in Nat /\ budget.calls + 1 \in Nat
    BY <1>0, <1>2 DEF BudgetState
  <2>2. budget' = [budget EXCEPT !.reserved = budget.reserved + bound, !.calls = budget.calls + 1,
                                 !.state = st]
    BY DEF Reserve
  <2> HIDE DEF st
  <2> QED BY <1>2, <2>1, <2>2 DEF BudgetState
<1>4. /\ new \in CallState /\ new.used = 0 /\ new.bound = bound /\ new.says = "nothing"
      /\ new.at = "reserved"
  <2>1. NoCall \in CallState /\ NoCall.used = 0 /\ NoCall.says = "nothing"
    BY DEF NoCall, CallState, Says
  <2> QED BY <1>0, <2>1 DEF CallState
<1> HIDE DEF new
<1>5. \A l \in ModelCall : call'[l] = IF l = k THEN new ELSE call[l]
  BY <1>1, <1>2
<1>6. Held' = {k}
  BY <1>1, <1>4, <1>5 DEF Held
<1>7. CallInv'
  <2>1. budget.reserved = 0 /\ billed <= budget.actual
    BY <1>1 DEF SpendInv, CallInv
  <2>2. call' \in [ModelCall -> CallState]
    BY <1>1, <1>2, <1>4
  <2>3. \A l \in ModelCall : /\ call'[l].used <= call'[l].bound
                             /\ call'[l].says = "rejected" => call'[l].used = 0
                             /\ call'[l].at \in {"none", "reserved"} => call'[l].used = 0
    BY <1>4, <1>5 DEF SpendInv, CallInv
  <2>4. call'[k].used = 0 /\ call'[k].bound = bound
    BY <1>4, <1>5
  <2>5. budget'.reserved = bound /\ billed' <= budget'.actual + 0
        /\ budget'.actual + budget'.reserved <= TokenCap /\ billed' \in Nat
    BY <1>1, <1>2, <1>3, <2>1 DEF SpendInv, CallInv, BudgetState
  <2> QED BY <1>3, <1>6, <2>2, <2>3, <2>4, <2>5 DEF CallInv
<1>8. CountInv'
  <2>1. Made' = Made \cup {k} /\ k \notin Made
    BY <1>1, <1>4, <1>5 DEF Made
  <2>2. IsFiniteSet(Made') /\ Cardinality(Made') = Cardinality(Made) + 1
    BY <2>1, FS_AddElement DEF SpendInv, CountInv
  <2> QED BY <1>1, <1>2, <1>3, <2>2 DEF SpendInv, CountInv, BudgetState
<1> QED BY <1>7, <1>8 DEF SpendInv

(* The call that is out, and what the others were, when one call changes. *)
LEMMA CallChanges ==
  ASSUME SpendInv, NEW k \in Held, NEW new \in CallState, call' = [call EXCEPT ![k] = new],
         new.at \in {"answered", "settled", "lost"},
         new.used <= new.bound, new.says = "rejected" => new.used = 0
  PROVE  /\ call' \in [ModelCall -> CallState]
         /\ \A l \in ModelCall : /\ call'[l].used <= call'[l].bound
                                 /\ call'[l].says = "rejected" => call'[l].used = 0
                                 /\ call'[l].at \in {"none", "reserved"} => call'[l].used = 0
         /\ Held' = IF new.at = "settled" THEN {} ELSE {k}
         /\ call'[k] = new
         /\ Made' = Made
<1>1. call \in [ModelCall -> CallState] /\ k \in ModelCall /\ Held = {k}
  BY DEF SpendInv, CallInv, Held
<1>2. \A l \in ModelCall : call'[l] = IF l = k THEN new ELSE call[l]
  BY <1>1
<1>3. Held' = IF new.at = "settled" THEN {} ELSE {k}
  BY <1>1, <1>2 DEF Held
<1>4. Made' = Made
  BY <1>1, <1>2 DEF Made, Held
<1> QED BY <1>1, <1>2, <1>3, <1>4 DEF SpendInv, CallInv

LEMMA AnsweredKeeps ==
  ASSUME SpendInv, NEW k \in ModelCall, NEW used \in 0..MaxBound, NEW says \in Says,
         Answered(k, used, says)
  PROVE  SpendInv'
<1> DEFINE new == [call[k] EXCEPT !.at = "answered", !.used = used, !.says = says]
<1>1. /\ call[k].at = "reserved" /\ used <= call[k].bound /\ (says = "rejected" => used = 0)
      /\ call' = [call EXCEPT ![k] = new] /\ billed' = billed + used /\ budget' = budget
  BY DEF Answered
<1>2. call[k] \in CallState /\ k \in Held /\ call[k].used = 0 /\ budget \in BudgetState
      /\ billed \in Nat
  BY <1>1 DEF SpendInv, CallInv, Held
<1>3. new \in CallState /\ new.at = "answered" /\ new.used = used /\ new.says = says
      /\ new.bound = call[k].bound
  <2>1. used \in Nat
    OBVIOUS
  <2> QED BY <1>2, <2>1 DEF CallState
<1> HIDE DEF new
<1>4. budget.reserved = call[k].bound /\ billed <= budget.actual + 0
  BY <1>2 DEF SpendInv, CallInv
<1>5. /\ call' \in [ModelCall -> CallState]
      /\ \A l \in ModelCall : /\ call'[l].used <= call'[l].bound
                              /\ call'[l].says = "rejected" => call'[l].used = 0
                              /\ call'[l].at \in {"none", "reserved"} => call'[l].used = 0
      /\ Held' = {k} /\ call'[k] = new /\ Made' = Made
  BY <1>1, <1>2, <1>3, CallChanges
<1>6. billed' \in Nat /\ billed' <= budget'.actual + call'[k].used
      /\ budget'.reserved = call'[k].bound
  BY <1>1, <1>2, <1>3, <1>4, <1>5 DEF BudgetState
<1>7. CallInv'
  BY <1>1, <1>5, <1>6 DEF SpendInv, CallInv
<1> QED BY <1>1, <1>5, <1>7 DEF SpendInv, CountInv

(* A settlement consumes no less than was charged. *)
LEMMA SettleCallKeeps ==
  ASSUME SpendInv, NEW k \in ModelCall, SettleCall(k)
  PROVE  SpendInv'
<1> DEFINE new == [call[k] EXCEPT !.at = "settled"]
<1> DEFINE c == Consumed(call[k])
<1>1. call[k].at = "answered" /\ call' = [call EXCEPT ![k] = new] /\ billed' = billed
  BY DEF SettleCall
<1>2. call[k] \in CallState /\ k \in Held /\ budget \in BudgetState /\ billed \in Nat
  BY <1>1 DEF SpendInv, CallInv, Held
<1>3. new \in CallState /\ new.at = "settled" /\ new.used = call[k].used
      /\ new.says = call[k].says /\ new.bound = call[k].bound
  BY <1>2 DEF CallState
<1>4. /\ call[k].used <= call[k].bound /\ (call[k].says = "rejected" => call[k].used = 0)
      /\ budget.reserved = call[k].bound /\ billed <= budget.actual + call[k].used
      /\ budget.actual + budget.reserved <= TokenCap
  BY <1>2 DEF SpendInv, CallInv
<1>5. c \in Nat /\ call[k].used <= c /\ c <= call[k].bound
  BY <1>2, <1>4 DEF Consumed, CallState
<1> HIDE DEF new, c
<1>6. /\ call' \in [ModelCall -> CallState]
      /\ \A l \in ModelCall : /\ call'[l].used <= call'[l].bound
                              /\ call'[l].says = "rejected" => call'[l].used = 0
                              /\ call'[l].at \in {"none", "reserved"} => call'[l].used = 0
      /\ Held' = {} /\ Made' = Made
  BY <1>1, <1>2, <1>3, <1>4, CallChanges
<1>7. /\ budget.reserved - call[k].bound = 0 /\ budget.actual + c \in Nat
  BY <1>2, <1>4, <1>5 DEF BudgetState, CallState
<1>8. /\ budget' \in BudgetState
      /\ budget'.reserved = 0 /\ budget'.actual = budget.actual + c /\ budget'.calls = budget.calls
  <2> DEFINE st == IF budget.state \in {"closed", "cancelled"} THEN budget.state
                   ELSE IF budget.actual + c >= TokenCap \/ budget.calls >= CallCap
                        THEN "exhausted" ELSE "active"
  <2>1. st \in {"none", "active", "exhausted", "closed", "cancelled"}
    BY <1>2 DEF BudgetState
  <2>2. budget' = [budget EXCEPT !.reserved = budget.reserved - call[k].bound,
                                 !.actual = budget.actual + c, !.state = st]
    BY DEF SettleCall, c
  <2> HIDE DEF st
  <2>3. budget' = [budget EXCEPT !.reserved = 0, !.actual = budget.actual + c, !.state = st]
    BY <1>7, <2>2
  <2> QED BY <1>2, <1>7, <2>1, <2>3 DEF BudgetState
<1>9. billed' <= budget'.actual /\ budget'.actual + budget'.reserved <= TokenCap
  BY <1>1, <1>2, <1>4, <1>5, <1>8 DEF BudgetState, CallState
<1>10. CallInv'
  BY <1>1, <1>2, <1>6, <1>8, <1>9 DEF CallInv
<1> QED BY <1>6, <1>8, <1>10 DEF SpendInv, CountInv

LEMMA CallLostKeeps ==
  ASSUME SpendInv, NEW k \in ModelCall, CallLost(k)
  PROVE  SpendInv'
<1> DEFINE new == [call[k] EXCEPT !.at = "lost"]
<1>1. /\ call[k].at \in {"reserved", "answered"} /\ call' = [call EXCEPT ![k] = new]
      /\ UNCHANGED <<budget, billed>>
  BY DEF CallLost
<1>2. call[k] \in CallState /\ k \in Held
  BY <1>1 DEF SpendInv, CallInv, Held
<1>3. new \in CallState /\ new.at = "lost" /\ new.used = call[k].used
      /\ new.says = call[k].says /\ new.bound = call[k].bound
  BY <1>2 DEF CallState
<1>4. call[k].used <= call[k].bound /\ (call[k].says = "rejected" => call[k].used = 0)
  BY <1>2 DEF SpendInv, CallInv
<1> HIDE DEF new
<1>5. /\ call' \in [ModelCall -> CallState]
      /\ \A l \in ModelCall : /\ call'[l].used <= call'[l].bound
                              /\ call'[l].says = "rejected" => call'[l].used = 0
                              /\ call'[l].at \in {"none", "reserved"} => call'[l].used = 0
      /\ Held' = {k} /\ call'[k] = new /\ Made' = Made
  BY <1>1, <1>2, <1>3, <1>4, CallChanges
<1>6. CallInv'
  BY <1>1, <1>2, <1>3, <1>5 DEF SpendInv, CallInv
<1> QED BY <1>1, <1>5, <1>6 DEF SpendInv, CountInv

-----------------------------------------------------------------------------
(* The run of a plan *)

RunTypes ==
  /\ intent \in [Revision -> IntentState]
  /\ planJob \in [Revision -> {"none", "due", "done"}]
  /\ planRun \in RunState
  /\ admissions \in Nat

(* The intent is of the first revision, and is admitted with the run. *)
IntentInv ==
  /\ \A r \in Revision : r # 1 => intent[r] = "none"
  /\ planRun.status = "none" => admissions = 0 /\ intent[1] # "admitted"
  /\ planRun.status # "none" =>
       /\ admissions = 1 /\ planRun.of = 1 /\ intent[1] \in {"admitted"} \cup IntentOver
       /\ approval.revision = 1 /\ approval.status = "approved"

(* When the intent is over, so are the run, its budget and the work. *)
OverInv ==
  planRun.status # "none" /\ intent[1] # "admitted" =>
    /\ planRun.status \in RunOver /\ budget.state \in {"closed", "cancelled"}
    /\ approval.work \in {"completed", "cancelled"}

PlanInv == IInv /\ SpendInv /\ RunTypes /\ IntentInv /\ OverInv

LEMMA PlanBasics ==
  ASSUME PlanInv
  PROVE  /\ 1 \in Revision /\ approval \in ApprovalState /\ budget \in BudgetState
         /\ \A r \in Revision : intent[r] # "none" => r = 1
  BY PolicyAssumption, TypesNamed DEF PlanInv, SpendInv, CallInv, IInv, IntentInv, Revision

(* Nobody reopens an approved plan. *)
LEMMA QuietOfApproved ==
  ASSUME ApprovalsQuiet, approval.status = "approved"
  PROVE  approval' = approval
  BY DEF ApprovalsQuiet, ApprovalStep, CastVote, Refuse, MayDecide, Revise, Route, MemberChanges,
         MarkExpired, Lapse

(* The work shown changes, and nothing of the decision. *)
LEMMA WorkKeeps ==
  ASSUME PlanInv, NEW s \in WorkStatus, Work(s)
  PROVE  /\ IInv' /\ approval'.work = s
         /\ approval'.revision = approval.revision /\ approval'.status = approval.status
<1>1. approval \in ApprovalState
  BY PlanBasics
<1>2. approval' = [approval EXCEPT !.work = s]
  BY DEF Work
<1>3. /\ approval' \in ApprovalState /\ approval'.work = s
      /\ approval'.revision = approval.revision /\ approval'.status = approval.status
  BY <1>1, <1>2 DEF ApprovalState
<1> QED BY <1>3, ReportKeeps DEF PlanInv, Work, DecisionOnly

LEMMA ApprovalStays ==
  ASSUME PlanInv, UNCHANGED approvalVars
  PROVE  IInv' /\ approval' = approval
  BY StutterKeeps DEF PlanInv, approvalVars

(* Budget, calls and charges as they were. *)
LEMMA RunOnlyKeeps ==
  ASSUME PlanInv, RunOnly
  PROVE  SpendInv' /\ budget' = budget
  BY StateOnlyKeeps, PlanBasics DEF PlanInv, RunOnly

LEMMA DecisionKeepsPlan ==
  ASSUME PlanInv, ApprovalsQuiet, UNCHANGED planVars
  PROVE  PlanInv'
<1>1. IInv'
  BY QuietKeeps DEF PlanInv
<1>2. UNCHANGED <<intent, planJob, planRun, budget, call, billed, admissions>>
  BY DEF planVars
<1>3. SpendInv'
  BY <1>2 DEF PlanInv, SpendInv, CallInv, CountInv, Made, Held
<1>4. planRun.status # "none" => approval' = approval
  BY QuietOfApproved DEF PlanInv, IntentInv
<1> QED BY <1>1, <1>2, <1>3, <1>4 DEF PlanInv, RunTypes, IntentInv, OverInv

LEMMA FinalizePlanKeeps ==
  ASSUME PlanInv, NEW m \in Member, NEW read \in Revision, FinalizePlan(m, read)
  PROVE  PlanInv'
<1>1. FinalVote(m, read) /\ UNCHANGED <<intent, planRun, budget, call, billed, admissions>>
  BY DEF FinalizePlan
<1>2. IInv'
  BY <1>1, FinalVoteKeeps DEF PlanInv
<1>3. planRun.status = "none"
  BY <1>1 DEF FinalVote, MayDecide, PlanInv, IntentInv
<1>4. SpendInv'
  BY <1>1 DEF PlanInv, SpendInv, CallInv, CountInv, Made, Held
<1>5. RunTypes'
  BY <1>1 DEF FinalizePlan, PlanInv, RunTypes
<1> QED BY <1>1, <1>2, <1>3, <1>4, <1>5 DEF PlanInv, IntentInv, OverInv

(* The job, at whatever it finds. *)
LEMMA AdmitKeeps ==
  ASSUME PlanInv, NEW r \in Revision, AdmitStep(r)
  PROVE  PlanInv'
<1>0. planJob \in [Revision -> {"none", "due", "done"}] /\ intent \in [Revision -> IntentState]
      /\ planRun \in RunState /\ admissions \in Nat
  BY DEF PlanInv, RunTypes
<1>1. CASE AdmitNothing(r)
  <2>1. ~BoundTo(r) \/ planRun.status = "none"
    BY <1>1, PlanBasics DEF AdmitNothing, BoundTo, PlanInv, IntentInv, IntentOver, Refusal
  <2>2. IInv' /\ (planRun.status # "none" => approval' = approval)
    <3>1. "completed" \in WorkStatus
      BY DEF WorkStatus
    <3> QED BY <1>1, <2>1, <3>1, WorkKeeps, ApprovalStays DEF AdmitNothing
  <2>3. SpendInv' /\ budget' = budget
    BY <1>1, RunOnlyKeeps DEF AdmitNothing
  <2>4. RunTypes'
    BY <1>0, <1>1 DEF AdmitNothing, JobMayEnd, RunTypes
  <2>5. UNCHANGED <<intent, planRun, admissions>>
    BY <1>1 DEF AdmitNothing
  <2> QED BY <2>2, <2>3, <2>4, <2>5 DEF PlanInv, IntentInv, OverInv
<1>2. ASSUME Open(r) PROVE r = 1 /\ planRun.status = "none" /\ intent[1] = intent[r]
  BY <1>2, PlanBasics DEF Open, Blocked, PlanInv, IntentInv, IntentOver, Refusal
<1>3. ASSUME NEW why \in Refusal \cup Blocked, NEW s \in WorkStatus, Open(r),
             intent' = [intent EXCEPT ![r] = why], Work(s), RunOnly,
             UNCHANGED <<planRun, admissions>>, planJob' \in {planJob, [planJob EXCEPT ![r] = "done"]}
      PROVE  PlanInv'
  <2>1. IInv'
    BY <1>3, WorkKeeps
  <2>2. SpendInv'
    BY <1>3, RunOnlyKeeps
  <2>3. why \in IntentState /\ why # "admitted"
    BY DEF IntentState, IntentOver, Refusal, Blocked
  <2>4. RunTypes'
    BY <1>0, <1>3, <2>3 DEF RunTypes
  <2>5. \A q \in Revision : intent'[q] = IF q = 1 THEN why ELSE intent[q]
    BY <1>0, <1>2, <1>3
  <2>6. IntentInv' /\ OverInv'
    BY <1>2, <1>3, <2>3, <2>5, PlanBasics DEF PlanInv, IntentInv, OverInv
  <2> QED BY <2>1, <2>2, <2>4, <2>6 DEF PlanInv
<1>4. ASSUME NEW why \in Refusal, AdmitRefused(r, why) PROVE PlanInv'
  <2>1. "cancelled" \in WorkStatus
    BY DEF WorkStatus
  <2> QED BY <1>3, <1>4, <2>1 DEF AdmitRefused, JobMayEnd
<1>5. ASSUME NEW why \in Blocked, AdmitBlocked(r, why) PROVE PlanInv'
  <2>1. "waiting" \in WorkStatus
    BY DEF WorkStatus
  <2> QED BY <1>3, <1>5, <2>1 DEF AdmitBlocked
<1>6. CASE Admit(r)
  <2>1. Open(r) /\ BoundTo(r) /\ Work("admitted")
    BY <1>6 DEF Admit, Admitting
  <2>2. "admitted" \in WorkStatus /\ "admitted" \in IntentState
    BY DEF WorkStatus, IntentState
  <2>3. /\ IInv' /\ approval'.revision = 1 /\ approval'.status = "approved"
    BY <1>2, <2>1, <2>2, WorkKeeps DEF BoundTo
  <2>4. /\ budget' \in BudgetState
        /\ budget'.reserved = budget.reserved /\ budget'.actual = budget.actual
        /\ budget'.calls = budget.calls
    BY <1>6, PlanBasics DEF Admit, BudgetState
  <2>5. SpendInv'
    BY <1>6, <2>4, StateOnlyKeeps DEF Admit, PlanInv
  <2>6. planRun' \in RunState /\ planRun'.of = 1 /\ planRun'.status = "working"
    BY <1>2, <1>6, <2>1 DEF Admit, RunState
  <2>7. RunTypes'
    BY <1>0, <1>6, <2>2, <2>6 DEF Admit, RunTypes
  <2>8. \A q \in Revision : intent'[q] = IF q = 1 THEN "admitted" ELSE intent[q]
    BY <1>0, <1>2, <1>6, <2>1 DEF Admit
  <2>9. admissions' = 1
    BY <1>2, <1>6, <2>1 DEF Admit, PlanInv, IntentInv
  <2>10. IntentInv' /\ OverInv'
    BY <2>3, <2>6, <2>8, <2>9, PlanBasics DEF PlanInv, IntentInv, OverInv
  <2> QED BY <2>3, <2>5, <2>7, <2>10 DEF PlanInv
<1>7. CASE AdmitReplayed(r)
  <2>1. IInv' /\ approval' = approval
    BY <1>7, ApprovalStays DEF AdmitReplayed, approvalVars
  <2>2. SpendInv' /\ budget' = budget
    BY <1>7, RunOnlyKeeps DEF AdmitReplayed
  <2>3. RunTypes'
    BY <1>0, <1>7 DEF AdmitReplayed, RunTypes
  <2>4. UNCHANGED <<intent, planRun, admissions>>
    BY <1>7 DEF AdmitReplayed
  <2> QED BY <2>1, <2>2, <2>3, <2>4 DEF PlanInv, IntentInv, OverInv
<1> QED BY <1>1, <1>4, <1>5, <1>6, <1>7 DEF AdmitStep

(* The engine's end of the run, projected: the intent, the budget and the work end
   together, unless a retry may still come. *)
LEMMA EngineEndsKeeps ==
  ASSUME PlanInv, NEW status \in RunOver, EngineEnds(status)
  PROVE  PlanInv'
<1> DEFINE run == IF planRun.status = "working" THEN [planRun EXCEPT !.status = status] ELSE planRun
<1>0. /\ planRun \in RunState /\ intent \in [Revision -> IntentState]
      /\ planRun.status # "none" /\ planRun.of = 1 /\ admissions = 1
      /\ intent[1] \in {"admitted"} \cup IntentOver
      /\ approval.revision = 1 /\ approval.status = "approved"
  BY DEF EngineEnds, PlanInv, RunTypes, IntentInv
<1>1. /\ planRun' = run /\ Project(run)
      /\ UNCHANGED <<planJob, call, billed, admissions>>
  BY DEF EngineEnds
<1>2. run \in RunState /\ run.status \in RunOver /\ run.of = 1
  <2>1. RunOver \subseteq {"none", "working"} \cup RunOver
    OBVIOUS
  <2> QED BY <1>0, <2>1 DEF RunState, RunOver
<1> HIDE DEF run
<1>3. CASE intent[1] # "admitted"
  <2>1. UNCHANGED <<approvalVars, intent, budget>>
    BY <1>1, <1>2, <1>3 DEF Project
  <2>2. SpendInv'
    BY <1>1, <2>1, StateOnlyKeeps, PlanBasics DEF PlanInv
  <2>3. IInv' /\ approval' = approval
    BY <2>1, ApprovalStays
  <2> QED BY <1>0, <1>1, <1>2, <1>3, <2>1, <2>2, <2>3 DEF PlanInv, RunTypes, IntentInv, OverInv, RunOver
<1>4. CASE intent[1] = "admitted"
  <2> DEFINE keeps == run.status = "error" /\ Retryable(run)
  <2> DEFINE as == CASE run.status = "completed" -> "completed" [] run.status = "stopped" -> "cancelled"
                     [] OTHER -> "failed"
  <2> DEFINE work == IF keeps THEN "admitted"
                     ELSE IF run.status = "completed" THEN "completed" ELSE "cancelled"
  <2>1. /\ intent' = IF keeps THEN intent ELSE [intent EXCEPT ![1] = as]
        /\ budget' = IF keeps THEN budget
                     ELSE [budget EXCEPT !.state = IF run.status = "completed" THEN "closed" ELSE "cancelled"]
        /\ Work(work)
    BY <1>0, <1>1, <1>2, <1>4 DEF Project
  <2>2. work \in WorkStatus /\ (~keeps => work \in {"completed", "cancelled"})
    BY DEF WorkStatus
  <2>3. as \in IntentOver
    BY DEF IntentOver, Refusal
  <2> HIDE DEF keeps, as, work
  <2>4. /\ IInv' /\ approval'.work = work
        /\ approval'.revision = 1 /\ approval'.status = "approved"
    BY <1>0, <2>1, <2>2, WorkKeeps
  <2>5. /\ budget' \in BudgetState
        /\ budget'.reserved = budget.reserved /\ budget'.actual = budget.actual
        /\ budget'.calls = budget.calls
        /\ ~keeps => budget'.state \in {"closed", "cancelled"}
    BY <2>1, PlanBasics DEF BudgetState
  <2>6. SpendInv'
    BY <1>1, <2>5, StateOnlyKeeps DEF PlanInv
  <2>7. /\ intent' \in [Revision -> IntentState]
        /\ \A q \in Revision : q # 1 => intent'[q] = intent[q]
        /\ intent'[1] = IF keeps THEN "admitted" ELSE as
    BY <1>0, <1>4, <2>1, <2>3, PlanBasics DEF IntentState
  <2>8. RunTypes'
    BY <1>1, <1>2, <2>7 DEF PlanInv, RunTypes
  <2>9. IntentInv'
    BY <1>0, <1>1, <1>2, <2>3, <2>4, <2>7 DEF PlanInv, IntentInv, RunOver
  <2>10. OverInv'
    BY <1>1, <1>2, <2>2, <2>4, <2>5, <2>7 DEF OverInv
  <2> QED BY <2>4, <2>6, <2>8, <2>9, <2>10 DEF PlanInv
<1> QED BY <1>3, <1>4

(* The run moves and the approval is not told. *)
LEMMA RunMovesKeeps ==
  ASSUME PlanInv, planRun.status # "none", planRun' \in RunState,
         planRun'.status # "none", planRun'.of = planRun.of,
         planRun'.status \in RunOver \/ intent[1] = "admitted",
         UNCHANGED <<approvalVars, intent, planJob, admissions>>, RunOnly
  PROVE  PlanInv'
<1>1. IInv' /\ approval' = approval
  BY ApprovalStays
<1>2. SpendInv' /\ budget' = budget
  BY RunOnlyKeeps
<1>3. RunTypes'
  BY DEF PlanInv, RunTypes
<1> QED BY <1>1, <1>2, <1>3 DEF PlanInv, IntentInv, OverInv

LEMMA RunKeeps ==
  ASSUME PlanInv,
         \/ \E status \in {"stopped", "error"} : SweepEnds(status)
         \/ StopPlan \/ RetryPlan
  PROVE  PlanInv'
<1>0. /\ planRun \in RunState /\ (planRun.status # "none" => planRun.of = 1)
      /\ planRun.status = "working" => intent[1] = "admitted"
  BY DEF PlanInv, RunTypes, IntentInv, OverInv, RunOver
<1>1. ASSUME NEW status \in {"stopped", "error"}, SweepEnds(status) PROVE PlanInv'
  <2>1. planRun' = [planRun EXCEPT !.status = status] /\ planRun.status = "working"
    BY <1>1 DEF SweepEnds
  <2>2. status \in RunOver /\ status # "none"
    BY DEF RunOver
  <2>3. planRun' \in RunState /\ planRun'.status = status /\ planRun'.of = planRun.of
    BY <1>0, <2>1, <2>2 DEF RunState
  <2> QED BY <1>1, <2>1, <2>2, <2>3, RunMovesKeeps DEF SweepEnds
<1>2. CASE StopPlan
  <2>1. planRun' \in RunState /\ planRun'.status = "working" /\ planRun'.of = planRun.of
    BY <1>0, <1>2 DEF StopPlan, RunState
  <2> QED BY <1>0, <1>2, <2>1, RunMovesKeeps DEF StopPlan
<1>3. CASE RetryPlan
  <2>1. planRun.status \in {"error", "stopped"} /\ planRun.attempt + 1 <= RetryCap + 1
        /\ intent[planRun.of] = "admitted"
    BY <1>3 DEF RetryPlan, RetryAllowed
  <2>2. planRun.attempt + 1 \in 0..(RetryCap + 1)
    BY <1>0, <2>1 DEF RunState
  <2>3. planRun' = [planRun EXCEPT !.status = "working", !.attempt = planRun.attempt + 1, !.stop = FALSE]
    BY <1>3 DEF RetryPlan
  <2>4. planRun' \in RunState /\ planRun'.status = "working" /\ planRun'.of = planRun.of
    BY <1>0, <2>2, <2>3 DEF RunState
  <2> QED BY <1>0, <1>3, <2>1, <2>4, RunMovesKeeps DEF RetryPlan
<1> QED BY <1>1, <1>2, <1>3

(* A call changes the budget only of a run that is not over. *)
LEMMA CallKeepsPlan ==
  ASSUME PlanInv, NEW k \in ModelCall, CallStep(k)
  PROVE  PlanInv'
<1>1. SpendInv'
  BY ReserveKeeps, AnsweredKeeps, SettleCallKeeps, CallLostKeeps DEF CallStep, Says, PlanInv
<1>2. CallOnly
  BY DEF CallStep, Reserve, Answered, SettleCall, CallLost, CallOnly
<1>3. IInv' /\ approval' = approval
  BY <1>2, ApprovalStays DEF CallOnly
<1>4. planRun.status # "none" /\ intent[1] # "admitted" => budget'.state = budget.state
  <2> SUFFICES ASSUME planRun.status # "none", intent[1] # "admitted"
               PROVE  budget'.state = budget.state
    OBVIOUS
  <2>1. planRun.of = 1 /\ budget.state \in {"closed", "cancelled"} /\ budget \in BudgetState
    BY PlanBasics DEF PlanInv, IntentInv, OverInv
  <2>2. \A bound \in 1..MaxBound : ~Reserve(k, bound)
    BY <2>1 DEF Reserve, MayReserve
  <2>3. SettleCall(k) => budget'.state = budget.state
    BY <2>1 DEF SettleCall, BudgetState
  <2> QED BY <2>2, <2>3 DEF CallStep, Answered, CallLost
<1>5. RunTypes'
  BY <1>2 DEF CallOnly, PlanInv, RunTypes
<1> QED BY <1>1, <1>2, <1>3, <1>4, <1>5 DEF CallOnly, PlanInv, IntentInv, OverInv

-----------------------------------------------------------------------------
(* Theorems *)

LEMMA PlanStep == PlanInv /\ [PlanNext]_workVars => PlanInv'
<1> SUFFICES ASSUME PlanInv, [PlanNext]_workVars PROVE PlanInv'
  OBVIOUS
<1>1. CASE UNCHANGED workVars
  <2>1. IInv' /\ approval' = approval
    BY <1>1, ApprovalStays DEF workVars
  <2>2. UNCHANGED <<intent, planJob, planRun, budget, call, billed, admissions>>
    BY <1>1 DEF workVars, planVars
  <2>3. SpendInv'
    BY <2>2, StateOnlyKeeps, PlanBasics DEF PlanInv
  <2> QED BY <2>1, <2>2, <2>3 DEF PlanInv, RunTypes, IntentInv, OverInv
<1>2. CASE PlanNext
  BY <1>2, DecisionKeepsPlan, FinalizePlanKeeps, AdmitKeeps, EngineEndsKeeps, RunKeeps, CallKeepsPlan
     DEF PlanNext
<1> QED BY <1>1, <1>2

LEMMA PlanInits == ApprovalsInit /\ PlanInit => PlanInv
<1> SUFFICES ASSUME ApprovalsInit, PlanInit PROVE PlanInv
  OBVIOUS
<1>1. IInv
  BY InitKeeps
<1>2. /\ NoCall \in CallState /\ NoCall.at = "none" /\ NoCall.used = 0 /\ NoCall.bound = 0
      /\ NoCall.says = "nothing"
  BY DEF NoCall, CallState, Says
<1>3. \A k \in ModelCall : call[k] = NoCall
  BY DEF PlanInit
<1>4. Held = {} /\ Made = {}
  BY <1>2, <1>3 DEF Held, Made
<1>5. budget \in BudgetState /\ budget.reserved = 0 /\ budget.actual = 0 /\ budget.calls = 0
  BY DEF PlanInit, BudgetState
<1>6. SpendInv
  BY <1>2, <1>3, <1>4, <1>5, FS_EmptySet DEF PlanInit, SpendInv, CallInv, CountInv
<1>7. RunTypes
  BY DEF PlanInit, RunTypes, RunState, IntentState
<1>8. 1 \in Revision
  BY PolicyAssumption DEF Revision
<1> QED BY <1>1, <1>6, <1>7, <1>8 DEF PlanInit, PlanInv, IntentInv, OverInv

LEMMA PlanInvariant == PlanSpec => []PlanInv
  BY PlanInits, PlanStep, PTL DEF PlanSpec

LEMMA PlanTyped == PlanInv => PlanTypeOK
  BY DEF PlanInv, SpendInv, CallInv, RunTypes, PlanTypeOK, RunState, BudgetState, CallState, Says,
         IntentState

(* PlanTypeOK always holds: a run is retried retries_included times at most. *)
THEOREM PlanTyping == PlanSpec => []PlanTypeOK
<1> QED BY PlanTyped, PlanInvariant, PTL

(* WithinBudget always holds: what was charged is never more than what is consumed or
   still reserved for it, which reserve_approval_model_budget keeps within the caps. *)
THEOREM WithinBudgetAlways == PlanSpec => []WithinBudget
<1>1. PlanInv => WithinBudget
  <2> SUFFICES ASSUME PlanInv PROVE WithinBudget
    OBVIOUS
  <2>1. /\ budget \in BudgetState /\ call \in [ModelCall -> CallState] /\ billed \in Nat
        /\ budget.actual + budget.reserved <= TokenCap
    BY DEF PlanInv, SpendInv, CallInv
  <2>2. billed <= TokenCap
    <3>1. CASE Held = {}
      BY <2>1, <3>1 DEF PlanInv, SpendInv, CallInv, BudgetState
    <3>2. ASSUME NEW k \in Held PROVE billed <= TokenCap
      <4>1. /\ call[k] \in CallState /\ call[k].used <= call[k].bound
            /\ budget.reserved = call[k].bound /\ billed <= budget.actual + call[k].used
        BY <2>1 DEF Held, PlanInv, SpendInv, CallInv
      <4> QED BY <2>1, <4>1 DEF BudgetState, CallState
    <3> QED BY <3>1, <3>2
  <2>3. Cardinality(Made) <= CallCap
    BY DEF PlanInv, SpendInv, CountInv
  <2> QED BY <2>2, <2>3 DEF WithinBudget, Made
<1> QED BY <1>1, PlanInvariant, PTL

(* OneRunPerPlan always holds: the intent is admitted once, and its outcome closes the
   budget and the work, after which no retry is allowed. *)
THEOREM OneRunPerPlanAlways == PlanSpec => []OneRunPerPlan
<1>1. PlanInv => OneRunPerPlan
  BY DEF PlanInv, IntentInv, OverInv, OneRunPerPlan, IInv, RevisionIsCurrent
<1> QED BY <1>1, PlanInvariant, PTL
=============================================================================
