------------------------------ MODULE RunPlan ------------------------------
(***************************************************************************)
(* What an approved run plan continues, on top of Approvals: the job that  *)
(* admits the one run of the reviewed revision (runtime/continuation.ts),  *)
(* the budget each of its model calls is reserved from before it is made   *)
(* and settled into afterwards (runtime/bridge.ts and the functions of     *)
(* migrations/0023_approval_runtime.sql), its retries, and the projection  *)
(* of its end onto the approval.                                           *)
(*                                                                         *)
(* Each transaction locks the rows it decides on and is one action; a      *)
(* model call is reserved, made and settled in three, and its process may  *)
(* be lost between them.                                                   *)
(* Left out: the reasons of a refusal or a block (they are choices), what  *)
(* the plan says, cost next to tokens (bounded alike), and the Workflow    *)
(* instance, which RunControl has.                                         *)
(***************************************************************************)
EXTENDS Approvals

CONSTANTS
  ModelCall,  \* the model calls of the run
  TokenCap,   \* budget.total_token_cap
  CallCap,    \* budget.call_cap
  RetryCap,   \* budget.retries_included
  MaxBound    \* bound: the most tokens one call reserves

ASSUME BudgetAssumption ==
  TokenCap \in Nat /\ CallCap \in Nat \ {0} /\ RetryCap \in Nat /\ MaxBound \in Nat

VARIABLES
  intent,     \* approval_continuations.state of each revision, or none
  planJob,    \* its approval_continue job
  planRun,    \* the run admitted
  budget,     \* approval_runtime_budgets
  call,       \* approval_model_reservations, and where the call behind each is
  billed,     \* history: the tokens the provider has charged
  admissions  \* history: the runs inserted

planVars == <<intent, planJob, planRun, budget, call, billed, admissions>>
workVars == <<approvalVars, planVars>>

Refusal == {"expired", "cancelled", "failed"}
IntentOver == Refusal \cup {"completed"}
Blocked == {"blocked_profile", "blocked_dependencies"}
RunOver == {"completed", "stopped", "error"}

PlanTypeOK ==
  /\ intent \in [Revision -> {"none", "pending_authorization", "admitted"} \cup Blocked \cup IntentOver]
  /\ planJob \in [Revision -> {"none", "due", "done"}]
  /\ planRun \in [status : {"none", "working"} \cup RunOver, attempt : 0..(RetryCap + 1),
                  stop : BOOLEAN, of : Revision \cup {0}]
  /\ budget \in [state : {"none", "active", "exhausted", "closed", "cancelled"},
                 reserved : Nat, actual : Nat, calls : Nat]
  /\ call \in [ModelCall -> [at : {"none", "reserved", "answered", "settled", "lost"}, bound : Nat,
                        used : Nat, says : {"nothing", "usage", "rejected"}]]
  /\ billed \in Nat /\ admissions \in Nat

NoCall == [at |-> "none", bound |-> 0, used |-> 0, says |-> "nothing"]

PlanInit ==
  /\ intent = [r \in Revision |-> IF r = 1 THEN "pending_authorization" ELSE "none"]
  /\ planJob = [r \in Revision |-> "none"]
  /\ planRun = [status |-> "none", attempt |-> 0, stop |-> FALSE, of |-> 0]
  /\ budget = [state |-> "none", reserved |-> 0, actual |-> 0, calls |-> 0]
  /\ call = [k \in ModelCall |-> NoCall]
  /\ billed = 0 /\ admissions = 0

-----------------------------------------------------------------------------
(* finalizeApproval and the job it leaves *)

DecisionOnly == UNCHANGED <<revisions, votes, routes, active, lapsed>>
RunOnly == UNCHANGED <<budget, call, billed>>

FinalizePlan(m, read) ==
  /\ FinalVote(m, read)
  /\ planJob' = [planJob EXCEPT ![approval.revision] = "due"]
  /\ UNCHANGED <<intent, planRun, budget, call, billed, admissions>>

(* The job is done now, or was interrupted after its commit and runs again. *)
JobMayEnd(r) == planJob' \in {planJob, [planJob EXCEPT ![r] = "done"]}

BoundTo(r) == approval.status = "approved" /\ approval.revision = r
Work(status) == approval' = [approval EXCEPT !.work = status] /\ DecisionOnly

(* Only the revision its agent proposed carries an intent. *)
AdmitNothing(r) ==
  /\ planJob[r] = "due" /\ intent[r] = "none"
  /\ IF BoundTo(r) THEN Work("completed") ELSE UNCHANGED approvalVars
  /\ JobMayEnd(r)
  /\ UNCHANGED <<intent, planRun, admissions>> /\ RunOnly

Open(r) == planJob[r] = "due" /\ intent[r] \in {"pending_authorization"} \cup Blocked

(* move: a final refusal. *)
AdmitRefused(r, why) ==
  /\ Open(r)
  /\ (why = "expired") = lapsed
  /\ intent' = [intent EXCEPT ![r] = why]
  /\ Work("cancelled")
  /\ JobMayEnd(r)
  /\ UNCHANGED <<planRun, admissions>> /\ RunOnly

(* move: something that may change; the job throws and comes back. *)
AdmitBlocked(r, why) ==
  /\ Open(r) /\ ~lapsed
  /\ intent' = [intent EXCEPT ![r] = why]
  /\ Work("waiting")
  /\ UNCHANGED <<planJob, planRun, admissions>> /\ RunOnly

Admitting(r) == Open(r) /\ ~lapsed /\ BoundTo(r)

Admit(r) ==
  /\ Admitting(r)
  /\ intent' = [intent EXCEPT ![r] = "admitted"]
  /\ planRun' = [status |-> "working", attempt |-> 1, stop |-> FALSE, of |-> r]
  /\ budget' = [budget EXCEPT !.state = "active"]
  /\ admissions' = admissions + 1
  /\ Work("admitted")
  /\ UNCHANGED <<planJob, call, billed>>

(* The job again: it finds the run, or the refusal, and is done. *)
AdmitReplayed(r) ==
  /\ planJob[r] = "due" /\ intent[r] \in {"admitted"} \cup IntentOver
  /\ planJob' = [planJob EXCEPT ![r] = "done"]
  /\ UNCHANGED <<approvalVars, intent, planRun, admissions>> /\ RunOnly

-----------------------------------------------------------------------------
(* The run *)

(* project_approval_continuation_outcome, in the transaction that ended the run:
   of an error, whether it may be retried; of anything else, that it is over. *)
Retryable(run) ==
  /\ ~lapsed /\ budget.state = "active" /\ run.attempt < RetryCap + 1

Project(run) ==
  LET r == run.of
      keeps == run.status = "error" /\ Retryable(run)
      as == CASE run.status = "completed" -> "completed" [] run.status = "stopped" -> "cancelled"
              [] OTHER -> "failed"
      bound == approval.revision = r
  IN
  IF intent[r] # "admitted" THEN UNCHANGED <<approvalVars, intent, budget>>
  ELSE
  /\ intent' = IF keeps THEN intent ELSE [intent EXCEPT ![r] = as]
  /\ budget' = IF keeps THEN budget
               ELSE [budget EXCEPT !.state = IF run.status = "completed" THEN "closed" ELSE "cancelled"]
  /\ IF ~bound THEN UNCHANGED approvalVars
     ELSE Work(IF keeps THEN "admitted" ELSE IF run.status = "completed" THEN "completed" ELSE "cancelled")

(* The engine's setRunStatus, and the projection of the status that won: this one,
   or the one the run had ended with already. *)
EngineEnds(status) ==
  LET run == IF planRun.status = "working" THEN [planRun EXCEPT !.status = status] ELSE planRun IN
  /\ planRun.status # "none"
  /\ planRun' = run
  /\ Project(run)
  /\ UNCHANGED <<planJob, call, billed, admissions>>

(* The sweep ends it, and projects nothing. *)
SweepEnds(status) ==
  /\ planRun.status = "working"
  /\ status = "stopped" => planRun.stop
  /\ planRun' = [planRun EXCEPT !.status = status]
  /\ UNCHANGED <<approvalVars, intent, planJob, admissions>> /\ RunOnly

StopPlan ==
  /\ planRun.status = "working" /\ ~planRun.stop
  /\ planRun' = [planRun EXCEPT !.stop = TRUE]
  /\ UNCHANGED <<approvalVars, intent, planJob, admissions>> /\ RunOnly

(* Mutant of RetryAllowed: the outcome of the approval is not asked. *)
RetryAllowedAnyway == ~lapsed /\ planRun.attempt + 1 <= RetryCap + 1
(* approvalContinuationRetryBlock *)
RetryAllowed ==
  /\ intent[planRun.of] = "admitted" /\ BoundTo(planRun.of) /\ approval.work = "admitted"
  /\ ~lapsed /\ budget.state = "active"
  /\ planRun.attempt + 1 <= RetryCap + 1

RetryPlan ==
  /\ planRun.status \in {"error", "stopped"}
  /\ RetryAllowed
  /\ planRun' = [planRun EXCEPT !.status = "working", !.attempt = @ + 1, !.stop = FALSE]
  /\ UNCHANGED <<approvalVars, intent, planJob, admissions>> /\ RunOnly

-----------------------------------------------------------------------------
(* A model call *)

Held == {k \in ModelCall : call[k].at \in {"reserved", "answered", "lost"}}

(* reserve_approval_model_budget; max_parallel_calls is one. *)
MayReserve(bound) ==
  /\ planRun.status = "working" /\ ~planRun.stop
  /\ intent[planRun.of] = "admitted" /\ BoundTo(planRun.of) /\ approval.work = "admitted" /\ ~lapsed
  /\ budget.state = "active" /\ Held = {} /\ budget.calls < CallCap
  /\ budget.actual + budget.reserved + bound <= TokenCap

Reserve(k, bound) ==
  /\ call[k].at = "none"
  /\ MayReserve(bound)
  /\ call' = [call EXCEPT ![k] = [NoCall EXCEPT !.at = "reserved", !.bound = bound]]
  /\ budget' = [budget EXCEPT !.reserved = @ + bound, !.calls = @ + 1,
                              !.state = IF budget.calls + 1 >= CallCap THEN "exhausted" ELSE @]
  /\ UNCHANGED <<approvalVars, intent, planJob, planRun, billed, admissions>>

CallOnly == UNCHANGED <<approvalVars, intent, planJob, planRun, admissions>>

(* The provider: it rejects the call, or charges it, within its bound; the stream
   ends with its usage, or without. *)
Answered(k, used, says) ==
  /\ call[k].at = "reserved"
  /\ used <= call[k].bound
  /\ says = "rejected" => used = 0
  /\ call' = [call EXCEPT ![k].at = "answered", ![k].used = used, ![k].says = says]
  /\ billed' = billed + used
  /\ CallOnly /\ UNCHANGED budget

(* Mutant of Consumed: a call without usage is given back. *)
ConsumedKnown(c) == IF c.says = "usage" THEN c.used ELSE 0
(* reconcile_approval_model_budget: `unresolved` keeps the upper bound consumed. *)
Consumed(c) ==
  CASE c.says = "usage" -> c.used [] c.says = "rejected" -> 0 [] OTHER -> c.bound

SettleCall(k) ==
  LET actual == budget.actual + Consumed(call[k]) IN
  /\ call[k].at = "answered"
  /\ call' = [call EXCEPT ![k].at = "settled"]
  /\ budget' = [budget EXCEPT
       !.reserved = @ - call[k].bound, !.actual = actual,
       !.state = IF @ \in {"closed", "cancelled"} THEN @
                 ELSE IF actual >= TokenCap \/ budget.calls >= CallCap THEN "exhausted" ELSE "active"]
  /\ CallOnly /\ UNCHANGED billed

(* The process is lost, or the settlement fails: the reservation stays held. *)
CallLost(k) ==
  /\ call[k].at \in {"reserved", "answered"}
  /\ call' = [call EXCEPT ![k].at = "lost"]
  /\ CallOnly /\ UNCHANGED <<budget, billed>>

-----------------------------------------------------------------------------

AdmitStep(r) ==
  \/ AdmitNothing(r)
  \/ \E why \in Refusal : AdmitRefused(r, why)
  \/ \E why \in Blocked : AdmitBlocked(r, why)
  \/ Admit(r) \/ AdmitReplayed(r)

CallStep(k) ==
  \/ \E bound \in 1..MaxBound : Reserve(k, bound)
  \/ \E used \in 0..MaxBound, says \in {"nothing", "usage", "rejected"} : Answered(k, used, says)
  \/ SettleCall(k) \/ CallLost(k)

PlanNext ==
  \/ ApprovalsQuiet /\ UNCHANGED planVars
  \/ \E m \in Member, read \in Revision : FinalizePlan(m, read)
  \/ \E r \in Revision : AdmitStep(r)
  \/ \E status \in RunOver : EngineEnds(status)
  \/ \E status \in {"stopped", "error"} : SweepEnds(status)
  \/ StopPlan \/ RetryPlan
  \/ \E k \in ModelCall : CallStep(k)

PlanSpec == ApprovalsInit /\ PlanInit /\ [][PlanNext]_workVars

-----------------------------------------------------------------------------
(* Properties *)

(* Whatever is lost, cut off, rejected, retried or settled late, the provider never
   charges more than the reviewed tokens, and is called no more often than reviewed:
   "so a retry cannot overspend the reviewed plan" (reserve_ and
   reconcile_approval_model_budget, proxyRuntimeModel). *)
WithinBudget ==
  /\ billed <= TokenCap
  /\ Cardinality({k \in ModelCall : call[k].at # "none"}) <= CallCap

(* A plan is run once, of a revision that was approved, however often its job is
   replayed; and when the approval shows the work as over, the run is over and no
   retry revives it (admitApprovalContinuation: "it can never mint a second run for
   the same revision-bound intent"; project_approval_continuation_outcome). *)
OneRunPerPlan ==
  /\ admissions <= 1
  /\ planRun.status # "none" => revisions[planRun.of] = "approved"
  /\ planRun.status # "none" /\ intent[planRun.of] # "admitted" =>
       /\ planRun.status \in RunOver /\ budget.state \in {"closed", "cancelled"}
       /\ approval.work \in {"completed", "cancelled"}
=============================================================================
