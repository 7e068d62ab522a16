----------------------------- MODULE RunControl -----------------------------
(***************************************************************************)
(* The control plane's half of an agent run: one row of the runs table per *)
(* run, the durable jobs that publish and launch an attempt, the Workflow  *)
(* instance each attempt is given, Stop, Retry, automatic recovery, and    *)
(* the minute Cron that sweeps runs nobody drives any more.                *)
(*                                                                         *)
(* The engine that drives an attempt is in RunLegacy and RunHermes: both   *)
(* extend this module and add the actions of a Workflow instance.          *)
(*                                                                         *)
(* Covered: every committed transaction on a runs row, each step that      *)
(* happens after such a commit (hub delivery, instance creation, terminate)*)
(* as an action of its own, and the loss of the process between any two of *)
(* them.  Time is abstracted to what the code compares: whether a row is   *)
(* inside the startup grace, and whether it is stale.                      *)
(* Left out: admission refusals that write nothing (caps, rate limits,     *)
(* keys, model checks), message text, events, and usage.                   *)
(***************************************************************************)
EXTENDS Naturals

CONSTANTS
  NRun,          \* bound: how many runs are ever created
  MaxAttempt,    \* bound: how many attempts a run may reach
  MaxAutomatic,  \* MAX_AUTOMATIC_ATTEMPTS
  SessionOf      \* the session of each run

ASSUME NRunAssumption == NRun \in Nat \ {0}
ASSUME MaxAttemptAssumption == MaxAttempt \in Nat \ {0}
ASSUME MaxAutomaticAssumption == MaxAutomatic \in Nat

Run == 1..NRun            \* in order of creation (runs.created_at)
Attempt == 1..MaxAttempt

Active == {"working", "waiting", "stopping"}
Terminal == {"completed", "stopped", "error"}
Status == Active \cup Terminal \cup {"none"}

(* updated_at compared with the clock: inside SWEEP_STARTUP_GRACE_SECONDS,
   older, or older than ORPHAN_NO_EVENT_MINUTES. *)
Age == {"grace", "settled", "stale"}

(* stop is stop_requested, cancelled is recovery_cancelled, due is whether
   recovery_next_at is set, transient whether error.reason is one of
   TRANSIENT_REASONS, automatic is automatic_recovery; origin says whether
   createTurn or the queue admitted the run. *)
Row == [status : Status, attempt : 0..MaxAttempt, stop : BOOLEAN,
        cancelled : BOOLEAN, due : BOOLEAN, transient : BOOLEAN,
        automatic : BOOLEAN, origin : {"turn", "queue"}, age : Age]

(* "failed" is errored or terminated, which the sweep reads alike. *)
InstanceState == {"none", "running", "complete", "failed"}
Handoff == {"none", "publishing", "launching", "draining"}
Publication == {"none", "pending", "acked", "done"}
JobState == {"none", "pending", "creating", "done"}
RecoveryState == {"none", "pending", "refused", "done"}
Verdict == {"none", "missing", "stopped", "error", "reap"}

VARIABLES
  row,       \* the runs table
  handoff,   \* the request (or Cron) that admitted the run, after its commit
  publish,   \* the job that publishes an attempt's first event
  launch,    \* the run_launch job of an attempt
  recovery,  \* the run_recovery job of an attempt
  inst,      \* the Workflow instance of an attempt, as the platform sees it
  sweep,     \* the Cron's verdict on a run, between its lookup and its commit
  seen,      \* run_sweep_observations
  declined   \* history: a person pressed Stop or Cancel on the current attempt

vars == <<row, handoff, publish, launch, recovery, inst, sweep, seen, declined>>
jobVars == <<handoff, publish, launch, recovery>>

TypeOK ==
  /\ row \in [Run -> Row]
  /\ handoff \in [Run -> Handoff]
  /\ publish \in [Run -> [Attempt -> Publication]]
  /\ launch \in [Run -> [Attempt -> JobState]]
  /\ recovery \in [Run -> [Attempt -> RecoveryState]]
  /\ inst \in [Run -> [Attempt -> InstanceState]]
  /\ sweep \in [Run -> [verdict : Verdict, attempt : 0..MaxAttempt]]
  /\ seen \in [Run -> {"none", "first", "confirmed"}]
  /\ declined \in [Run -> BOOLEAN]

NoRow == [status |-> "none", attempt |-> 0, stop |-> FALSE, cancelled |-> FALSE,
          due |-> FALSE, transient |-> FALSE, automatic |-> FALSE,
          origin |-> "turn", age |-> "grace"]
NoVerdict == [verdict |-> "none", attempt |-> 0]

Init ==
  /\ row = [r \in Run |-> NoRow]
  /\ handoff = [r \in Run |-> "none"]
  /\ publish = [r \in Run |-> [a \in Attempt |-> "none"]]
  /\ launch = [r \in Run |-> [a \in Attempt |-> "none"]]
  /\ recovery = [r \in Run |-> [a \in Attempt |-> "none"]]
  /\ inst = [r \in Run |-> [a \in Attempt |-> "none"]]
  /\ sweep = [r \in Run |-> NoVerdict]
  /\ seen = [r \in Run |-> "none"]
  /\ declined = [r \in Run |-> FALSE]

-----------------------------------------------------------------------------
(* The runs row *)

IsActive(r) == row[r].status \in Active
IsTerminal(r) == row[r].status \in Terminal
SessionFree(r) == \A q \in Run : SessionOf[q] = SessionOf[r] => ~IsActive(q)
NewerInSession(r) ==
  \E q \in Run : q > r /\ SessionOf[q] = SessionOf[r] /\ row[q].status # "none"

(* Every UPDATE of a runs row moves updated_at, and the sweep acts on a row only
   while updated_at is the one it read: a verdict reached from the earlier row
   has no effect any more, and an absence observed then no longer counts. *)
Outdated(s) == IF s.verdict = "reap" THEN s ELSE NoVerdict

Write(r, new) ==
  /\ row' = [row EXCEPT ![r] = [new EXCEPT !.age = "grace"]]
  /\ sweep' = [sweep EXCEPT ![r] = Outdated(@)]
  /\ seen' = [seen EXCEPT ![r] = "none"]

(* Mutants of SetRunStatus: without its WHERE on the terminal statuses; resetting
   stop_requested when the engine goes back to work. *)
SetRunStatusUnguarded(r, s, transient) ==
  Write(r, [row[r] EXCEPT !.status = s, !.transient = transient])
SetRunStatusClearsStop(r, s, transient) ==
  IF IsTerminal(r)
  THEN UNCHANGED <<row, sweep, seen>>
  ELSE Write(r, [row[r] EXCEPT !.status = s, !.transient = transient,
                               !.stop = @ /\ s # "working"])

(* The engine's status write: guarded by the terminal statuses, not by the
   attempt that writes. *)
SetRunStatus(r, s, transient) ==
  IF IsTerminal(r)
  THEN UNCHANGED <<row, sweep, seen>>
  ELSE Write(r, [row[r] EXCEPT !.status = s, !.transient = transient])

(* RUN_ATTEMPT.create: a second create of the same instance id changes nothing. *)
CreateInstance(r, a) ==
  inst' = [inst EXCEPT ![r][a] = IF @ = "none" THEN "running" ELSE @]

-----------------------------------------------------------------------------
(* Admission and hand-off *)

NextRun(r) == /\ row[r].status = "none"
              /\ \A q \in Run : q < r => row[q].status # "none"

Admitted(origin) == [NoRow EXCEPT !.status = "working", !.attempt = 1, !.origin = origin]

(* POST .../turns: the row, its first publication and its launch job commit
   together; the partial unique index refuses a second active run. *)
CreateTurn(r) ==
  /\ NextRun(r)
  /\ SessionFree(r)
  /\ Write(r, Admitted("turn"))
  /\ publish' = [publish EXCEPT ![r][1] = "pending"]
  /\ launch' = [launch EXCEPT ![r][1] = "pending"]
  /\ handoff' = [handoff EXCEPT ![r] = "publishing"]
  /\ UNCHANGED <<recovery, inst, declined>>

(* The Cron turns one queued message of an ended run into a new run.  It
   enqueues no launch job. *)
DrainQueued(r) ==
  /\ NextRun(r)
  /\ SessionFree(r)
  /\ \E q \in Run : q < r /\ SessionOf[q] = SessionOf[r] /\ IsTerminal(q)
  /\ Write(r, Admitted("queue"))
  /\ publish' = [publish EXCEPT ![r][1] = "pending"]
  /\ handoff' = [handoff EXCEPT ![r] = "draining"]
  /\ UNCHANGED <<launch, recovery, inst, declined>>

DrainCreate(r) ==
  /\ handoff[r] = "draining"
  /\ CreateInstance(r, 1)
  /\ handoff' = [handoff EXCEPT ![r] = "none"]
  /\ UNCHANGED <<row, publish, launch, recovery, sweep, seen, declined>>

(* The request delivers the first event itself, then creates the instance,
   then retires the two jobs. *)
DeliverInitial(r) ==
  /\ handoff[r] = "publishing"
  /\ publish' = [publish EXCEPT ![r][1] = IF @ = "pending" THEN "acked" ELSE @]
  /\ handoff' = [handoff EXCEPT ![r] = "launching"]
  /\ UNCHANGED <<row, launch, recovery, inst, sweep, seen, declined>>

CreateDirect(r) ==
  /\ handoff[r] = "launching"
  /\ CreateInstance(r, 1)
  /\ handoff' = [handoff EXCEPT ![r] = "none"]
  /\ \/ /\ publish' = [publish EXCEPT ![r][1] = "done"]
        /\ launch' = [launch EXCEPT ![r][1] = "done"]
     \/ UNCHANGED <<publish, launch>>      \* lost before the jobs are retired
  /\ UNCHANGED <<row, recovery, sweep, seen, declined>>

(* The isolate is lost, or the hub or the Workflow binding refuses: what is
   left of the hand-off is left to the durable jobs. *)
HandoffLost(r) ==
  /\ handoff[r] # "none"
  /\ handoff' = [handoff EXCEPT ![r] = "none"]
  /\ UNCHANGED <<row, publish, launch, recovery, inst, sweep, seen, declined>>

RunPublish(r, a) ==
  /\ publish[r][a] \in {"pending", "acked"}
  /\ publish' = [publish EXCEPT ![r][a] = "done"]
  /\ UNCHANGED <<row, handoff, launch, recovery, inst, sweep, seen, declined>>

(* Mutant of LaunchRead: without the dependency on the publication. *)
LaunchReadAtOnce(r, a) ==
  /\ launch[r][a] = "pending"
  /\ launch' = [launch EXCEPT ![r][a] =
       IF ~row[r].stop /\ row[r].status = "working" /\ row[r].attempt = a
       THEN "creating" ELSE "done"]
  /\ UNCHANGED <<row, handoff, publish, recovery, inst, sweep, seen, declined>>

(* runLaunchJob reads in one transaction and creates outside it.  While the
   publication is not done the job throws and is retried. *)
LaunchRead(r, a) ==
  /\ launch[r][a] = "pending"
  /\ row[r].stop \/ publish[r][a] = "done"
  /\ launch' = [launch EXCEPT ![r][a] =
       IF ~row[r].stop /\ row[r].status = "working" /\ row[r].attempt = a
       THEN "creating" ELSE "done"]
  /\ UNCHANGED <<row, handoff, publish, recovery, inst, sweep, seen, declined>>

LaunchCreate(r, a) ==
  /\ launch[r][a] = "creating"
  /\ CreateInstance(r, a)
  /\ launch' = [launch EXCEPT ![r][a] = "done"]
  /\ UNCHANGED <<row, handoff, publish, recovery, sweep, seen, declined>>

LaunchFail(r, a) ==
  /\ launch[r][a] = "creating"
  /\ launch' = [launch EXCEPT ![r][a] = "pending"]
  /\ UNCHANGED <<row, handoff, publish, recovery, inst, sweep, seen, declined>>

(* The session was archived or made read-only, or its owner has left: there is
   nothing to launch, and the publication is not waited for. *)
LaunchUnwanted(r, a) ==
  /\ launch[r][a] = "pending"
  /\ launch' = [launch EXCEPT ![r][a] = "done"]
  /\ UNCHANGED <<row, handoff, publish, recovery, inst, sweep, seen, declined>>

-----------------------------------------------------------------------------
(* Stop, Retry and automatic recovery *)

(* Mutant of RequestRunStop: a Stop of a run that has ended meanwhile. *)
RequestRunStopLate(r) ==
  /\ row[r].status # "none"
  /\ Write(r, [row[r] EXCEPT !.stop = TRUE, !.status = "stopping",
                             !.cancelled = TRUE, !.due = FALSE])
  /\ declined' = [declined EXCEPT ![r] = TRUE]
  /\ UNCHANGED <<jobVars, inst>>

RequestRunStop(r) ==
  /\ IsActive(r)
  /\ Write(r, [row[r] EXCEPT !.stop = TRUE, !.status = "stopping",
                             !.cancelled = TRUE, !.due = FALSE])
  /\ declined' = [declined EXCEPT ![r] = TRUE]
  /\ UNCHANGED <<jobVars, inst>>

(* Mutant of NewAttempt: it does not look for another active run. *)
NewAttemptAlongside(r, automatic) ==
  LET a == row[r].attempt + 1 IN
  /\ row[r].status \in {"error", "stopped"}
  /\ a \in Attempt
  /\ Write(r, [row[r] EXCEPT !.attempt = a, !.status = "working", !.stop = FALSE,
                             !.transient = FALSE, !.due = FALSE,
                             !.cancelled = FALSE, !.automatic = automatic])
  /\ publish' = [publish EXCEPT ![r][a] = "pending"]
  /\ launch' = [launch EXCEPT ![r][a] = "pending"]
  /\ declined' = [declined EXCEPT ![r] = FALSE]
  /\ UNCHANGED <<handoff, inst>>

(* The body of retryTask once its guards hold: the row moves to the next
   attempt and its publication and launch jobs commit with it.  Both callers
   run under the agent's row lock; another active run of the agent refuses. *)
NewAttempt(r, automatic) ==
  LET a == row[r].attempt + 1 IN
  /\ row[r].status \in {"error", "stopped"}
  /\ a \in Attempt
  /\ \A q \in Run \ {r} : ~IsActive(q)
  /\ Write(r, [row[r] EXCEPT !.attempt = a, !.status = "working", !.stop = FALSE,
                             !.transient = FALSE, !.due = FALSE,
                             !.cancelled = FALSE, !.automatic = automatic])
  /\ publish' = [publish EXCEPT ![r][a] = "pending"]
  /\ launch' = [launch EXCEPT ![r][a] = "pending"]
  /\ declined' = [declined EXCEPT ![r] = FALSE]
  /\ UNCHANGED <<handoff, inst>>

(* One statement that asks a set of live runs to stop and leaves their statuses
   to their engines, or to the sweep. *)
AskToStop(asked) ==
  /\ \A r \in asked : row[r].status \in {"working", "waiting"}
  /\ row' = [r \in Run |-> IF r \in asked
                           THEN [row[r] EXCEPT !.stop = TRUE, !.age = "grace"] ELSE row[r]]
  /\ sweep' = [r \in Run |-> IF r \in asked THEN Outdated(sweep[r]) ELSE sweep[r]]
  /\ seen' = [r \in Run |-> IF r \in asked THEN "none" ELSE seen[r]]
  /\ UNCHANGED <<jobVars, inst, declined>>

(* A member is removed, a model key is removed, or the workspace is to be deleted. *)
AdminStops == \E asked \in SUBSET Run : asked # {} /\ AskToStop(asked)

RetryTask(r) == NewAttempt(r, FALSE) /\ UNCHANGED recovery

(* Mutant of CancelRecovery: only the promised time is withdrawn. *)
CancelRecoveryDue(r) ==
  /\ row[r].status # "none"
  /\ Write(r, [row[r] EXCEPT !.due = FALSE])
  /\ declined' = [declined EXCEPT ![r] = TRUE]
  /\ UNCHANGED <<jobVars, inst>>

CancelRecovery(r) ==
  /\ row[r].status # "none"
  /\ Write(r, [row[r] EXCEPT !.cancelled = TRUE, !.due = FALSE])
  /\ declined' = [declined EXCEPT ![r] = TRUE]
  /\ UNCHANGED <<jobVars, inst>>

(* automaticRetryAt # null, without the delay it computes. *)
Retryable(r) == /\ row[r].transient
                /\ ~row[r].cancelled
                /\ row[r].attempt < MaxAutomatic

(* scheduleRunRecovery: one job per attempt, or, when the run could repeat a
   side effect, recovery is cancelled. *)
ScheduleRecovery(r) ==
  LET a == row[r].attempt IN
  /\ row[r].status = "error"
  /\ ~row[r].stop
  /\ ~row[r].due
  /\ ~NewerInSession(r)
  /\ Retryable(r)
  /\ \/ /\ recovery[r][a] = "none"
        /\ recovery' = [recovery EXCEPT ![r][a] = "pending"]
        /\ Write(r, [row[r] EXCEPT !.due = TRUE])
     \/ /\ Write(r, [row[r] EXCEPT !.due = FALSE, !.cancelled = TRUE])
        /\ UNCHANGED recovery
  /\ UNCHANGED <<handoff, publish, launch, inst, declined>>

(* runRecoveryJob: it does nothing for a run that moved on; it cancels for a
   session with a newer run; it retries; or it is refused and gives up in a
   second transaction fenced by the attempt. *)
RecoveryDone(r, a) == recovery' = [recovery EXCEPT ![r][a] = "done"]
RecoveryCurrent(r, a) ==
  row[r].attempt = a /\ row[r].status = "error" /\ ~row[r].cancelled

RecoveryRetry(r, a) ==
  /\ recovery[r][a] = "pending"
  /\ RecoveryCurrent(r, a)
  /\ ~NewerInSession(r)
  /\ ~row[r].stop
  /\ Retryable(r)
  /\ NewAttempt(r, TRUE)
  /\ RecoveryDone(r, a)

RecoverySkip(r, a) ==
  /\ recovery[r][a] = "pending"
  /\ RecoveryDone(r, a)
  /\ IF RecoveryCurrent(r, a) /\ NewerInSession(r)
     THEN Write(r, [row[r] EXCEPT !.due = FALSE, !.cancelled = TRUE])
     ELSE /\ ~RecoveryCurrent(r, a) \/ row[r].stop \/ ~Retryable(r)
          /\ UNCHANGED <<row, sweep, seen>>
  /\ UNCHANGED <<handoff, publish, launch, inst, declined>>

RecoveryRefused(r, a) ==
  /\ recovery[r][a] = "pending"
  /\ RecoveryCurrent(r, a)
  /\ recovery' = [recovery EXCEPT ![r][a] = "refused"]
  /\ UNCHANGED <<row, handoff, publish, launch, inst, sweep, seen, declined>>

(* The process is lost before the second transaction: the job starts over. *)
RecoveryLost(r, a) ==
  /\ recovery[r][a] = "refused"
  /\ recovery' = [recovery EXCEPT ![r][a] = "pending"]
  /\ UNCHANGED <<row, handoff, publish, launch, inst, sweep, seen, declined>>

(* Mutant of RecoveryGiveUp: the promised time stays. *)
RecoveryGiveUpKeepsDue(r, a) ==
  /\ recovery[r][a] = "refused"
  /\ RecoveryDone(r, a)
  /\ IF row[r].attempt = a /\ row[r].status = "error"
     THEN Write(r, [row[r] EXCEPT !.cancelled = TRUE])
     ELSE UNCHANGED <<row, sweep, seen>>
  /\ UNCHANGED <<handoff, publish, launch, inst, declined>>

RecoveryGiveUp(r, a) ==
  /\ recovery[r][a] = "refused"
  /\ RecoveryDone(r, a)
  /\ IF row[r].attempt = a /\ row[r].status = "error"
     THEN Write(r, [row[r] EXCEPT !.due = FALSE, !.cancelled = TRUE])
     ELSE UNCHANGED <<row, sweep, seen>>
  /\ UNCHANGED <<handoff, publish, launch, inst, declined>>

-----------------------------------------------------------------------------
(* The sweep *)

(* verdictFor: Stop is read first, then the engine version, then the startup
   grace, then the instance.  "keep" is every verdict that leaves the run. *)
Silent(r) == row[r].age = "stale" /\ row[r].status # "waiting"

(* Mutants of VerdictFor: a requested Stop is left to a live engine; an absent
   instance is taken for one that has not started yet. *)
VerdictForTrustsEngine(r) ==
  LET i == inst[r][row[r].attempt] IN
  IF row[r].age = "grace" THEN "keep"
  ELSE CASE i = "none" -> "missing"
         [] i = "failed" -> "error"
         [] i \in {"running", "complete"} -> IF Silent(r) THEN "error" ELSE "keep"
VerdictForAwaitsInstance(r) ==
  LET i == inst[r][row[r].attempt] IN
  IF row[r].stop THEN "stopped"
  ELSE IF row[r].age = "grace" \/ i = "none" THEN "keep"
  ELSE CASE i = "failed" -> "error"
         [] i \in {"running", "complete"} -> IF Silent(r) THEN "error" ELSE "keep"

VerdictFor(r) ==
  LET i == inst[r][row[r].attempt] IN
  IF row[r].stop THEN "stopped"
  ELSE IF row[r].age = "grace" THEN "keep"
  ELSE CASE i = "none" -> "missing"
         [] i = "failed" -> "error"
         [] i \in {"running", "complete"} -> IF Silent(r) THEN "error" ELSE "keep"

(* Mutant of Inspect: a run that is kept goes to the sweep's transaction too. *)
InspectKeepsAll(r, v) ==
  /\ IsActive(r)
  /\ sweep[r].verdict = "none"
  /\ sweep' = [sweep EXCEPT ![r] = [verdict |-> v, attempt |-> row[r].attempt]]
  /\ UNCHANGED <<row, jobVars, inst, seen, declined>>

(* The lookup of one run of the sweep's list.  A verdict waits for the sweep's
   transaction; one that keeps the run only forgets an earlier absence. *)
Inspect(r, v) ==
  /\ IsActive(r)
  /\ sweep[r].verdict = "none"
  /\ IF v = "keep"
     THEN seen' = [seen EXCEPT ![r] = "none"] /\ UNCHANGED sweep
     ELSE /\ sweep' = [sweep EXCEPT ![r] = [verdict |-> v, attempt |-> row[r].attempt]]
          /\ UNCHANGED seen
  /\ UNCHANGED <<row, jobVars, inst, declined>>

SweepInspect(r) == Inspect(r, VerdictFor(r))

(* The lookup failed, or answered nothing usable. *)
SweepLookupFails(r) == ~row[r].stop /\ row[r].age # "grace" /\ Inspect(r, "keep")

(* A deployment has replaced the engine version the run was started by. *)
SweepVersionChanged(r) == ~row[r].stop /\ Inspect(r, "error")

(* The sweep's transaction, on the row it read: a first absence is recorded, and
   any other verdict ends the run and sets stop_requested. *)
SweepObserve(r) ==
  /\ sweep[r].verdict = "missing"
  /\ seen[r] # "confirmed"
  /\ seen' = [seen EXCEPT ![r] = "first"]
  /\ sweep' = [sweep EXCEPT ![r] = NoVerdict]
  /\ UNCHANGED <<row, jobVars, inst, declined>>

SweepReap(r) ==
  LET v == sweep[r].verdict IN
  /\ v \in {"stopped", "error"} \/ (v = "missing" /\ seen[r] = "confirmed")
  /\ row' = [row EXCEPT ![r].status = IF v = "stopped" THEN "stopped" ELSE "error",
                        ![r].transient = FALSE, ![r].stop = TRUE, ![r].age = "grace"]
  /\ sweep' = [sweep EXCEPT ![r].verdict = "reap"]
  /\ seen' = [seen EXCEPT ![r] = "none"]
  /\ UNCHANGED <<jobVars, inst, declined>>

(* After the commit the sweep asks the instance of the snapshot's attempt to
   terminate.  It may not: the call fails, or does not cut the step short. *)
SweepTerminate(r) ==
  /\ sweep[r].verdict = "reap"
  /\ \/ inst' = [inst EXCEPT ![r][sweep[r].attempt] =
                   IF @ = "running" THEN "failed" ELSE @]
     \/ UNCHANGED inst
  /\ sweep' = [sweep EXCEPT ![r] = NoVerdict]
  /\ UNCHANGED <<row, jobVars, seen, declined>>

(* The clock. *)
Tick(r) ==
  /\ IsActive(r)
  /\ row[r].age # "stale"
  /\ row' = [row EXCEPT ![r].age = IF @ = "grace" THEN "settled" ELSE "stale"]
  /\ UNCHANGED <<jobVars, inst, sweep, seen, declined>>

ObservationAges(r) ==
  /\ seen[r] = "first"
  /\ seen' = [seen EXCEPT ![r] = "confirmed"]
  /\ UNCHANGED <<row, jobVars, inst, sweep, declined>>

-----------------------------------------------------------------------------

AdmitNext(r) ==
  \/ CreateTurn(r) \/ DrainQueued(r) \/ DrainCreate(r)
  \/ DeliverInitial(r) \/ CreateDirect(r) \/ HandoffLost(r)

JobNext(r, a) ==
  \/ RunPublish(r, a) \/ LaunchRead(r, a) \/ LaunchUnwanted(r, a)
  \/ LaunchCreate(r, a) \/ LaunchFail(r, a)
  \/ RecoveryRetry(r, a) \/ RecoverySkip(r, a) \/ RecoveryRefused(r, a)
  \/ RecoveryLost(r, a) \/ RecoveryGiveUp(r, a)

HumanNext(r) == RequestRunStop(r) \/ RetryTask(r) \/ CancelRecovery(r)

CronNext(r) ==
  \/ ScheduleRecovery(r) \/ SweepInspect(r) \/ SweepLookupFails(r)
  \/ SweepVersionChanged(r) \/ SweepObserve(r) \/ SweepReap(r) \/ SweepTerminate(r)
  \/ Tick(r) \/ ObservationAges(r)

Control ==
  \/ \E r \in Run : \/ AdmitNext(r) \/ HumanNext(r) \/ CronNext(r)
                    \/ \E a \in Attempt : JobNext(r, a)
  \/ AdminStops

-----------------------------------------------------------------------------
(* The engine, as the control plane may rely on it: an instance writes the
   status of its run whenever it likes, guarded only by the terminal statuses,
   touches the row, and ends.  RunHermes and RunLegacy are the two engines. *)

Live(r, a) == inst[r][a] = "running"

EngineWrites(r, a) ==
  /\ Live(r, a)
  /\ \/ \E s \in {"working", "waiting", "completed", "stopped"} : SetRunStatus(r, s, FALSE)
     \/ \E transient \in BOOLEAN : SetRunStatus(r, "error", transient)
     \/ Write(r, row[r])
  /\ UNCHANGED <<jobVars, inst, declined>>

(* The engine of an automatic attempt finds that the runtime it was admitted for
   has changed (failAutomaticRecoveryExecution, fenced by the attempt). *)
EngineFailsClosed(r, a) ==
  /\ Live(r, a)
  /\ row[r].automatic /\ row[r].attempt = a /\ row[r].status = "working" /\ ~row[r].stop
  /\ Write(r, [row[r] EXCEPT !.status = "error", !.transient = FALSE,
                             !.cancelled = TRUE, !.due = FALSE])
  /\ UNCHANGED <<jobVars, inst, declined>>

(* A provider refused its key: every other live run on that provider is asked to
   stop (stopOtherRunsOnProvider). *)
EngineStopsOthers(r, a) ==
  /\ Live(r, a)
  /\ \E others \in SUBSET Run : (\A q \in others : q # r /\ ~row[q].stop) /\ AskToStop(others)

EngineEnds(r, a) ==
  /\ Live(r, a)
  /\ \E how \in {"complete", "failed"} : inst' = [inst EXCEPT ![r][a] = how]
  /\ UNCHANGED <<row, jobVars, sweep, seen, declined>>

(* A tool call of a native run writes the row for the attempt it is bound to,
   whether or not the instance that bound it is still there. *)
BridgeWrites(r) ==
  /\ row[r].status \in {"working", "waiting"} /\ ~row[r].stop
  /\ inst[r][row[r].attempt] # "none"
  /\ \E s \in {"working", "waiting"} : Write(r, [row[r] EXCEPT !.status = s])
  /\ UNCHANGED <<jobVars, inst, declined>>

Engine ==
  \E r \in Run : \/ BridgeWrites(r)
                 \/ \E a \in Attempt : \/ EngineWrites(r, a) \/ EngineFailsClosed(r, a)
                                      \/ EngineStopsOthers(r, a) \/ EngineEnds(r, a)

Next == Control \/ Engine

Spec == Init /\ [][Next]_vars

(* Fairness.  The Cron runs every minute and its transaction follows its lookup
   at once: a lookup that reaches a verdict, and the transaction that applies it,
   are not postponed forever, though a write of the row may outdate one of them;
   and lookups do not fail every time an absence waits to be confirmed.  Nothing
   is assumed of an engine but that an instance of an earlier attempt ends. *)
SweepFairness ==
  \A r \in Run :
    /\ WF_vars(Tick(r)) /\ SF_vars(ObservationAges(r))
    /\ SF_vars(SweepInspect(r) /\ sweep' # sweep)
    /\ SF_vars(SweepInspect(r) /\ seen[r] = "confirmed")
    /\ SF_vars(SweepObserve(r)) /\ SF_vars(SweepReap(r)) /\ WF_vars(SweepTerminate(r))
    /\ WF_vars(\E a \in Attempt : EngineEnds(r, a))

(* A job is run again until it is done, and is not lost every time it is refused. *)
RecoveryFairness ==
  \A r \in Run :
    /\ WF_vars(\E a \in Attempt : RecoveryRetry(r, a) \/ RecoverySkip(r, a))
    /\ SF_vars(\E a \in Attempt : RecoveryGiveUp(r, a))

FairSpec == Spec /\ SweepFairness /\ RecoveryFairness

-----------------------------------------------------------------------------
(* Safety *)

(* A terminal status is not left within its attempt: neither by an instance the
   sweep gave up on, nor by a late Stop, nor by another sweep (setRunStatus,
   sweepWorkspace, requestRunStop). *)
KeepsTerminal ==
  \A r \in Run : IsTerminal(r) /\ row'[r].attempt = row[r].attempt
                    => row'[r].status = row[r].status
TerminalIsFinal == [][KeepsTerminal]_vars

(* A requested stop stays requested until a new attempt replaces the one it was
   pressed on, whichever of the engine's writes come after it. *)
KeepsStop ==
  \A r \in Run : row[r].stop /\ row'[r].attempt = row[r].attempt => row'[r].stop
StopIsSticky == [][KeepsStop]_vars

(* No instance of a turn, or of a retry, exists before the hub has acknowledged
   the attempt's first event (createTurn, runLaunchJob's dependency). *)
LaunchAfterPublish ==
  \A r \in Run, a \in Attempt :
    inst[r][a] # "none" /\ (a > 1 \/ row[r].origin = "turn")
      => publish[r][a] \in {"acked", "done"}

(* The instance the sweep is about to terminate belongs to an attempt that is
   over: a Retry between the sweep's commit and its terminate() does not lose
   the new attempt's instance (sweepWorkspace, terminateInstance). *)
ReapIsOver ==
  \A r \in Run : sweep[r].verdict = "reap" =>
    IsTerminal(r) \/ sweep[r].attempt < row[r].attempt

(* A promised retry has a job behind it: while recovery_next_at is set, the Cron
   schedules nothing, so a run without an outstanding run_recovery job would be
   promised a retry that never comes (scheduleRunRecovery, runRecoveryJob). *)
DueHasJob ==
  \A r \in Run : row[r].due =>
    /\ row[r].status = "error"
    /\ recovery[r][row[r].attempt] \in {"pending", "refused"}

(* Two runs of a session are never active together, whichever of Retry,
   recovery, the queue and late engine writes race with a new turn. *)
OneActiveRun ==
  \A q, r \in Run : SessionOf[q] = SessionOf[r] /\ IsActive(q) /\ IsActive(r) => q = r

(* An attempt a person stopped, or whose retry a person cancelled, is never
   retried automatically, and neither is a run of a session that moved on. *)
RetriesWanted ==
  \A r \in Run : row'[r].attempt > row[r].attempt /\ row'[r].automatic
                    => ~declined[r] /\ ~NewerInSession(r)
OnlyWantedRetries == [][RetriesWanted]_vars

-----------------------------------------------------------------------------
(* Liveness *)

(* A Stop ends the run even if no engine and no job ever runs again: the sweep
   alone is enough. *)
StopEnds == \A r \in Run : IsActive(r) /\ row[r].stop ~> IsTerminal(r)

(* An active run whose instance was never created or has died does not stay
   active without one: it is launched, or the sweep ends it. *)
Undriven(r) == IsActive(r) /\ inst[r][row[r].attempt] \in {"none", "failed"}
UndrivenEnds == \A r \in Run : Undriven(r) ~> ~Undriven(r)

(* A scheduled recovery is retried, skipped or given up: the view does not wait
   for it forever. *)
RecoveryResolves == \A r \in Run : row[r].due ~> ~row[r].due
=============================================================================
