-------------------------------- MODULE Jobs --------------------------------
(***************************************************************************)
(* The durable jobs (jobs.ts): the jobs table, the job_ready pointer the   *)
(* Cron finds work through, and the workers that claim, run, and finish or *)
(* fail a job, each in a transaction of its own.  A worker is a request    *)
(* running its jobs after its commit, or a Cron's drain.                   *)
(*                                                                         *)
(* Time is abstracted: a lease is held until it is released or expires, at *)
(* any moment.  next_at only delays the Cron, claimJob does not read it,   *)
(* and so the model has no delays.  Left out: kinds and payloads, the      *)
(* handlers' own work, last_error.                                         *)
(***************************************************************************)
EXTENDS Naturals

CONSTANTS
  Worker,
  Job,       \* the rows, one for each kind and key
  Pausable,  \* the jobs of kind member_provision
  None       \* no job

ASSUME NoneAssumption == None \notin Job
ASSUME PausableAssumption == Pausable \subseteq Job

VARIABLES
  status,    \* the row: absent, queued (done_at IS NULL), or done
  locked,    \* the jobs whose locked_until is in the future
  pointer,   \* the job_ready row: none, ready or paused
  enabled,   \* HERMES_MEMBER_PROVISIONING_ENABLED
  at,        \* where a worker is
  job,       \* the job it works on
  inLease,   \* history: the workers whose own lease has not expired
  settled    \* history: the jobs whose side effect was acknowledged or refused

vars == <<status, locked, pointer, enabled, at, job, inLease, settled>>

Place == {"idle", "claimed", "ran", "refused", "failed", "paused"}

TypeOK ==
  /\ status \in [Job -> {"absent", "queued", "done"}]
  /\ locked \subseteq Job
  /\ pointer \in [Job -> {"none", "ready", "paused"}]
  /\ enabled \in BOOLEAN
  /\ at \in [Worker -> Place]
  /\ job \in [Worker -> Job \cup {None}]
  /\ inLease \subseteq Worker
  /\ settled \subseteq Job

Init ==
  /\ status = [j \in Job |-> "absent"]
  /\ locked = {}
  /\ pointer = [j \in Job |-> "none"]
  /\ enabled \in BOOLEAN
  /\ at = [w \in Worker |-> "idle"]
  /\ job = [w \in Worker |-> None]
  /\ inLease = {}
  /\ settled = {}

-----------------------------------------------------------------------------

(* enqueueJob, in the caller's transaction: UNIQUE(kind, key) makes a second
   enqueue of a key a no-op, done or not; the pointer commits with the row. *)
Enqueue(j) ==
  /\ status[j] = "absent"
  /\ status' = [status EXCEPT ![j] = "queued"]
  /\ pointer' = [pointer EXCEPT ![j] = "ready"]
  /\ UNCHANGED <<locked, enabled, at, job, inLease, settled>>

(* claimJob: undone, not paused, and unlocked or expired. *)
Claimable(j) == status[j] = "queued" /\ pointer[j] # "paused" /\ j \notin locked

Claim(w, j) ==
  /\ at[w] = "idle"
  /\ Claimable(j)
  /\ locked' = locked \cup {j}
  /\ at' = [at EXCEPT ![w] = "claimed"]
  /\ job' = [job EXCEPT ![w] = j]
  /\ inLease' = inLease \cup {w}
  /\ UNCHANGED <<status, pointer, enabled, settled>>

(* runJob.  The side effect is acknowledged, or refused for good
   (InvitationDeliveryError), or the attempt fails and may be made again; member
   setup reports "paused" while its flag is off. *)
Run(w, to) ==
  /\ at[w] = "claimed"
  /\ to = "paused" => ~enabled /\ job[w] \in Pausable
  /\ at' = [at EXCEPT ![w] = to]
  /\ settled' = IF to \in {"ran", "refused"} THEN settled \cup {job[w]} ELSE settled
  /\ UNCHANGED <<status, locked, pointer, enabled, job, inLease>>

(* The request that admitted a turn performs the side effects of its two jobs
   itself, without a claim, and retires them (finishJobsAfterCommit). *)
RunDirect(w, j) ==
  /\ at[w] = "idle"
  /\ status[j] = "queued"
  /\ j \notin Pausable
  /\ at' = [at EXCEPT ![w] = "ran"]
  /\ job' = [job EXCEPT ![w] = j]
  /\ settled' = settled \cup {j}
  /\ UNCHANGED <<status, locked, pointer, enabled, inLease>>

Leave(w) == /\ at' = [at EXCEPT ![w] = "idle"]
            /\ job' = [job EXCEPT ![w] = None]
            /\ inLease' = inLease \ {w}
            /\ UNCHANGED <<enabled, settled>>

(* Mutants of Finish: the pointer stays; a failed job is finished like any other. *)
FinishKeepsPointer(w) ==
  /\ at[w] \in {"ran", "refused"}
  /\ status' = [status EXCEPT ![job[w]] = "done"]
  /\ locked' = locked \ {job[w]}
  /\ UNCHANGED pointer
  /\ Leave(w)
FinishAnyway(w) ==
  /\ at[w] \in {"ran", "refused", "failed"}
  /\ status' = [status EXCEPT ![job[w]] = "done"]
  /\ locked' = locked \ {job[w]}
  /\ pointer' = [pointer EXCEPT ![job[w]] = "none"]
  /\ Leave(w)

(* finishJob, and finishFailedJob: by the job's id, whoever holds its lease. *)
Finish(w) ==
  LET j == job[w] IN
  /\ at[w] \in {"ran", "refused"}
  /\ status' = [status EXCEPT ![j] = "done"]
  /\ locked' = locked \ {j}
  /\ pointer' = [pointer EXCEPT ![j] = "none"]
  /\ Leave(w)

(* failJob releases the lease, whoever holds it, and delays the pointer. *)
Fail(w) ==
  /\ at[w] = "failed"
  /\ locked' = locked \ {job[w]}
  /\ Leave(w)
  /\ UNCHANGED <<status, pointer>>

(* Mutant of Pause: the pause is written to the job's row. *)
PauseRow(w) ==
  /\ at[w] = "paused"
  /\ status' = [status EXCEPT ![job[w]] = "paused"]
  /\ locked' = locked \ {job[w]}
  /\ UNCHANGED pointer
  /\ Leave(w)

(* pauseMemberProvisioningJob: the row and its pointer together, or, when another
   worker has finished the job, neither: it throws, and failJob follows. *)
Pause(w) ==
  LET j == job[w] IN
  /\ at[w] = "paused"
  /\ IF status[j] = "queued" /\ pointer[j] # "none"
     THEN /\ locked' = locked \ {j}
          /\ pointer' = [pointer EXCEPT ![j] = "paused"]
          /\ Leave(w)
     ELSE /\ at' = [at EXCEPT ![w] = "failed"]
          /\ UNCHANGED <<locked, pointer, enabled, job, inLease, settled>>
  /\ UNCHANGED status

(* drainJobs, with the flag on, first makes every paused pointer ready again. *)
Unpause ==
  /\ enabled
  /\ \E j \in Job : pointer[j] = "paused"
  /\ pointer' = [j \in Job |-> IF pointer[j] = "paused" THEN "ready" ELSE pointer[j]]
  /\ UNCHANGED <<status, locked, enabled, at, job, inLease, settled>>

(* The worker is lost; its lease stays until it expires. *)
Crash(w) ==
  /\ at[w] # "idle"
  /\ Leave(w)
  /\ UNCHANGED <<status, locked, pointer>>

(* Mutant of Expire: only a lease that its holder still works under runs out. *)
ExpireHeld(j) ==
  /\ j \in locked
  /\ \E w \in inLease : job[w] = j
  /\ locked' = locked \ {j}
  /\ inLease' = {w \in inLease : job[w] # j}
  /\ UNCHANGED <<status, pointer, enabled, at, job, settled>>

(* CLAIM_SECONDS have passed since the last claim of the job. *)
Expire(j) ==
  /\ j \in locked
  /\ locked' = locked \ {j}
  /\ inLease' = {w \in inLease : job[w] # j}
  /\ UNCHANGED <<status, pointer, enabled, at, job, settled>>

(* A deployment turns member provisioning on or off. *)
Toggle == enabled' = ~enabled /\ UNCHANGED <<status, locked, pointer, at, job, inLease, settled>>

Work(w) ==
  \/ \E j \in Job : Claim(w, j) \/ RunDirect(w, j)
  \/ \E to \in Place \ {"idle", "claimed"} : Run(w, to)
  \/ Finish(w) \/ Fail(w) \/ Pause(w) \/ Crash(w)

Next ==
  \/ \E w \in Worker : Work(w)
  \/ \E j \in Job : Enqueue(j) \/ Expire(j)
  \/ Unpause \/ Toggle

Spec == Init /\ [][Next]_vars

(* Fairness.  The Cron claims what it finds, a lease expires, a worker does not
   stand still, and a job that is run again and again is some day settled; the
   flag is some day on, long enough for the Cron to make paused jobs ready. *)
Fairness ==
  /\ SF_vars(Unpause)
  /\ SF_vars(Toggle /\ enabled')
  /\ \A j \in Job :
       /\ WF_vars(Expire(j))
       /\ SF_vars(\E w \in Worker : Claim(w, j))
       /\ SF_vars(\E w \in Worker : job[w] = j /\ Run(w, "ran"))
       /\ SF_vars(\E w \in Worker : job[w] = j /\ Finish(w))
  /\ \A w \in Worker : WF_vars(Fail(w) \/ Pause(w) \/ Finish(w) \/ Run(w, "failed"))

FairSpec == Spec /\ Fairness

-----------------------------------------------------------------------------

(* The pointer exists exactly while there is work: a job without one is never
   run by the Cron, and one that outlives its job is claimed for nothing
   (enqueueJob, finishJob, pauseMemberProvisioningJob). *)
PointerIffQueued == \A j \in Job : pointer[j] = "none" <=> status[j] # "queued"

(* The jobs implement what enqueuing promises: a job is done only after its side
   effect was acknowledged or refused for good, and stays done, whichever workers
   report late, crash, fail or pause it (claimRunFinish, finishJobsAfterCommit). *)
Abstract == INSTANCE JobPromise WITH
  state <- [j \in Job |-> IF status[j] = "queued" THEN "pending" ELSE status[j]]
ImplementsPromise == Abstract!Promise

(* A committed job is run to done, through crashes, expired leases, failures and
   pauses. *)
EventuallyDone == \A j \in Job : status[j] = "queued" ~> status[j] = "done"

(* While a worker's lease has not expired, no other worker claims its job: "the
   row is only claimed if it is still undone and either unlocked or expired". *)
LeaseIsExclusive ==
  \A v, w \in inLease : job[v] = job[w] => v = w
=============================================================================
