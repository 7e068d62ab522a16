------------------------------ MODULE JobsProofs ------------------------------
(***************************************************************************)
(* Proofs, for any number of workers and jobs, that the durable jobs keep  *)
(* the promise made to the transaction that enqueues one, and that their   *)
(* pointers exist exactly while there is work.                             *)
(***************************************************************************)
EXTENDS Jobs, TLAPS

(* A worker that is not idle works on a committed job. *)
WorkersHaveJobs ==
  \A w \in Worker : at[w] # "idle" => job[w] \in Job /\ status[job[w]] # "absent"

(* A worker that will report a job done has seen its side effect settled. *)
ReportersSettled == \A w \in Worker : at[w] \in {"ran", "refused"} => job[w] \in settled

IInv ==
  /\ TypeOK
  /\ WorkersHaveJobs /\ ReportersSettled
  /\ PointerIffQueued

-----------------------------------------------------------------------------

(* Nothing has been enqueued yet. *)
LEMMA InitOK ==
  ASSUME Init
  PROVE  IInv
  BY DEF Init, IInv, TypeOK, Place, WorkersHaveJobs, ReportersSettled, PointerIffQueued

(* A worker that leaves its job leaves what it knew of it; the reports differ in
   what they do to the job. *)
LEMMA LeaveKeeps ==
  ASSUME IInv, NEW w \in Worker, Leave(w), at[w] # "idle",
         status' \in [Job -> {"absent", "queued", "done"}],
         locked' \subseteq Job, pointer' \in [Job -> {"none", "ready", "paused"}],
         \A j \in Job : status[j] # "absent" => status'[j] # "absent",
         PointerIffQueued'
  PROVE  IInv'
<1>1. /\ at' \in [Worker -> Place] /\ job' \in [Worker -> Job \cup {None}]
      /\ at'[w] = "idle" /\ settled' = settled
      /\ \A v \in Worker : v # w => at'[v] = at[v] /\ job'[v] = job[v]
  BY DEF Leave, IInv, TypeOK, Place
<1>2. TypeOK'
  BY <1>1 DEF Leave, IInv, TypeOK
<1>3. WorkersHaveJobs'
  BY <1>1 DEF IInv, WorkersHaveJobs
<1>4. ReportersSettled'
  BY <1>1 DEF IInv, ReportersSettled, TypeOK
<1>5. QED
  BY <1>2, <1>3, <1>4 DEF IInv

(* enqueueJob commits the row with its pointer. *)
LEMMA EnqueueKeeps ==
  ASSUME IInv, NEW j \in Job, Enqueue(j)
  PROVE  IInv'
<1>1. TypeOK'
  BY DEF Enqueue, IInv, TypeOK
<1>2. WorkersHaveJobs'
  BY DEF Enqueue, IInv, TypeOK, WorkersHaveJobs
<1>3. ReportersSettled'
  BY DEF Enqueue, IInv, ReportersSettled
<1>4. PointerIffQueued'
  BY DEF Enqueue, IInv, TypeOK, PointerIffQueued
<1>5. QED
  BY <1>1, <1>2, <1>3, <1>4 DEF IInv

(* claimJob takes a queued job. *)
LEMMA ClaimKeeps ==
  ASSUME IInv, NEW w \in Worker, NEW j \in Job, Claim(w, j)
  PROVE  IInv'
<1>1. /\ at' = [at EXCEPT ![w] = "claimed"] /\ job' = [job EXCEPT ![w] = j]
      /\ status[j] = "queued" /\ UNCHANGED <<status, pointer, settled>>
  BY DEF Claim, Claimable
<1>2. TypeOK'
  BY <1>1 DEF Claim, IInv, TypeOK, Place
<1>3. WorkersHaveJobs'
  BY <1>1 DEF IInv, TypeOK, WorkersHaveJobs
<1>4. ReportersSettled'
  BY <1>1 DEF IInv, TypeOK, ReportersSettled
<1>5. PointerIffQueued'
  BY <1>1 DEF IInv, PointerIffQueued
<1>6. QED
  BY <1>2, <1>3, <1>4, <1>5 DEF IInv

(* runJob, however it ends. *)
LEMMA RunKeeps ==
  ASSUME IInv, NEW w \in Worker, NEW to \in Place \ {"idle", "claimed"}, Run(w, to)
  PROVE  IInv'
<1>1. /\ at[w] = "claimed" /\ at' = [at EXCEPT ![w] = to] /\ job[w] \in Job
      /\ settled' = IF to \in {"ran", "refused"} THEN settled \cup {job[w]} ELSE settled
      /\ UNCHANGED <<status, locked, pointer, enabled, job, inLease>>
  BY DEF Run, IInv, WorkersHaveJobs
<1>2. TypeOK'
  BY <1>1 DEF IInv, TypeOK
<1>3. WorkersHaveJobs'
  BY <1>1 DEF IInv, TypeOK, WorkersHaveJobs
<1>4. ReportersSettled'
  BY <1>1 DEF IInv, TypeOK, ReportersSettled
<1>5. PointerIffQueued'
  BY <1>1 DEF IInv, PointerIffQueued
<1>6. QED
  BY <1>2, <1>3, <1>4, <1>5 DEF IInv

(* The request that performs its own jobs, without a claim. *)
LEMMA RunDirectKeeps ==
  ASSUME IInv, NEW w \in Worker, NEW j \in Job, RunDirect(w, j)
  PROVE  IInv'
<1>1. /\ at' = [at EXCEPT ![w] = "ran"] /\ job' = [job EXCEPT ![w] = j]
      /\ settled' = settled \cup {j} /\ status[j] = "queued"
      /\ UNCHANGED <<status, locked, pointer, enabled, inLease>>
  BY DEF RunDirect
<1>2. TypeOK'
  BY <1>1 DEF IInv, TypeOK, Place
<1>3. WorkersHaveJobs'
  BY <1>1 DEF IInv, TypeOK, WorkersHaveJobs
<1>4. ReportersSettled'
  BY <1>1 DEF IInv, TypeOK, ReportersSettled
<1>5. PointerIffQueued'
  BY <1>1 DEF IInv, PointerIffQueued
<1>6. QED
  BY <1>2, <1>3, <1>4, <1>5 DEF IInv

(* finishJob, finishFailedJob and finishJobsAfterCommit take the pointer away with
   the work. *)
LEMMA FinishKeeps ==
  ASSUME IInv, NEW w \in Worker, Finish(w)
  PROVE  IInv'
<1>1. /\ status' = [status EXCEPT ![job[w]] = "done"] /\ locked' = locked \ {job[w]}
      /\ pointer' = [pointer EXCEPT ![job[w]] = "none"] /\ Leave(w)
      /\ at[w] # "idle" /\ job[w] \in Job
  BY DEF Finish, IInv, WorkersHaveJobs
<1>2. /\ status' \in [Job -> {"absent", "queued", "done"}]
      /\ locked' \subseteq Job /\ pointer' \in [Job -> {"none", "ready", "paused"}]
      /\ \A j \in Job : status[j] # "absent" => status'[j] # "absent"
  BY <1>1 DEF IInv, TypeOK
<1>3. PointerIffQueued'
  BY <1>1 DEF IInv, TypeOK, PointerIffQueued
<1>4. QED
  BY <1>1, <1>2, <1>3, LeaveKeeps

(* failJob, and the loss of a worker: the row and its pointer stay. *)
LEMMA FailKeeps ==
  ASSUME IInv, NEW w \in Worker, Fail(w) \/ Crash(w)
  PROVE  IInv'
<1>1. /\ UNCHANGED <<status, pointer>> /\ locked' \subseteq locked
      /\ at[w] # "idle" /\ Leave(w)
  BY DEF Fail, Crash
<1>2. PointerIffQueued'
  BY <1>1 DEF IInv, PointerIffQueued
<1>3. QED
  BY <1>1, <1>2, LeaveKeeps DEF IInv, TypeOK

(* pauseMemberProvisioningJob changes the pointer of a queued job only. *)
LEMMA PauseKeeps ==
  ASSUME IInv, NEW w \in Worker, Pause(w)
  PROVE  IInv'
<1>1. at[w] = "paused" /\ job[w] \in Job /\ UNCHANGED status
  BY DEF Pause, IInv, WorkersHaveJobs
<1>2. CASE status[job[w]] = "queued" /\ pointer[job[w]] # "none"
  <2>1. /\ locked' = locked \ {job[w]} /\ Leave(w)
        /\ pointer' = [pointer EXCEPT ![job[w]] = "paused"]
    BY <1>2 DEF Pause
  <2>2. locked' \subseteq Job /\ pointer' \in [Job -> {"none", "ready", "paused"}]
    BY <1>1, <2>1 DEF IInv, TypeOK
  <2>3. PointerIffQueued'
    BY <1>1, <1>2, <2>1 DEF IInv, TypeOK, PointerIffQueued
  <2>4. QED
    BY <1>1, <2>1, <2>2, <2>3, LeaveKeeps DEF IInv, TypeOK
<1>3. CASE ~(status[job[w]] = "queued" /\ pointer[job[w]] # "none")
  <2>1. /\ at' = [at EXCEPT ![w] = "failed"]
        /\ UNCHANGED <<locked, pointer, enabled, job, inLease, settled>>
    BY <1>3 DEF Pause
  <2>2. TypeOK'
    BY <1>1, <2>1 DEF IInv, TypeOK, Place
  <2>3. WorkersHaveJobs' /\ ReportersSettled'
    BY <1>1, <2>1 DEF IInv, TypeOK, WorkersHaveJobs, ReportersSettled
  <2>4. PointerIffQueued'
    BY <1>1, <2>1 DEF IInv, PointerIffQueued
  <2>5. QED
    BY <2>2, <2>3, <2>4 DEF IInv
<1>4. QED
  BY <1>2, <1>3

(* drainJobs makes paused pointers ready again, and a lease runs out. *)
LEMMA CronKeeps ==
  ASSUME IInv, Unpause \/ Toggle \/ \E j \in Job : Expire(j)
  PROVE  IInv'
<1>1. UNCHANGED <<status, at, job, settled>>
  BY DEF Unpause, Toggle, Expire
<1>2. /\ pointer' \in [Job -> {"none", "ready", "paused"}]
      /\ \A j \in Job : pointer'[j] = "none" <=> pointer[j] = "none"
  BY DEF Unpause, Toggle, Expire, IInv, TypeOK
<1>3. locked' \subseteq Job /\ enabled' \in BOOLEAN /\ inLease' \subseteq Worker
  BY DEF Unpause, Toggle, Expire, IInv, TypeOK
<1>4. TypeOK'
  BY <1>1, <1>2, <1>3 DEF IInv, TypeOK
<1>5. WorkersHaveJobs' /\ ReportersSettled' /\ PointerIffQueued'
  BY <1>1, <1>2 DEF IInv, WorkersHaveJobs, ReportersSettled, PointerIffQueued
<1>6. QED
  BY <1>4, <1>5 DEF IInv

(* Every step of the jobs keeps the invariant. *)
LEMMA NextKeeps ==
  ASSUME IInv, [Next]_vars
  PROVE  IInv'
<1>1. CASE UNCHANGED vars
  BY <1>1 DEF vars, IInv, TypeOK, WorkersHaveJobs, ReportersSettled, PointerIffQueued
<1>2. ASSUME NEW w \in Worker, Work(w)
      PROVE  IInv'
  BY <1>2, ClaimKeeps, RunDirectKeeps, RunKeeps, FinishKeeps, FailKeeps, PauseKeeps DEF Work
<1>3. CASE \E j \in Job : Enqueue(j)
  BY <1>3, EnqueueKeeps
<1>4. QED
  BY <1>1, <1>2, <1>3, CronKeeps DEF Next

(* The inductive invariant holds in every reachable state, for any workers and jobs. *)
THEOREM Invariance == Spec => []IInv
<1>1. Init => IInv
  BY InitOK
<1>2. IInv /\ [Next]_vars => IInv'
  BY NextKeeps
<1>3. QED
  BY <1>1, <1>2, PTL DEF Spec

(* The rows, pointers and workers keep their types. *)
THEOREM TypeCorrect == Spec => []TypeOK
<1>1. IInv => TypeOK
  BY DEF IInv
<1>2. QED
  BY <1>1, Invariance, PTL

(* enqueueJob, finishJob, pauseMemberProvisioningJob: a job has a pointer exactly
   while it is queued. *)
THEOREM PointersAreExact == Spec => []PointerIffQueued
<1>1. IInv => PointerIffQueued
  BY DEF IInv
<1>2. QED
  BY <1>1, Invariance, PTL

-----------------------------------------------------------------------------
(* The refinement *)

(* What the promise calls the state of a job. *)
Promised == [j \in Job |-> IF status[j] = "queued" THEN "pending" ELSE status[j]]

(* A step that changes neither a job's status nor what is settled is none of the
   promise's. *)
LEMMA PromiseStutters ==
  ASSUME UNCHANGED <<status, settled>>
  PROVE  UNCHANGED Abstract!promiseVars
  BY DEF Abstract!promiseVars

(* runJob and the direct request settle a committed job. *)
LEMMA SettleSimulated ==
  ASSUME IInv, NEW j \in Job, status[j] # "absent",
         settled' = settled \cup {j}, UNCHANGED status
  PROVE  Abstract!PromiseNext
<1>1. Promised[j] # "absent"
  BY DEF Promised
<1>2. Abstract!Settle(j)
  BY <1>1 DEF Abstract!Settle, Promised
<1>3. QED
  BY <1>2 DEF Abstract!PromiseNext

(* enqueueJob makes the promise. *)
LEMMA EnqueueSimulated ==
  ASSUME IInv, NEW j \in Job, Enqueue(j)
  PROVE  Abstract!PromiseNext
<1>1. Promised[j] = "absent"
  BY DEF Enqueue, Promised
<1>2. Promised' = [Promised EXCEPT ![j] = "pending"]
  BY DEF Enqueue, Promised, IInv, TypeOK
<1>3. Abstract!Enqueued(j)
  BY <1>1, <1>2 DEF Abstract!Enqueued, Enqueue, Promised
<1>4. QED
  BY <1>3 DEF Abstract!PromiseNext

(* finishJob keeps it, or reports again what another worker has reported. *)
LEMMA FinishSimulated ==
  ASSUME IInv, NEW w \in Worker, Finish(w)
  PROVE  [Abstract!PromiseNext]_(Abstract!promiseVars)
<1>1. PICK j \in Job : j = job[w]
  BY DEF Finish, IInv, WorkersHaveJobs
<1>2. /\ j \in settled /\ status[j] \in {"queued", "done"}
      /\ status' = [status EXCEPT ![j] = "done"] /\ UNCHANGED settled
  BY <1>1 DEF Finish, Leave, IInv, TypeOK, WorkersHaveJobs, ReportersSettled
<1>3. CASE status[j] = "done"
  <2>1. UNCHANGED status
    BY <1>2, <1>3 DEF IInv, TypeOK
  <2>2. QED
    BY <1>2, <2>1, PromiseStutters
<1>4. CASE status[j] = "queued"
  <2>1. Promised[j] = "pending"
    BY <1>4 DEF Promised
  <2>2. Promised' = [Promised EXCEPT ![j] = "done"]
    BY <1>2 DEF Promised, IInv, TypeOK
  <2>3. Abstract!Done(j)
    BY <1>2, <2>1, <2>2 DEF Abstract!Done, Promised
  <2>4. QED
    BY <2>3 DEF Abstract!PromiseNext
<1>5. QED
  BY <1>2, <1>3, <1>4

(* Every step of the jobs is a step of the promise, or none of its. *)
LEMMA NextSimulated ==
  ASSUME IInv, [Next]_vars
  PROVE  [Abstract!PromiseNext]_(Abstract!promiseVars)
<1>1. CASE UNCHANGED vars
  BY <1>1, PromiseStutters DEF vars
<1>2. ASSUME NEW w \in Worker, Work(w)
      PROVE  [Abstract!PromiseNext]_(Abstract!promiseVars)
  <2>1. CASE \E j \in Job : Claim(w, j)
    BY <2>1, PromiseStutters DEF Claim
  <2>2. ASSUME NEW j \in Job, RunDirect(w, j)
        PROVE  Abstract!PromiseNext
    BY <2>2, SettleSimulated DEF RunDirect
  <2>3. ASSUME NEW to \in Place \ {"idle", "claimed"}, Run(w, to)
        PROVE  [Abstract!PromiseNext]_(Abstract!promiseVars)
    <3>1. CASE to \in {"ran", "refused"}
      <4>1. /\ job[w] \in Job /\ status[job[w]] # "absent"
            /\ settled' = settled \cup {job[w]} /\ UNCHANGED status
        BY <2>3, <3>1 DEF Run, IInv, WorkersHaveJobs
      <4>2. QED
        BY <4>1, SettleSimulated
    <3>2. CASE to \notin {"ran", "refused"}
      BY <2>3, <3>2, PromiseStutters DEF Run
    <3>3. QED
      BY <3>1, <3>2
  <2>4. CASE Fail(w) \/ Pause(w) \/ Crash(w)
    BY <2>4, PromiseStutters DEF Fail, Pause, Crash, Leave
  <2>5. QED
    BY <1>2, <2>1, <2>2, <2>3, <2>4, FinishSimulated DEF Work
<1>3. CASE \E j \in Job : Enqueue(j)
  BY <1>3, EnqueueSimulated
<1>4. CASE Unpause \/ Toggle \/ \E j \in Job : Expire(j)
  BY <1>4, PromiseStutters DEF Unpause, Toggle, Expire
<1>5. QED
  BY <1>1, <1>2, <1>3, <1>4 DEF Next

(* The durable jobs implement what enqueuing promises: a job is done only after
   its side effect was acknowledged or refused for good, and stays done. *)
THEOREM JobsKeepThePromise == Spec => ImplementsPromise
<1>1. Init => Abstract!PromiseInit
  BY DEF Init, Abstract!PromiseInit
<1>2. IInv /\ [Next]_vars => [Abstract!PromiseNext]_(Abstract!promiseVars)
  BY NextSimulated
<1>3. QED
  BY <1>1, <1>2, Invariance, PTL DEF Spec, ImplementsPromise, Abstract!Promise
===============================================================================
