------------------------------ MODULE RunHermes ------------------------------
(***************************************************************************)
(* The Hermes adapter (runHermesAttempt): the Workflow instance that       *)
(* drives an attempt by submitting it to an agent's native runtime, polling*)
(* it, and writing the outcome through a transaction fenced by the attempt.*)
(* Steps of the Workflow are checkpointed; everything between them is      *)
(* executed again when the instance is replayed.                           *)
(*                                                                         *)
(* The control plane is RunControl's; this module replaces RunControl's    *)
(* Engine, and every step of it is a step RunControl allows (the property  *)
(* Spec of the runs).  Left out: text, events, tool arguments, guidance,   *)
(* latency marks, the runtime's capabilities (they only throw).            *)
(***************************************************************************)
EXTENDS RunControl

VARIABLES
  pc,        \* where the instance of an attempt is
  ckpt,      \* the last Workflow step the platform has checkpointed
  out,       \* the outcome an instance is about to write
  auto,      \* whether its attempt is automatic, as it read when it started
  request,   \* runs.runtime_request_attempt, the attempt a request is stored for
  bound,     \* runs.runtime_attempt, the attempt a native run is bound to
  native     \* the native run of an attempt (external)

hermesVars == <<pc, ckpt, out, auto, request, bound, native>>
allVars == <<vars, hermesVars>>

Place == {"boot", "stopAtStart", "starting", "submitting", "submitted", "binding",
          "executing", "final", "failing", "returning", "throwing", "over"}
Outcome == {"none", "completed", "stopped", "error", "transient"}
NativeState == {"none", "running", "completed", "failed", "cancelled"}

HermesTypeOK ==
  /\ TypeOK
  /\ pc \in [Run -> [Attempt -> Place]]
  /\ ckpt \in [Run -> [Attempt -> {"none", "started", "submitted"}]]
  /\ out \in [Run -> [Attempt -> Outcome]]
  /\ auto \in [Run -> [Attempt -> BOOLEAN]]
  /\ request \in [Run -> 0..MaxAttempt]
  /\ bound \in [Run -> 0..MaxAttempt]
  /\ native \in [Run -> [Attempt -> NativeState]]

HermesInit ==
  /\ Init
  /\ pc = [r \in Run |-> [a \in Attempt |-> "boot"]]
  /\ ckpt = [r \in Run |-> [a \in Attempt |-> "none"]]
  /\ out = [r \in Run |-> [a \in Attempt |-> "none"]]
  /\ auto = [r \in Run |-> [a \in Attempt |-> FALSE]]
  /\ request = [r \in Run |-> 0]
  /\ bound = [r \in Run |-> 0]
  /\ native = [r \in Run |-> [a \in Attempt |-> "none"]]

-----------------------------------------------------------------------------

At(r, a, p) == Live(r, a) /\ pc[r][a] = p
Goto(r, a, p) == pc' = [pc EXCEPT ![r][a] = p]
RowUnchanged == UNCHANGED <<row, sweep, seen>>
NoControl == UNCHANGED <<jobVars, inst, declined>>

Current(r, a) == row[r].attempt = a
Admissible(r, a) == Current(r, a) /\ ~row[r].stop /\ row[r].status = "working"
StopNative(r, a) ==
  native' = [native EXCEPT ![r][a] = IF @ = "running" THEN "cancelled" ELSE @]

(* Startup: the row must still be at this attempt, and an automatic attempt must
   still be wanted.  A Stop already recorded interrupts the bound native run, or
   ends the run in the next step. *)
StartupPlace(r, a) ==
  CASE bound[r] = a /\ IsTerminal(r) -> "returning"
    [] row[r].stop /\ bound[r] # a -> "stopAtStart"
    [] OTHER -> "starting"

Startup(r, a) ==
  /\ At(r, a, "boot")
  /\ Current(r, a)
  /\ row[r].automatic => row[r].status \in {"working", "stopping"}
  /\ Goto(r, a, StartupPlace(r, a))
  /\ auto' = [auto EXCEPT ![r][a] = row[r].automatic]
  /\ IF IsActive(r) /\ row[r].stop /\ bound[r] = a
     THEN StopNative(r, a) ELSE UNCHANGED native
  /\ RowUnchanged /\ NoControl
  /\ UNCHANGED <<ckpt, out, request, bound>>

StartupRefused(r, a) ==
  /\ At(r, a, "boot")
  /\ ~Current(r, a) \/ (row[r].automatic /\ ~Admissible(r, a))
  /\ Goto(r, a, "throwing")
  /\ UNCHANGED <<vars, ckpt, out, auto, request, bound, native>>

(* Mutant of StartupDrift: failed by the run's id, not by the attempt. *)
StartupDriftUnfenced(r, a) ==
  /\ At(r, a, "boot")
  /\ row[r].automatic /\ row[r].status = "working" /\ ~row[r].stop
  /\ Write(r, [row[r] EXCEPT !.status = "error", !.transient = FALSE,
                             !.cancelled = TRUE, !.due = FALSE])
  /\ NoControl
  /\ Goto(r, a, "throwing")
  /\ UNCHANGED <<ckpt, out, auto, request, bound, native>>

(* prepareAutomaticRecoveryExecution: the runtime the retry was admitted for has
   changed, and the attempt fails closed. *)
StartupDrift(r, a) ==
  /\ At(r, a, "boot")
  /\ EngineFailsClosed(r, a)
  /\ Goto(r, a, "throwing")
  /\ UNCHANGED <<ckpt, out, auto, request, bound, native>>

StopAtStart(r, a) ==
  /\ At(r, a, "stopAtStart")
  /\ SetRunStatus(r, "stopped", FALSE)
  /\ Goto(r, a, "returning")
  /\ NoControl
  /\ UNCHANGED <<ckpt, out, auto, request, bound, native>>

(* The step hermes-started.  On a replay its checkpoint is returned and the
   status is not written again; when the delivery after its commit fails the
   step's body is run again, without the startup read before it. *)
Started(r, a) ==
  /\ At(r, a, "starting")
  /\ IF ckpt[r][a] # "none"
     THEN Goto(r, a, "submitting") /\ RowUnchanged /\ UNCHANGED ckpt
     ELSE /\ IF auto[r][a] THEN RowUnchanged ELSE SetRunStatus(r, "working", FALSE)
          /\ IF auto[r][a] /\ ~Admissible(r, a)
             THEN Goto(r, a, "returning") /\ UNCHANGED ckpt
             ELSE \/ /\ ckpt' = [ckpt EXCEPT ![r][a] = "started"]
                     /\ Goto(r, a, "submitting")
                  \/ UNCHANGED <<ckpt, pc>>
  /\ NoControl
  /\ UNCHANGED <<out, auto, request, bound, native>>

(* Mutant of Busy: a request that is not bound yet is not seen. *)
BusyBound(r) == \E q \in Run \ {r} : IsActive(q) /\ bound[q] = row[q].attempt

(* The step hermes-submit: an existing binding is reused, so is an existing
   request; a new request is stored under the agent's lock, unless another run
   of the agent has one (snapshotRequest). *)
Busy(r) ==
  \E q \in Run \ {r} :
    IsActive(q) /\ (bound[q] = row[q].attempt \/ request[q] = row[q].attempt)

Prepare(r, a) ==
  /\ At(r, a, "submitting")
  /\ IF ckpt[r][a] = "submitted" \/ bound[r] = a
     THEN /\ ckpt' = [ckpt EXCEPT ![r][a] = "submitted"]
          /\ Goto(r, a, "executing")
          /\ RowUnchanged /\ UNCHANGED request
     ELSE /\ UNCHANGED ckpt
          /\ IF Current(r, a) /\ request[r] = a
             THEN Goto(r, a, "submitted") /\ RowUnchanged /\ UNCHANGED request
             ELSE IF Admissible(r, a) /\ ~Busy(r)
             THEN /\ Write(r, row[r])
                  /\ request' = [request EXCEPT ![r] = a]
                  /\ Goto(r, a, "submitted")
             ELSE /\ \E p \in {"submitting", "failing"} : Goto(r, a, p)
                  /\ RowUnchanged /\ UNCHANGED request
  /\ NoControl
  /\ UNCHANGED <<out, auto, bound, native>>

(* The native runtime acknowledges a submission once per attempt (idempotency
   key), and bindRun refuses one whose run was stopped or retried meanwhile. *)
Submit(r, a) ==
  /\ At(r, a, "submitted")
  /\ ~auto[r][a]
  /\ native' = [native EXCEPT ![r][a] = IF @ = "none" THEN "running" ELSE @]
  /\ Goto(r, a, "binding")
  /\ RowUnchanged /\ NoControl
  /\ UNCHANGED <<ckpt, out, auto, request, bound>>

Bound(r, a) ==
  /\ Write(r, row[r])
  /\ bound' = [bound EXCEPT ![r] = a]
  /\ ckpt' = [ckpt EXCEPT ![r][a] = "submitted"]
  /\ Goto(r, a, "executing")

Bind(r, a) ==
  /\ At(r, a, "binding")
  /\ IF Admissible(r, a)
     THEN Bound(r, a) /\ UNCHANGED native
     ELSE /\ \E p \in {"submitting", "failing"} : Goto(r, a, p)
          /\ StopNative(r, a)
          /\ RowUnchanged /\ UNCHANGED <<bound, ckpt>>
  /\ NoControl
  /\ UNCHANGED <<out, auto, request>>

(* An automatic attempt submits and binds under the row's lock. *)
SubmitLocked(r, a) ==
  /\ At(r, a, "submitted")
  /\ auto[r][a]
  /\ IF Admissible(r, a)
     THEN /\ native' = [native EXCEPT ![r][a] = IF @ = "none" THEN "running" ELSE @]
          /\ \/ Bound(r, a)
             \/ /\ \E p \in {"submitting", "failing"} : Goto(r, a, p)
                /\ RowUnchanged /\ UNCHANGED <<bound, ckpt>>
     ELSE Goto(r, a, "returning") /\ RowUnchanged /\ UNCHANGED <<bound, ckpt, native>>
  /\ NoControl
  /\ UNCHANGED <<out, auto, request>>

(* A tool call of the bound native run parks the run on a person, and the same
   call resumes it: requireActive under the row's lock. *)
ToolCall(r, from, to) ==
  /\ bound[r] = row[r].attempt /\ ~row[r].stop /\ row[r].status = from
  /\ native[r][bound[r]] = "running"
  /\ Write(r, [row[r] EXCEPT !.status = to])
  /\ NoControl
  /\ UNCHANGED hermesVars

(* The Stop request, after its commit, interrupts the bound native run itself
   rather than wait for a poll (stopRun); it may be lost. *)
RouteStop(r) ==
  LET a == bound[r] IN
  /\ IsActive(r) /\ row[r].stop /\ row[r].attempt = a
  /\ native[r][a] = "running"
  /\ StopNative(r, a)
  /\ UNCHANGED <<vars, pc, ckpt, out, auto, request, bound>>

(* The poll of hermes-execute. *)
PollStop(r, a) ==
  /\ At(r, a, "executing")
  /\ row[r].stop
  /\ native[r][a] = "running"
  /\ StopNative(r, a)
  /\ UNCHANGED <<vars, pc, ckpt, out, auto, request, bound>>

(* A poll that finds the native run over.  The runtime works on its own
   (external), so a running one may turn out completed or failed; a failure
   after a Stop is stopped work. *)
PollTerminal(r, a) ==
  /\ At(r, a, "executing")
  /\ \E s \in IF native[r][a] = "running" THEN {"completed", "failed"} ELSE {native[r][a]} :
       /\ native' = [native EXCEPT ![r][a] = s]
       /\ \E o \in CASE s = "completed" -> {"completed"}
                     [] s = "cancelled" \/ (s = "failed" /\ row[r].stop) -> {"stopped"}
                     [] OTHER -> {"error", "transient"} :
            out' = [out EXCEPT ![r][a] = o]
  /\ Goto(r, a, "final")
  /\ UNCHANGED <<vars, ckpt, auto, request, bound>>

(* Mutant of Fenced: any attempt of a run that has not ended. *)
FencedByStatus(r, a) == ~IsTerminal(r)

(* finalizeRuntime: the row is locked, and must still be at this attempt and not
   terminal; then the outcome, its message and its events commit at once. *)
Fenced(r, a) == Current(r, a) /\ ~IsTerminal(r)

(* Mutant of Finalize: a transient failure is written as it is classified. *)
FinalizeRaw(r, a) ==
  LET o == IF pc[r][a] = "failing" THEN "error" ELSE out[r][a] IN
  /\ At(r, a, "final") \/ At(r, a, "failing")
  /\ IF Fenced(r, a) THEN SetRunStatus(r, o, o = "transient") ELSE RowUnchanged
  /\ Goto(r, a, "returning")
  /\ NoControl
  /\ UNCHANGED <<ckpt, out, auto, request, bound, native>>

Finalize(r, a) ==
  LET o == IF pc[r][a] = "failing" THEN "error" ELSE out[r][a] IN
  /\ At(r, a, "final") \/ At(r, a, "failing")
  /\ IF Fenced(r, a)
     THEN SetRunStatus(r, IF o = "transient" THEN "error" ELSE o, o = "transient")
     ELSE RowUnchanged
  /\ Goto(r, a, "returning")
  /\ NoControl
  /\ UNCHANGED <<ckpt, out, auto, request, bound, native>>

(* A step's body that throws is run again from its start, a few times; so do the
   refusals of Prepare, Bind and SubmitLocked that go back to "submitting". *)
StepRetried(r, a) ==
  /\ \/ (At(r, a, "submitted") \/ At(r, a, "binding")) /\ Goto(r, a, "submitting")
     \/ At(r, a, "final") /\ Goto(r, a, "executing")
  /\ UNCHANGED <<vars, ckpt, out, auto, request, bound, native>>

(* Anything throws: in the attempt, which then finalizes an error, having asked a
   native run whose id it knows and that is not over to stop; or around that. *)
Throw(r, a) ==
  /\ \/ /\ \E p \in {"stopAtStart", "starting", "submitting", "submitted", "binding",
                     "executing", "final"} : At(r, a, p)
        /\ Goto(r, a, "failing")
     \/ (At(r, a, "boot") \/ At(r, a, "failing")) /\ Goto(r, a, "throwing")
  /\ IF pc[r][a] = "executing" THEN StopNative(r, a) ELSE UNCHANGED native
  /\ UNCHANGED <<vars, ckpt, out, auto, request, bound>>

(* The isolate is lost: the platform replays the instance from its start. *)
Replay(r, a) ==
  /\ Live(r, a)
  /\ pc[r][a] \notin {"boot", "over"}
  /\ Goto(r, a, "boot")
  /\ out' = [out EXCEPT ![r][a] = "none"]
  /\ UNCHANGED <<vars, ckpt, auto, request, bound, native>>

(* The state of an instance that has ended is gone. *)
Forget ==
  LET over(r, a) == inst'[r][a] \in {"complete", "failed"} IN
  /\ pc' = [r \in Run |-> [a \in Attempt |-> IF over(r, a) THEN "over" ELSE pc[r][a]]]
  /\ ckpt' = [r \in Run |-> [a \in Attempt |-> IF over(r, a) THEN "none" ELSE ckpt[r][a]]]
  /\ out' = [r \in Run |-> [a \in Attempt |-> IF over(r, a) THEN "none" ELSE out[r][a]]]

Finish(r, a) ==
  /\ At(r, a, "returning") \/ At(r, a, "throwing")
  /\ inst' = [inst EXCEPT ![r][a] = IF pc[r][a] = "returning" THEN "complete" ELSE "failed"]
  /\ Forget
  /\ UNCHANGED <<row, jobVars, sweep, seen, declined, auto, request, bound, native>>

Adapter(r, a) ==
  \/ Startup(r, a) \/ StartupRefused(r, a) \/ StartupDrift(r, a) \/ StopAtStart(r, a) \/ Started(r, a)
  \/ Prepare(r, a) \/ Submit(r, a) \/ Bind(r, a) \/ SubmitLocked(r, a)
  \/ PollStop(r, a) \/ PollTerminal(r, a) \/ Finalize(r, a)
  \/ StepRetried(r, a) \/ Throw(r, a) \/ Replay(r, a) \/ Finish(r, a)

HermesNext ==
  \/ Control /\ Forget /\ UNCHANGED <<auto, request, bound, native>>
  \/ \E r \in Run : \/ ToolCall(r, "working", "waiting")
                    \/ ToolCall(r, "waiting", "working")
                    \/ RouteStop(r)
                    \/ \E a \in Attempt : Adapter(r, a)

HermesSpec == HermesInit /\ [][HermesNext]_allVars

-----------------------------------------------------------------------------

(* Every step of the adapter is one the control plane allows its engine. *)
ImplementsControl == Spec

(* An outcome is the outcome of the attempt that writes it: an instance the
   sweep or a Stop has outlived never completes or fails its successor
   (finalizeRuntime; "A stale attempt may not overwrite its successor"). *)
Writes(r, a) == Live(r, a) /\ pc'[r][a] # pc[r][a] /\ row' # row
OutcomeIsOwn ==
  [][\A r \in Run, a \in Attempt :
       Writes(r, a) /\ IsActive(r) /\ row'[r].status \in {"completed", "error"}
         => Current(r, a)]_allVars

(* The same of a stop: an attempt is not stopped by its predecessor. *)
StopIsOwn ==
  [][\A r \in Run, a \in Attempt :
       Writes(r, a) /\ IsActive(r) /\ row'[r].status = "stopped" => Current(r, a)]_allVars

(* At most one active run of an agent has a native request: the runtime's profile
   is never shared by two runs, whatever is replayed (snapshotRequest). *)
ProfileIsExclusive ==
  \A q, r \in Run :
    /\ IsActive(q) /\ request[q] = row[q].attempt
    /\ IsActive(r) /\ request[r] = row[r].attempt
    => q = r
=============================================================================
