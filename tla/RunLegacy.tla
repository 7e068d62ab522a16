------------------------------ MODULE RunLegacy ------------------------------
(***************************************************************************)
(* The Enterprise engine (runAttempt), which drives an attempt inside its  *)
(* own Workflow instance when no native runtime is configured: it calls the*)
(* model, runs tools, parks on a person, and finishes through setRunStatus.*)
(* The Workflow's named steps are checkpointed, and skipped on a replay.   *)
(*                                                                         *)
(* The control plane is RunControl's; this module replaces RunControl's    *)
(* Engine, and every step of it is a step RunControl allows.  Left out:    *)
(* the transcript, tools, deltas and usage; a turn of the loop is a choice *)
(* of what the model and its tools made of it.                             *)
(***************************************************************************)
EXTENDS RunControl

VARIABLES
  pc,        \* where the instance of an attempt is
  ckpt,      \* the checkpoints of its steps: started, a context answer, finish
  out        \* the outcome it is about to write

legacyVars == <<pc, ckpt, out>>
allVars == <<vars, legacyVars>>

Place == {"boot", "starting", "replaying", "loop", "parked", "finishing", "returning", "throwing", "over"}
Checkpoint == {"started", "answered", "finished"}

(* A retryable failure ends the run like a permanent one, but not the instance.
   None of this engine's failures is one automatic recovery retries. *)
Outcome == {"none", "completed", "stopped", "error", "retryable"}

LegacyTypeOK ==
  /\ TypeOK
  /\ pc \in [Run -> [Attempt -> Place]]
  /\ ckpt \in [Run -> [Attempt -> SUBSET Checkpoint]]
  /\ out \in [Run -> [Attempt -> Outcome]]

LegacyInit ==
  /\ Init
  /\ pc = [r \in Run |-> [a \in Attempt |-> "boot"]]
  /\ ckpt = [r \in Run |-> [a \in Attempt |-> {}]]
  /\ out = [r \in Run |-> [a \in Attempt |-> "none"]]

-----------------------------------------------------------------------------

At(r, a, p) == Live(r, a) /\ pc[r][a] = p
Goto(r, a, p) == pc' = [pc EXCEPT ![r][a] = p]
NoControl == UNCHANGED <<jobVars, inst, declined>>
RowUnchanged == UNCHANGED <<row, sweep, seen>>

Checkpointed(r, a, c) == ckpt' = [ckpt EXCEPT ![r][a] = @ \cup {c}]
Decide(r, a, o) == /\ Goto(r, a, "finishing")
                   /\ out' = [out EXCEPT ![r][a] = o]

(* The row is read by the run's id alone, whichever attempt it is at. *)
Boot(r, a) ==
  /\ At(r, a, "boot")
  /\ \/ /\ row[r].stop \/ row[r].status \in {"stopping", "stopped"}
        /\ Decide(r, a, "stopped")
     \/ /\ ~row[r].stop /\ row[r].status \notin {"stopping", "stopped"}
        /\ Goto(r, a, "starting")
        /\ UNCHANGED out
  /\ UNCHANGED <<vars, ckpt>>

Started(r, a) ==
  /\ At(r, a, "starting")
  /\ "started" \notin ckpt[r][a]
  /\ SetRunStatus(r, "working", FALSE)
  /\ \/ Checkpointed(r, a, "started") /\ Goto(r, a, "loop")
     \/ UNCHANGED <<ckpt, pc>>     \* the emission failed: the step is retried
  /\ NoControl
  /\ UNCHANGED out

(* A replay returns the checkpointed results up to where the instance was.  Of
   what is between the steps, only waitForAnswer writes: it parks the run on the
   question of a context answer again, and the answer's own step is skipped. *)
ReplayStarted(r, a) ==
  /\ At(r, a, "starting")
  /\ "started" \in ckpt[r][a]
  /\ Goto(r, a, IF "answered" \in ckpt[r][a] THEN "replaying" ELSE "loop")
  /\ UNCHANGED <<vars, ckpt, out>>

ReplayPark(r, a) ==
  /\ At(r, a, "replaying")
  /\ SetRunStatus(r, "waiting", FALSE)
  /\ Goto(r, a, "loop")
  /\ NoControl
  /\ UNCHANGED <<ckpt, out>>

(* A turn of the loop that ends the run: a Stop that a poll saw, an answer
   without tool calls, or a failure. *)
Turn(r, a) ==
  /\ At(r, a, "loop")
  /\ \E o \in Outcome \ {"none"} : (o = "stopped" => row[r].stop) /\ Decide(r, a, o)
  /\ UNCHANGED <<vars, ckpt>>

(* Mutant of KeyRefused: runs that have ended are asked to stop too. *)
KeyRefusedAll(r, a) ==
  /\ At(r, a, "loop")
  /\ row' = [q \in Run |-> IF q # r /\ row[q].status # "none"
                           THEN [row[q] EXCEPT !.stop = TRUE, !.age = "grace"] ELSE row[q]]
  /\ sweep' = [q \in Run |-> IF q # r THEN Outdated(sweep[q]) ELSE sweep[q]]
  /\ seen' = [q \in Run |-> IF q # r THEN "none" ELSE seen[q]]
  /\ NoControl
  /\ Decide(r, a, "error")
  /\ UNCHANGED ckpt

KeyRefused(r, a) ==
  /\ At(r, a, "loop")
  /\ EngineStopsOthers(r, a)
  /\ Decide(r, a, "error")
  /\ UNCHANGED ckpt

(* waitForAnswer.  The answer's step writes "working"; only the answer of an
   operation approval reads Stop first, and fails. *)
Park(r, a) ==
  /\ At(r, a, "loop")
  /\ SetRunStatus(r, "waiting", FALSE)
  /\ Goto(r, a, "parked")
  /\ NoControl
  /\ UNCHANGED <<ckpt, out>>

(* The answer of an operation approval is preceded by a checkpointed park. *)
Answered(r, a) ==
  /\ At(r, a, "parked")
  /\ SetRunStatus(r, "working", FALSE)
  /\ Goto(r, a, "loop")
  /\ Checkpointed(r, a, "answered") \/ UNCHANGED ckpt
  /\ NoControl
  /\ UNCHANGED out

AnswerFails(r, a) ==
  /\ At(r, a, "parked")
  /\ Decide(r, a, "error")
  /\ UNCHANGED <<vars, ckpt>>

(* Mutant of Finish: a retryable failure is written as it is classified. *)
FinishRaw(r, a) ==
  /\ At(r, a, "finishing")
  /\ IF "finished" \in ckpt[r][a] THEN RowUnchanged ELSE SetRunStatus(r, out[r][a], FALSE)
  /\ Checkpointed(r, a, "finished")
  /\ Goto(r, a, IF out[r][a] = "error" THEN "throwing" ELSE "returning")
  /\ NoControl
  /\ UNCHANGED out

(* The step finish: the status is guarded by the terminal statuses only.  When an
   emission fails the step is retried.  A permanent error also makes the instance
   throw. *)
Finish(r, a) ==
  LET o == out[r][a] IN
  /\ At(r, a, "finishing")
  /\ IF "finished" \in ckpt[r][a] THEN RowUnchanged
     ELSE SetRunStatus(r, IF o = "retryable" THEN "error" ELSE o, FALSE)
  /\ \/ /\ Checkpointed(r, a, "finished")
        /\ Goto(r, a, IF o = "error" THEN "throwing" ELSE "returning")
     \/ /\ "finished" \notin ckpt[r][a]
        /\ UNCHANGED <<ckpt, pc>>
  /\ NoControl
  /\ UNCHANGED out

(* The isolate is lost: the platform replays the instance from its start. *)
Replay(r, a) ==
  /\ Live(r, a)
  /\ pc[r][a] # "boot"
  /\ Goto(r, a, "boot")
  /\ out' = [out EXCEPT ![r][a] = "none"]
  /\ UNCHANGED <<vars, ckpt>>

(* The state of an instance that has ended is gone. *)
Forget ==
  LET over(r, a) == inst'[r][a] \in {"complete", "failed"} IN
  /\ pc' = [r \in Run |-> [a \in Attempt |-> IF over(r, a) THEN "over" ELSE pc[r][a]]]
  /\ ckpt' = [r \in Run |-> [a \in Attempt |-> IF over(r, a) THEN {} ELSE ckpt[r][a]]]
  /\ out' = [r \in Run |-> [a \in Attempt |-> IF over(r, a) THEN "none" ELSE out[r][a]]]

Ends(r, a) ==
  /\ At(r, a, "returning") \/ At(r, a, "throwing")
  /\ inst' = [inst EXCEPT ![r][a] = IF pc[r][a] = "returning" THEN "complete" ELSE "failed"]
  /\ Forget
  /\ UNCHANGED <<row, jobVars, sweep, seen, declined>>

Loop(r, a) ==
  \/ Boot(r, a) \/ Started(r, a) \/ ReplayStarted(r, a) \/ ReplayPark(r, a) \/ Turn(r, a) \/ KeyRefused(r, a)
  \/ Park(r, a) \/ Answered(r, a) \/ AnswerFails(r, a)
  \/ Finish(r, a) \/ Replay(r, a) \/ Ends(r, a)

LegacyNext == (Control /\ Forget) \/ \E r \in Run, a \in Attempt : Loop(r, a)

LegacySpec == LegacyInit /\ [][LegacyNext]_allVars

-----------------------------------------------------------------------------

(* Every step of the loop is one the control plane allows its engine. *)
ImplementsControl == Spec

(* A run starts to wait only when an instance of it waits for an answer: one that
   was answered is not parked again ("Replaying a completed answer must not put
   the run back into waiting", waitForAnswer). *)
WaitsForAnAnswer ==
  [][\A r \in Run : row[r].status # "waiting" /\ row'[r].status = "waiting"
       => \E a \in Attempt : pc'[r][a] = "parked"]_allVars
=============================================================================
