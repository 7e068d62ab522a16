-------------------------- MODULE RunLegacyProofs --------------------------
(***************************************************************************)
(* Proofs, for any number of runs, attempts and sessions and with nothing  *)
(* of RunLegacyMC's bounds, that the Enterprise engine is an engine the    *)
(* control plane allows.                                                   *)
(***************************************************************************)
EXTENDS RunLegacy, RunControlProofs

(* An instance that is about to finish knows its outcome. *)
FinishingHasOutcome ==
  \A r \in Run, a \in Attempt : pc[r][a] = "finishing" => out[r][a] # "none"

LegacyInv == IInv /\ LegacyTypeOK /\ FinishingHasOutcome

-----------------------------------------------------------------------------
(* What an action of the loop does to its own variables *)

LegacyTypes ==
  /\ pc \in [Run -> [Attempt -> Place]]
  /\ ckpt \in [Run -> [Attempt -> SUBSET Checkpoint]]
  /\ out \in [Run -> [Attempt -> Outcome]]

(* The instance of attempt a of run r goes on. *)
Moves == LegacyTypes' /\ FinishingHasOutcome'

(* The engine's step, in terms of RunControl. *)
Allowed == Engine \/ UNCHANGED vars

LEMMA CheckpointTypes ==
  ASSUME LegacyInv, NEW r \in Run, NEW a \in Attempt,
         UNCHANGED ckpt \/ \E c \in Checkpoint : Checkpointed(r, a, c)
  PROVE  ckpt' \in [Run -> [Attempt -> SUBSET Checkpoint]]
<1>1. CASE UNCHANGED ckpt
  BY <1>1 DEF LegacyInv, LegacyTypeOK
<1>2. ASSUME NEW c \in Checkpoint, Checkpointed(r, a, c)
      PROVE  ckpt' \in [Run -> [Attempt -> SUBSET Checkpoint]]
  BY <1>2 DEF LegacyInv, LegacyTypeOK, Checkpointed
<1> QED BY <1>1, <1>2

(* It goes somewhere else than to its end, or decides its outcome. *)
LEMMA GoesOn ==
  ASSUME LegacyInv, NEW r \in Run, NEW a \in Attempt,
         ckpt' \in [Run -> [Attempt -> SUBSET Checkpoint]],
         \/ /\ UNCHANGED pc \/ \E p \in Place \ {"finishing"} : Goto(r, a, p)
            /\ UNCHANGED out
         \/ Goto(r, a, "boot") /\ out' = [out EXCEPT ![r][a] = "none"]
         \/ \E o \in Outcome \ {"none"} : Decide(r, a, o)
  PROVE  Moves
<1>1. /\ pc \in [Run -> [Attempt -> Place]]
      /\ out \in [Run -> [Attempt -> Outcome]]
  BY DEF LegacyInv, LegacyTypeOK
<1>2. "finishing" \in Place /\ "boot" \in Place /\ "none" \in Outcome
  BY DEF Place, Outcome
<1>3. CASE (UNCHANGED pc \/ \E p \in Place \ {"finishing"} : Goto(r, a, p)) /\ UNCHANGED out
  <2>1. pc' \in [Run -> [Attempt -> Place]]
    <3>1. CASE UNCHANGED pc
      BY <1>1, <3>1
    <3>2. ASSUME NEW p \in Place, Goto(r, a, p) PROVE pc' \in [Run -> [Attempt -> Place]]
      BY <1>1, <3>2 DEF Goto
    <3> QED BY <1>3, <3>1, <3>2
  <2>2. FinishingHasOutcome'
    BY <1>1, <1>3 DEF Goto, LegacyInv, FinishingHasOutcome
  <2> QED BY <1>1, <1>3, <2>1, <2>2 DEF Moves, LegacyTypes
<1>4. CASE Goto(r, a, "boot") /\ out' = [out EXCEPT ![r][a] = "none"]
  <2>1. pc' \in [Run -> [Attempt -> Place]] /\ out' \in [Run -> [Attempt -> Outcome]]
    BY <1>1, <1>2, <1>4 DEF Goto
  <2>2. FinishingHasOutcome'
    BY <1>1, <1>4 DEF Goto, LegacyInv, FinishingHasOutcome
  <2> QED BY <2>1, <2>2 DEF Moves, LegacyTypes
<1>5. ASSUME NEW o \in Outcome \ {"none"}, Decide(r, a, o) PROVE Moves
  <2>1. pc' \in [Run -> [Attempt -> Place]] /\ out' \in [Run -> [Attempt -> Outcome]]
    BY <1>1, <1>2, <1>5 DEF Decide, Goto
  <2>2. FinishingHasOutcome'
    BY <1>1, <1>5 DEF Decide, Goto, LegacyInv, FinishingHasOutcome
  <2> QED BY <2>1, <2>2 DEF Moves, LegacyTypes
<1> QED BY <1>3, <1>4, <1>5

-----------------------------------------------------------------------------
(* Each action of the loop is one the control plane allows its engine *)

LEMMA StatusAllowed ==
  ASSUME NEW r \in Run, NEW a \in Attempt, Live(r, a), NoControl,
         NEW s \in {"working", "waiting", "completed", "stopped", "error"},
         SetRunStatus(r, s, FALSE) \/ RowUnchanged
  PROVE  Allowed
<1>1. CASE SetRunStatus(r, s, FALSE)
  <2>1. EngineWrites(r, a)
    BY <1>1 DEF EngineWrites, NoControl
  <2> QED BY <2>1 DEF Allowed, Engine
<1>2. CASE RowUnchanged
  BY <1>2 DEF Allowed, RowUnchanged, NoControl, vars, jobVars
<1> QED BY <1>1, <1>2

(* Between its steps an instance reads the row, decides and replays. *)
LEMMA QuietOK ==
  ASSUME LegacyInv, NEW r \in Run, NEW a \in Attempt,
         Boot(r, a) \/ ReplayStarted(r, a) \/ Turn(r, a) \/ AnswerFails(r, a) \/ Replay(r, a)
  PROVE  Allowed /\ Moves
<1>1. UNCHANGED vars /\ UNCHANGED ckpt
  BY DEF Boot, ReplayStarted, Turn, AnswerFails, Replay
<1>2. ckpt' \in [Run -> [Attempt -> SUBSET Checkpoint]]
  BY <1>1, CheckpointTypes
<1>3. /\ {"starting", "replaying", "loop"} \subseteq Place \ {"finishing"}
      /\ {"stopped", "error"} \subseteq Outcome \ {"none"}
  BY DEF Place, Outcome
<1>4. Moves
  <2>1. CASE Boot(r, a)
    BY <1>2, <1>3, <2>1, GoesOn DEF Boot
  <2>2. CASE ReplayStarted(r, a)
    BY <1>2, <1>3, <2>2, GoesOn DEF ReplayStarted
  <2>3. CASE Turn(r, a)
    BY <1>2, <2>3, GoesOn DEF Turn
  <2>4. CASE AnswerFails(r, a)
    BY <1>2, <1>3, <2>4, GoesOn DEF AnswerFails
  <2>5. CASE Replay(r, a)
    BY <1>2, <2>5, GoesOn DEF Replay
  <2> QED BY <2>1, <2>2, <2>3, <2>4, <2>5
<1> QED BY <1>1, <1>4 DEF Allowed

(* The steps that write a status on the way. *)
LEMMA OnTheWayOK ==
  ASSUME LegacyInv, NEW r \in Run, NEW a \in Attempt,
         Started(r, a) \/ ReplayPark(r, a) \/ Park(r, a) \/ Answered(r, a)
  PROVE  Allowed /\ Moves
<1>1. /\ Live(r, a) /\ NoControl /\ UNCHANGED out
      /\ SetRunStatus(r, "working", FALSE) \/ SetRunStatus(r, "waiting", FALSE)
  BY DEF Started, ReplayPark, Park, Answered, At
<1>2. {"loop", "parked"} \subseteq Place \ {"finishing"} /\ {"started", "answered"} \subseteq Checkpoint
  BY DEF Place, Checkpoint
<1>3. UNCHANGED ckpt \/ \E c \in Checkpoint : Checkpointed(r, a, c)
  BY <1>2 DEF Started, ReplayPark, Park, Answered
<1>4. UNCHANGED pc \/ \E p \in Place \ {"finishing"} : Goto(r, a, p)
  BY <1>2 DEF Started, ReplayPark, Park, Answered
<1>5. Moves
  BY <1>1, <1>3, <1>4, CheckpointTypes, GoesOn
<1>6. Allowed
  BY <1>1, StatusAllowed
<1> QED BY <1>5, <1>6

LEMMA KeyRefusedOK ==
  ASSUME LegacyInv, NEW r \in Run, NEW a \in Attempt, KeyRefused(r, a)
  PROVE  Allowed /\ Moves
<1>1. ckpt' \in [Run -> [Attempt -> SUBSET Checkpoint]]
  BY CheckpointTypes DEF KeyRefused
<1>2. Moves
  BY <1>1, GoesOn DEF KeyRefused, Outcome
<1> QED BY <1>2 DEF KeyRefused, Allowed, Engine

(* The step finish writes the outcome its instance has. *)
LEMMA FinishOK ==
  ASSUME LegacyInv, NEW r \in Run, NEW a \in Attempt, Finish(r, a)
  PROVE  Allowed /\ Moves
<1> DEFINE o == out[r][a]
<1>1. /\ Live(r, a) /\ NoControl /\ UNCHANGED out /\ pc[r][a] = "finishing"
      /\ RowUnchanged \/ SetRunStatus(r, IF o = "retryable" THEN "error" ELSE o, FALSE)
  BY DEF Finish, At
<1>2. o \in {"completed", "stopped", "error", "retryable"}
  BY <1>1 DEF LegacyInv, LegacyTypeOK, FinishingHasOutcome, Outcome
<1>3. (IF o = "retryable" THEN "error" ELSE o)
        \in {"working", "waiting", "completed", "stopped", "error"}
  BY <1>2
<1>4. {"throwing", "returning"} \subseteq Place \ {"finishing"} /\ "finished" \in Checkpoint
  BY DEF Place, Checkpoint
<1>5. UNCHANGED ckpt \/ \E c \in Checkpoint : Checkpointed(r, a, c)
  BY <1>4 DEF Finish
<1>6. UNCHANGED pc \/ \E p \in Place \ {"finishing"} : Goto(r, a, p)
  BY <1>4 DEF Finish
<1>7. Moves
  BY <1>1, <1>5, <1>6, CheckpointTypes, GoesOn
<1>8. Allowed
  BY <1>1, <1>3, StatusAllowed
<1> QED BY <1>7, <1>8

(* What an instance that has ended leaves behind. *)
LEMMA ForgetMoves ==
  ASSUME LegacyInv, Forget
  PROVE  Moves
<1>1. pc' \in [Run -> [Attempt -> Place]]
  BY DEF LegacyInv, LegacyTypeOK, Forget, Place
<1>2. ckpt' \in [Run -> [Attempt -> SUBSET Checkpoint]]
  BY DEF LegacyInv, LegacyTypeOK, Forget
<1>3. out' \in [Run -> [Attempt -> Outcome]]
  BY DEF LegacyInv, LegacyTypeOK, Forget, Outcome
<1>4. FinishingHasOutcome'
  BY DEF LegacyInv, FinishingHasOutcome, Forget
<1> QED BY <1>1, <1>2, <1>3, <1>4 DEF Moves, LegacyTypes

LEMMA EndsOK ==
  ASSUME LegacyInv, NEW r \in Run, NEW a \in Attempt, Ends(r, a)
  PROVE  Allowed /\ Moves
<1>1. EngineEnds(r, a)
  BY DEF Ends, At, EngineEnds
<1> QED BY <1>1, ForgetMoves DEF Allowed, Engine, Ends

LEMMA LoopOK ==
  ASSUME LegacyInv, NEW r \in Run, NEW a \in Attempt, Loop(r, a)
  PROVE  Allowed /\ Moves
  BY QuietOK, OnTheWayOK, KeyRefusedOK, FinishOK, EndsOK DEF Loop

-----------------------------------------------------------------------------
(* Every step *)

LEMMA LegacyStepAllowed ==
  ASSUME LegacyInv, [LegacyNext]_allVars
  PROVE  [Next]_vars
<1>1. CASE UNCHANGED allVars
  BY <1>1 DEF allVars
<1>2. CASE Control
  BY <1>2 DEF Next
<1>3. ASSUME NEW r \in Run, NEW a \in Attempt, Loop(r, a) PROVE [Next]_vars
  BY <1>3, LoopOK DEF Allowed, Next
<1> QED BY <1>1, <1>2, <1>3 DEF LegacyNext

LEMMA LegacyKeeps ==
  ASSUME LegacyInv, [LegacyNext]_allVars
  PROVE  LegacyInv'
<1>1. [Next]_vars /\ IInv
  BY LegacyStepAllowed DEF LegacyInv
<1>2. IInv'
  BY <1>1, NextKeeps
<1>3. Moves
  <2>1. CASE UNCHANGED legacyVars
    BY <2>1 DEF legacyVars, Moves, LegacyInv, LegacyTypeOK, LegacyTypes, FinishingHasOutcome
  <2> QED BY <2>1, LoopOK, ForgetMoves DEF LegacyNext, allVars
<1> QED BY <1>2, <1>3 DEF Moves, LegacyInv, LegacyTypeOK, LegacyTypes, IInv

LEMMA LegacyStarts ==
  ASSUME LegacyInit
  PROVE  LegacyInv
<1>1. IInv
  BY InitOK DEF LegacyInit
<1>2. "boot" \in Place /\ "none" \in Outcome
  BY DEF Place, Outcome
<1>3. LegacyTypeOK
  BY <1>1, <1>2 DEF LegacyInit, LegacyTypeOK, IInv
<1>4. FinishingHasOutcome
  BY DEF LegacyInit, FinishingHasOutcome
<1> QED BY <1>1, <1>3, <1>4 DEF LegacyInv

-----------------------------------------------------------------------------
(* The properties *)

(* The inductive invariant of the engine on the control plane. *)
THEOREM LegacyInvariance == LegacySpec => []LegacyInv
<1>1. LegacyInit => LegacyInv
  BY LegacyStarts
<1>2. LegacyInv /\ [LegacyNext]_allVars => LegacyInv'
  BY LegacyKeeps
<1> QED BY <1>1, <1>2, PTL DEF LegacySpec

(* Where an instance is, its checkpoints and its outcome have their types
   (runAttempt). *)
THEOREM LegacyTyping == LegacySpec => []LegacyTypeOK
<1>1. LegacyInv => LegacyTypeOK
  BY DEF LegacyInv
<1> QED BY <1>1, LegacyInvariance, PTL

(* runAttempt is an engine the control plane allows: everything it does, replays
   and retried steps included, is a step of RunControl's specification. *)
THEOREM LegacyImplementsControl == LegacySpec => ImplementsControl
<1>1. LegacyInit => Init
  BY DEF LegacyInit
<1>2. LegacyInv /\ [LegacyNext]_allVars => [Next]_vars
  BY LegacyStepAllowed
<1> QED BY <1>1, <1>2, LegacyInvariance, PTL DEF LegacySpec, ImplementsControl, Spec

(* What RunControl promises of any engine holds with this one too: instances wait
   for their publication, the sweep terminates only what is over, promised retries
   have jobs, and a session has one active run; within an attempt a terminal status
   and a requested stop stay, and what a person declined is not retried. *)
THEOREM LegacyKeepsControl ==
  LegacySpec => /\ [](LaunchAfterPublish /\ ReapIsOver /\ DueHasJob /\ OneActiveRun)
                /\ TerminalIsFinal /\ StopIsSticky /\ OnlyWantedRetries
<1>1. LegacySpec => Spec
  BY LegacyImplementsControl DEF ImplementsControl
<1> QED BY <1>1, LaunchesAfterPublish, ReapsOnlyTheOver, PromisesHaveJobs, OneActiveRunPerSession,
        TerminalStays, StopStays, RetriesAreWanted, PTL
=============================================================================
