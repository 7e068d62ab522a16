-------------------------- MODULE RunHermesProofs --------------------------
(***************************************************************************)
(* Proofs, for any number of runs, attempts and sessions and with nothing  *)
(* of RunHermesMC's bounds, that the Hermes adapter is an engine the       *)
(* control plane allows, that an outcome is the outcome of the attempt     *)
(* that writes it, and that the native runtime's profile is never shared.  *)
(***************************************************************************)
EXTENDS RunHermes, RunControlProofs

-----------------------------------------------------------------------------
(* The inductive invariant *)

(* A native run was submitted by an instance. *)
NativeHasInstance ==
  \A r \in Run, a \in Attempt : native[r][a] # "none" => inst[r][a] # "none"

(* An instance that is about to finalize knows its outcome. *)
FinalHasOutcome ==
  \A r \in Run, a \in Attempt : pc[r][a] = "final" => out[r][a] # "none"

(* A request is never stored for an attempt the row has not reached. *)
RequestReached == \A r \in Run : request[r] <= row[r].attempt

HermesInv ==
  /\ IInv /\ HermesTypeOK
  /\ NativeHasInstance /\ FinalHasOutcome
  /\ RequestReached /\ ProfileIsExclusive

-----------------------------------------------------------------------------
(* What an adapter's action does to its own variables *)

LEMMA GotoFacts ==
  ASSUME HermesTypeOK, NEW r \in Run, NEW a \in Attempt, NEW p \in Place, Goto(r, a, p)
  PROVE  /\ pc' \in [Run -> [Attempt -> Place]] /\ pc'[r][a] = p
         /\ \A q \in Run, b \in Attempt : <<q, b>> # <<r, a>> => pc'[q][b] = pc[q][b]
  BY DEF HermesTypeOK, Goto

LEMMA StopNativeFacts ==
  ASSUME HermesTypeOK, NEW r \in Run, NEW a \in Attempt, StopNative(r, a)
  PROVE  /\ native' \in [Run -> [Attempt -> NativeState]]
         /\ \A q \in Run, b \in Attempt : native'[q][b] # "none" => native[q][b] # "none"
  BY DEF HermesTypeOK, StopNative, NativeState

LEMMA CheckpointTypes ==
  ASSUME HermesTypeOK, NEW r \in Run, NEW a \in Attempt,
         \/ UNCHANGED ckpt
         \/ \E c \in {"started", "submitted"} : ckpt' = [ckpt EXCEPT ![r][a] = c]
  PROVE  ckpt' \in [Run -> [Attempt -> {"none", "started", "submitted"}]]
<1>1. CASE UNCHANGED ckpt
  BY <1>1 DEF HermesTypeOK
<1>2. ASSUME NEW c \in {"started", "submitted"}, ckpt' = [ckpt EXCEPT ![r][a] = c]
      PROVE  ckpt' \in [Run -> [Attempt -> {"none", "started", "submitted"}]]
  BY <1>2 DEF HermesTypeOK
<1> QED BY <1>1, <1>2

(* The types of the adapter's variables. *)
HermesTypes ==
  /\ pc \in [Run -> [Attempt -> Place]]
  /\ ckpt \in [Run -> [Attempt -> {"none", "started", "submitted"}]]
  /\ out \in [Run -> [Attempt -> Outcome]]
  /\ auto \in [Run -> [Attempt -> BOOLEAN]]
  /\ request \in [Run -> 0..MaxAttempt]
  /\ bound \in [Run -> 0..MaxAttempt]
  /\ native \in [Run -> [Attempt -> NativeState]]

(* The instance of attempt a of run r moves: another instance does not, it may
   submit its native run, and is about to finalize only with an outcome. *)
Moves(r, a) ==
  /\ HermesTypes'
  /\ \A q \in Run, b \in Attempt : <<q, b>> # <<r, a>> =>
       /\ pc'[q][b] = pc[q][b] \/ pc'[q][b] = "over"
       /\ pc'[q][b] = "over" \/ out'[q][b] = out[q][b]
  /\ \A q \in Run, b \in Attempt : native'[q][b] # "none" => native[q][b] # "none" \/ <<q, b>> = <<r, a>>
  /\ pc'[r][a] = "final" => out'[r][a] # "none"

(* A request is stored for the current attempt, while no other run has one. *)
Requests(r, a) ==
  \/ UNCHANGED request
  \/ /\ request' = [request EXCEPT ![r] = a]
     /\ Admissible(r, a) /\ ~Busy(r) /\ Write(r, row[r])

LEMMA TypesNamed == HermesTypeOK <=> TypeOK /\ HermesTypes
  BY DEF HermesTypeOK, HermesTypes

(* An instance goes on: nothing of another is touched. *)
LEMMA QuietMoves ==
  ASSUME HermesInv, NEW r \in Run, NEW a \in Attempt, NEW p \in Place \ {"final"},
         Goto(r, a, p) \/ UNCHANGED pc,
         ckpt' \in [Run -> [Attempt -> {"none", "started", "submitted"}]],
         auto' \in [Run -> [Attempt -> BOOLEAN]],
         request' \in [Run -> 0..MaxAttempt], bound' \in [Run -> 0..MaxAttempt],
         UNCHANGED out \/ out' = [out EXCEPT ![r][a] = "none"],
         UNCHANGED native \/ StopNative(r, a)
           \/ native' = [native EXCEPT ![r][a] = IF @ = "none" THEN "running" ELSE @],
         pc'[r][a] = "final" => UNCHANGED out /\ pc[r][a] = "final"
  PROVE  Moves(r, a)
<1>1. HermesTypeOK
  BY DEF HermesInv
<1>2. /\ pc' \in [Run -> [Attempt -> Place]]
      /\ \A q \in Run, b \in Attempt : <<q, b>> # <<r, a>> => pc'[q][b] = pc[q][b]
  <2>1. CASE Goto(r, a, p)
    BY <1>1, <2>1, GotoFacts
  <2>2. CASE UNCHANGED pc
    BY <1>1, <2>2 DEF HermesTypeOK
  <2> QED BY <2>1, <2>2
<1>3. /\ out' \in [Run -> [Attempt -> Outcome]]
      /\ \A q \in Run, b \in Attempt : <<q, b>> # <<r, a>> => out'[q][b] = out[q][b]
  <2>1. CASE UNCHANGED out
    BY <1>1, <2>1 DEF HermesTypeOK
  <2>2. CASE out' = [out EXCEPT ![r][a] = "none"]
    BY <1>1, <2>2 DEF HermesTypeOK, Outcome
  <2> QED BY <2>1, <2>2
<1>4. /\ native' \in [Run -> [Attempt -> NativeState]]
      /\ \A q \in Run, b \in Attempt : native'[q][b] # "none" => native[q][b] # "none" \/ <<q, b>> = <<r, a>>
  <2>1. CASE StopNative(r, a)
    BY <1>1, <2>1, StopNativeFacts
  <2>2. CASE native' = [native EXCEPT ![r][a] = IF @ = "none" THEN "running" ELSE @]
    BY <1>1, <2>2 DEF HermesTypeOK, NativeState
  <2>3. CASE UNCHANGED native
    BY <1>1, <2>3 DEF HermesTypeOK
  <2> QED BY <2>1, <2>2, <2>3
<1>5. pc'[r][a] = "final" => out'[r][a] # "none"
  BY DEF HermesInv, FinalHasOutcome
<1> QED BY <1>2, <1>3, <1>4, <1>5 DEF Moves, HermesTypes

-----------------------------------------------------------------------------
(* Each action of the adapter is one the control plane allows its engine *)

(* The engine's step, in terms of RunControl. *)
Allowed == Engine \/ UNCHANGED vars

LEMMA EngineWriteAllowed ==
  ASSUME NEW r \in Run, NEW a \in Attempt, EngineWrites(r, a)
  PROVE  Allowed
  BY DEF Allowed, Engine

LEMMA NothingAllowed ==
  ASSUME RowUnchanged, NoControl
  PROVE  Allowed
  BY DEF Allowed, RowUnchanged, NoControl, vars, jobVars

LEMMA StatusAllowed ==
  ASSUME NEW r \in Run, NEW a \in Attempt, Live(r, a), NoControl,
         NEW s, NEW transient \in BOOLEAN, SetRunStatus(r, s, transient),
         \/ s = "error"
         \/ s \in {"working", "waiting", "completed", "stopped"} /\ transient = FALSE
  PROVE  Allowed
<1>1. EngineWrites(r, a)
  BY DEF EngineWrites, NoControl
<1> QED BY <1>1, EngineWriteAllowed

LEMMA TouchAllowed ==
  ASSUME NEW r \in Run, NEW a \in Attempt, Live(r, a), NoControl, Write(r, row[r])
  PROVE  Allowed
<1>1. EngineWrites(r, a)
  BY DEF EngineWrites, NoControl
<1> QED BY <1>1, EngineWriteAllowed

LEMMA StartupOK ==
  ASSUME HermesInv, NEW r \in Run, NEW a \in Attempt,
         Startup(r, a) \/ StartupRefused(r, a) \/ StartupDrift(r, a) \/ StopAtStart(r, a)
  PROVE  Allowed /\ Moves(r, a) /\ Requests(r, a)
<1>1. HermesTypeOK /\ IInv
  BY DEF HermesInv
<1>2. CASE Startup(r, a)
  <2>1. StartupPlace(r, a) \in Place \ {"final"}
    BY DEF StartupPlace, Place
  <2>2. row[r].automatic \in BOOLEAN
    BY <1>1 DEF IInv, TypeOK, Row
  <2>3. auto' \in [Run -> [Attempt -> BOOLEAN]]
    BY <1>1, <1>2, <2>2 DEF Startup, HermesTypeOK
  <2>4. pc'[r][a] # "final"
    BY <1>1, <1>2, <2>1, GotoFacts DEF Startup
  <2>5. Moves(r, a)
    BY <1>1, <1>2, <2>1, <2>3, <2>4, QuietMoves DEF Startup, HermesTypeOK
  <2> QED BY <1>2, <2>5, NothingAllowed DEF Startup, Requests
<1>3. CASE StartupRefused(r, a)
  <2>1. pc'[r][a] # "final" /\ "throwing" \in Place \ {"final"}
    BY <1>1, <1>3, GotoFacts DEF StartupRefused, Place
  <2>2. Moves(r, a)
    BY <1>1, <1>3, <2>1, QuietMoves DEF StartupRefused, HermesTypeOK
  <2> QED BY <1>3, <2>2 DEF StartupRefused, Allowed, Requests
<1>4. CASE StartupDrift(r, a)
  <2>1. pc'[r][a] # "final" /\ "throwing" \in Place \ {"final"}
    BY <1>1, <1>4, GotoFacts DEF StartupDrift, Place
  <2>2. Moves(r, a)
    BY <1>1, <1>4, <2>1, QuietMoves DEF StartupDrift, HermesTypeOK
  <2> QED BY <1>4, <2>2 DEF StartupDrift, Allowed, Engine, Requests
<1>5. CASE StopAtStart(r, a)
  <2>1. pc'[r][a] # "final" /\ "returning" \in Place \ {"final"}
    BY <1>1, <1>5, GotoFacts DEF StopAtStart, Place
  <2>2. Moves(r, a)
    BY <1>1, <1>5, <2>1, QuietMoves DEF StopAtStart, HermesTypeOK
  <2>3. Allowed
    BY <1>5, StatusAllowed DEF StopAtStart, At
  <2> QED BY <1>5, <2>2, <2>3 DEF StopAtStart, Requests
<1> QED BY <1>2, <1>3, <1>4, <1>5

LEMMA StartedOK ==
  ASSUME HermesInv, NEW r \in Run, NEW a \in Attempt, Started(r, a)
  PROVE  Allowed /\ Moves(r, a) /\ Requests(r, a)
<1>1. HermesTypeOK
  BY DEF HermesInv
<1>2. PICK p \in {"submitting", "returning"} : Goto(r, a, p) \/ UNCHANGED pc
  BY DEF Started
<1>3. /\ NoControl /\ UNCHANGED <<out, auto, request, bound, native>>
      /\ pc[r][a] = "starting" /\ Live(r, a)
  BY DEF Started, At
<1>4. ckpt' \in [Run -> [Attempt -> {"none", "started", "submitted"}]]
  <2>1. UNCHANGED ckpt \/ ckpt' = [ckpt EXCEPT ![r][a] = "started"]
    BY DEF Started
  <2> QED BY <1>1, <2>1, CheckpointTypes
<1>5. p \in Place \ {"final"} /\ pc'[r][a] # "final"
  BY <1>1, <1>2, <1>3, GotoFacts DEF Place
<1>6. Moves(r, a)
  BY <1>1, <1>2, <1>3, <1>4, <1>5, QuietMoves DEF HermesTypeOK
<1>7. RowUnchanged \/ SetRunStatus(r, "working", FALSE)
  BY DEF Started
<1>8. Allowed
  BY <1>3, <1>7, NothingAllowed, StatusAllowed
<1> QED BY <1>3, <1>6, <1>8 DEF Requests

LEMMA PrepareOK ==
  ASSUME HermesInv, NEW r \in Run, NEW a \in Attempt, Prepare(r, a)
  PROVE  Allowed /\ Moves(r, a) /\ Requests(r, a)
<1>1. HermesTypeOK
  BY DEF HermesInv
<1>2. PICK p \in {"executing", "submitted", "submitting", "failing"} : Goto(r, a, p)
  BY DEF Prepare
<1>3. NoControl /\ UNCHANGED <<out, auto, bound, native>> /\ Live(r, a)
  BY DEF Prepare, At
<1>4. ckpt' \in [Run -> [Attempt -> {"none", "started", "submitted"}]]
  <2>1. UNCHANGED ckpt \/ ckpt' = [ckpt EXCEPT ![r][a] = "submitted"]
    BY DEF Prepare
  <2> QED BY <1>1, <2>1, CheckpointTypes
<1>5. p \in Place \ {"final"} /\ pc'[r][a] # "final"
  BY <1>1, <1>2, GotoFacts DEF Place
<1>6. \/ UNCHANGED request /\ RowUnchanged
      \/ /\ request' = [request EXCEPT ![r] = a]
         /\ Admissible(r, a) /\ ~Busy(r) /\ Write(r, row[r])
  BY DEF Prepare
<1>7. request' \in [Run -> 0..MaxAttempt]
  <2>1. a \in 0..MaxAttempt
    BY MaxAttemptAssumption DEF Attempt
  <2>2. CASE UNCHANGED request
    BY <1>1, <2>2 DEF HermesTypeOK
  <2>3. CASE request' = [request EXCEPT ![r] = a]
    BY <1>1, <2>1, <2>3 DEF HermesTypeOK
  <2> QED BY <1>6, <2>2, <2>3
<1>8. Moves(r, a)
  BY <1>1, <1>2, <1>3, <1>4, <1>5, <1>7, QuietMoves DEF HermesTypeOK
<1>9. Allowed
  BY <1>3, <1>6, NothingAllowed, TouchAllowed
<1> QED BY <1>6, <1>8, <1>9 DEF Requests

LEMMA SubmitOK ==
  ASSUME HermesInv, NEW r \in Run, NEW a \in Attempt,
         Submit(r, a) \/ Bind(r, a) \/ SubmitLocked(r, a)
  PROVE  Allowed /\ Moves(r, a) /\ Requests(r, a)
<1>1. HermesTypeOK
  BY DEF HermesInv
<1>2. \E p \in {"binding", "executing", "submitting", "failing", "returning"} : Goto(r, a, p)
  <2>1. CASE Submit(r, a)
    BY <2>1 DEF Submit
  <2>2. CASE Bind(r, a)
    BY <2>2 DEF Bind, Bound
  <2>3. CASE SubmitLocked(r, a)
    BY <2>3 DEF SubmitLocked, Bound
  <2> QED BY <2>1, <2>2, <2>3
<1>3. PICK p \in {"binding", "executing", "submitting", "failing", "returning"} : Goto(r, a, p)
  BY <1>2
<1>4. NoControl /\ UNCHANGED <<out, auto, request>> /\ Live(r, a)
  BY DEF Submit, Bind, SubmitLocked, At
<1>5. /\ \/ UNCHANGED <<bound, ckpt>> /\ RowUnchanged
         \/ Bound(r, a)
      /\ \/ UNCHANGED native \/ StopNative(r, a)
         \/ native' = [native EXCEPT ![r][a] = IF @ = "none" THEN "running" ELSE @]
  <2>1. CASE Submit(r, a)
    BY <2>1 DEF Submit
  <2>2. CASE Bind(r, a)
    BY <2>2 DEF Bind
  <2>3. CASE SubmitLocked(r, a)
    BY <2>3 DEF SubmitLocked
  <2> QED BY <2>1, <2>2, <2>3
<1>6. /\ ckpt' \in [Run -> [Attempt -> {"none", "started", "submitted"}]]
      /\ bound' \in [Run -> 0..MaxAttempt]
  <2>1. a \in 0..MaxAttempt
    BY MaxAttemptAssumption DEF Attempt
  <2>2. CASE UNCHANGED <<bound, ckpt>>
    BY <1>1, <2>2 DEF HermesTypeOK
  <2>3. CASE Bound(r, a)
    <3>1. ckpt' \in [Run -> [Attempt -> {"none", "started", "submitted"}]]
      BY <1>1, <2>3, CheckpointTypes DEF Bound
    <3>2. bound' \in [Run -> 0..MaxAttempt]
      BY <1>1, <2>1, <2>3 DEF Bound, HermesTypeOK
    <3> QED BY <3>1, <3>2
  <2> QED BY <1>5, <2>2, <2>3
<1>7. p \in Place \ {"final"} /\ pc'[r][a] # "final"
  BY <1>1, <1>3, GotoFacts DEF Place
<1>8. Moves(r, a)
  BY <1>1, <1>3, <1>4, <1>5, <1>6, <1>7, QuietMoves DEF HermesTypeOK
<1>9. Allowed
  BY <1>4, <1>5, NothingAllowed, TouchAllowed DEF Bound
<1> QED BY <1>4, <1>8, <1>9 DEF Requests

LEMMA PollOK ==
  ASSUME HermesInv, NEW r \in Run, NEW a \in Attempt,
         PollStop(r, a) \/ PollTerminal(r, a)
  PROVE  Allowed /\ Moves(r, a) /\ Requests(r, a)
<1>1. HermesTypeOK
  BY DEF HermesInv
<1>2. UNCHANGED vars /\ UNCHANGED request
  BY DEF PollStop, PollTerminal
<1>3. CASE PollStop(r, a)
  <2>1. pc'[r][a] # "final" /\ "boot" \in Place \ {"final"}
    BY <1>3 DEF PollStop, At, Place
  <2>2. Moves(r, a)
    BY <1>1, <1>3, <2>1, QuietMoves DEF PollStop, HermesTypeOK
  <2> QED BY <1>2, <2>2 DEF Allowed, Requests
<1>4. CASE PollTerminal(r, a)
  <2>1. PICK s \in {"completed", "failed", native[r][a]} :
          /\ native' = [native EXCEPT ![r][a] = s]
          /\ \E o \in CASE s = "completed" -> {"completed"}
                        [] s = "cancelled" \/ (s = "failed" /\ row[r].stop) -> {"stopped"}
                        [] OTHER -> {"error", "transient"} :
               out' = [out EXCEPT ![r][a] = o]
    <3>1. CASE native[r][a] = "running"
      BY <1>4, <3>1 DEF PollTerminal
    <3>2. CASE native[r][a] # "running"
      BY <1>4, <3>2 DEF PollTerminal
    <3> QED BY <3>1, <3>2
  <2>2. PICK o \in {"completed", "stopped", "error", "transient"} : out' = [out EXCEPT ![r][a] = o]
    BY <2>1
  <2>3. s \in NativeState
    BY <1>1 DEF HermesTypeOK, NativeState
  <2>4. /\ native' \in [Run -> [Attempt -> NativeState]]
        /\ \A q \in Run, b \in Attempt : <<q, b>> # <<r, a>> => native'[q][b] = native[q][b]
    BY <1>1, <2>1, <2>3 DEF HermesTypeOK
  <2>5. /\ out' \in [Run -> [Attempt -> Outcome]] /\ out'[r][a] # "none"
        /\ \A q \in Run, b \in Attempt : <<q, b>> # <<r, a>> => out'[q][b] = out[q][b]
    BY <1>1, <2>2 DEF HermesTypeOK, Outcome
  <2>6. /\ pc' \in [Run -> [Attempt -> Place]]
        /\ \A q \in Run, b \in Attempt : <<q, b>> # <<r, a>> => pc'[q][b] = pc[q][b]
    BY <1>1, <1>4, GotoFacts DEF PollTerminal, Place
  <2>7. HermesTypes'
    BY <1>1, <1>4, <2>4, <2>5, <2>6 DEF PollTerminal, HermesTypeOK, HermesTypes
  <2>8. Moves(r, a)
    BY <2>4, <2>5, <2>6, <2>7 DEF Moves
  <2> QED BY <1>2, <2>8 DEF Allowed, Requests
<1> QED BY <1>3, <1>4

(* finalizeRuntime writes the outcome its instance has. *)
LEMMA FinalizeOK ==
  ASSUME HermesInv, NEW r \in Run, NEW a \in Attempt, Finalize(r, a)
  PROVE  Allowed /\ Moves(r, a) /\ Requests(r, a)
<1> DEFINE o == IF pc[r][a] = "failing" THEN "error" ELSE out[r][a]
<1>1. HermesTypeOK
  BY DEF HermesInv
<1>2. /\ Goto(r, a, "returning") /\ NoControl
      /\ UNCHANGED <<ckpt, out, auto, request, bound, native>>
      /\ Live(r, a) /\ pc[r][a] \in {"final", "failing"}
  BY DEF Finalize, At
<1>3. pc'[r][a] # "final" /\ "returning" \in Place \ {"final"}
  BY <1>1, <1>2, GotoFacts DEF Place
<1>4. Moves(r, a)
  BY <1>1, <1>2, <1>3, QuietMoves DEF HermesTypeOK
<1>5. o \in {"completed", "stopped", "error", "transient"}
  BY <1>1, <1>2 DEF HermesInv, HermesTypeOK, FinalHasOutcome, Outcome
<1>6. \/ RowUnchanged
      \/ SetRunStatus(r, IF o = "transient" THEN "error" ELSE o, o = "transient")
  BY DEF Finalize
<1> HIDE DEF o
<1>7. CASE o = "transient"
  <2>1. RowUnchanged \/ SetRunStatus(r, "error", TRUE)
    BY <1>6, <1>7
  <2> QED BY <1>2, <1>4, <2>1, NothingAllowed, StatusAllowed DEF Requests
<1>8. CASE o # "transient"
  <2>1. RowUnchanged \/ SetRunStatus(r, o, FALSE)
    BY <1>6, <1>8
  <2>2. Allowed
    BY <1>2, <1>5, <1>8, <2>1, NothingAllowed, StatusAllowed
  <2> QED BY <1>2, <1>4, <2>2 DEF Requests
<1> QED BY <1>7, <1>8

LEMMA RestartOK ==
  ASSUME HermesInv, NEW r \in Run, NEW a \in Attempt,
         StepRetried(r, a) \/ Throw(r, a) \/ Replay(r, a)
  PROVE  Allowed /\ Moves(r, a) /\ Requests(r, a)
<1>1. HermesTypeOK
  BY DEF HermesInv
<1>2. UNCHANGED vars /\ UNCHANGED <<ckpt, auto, request, bound>>
  BY DEF StepRetried, Throw, Replay
<1>3. /\ \E p \in {"submitting", "executing", "failing", "throwing", "boot"} : Goto(r, a, p)
      /\ UNCHANGED out \/ out' = [out EXCEPT ![r][a] = "none"]
      /\ UNCHANGED native \/ StopNative(r, a)
  <2>1. CASE StepRetried(r, a)
    BY <2>1 DEF StepRetried
  <2>2. CASE Throw(r, a)
    BY <2>2 DEF Throw
  <2>3. CASE Replay(r, a)
    BY <2>3 DEF Replay
  <2> QED BY <2>1, <2>2, <2>3
<1>4. PICK p \in {"submitting", "executing", "failing", "throwing", "boot"} : Goto(r, a, p)
  BY <1>3
<1>5. p \in Place \ {"final"} /\ pc'[r][a] # "final"
  BY <1>1, <1>4, GotoFacts DEF Place
<1>6. Moves(r, a)
  BY <1>1, <1>2, <1>3, <1>4, <1>5, QuietMoves DEF HermesTypeOK
<1> QED BY <1>2, <1>6 DEF Allowed, Requests

(* What an instance that has ended leaves behind. *)
LEMMA ForgetFacts ==
  ASSUME HermesTypeOK, Forget
  PROVE  /\ pc' \in [Run -> [Attempt -> Place]]
         /\ ckpt' \in [Run -> [Attempt -> {"none", "started", "submitted"}]]
         /\ out' \in [Run -> [Attempt -> Outcome]]
         /\ \A q \in Run, b \in Attempt :
              \/ pc'[q][b] = "over" /\ inst'[q][b] \in {"complete", "failed"}
              \/ pc'[q][b] = pc[q][b] /\ out'[q][b] = out[q][b]
<1>1. pc' \in [Run -> [Attempt -> Place]]
  BY DEF HermesTypeOK, Forget, Place
<1>2. ckpt' \in [Run -> [Attempt -> {"none", "started", "submitted"}]]
  BY DEF HermesTypeOK, Forget
<1>3. out' \in [Run -> [Attempt -> Outcome]]
  BY DEF HermesTypeOK, Forget, Outcome
<1>4. \A q \in Run, b \in Attempt :
        \/ pc'[q][b] = "over" /\ inst'[q][b] \in {"complete", "failed"}
        \/ pc'[q][b] = pc[q][b] /\ out'[q][b] = out[q][b]
  BY DEF Forget
<1> QED BY <1>1, <1>2, <1>3, <1>4

LEMMA ForgetMoves ==
  ASSUME HermesInv, Forget, UNCHANGED <<auto, request, bound, native>>,
         NEW r \in Run, NEW a \in Attempt
  PROVE  Moves(r, a)
<1>1. HermesTypeOK
  BY DEF HermesInv
<1>2. HermesTypes'
  BY <1>1, ForgetFacts DEF HermesTypeOK, HermesTypes
<1>3. pc'[r][a] = "final" => out'[r][a] # "none"
  BY <1>1, ForgetFacts DEF HermesInv, FinalHasOutcome
<1> QED BY <1>1, <1>2, <1>3, ForgetFacts DEF Moves

LEMMA FinishOK ==
  ASSUME HermesInv, NEW r \in Run, NEW a \in Attempt, Finish(r, a)
  PROVE  Allowed /\ Moves(r, a) /\ Requests(r, a)
<1>1. Moves(r, a)
  BY ForgetMoves DEF Finish
<1>2. EngineEnds(r, a)
  BY DEF Finish, At, EngineEnds
<1> QED BY <1>1, <1>2 DEF Allowed, Engine, Finish, Requests

LEMMA AdapterOK ==
  ASSUME HermesInv, NEW r \in Run, NEW a \in Attempt, Adapter(r, a)
  PROVE  Allowed /\ Moves(r, a) /\ Requests(r, a)
  BY StartupOK, StartedOK, PrepareOK, SubmitOK, PollOK, FinalizeOK, RestartOK, FinishOK DEF Adapter

(* requireActive is called for a bound native run, which an instance submitted. *)
LEMMA ToolCallAllowed ==
  ASSUME HermesInv, NEW r \in Run,
         NEW from \in {"working", "waiting"}, NEW to \in {"working", "waiting"},
         ToolCall(r, from, to)
  PROVE  Allowed
<1>1. row[r].status \in {"working", "waiting"} /\ bound[r] = row[r].attempt
  BY DEF ToolCall
<1>2. row[r].attempt \in Attempt
  BY <1>1 DEF HermesInv, IInv, TypeOK, Row, Born, Attempt
<1>3. inst[r][row[r].attempt] # "none"
  BY <1>1, <1>2 DEF HermesInv, NativeHasInstance, ToolCall
<1>4. BridgeWrites(r)
  BY <1>1, <1>3 DEF BridgeWrites, ToolCall, NoControl
<1> QED BY <1>4 DEF Allowed, Engine

-----------------------------------------------------------------------------
(* Every step *)

(* A step of the adapter, of a tool call or of the control plane is one that the
   control plane's own specification allows. *)
LEMMA HermesStepAllowed ==
  ASSUME HermesInv, [HermesNext]_allVars
  PROVE  [Next]_vars
<1>1. CASE UNCHANGED allVars
  BY <1>1 DEF allVars
<1>2. CASE Control
  BY <1>2 DEF Next
<1>3. ASSUME NEW r \in Run, NEW a \in Attempt, Adapter(r, a) PROVE [Next]_vars
  BY <1>3, AdapterOK DEF Allowed, Next
<1>4. ASSUME NEW r \in Run, ToolCall(r, "working", "waiting") \/ ToolCall(r, "waiting", "working")
      PROVE  [Next]_vars
  BY <1>4, ToolCallAllowed DEF Allowed, Next
<1>5. ASSUME NEW r \in Run, RouteStop(r) PROVE [Next]_vars
  BY <1>5 DEF RouteStop
<1> QED BY <1>1, <1>2, <1>3, <1>4, <1>5 DEF HermesNext

(* While the requests stay, no run becomes a second one with a current request:
   a run becomes active only with a new attempt, which has none. *)
LEMMA SameRequestsKeep ==
  ASSUME HermesInv, IInv', Keeps, AttemptsGrow, UNCHANGED request
  PROVE  RequestReached' /\ ProfileIsExclusive'
<1>1. \A r \in Run : /\ row[r].attempt \in Nat /\ row'[r].attempt \in Nat /\ request[r] \in Nat
                     /\ row[r].status \in Status /\ row'[r].status \in Status
  BY DEF HermesInv, IInv, HermesTypeOK, TypeOK, Row
<1>2. RequestReached'
  BY <1>1 DEF HermesInv, RequestReached, AttemptsGrow
<1>3. ASSUME NEW r \in Run, IsActive(r)', request[r] = row'[r].attempt
      PROVE  IsActive(r) /\ row'[r].attempt = row[r].attempt
  <2>1. row'[r].attempt = row[r].attempt
    BY <1>1, <1>3 DEF HermesInv, RequestReached, AttemptsGrow
  <2>2. row'[r].attempt >= 1
    BY <1>3 DEF IInv, Born, IsActive, Active
  <2>3. row[r].status # "none"
    BY <1>1, <2>1, <2>2 DEF HermesInv, IInv, Unborn, NoRow
  <2>4. ~IsTerminal(r)
    BY <1>3, <2>1 DEF Keeps, KeepsTerminal, IsTerminal, IsActive, Active, Terminal
  <2>5. row[r].status \in Active
    BY <1>1, <2>3, <2>4 DEF Status, IsTerminal
  <2> QED BY <2>1, <2>5 DEF IsActive
<1>4. ProfileIsExclusive'
  <2> SUFFICES ASSUME NEW q \in Run, NEW r \in Run,
                      IsActive(q)', request[q] = row'[q].attempt,
                      IsActive(r)', request[r] = row'[r].attempt
               PROVE  q = r
    BY DEF ProfileIsExclusive, IsActive
  <2> QED BY <1>3 DEF HermesInv, ProfileIsExclusive
<1> QED BY <1>2, <1>4

(* snapshotRequest: a request is stored while no other active run has one. *)
LEMMA NewRequestKeeps ==
  ASSUME HermesInv, NEW r \in Run, NEW a \in Attempt,
         request' = [request EXCEPT ![r] = a], Admissible(r, a), ~Busy(r), Write(r, row[r])
  PROVE  RequestReached' /\ ProfileIsExclusive'
<1>1. row[r].attempt = a /\ row[r].status = "working" /\ row[r] \in Row
  BY DEF Admissible, Current, HermesInv, IInv, TypeOK
<1>2. \A q \in Run : request'[q] = IF q = r THEN a ELSE request[q]
  BY DEF HermesInv, HermesTypeOK
<1>3. \A q \in Run : row'[q].attempt = row[q].attempt /\ row'[q].status = row[q].status
  <2> DEFINE now == [row[r] EXCEPT !.age = "grace"]
  <2>1. now.attempt = row[r].attempt /\ now.status = row[r].status
    BY <1>1 DEF Row
  <2>2. \A q \in Run : row'[q] = IF q = r THEN now ELSE row[q]
    BY DEF Write, HermesInv, IInv, TypeOK
  <2> HIDE DEF now
  <2> QED BY <2>1, <2>2
<1>4. RequestReached'
  BY <1>1, <1>2, <1>3 DEF HermesInv, RequestReached, Attempt
<1>5. ProfileIsExclusive'
  <2> SUFFICES ASSUME NEW q \in Run, NEW p \in Run,
                      IsActive(q), request'[q] = row[q].attempt,
                      IsActive(p), request'[p] = row[p].attempt
               PROVE  q = p
    BY <1>3 DEF ProfileIsExclusive, IsActive
  <2>1. q # r => request[q] = row[q].attempt
    BY <1>2
  <2>2. p # r => request[p] = row[p].attempt
    BY <1>2
  <2>3. CASE q # r /\ p # r
    BY <2>1, <2>2, <2>3 DEF HermesInv, ProfileIsExclusive
  <2>4. CASE q = r \/ p = r
    BY <2>1, <2>2, <2>4 DEF Busy
  <2> QED BY <2>3, <2>4
<1> QED BY <1>4, <1>5

(* The instances' own facts, whichever instance moves. *)
LEMMA MovesKeep ==
  ASSUME HermesInv, IInv', InstancesStay, NEW r \in Run, NEW a \in Attempt,
         Moves(r, a), Live(r, a) \/ UNCHANGED native
  PROVE  HermesTypeOK' /\ NativeHasInstance' /\ FinalHasOutcome'
<1>1. HermesTypeOK'
  BY TypesNamed DEF Moves, IInv, HermesTypeOK, HermesTypes
<1>2. NativeHasInstance'
  BY DEF Moves, HermesInv, NativeHasInstance, InstancesStay, Live
<1>3. FinalHasOutcome'
  <2> SUFFICES ASSUME NEW q \in Run, NEW b \in Attempt, pc'[q][b] = "final"
               PROVE  out'[q][b] # "none"
    BY DEF FinalHasOutcome
  <2>1. CASE <<q, b>> = <<r, a>>
    BY <2>1 DEF Moves
  <2>2. CASE <<q, b>> # <<r, a>>
    BY <2>2 DEF Moves, HermesInv, FinalHasOutcome
  <2> QED BY <2>1, <2>2
<1> QED BY <1>1, <1>2, <1>3

LEMMA HermesKeeps ==
  ASSUME HermesInv, [HermesNext]_allVars
  PROVE  HermesInv'
<1>1. [Next]_vars /\ IInv
  BY HermesStepAllowed DEF HermesInv
<1>2. IInv' /\ Keeps /\ AttemptsGrow /\ InstancesStay
  BY <1>1, NextKeeps, NextGoesOn
<1>3. HermesTypeOK
  BY DEF HermesInv
<1>4. ASSUME NEW r \in Run, NEW a \in Attempt, Adapter(r, a) PROVE HermesInv'
  <2>1. Moves(r, a) /\ Requests(r, a)
    BY <1>4, AdapterOK
  <2>2. Live(r, a)
    BY <1>4 DEF Adapter, Startup, StartupRefused, StartupDrift, StopAtStart, Started, Prepare,
       Submit, Bind, SubmitLocked, PollStop, PollTerminal, Finalize, StepRetried, Throw, Replay,
       Finish, At
  <2>3. RequestReached' /\ ProfileIsExclusive'
    BY <1>2, <2>1, SameRequestsKeep, NewRequestKeeps DEF Requests
  <2> QED BY <1>2, <2>1, <2>2, <2>3, MovesKeep DEF HermesInv
<1>5. CASE Control /\ Forget /\ UNCHANGED <<auto, request, bound, native>>
  <2>1. HermesTypeOK'
    BY <1>2, <1>3, <1>5, ForgetFacts, TypesNamed DEF IInv, HermesTypeOK, HermesTypes
  <2>2. NativeHasInstance'
    BY <1>2, <1>5 DEF HermesInv, NativeHasInstance, InstancesStay
  <2>3. FinalHasOutcome'
    BY <1>3, <1>5, ForgetFacts DEF HermesInv, FinalHasOutcome
  <2> QED BY <1>2, <1>5, <2>1, <2>2, <2>3, SameRequestsKeep DEF HermesInv
<1>6. ASSUME UNCHANGED <<pc, ckpt, out, auto, request, bound>>,
             native' \in [Run -> [Attempt -> NativeState]],
             \A q \in Run, b \in Attempt : native'[q][b] # "none" => native[q][b] # "none"
      PROVE  HermesInv'
  <2>1. HermesTypeOK'
    BY <1>2, <1>3, <1>6 DEF IInv, HermesTypeOK
  <2>2. NativeHasInstance' /\ FinalHasOutcome'
    BY <1>2, <1>6 DEF HermesInv, NativeHasInstance, FinalHasOutcome, InstancesStay
  <2> QED BY <1>2, <1>6, <2>1, <2>2, SameRequestsKeep DEF HermesInv
<1>7. ASSUME NEW r \in Run, RouteStop(r) PROVE HermesInv'
  <2>1. bound[r] \in Attempt
    BY <1>7 DEF RouteStop, IsActive, Active, HermesInv, IInv, TypeOK, Row, Born, Attempt
  <2> QED BY <1>3, <1>6, <1>7, <2>1, StopNativeFacts DEF RouteStop
<1>8. CASE UNCHANGED hermesVars
  BY <1>3, <1>6, <1>8 DEF hermesVars, HermesTypeOK
<1> QED BY <1>4, <1>5, <1>7, <1>8 DEF HermesNext, ToolCall, allVars

LEMMA HermesStarts ==
  ASSUME HermesInit
  PROVE  HermesInv
<1>1. Init /\ IInv
  BY InitOK DEF HermesInit
<1>2. 0 \in 0..MaxAttempt /\ {"boot", "over"} \subseteq Place /\ "none" \in Outcome
        /\ "none" \in NativeState
  BY MaxAttemptAssumption DEF Place, Outcome, NativeState
<1>3. HermesTypeOK
  BY <1>1, <1>2 DEF HermesInit, HermesTypeOK, IInv
<1>4. NativeHasInstance /\ FinalHasOutcome
  BY DEF HermesInit, NativeHasInstance, FinalHasOutcome
<1>5. RequestReached
  BY <1>1 DEF HermesInit, RequestReached, IInv, TypeOK, Row
<1>6. ProfileIsExclusive
  BY <1>1 DEF ProfileIsExclusive, Init, NoRow, IsActive, Active
<1> QED BY <1>1, <1>3, <1>4, <1>5, <1>6 DEF HermesInv

-----------------------------------------------------------------------------
(* Whose outcome is written *)

(* The row a write leaves, but for its age. *)
LEMMA WrittenStatus ==
  ASSUME HermesInv, NEW r \in Run, NEW new \in Row, Write(r, new)
  PROVE  row'[r].status = new.status
<1> DEFINE now == [new EXCEPT !.age = "grace"]
<1>1. row'[r] = now
  BY DEF Write, HermesInv, IInv, TypeOK
<1>2. now.status = new.status
  BY DEF Row
<1> QED BY <1>1, <1>2

(* An engine's write of a status leaves that status, or the row as it was. *)
LEMMA SetStatus ==
  ASSUME HermesInv, NEW r \in Run, NEW s \in Status, NEW transient \in BOOLEAN,
         SetRunStatus(r, s, transient), row' # row
  PROVE  row'[r].status = s
<1> DEFINE new == [row[r] EXCEPT !.status = s, !.transient = transient]
<1>1. row[r] \in Row
  BY DEF HermesInv, IInv, TypeOK
<1>2. new \in Row /\ new.status = s
  BY <1>1 DEF Row
<1>3. Write(r, new)
  BY DEF SetRunStatus
<1> HIDE DEF new
<1> QED BY <1>2, <1>3, WrittenStatus

(* An action that writes the row moves its own instance, and no other. *)
LEMMA WriterMovesItself ==
  ASSUME HermesInv, NEW r \in Run, NEW a \in Attempt, Adapter(r, a), row' # row,
         NEW q \in Run, NEW b \in Attempt, pc'[q][b] # pc[q][b]
  PROVE  q = r /\ b = a
<1>1. \/ StartupDrift(r, a) \/ StopAtStart(r, a) \/ Started(r, a) \/ Prepare(r, a)
      \/ Bind(r, a) \/ SubmitLocked(r, a) \/ Finalize(r, a)
  BY DEF Adapter, Startup, StartupRefused, Submit, PollStop, PollTerminal, StepRetried, Throw,
     Replay, Finish, RowUnchanged, vars
<1>2. UNCHANGED pc \/ \E p \in Place : Goto(r, a, p)
  <2>1. {"throwing", "returning", "submitting", "executing", "submitted", "failing"} \subseteq Place
    BY DEF Place
  <2>2. CASE StartupDrift(r, a)
    BY <2>1, <2>2 DEF StartupDrift
  <2>3. CASE StopAtStart(r, a)
    BY <2>1, <2>3 DEF StopAtStart
  <2>4. CASE Started(r, a)
    BY <2>1, <2>4 DEF Started
  <2>5. CASE Prepare(r, a)
    BY <2>1, <2>5 DEF Prepare
  <2>6. CASE Bind(r, a)
    BY <2>1, <2>6 DEF Bind, Bound
  <2>7. CASE SubmitLocked(r, a)
    BY <2>1, <2>7 DEF SubmitLocked, Bound
  <2>8. CASE Finalize(r, a)
    BY <2>1, <2>8 DEF Finalize
  <2> QED BY <1>1, <2>2, <2>3, <2>4, <2>5, <2>6, <2>7, <2>8
<1>3. HermesTypeOK
  BY DEF HermesInv
<1> QED BY <1>2, <1>3, GotoFacts

(* Of the actions that write the row, only the fenced ones complete or fail it. *)
LEMMA WriterIsCurrent ==
  ASSUME HermesInv, NEW r \in Run, NEW a \in Attempt, Adapter(r, a), row' # row,
         IsActive(r), row'[r].status \in {"completed", "error"}
  PROVE  Current(r, a)
<1>1. row[r] \in Row /\ row[r].status \notin {"completed", "error"}
  BY DEF HermesInv, IInv, TypeOK, IsActive, Active
<1>2. ~Write(r, row[r])
  BY <1>1, WrittenStatus
<1>3. "working" \in Status /\ "stopped" \in Status
  BY DEF Status, Active, Terminal
<1>4. \A s \in {"working", "stopped"} : ~SetRunStatus(r, s, FALSE)
  BY <1>3, SetStatus
<1>5. StartupDrift(r, a) \/ Finalize(r, a)
  BY <1>2, <1>4 DEF Adapter, Startup, StartupRefused, StopAtStart, Started, Prepare, Submit, Bind,
     SubmitLocked, Bound, PollStop, PollTerminal, StepRetried, Throw, Replay, Finish,
     RowUnchanged, vars
<1>6. CASE StartupDrift(r, a)
  BY <1>6 DEF StartupDrift, EngineFailsClosed, Current
<1>7. CASE Finalize(r, a)
  BY <1>7 DEF Finalize, Fenced, RowUnchanged
<1> QED BY <1>5, <1>6, <1>7

(* The control plane ends an instance only after the commit that ended its run. *)
LEMMA TerminateWritesNoRow ==
  ASSUME HermesInv, Control, NEW r \in Run, NEW a \in Attempt,
         Live(r, a), inst'[r][a] # inst[r][a]
  PROVE  UNCHANGED row
<1>1. inst \in [Run -> [Attempt -> InstanceState]]
  BY DEF HermesInv, IInv, TypeOK
<1>2. \A q \in Run, b \in Attempt : ~CreateInstance(q, b)
  BY <1>1 DEF CreateInstance, Live
<1>3. ~AdminStops
  BY AskToStopGrows DEF HermesInv, AdminStops
<1>4. ASSUME NEW q \in Run, AdmitNext(q) PROVE FALSE
  <2>1. CreateInstance(q, 1) \/ UNCHANGED inst
    BY <1>4 DEF AdmitNext, CreateTurn, DrainQueued, DrainCreate, DeliverInitial, CreateDirect,
       HandoffLost
  <2>2. 1 \in Attempt
    BY MaxAttemptAssumption DEF Attempt
  <2> QED BY <1>2, <2>1, <2>2
<1>5. ASSUME NEW q \in Run, HumanNext(q) PROVE FALSE
  BY <1>5 DEF HumanNext, RequestRunStop, RetryTask, NewAttempt, CancelRecovery
<1>6. ASSUME NEW q \in Run, NEW b \in Attempt, JobNext(q, b) PROVE FALSE
  <2>1. CreateInstance(q, b) \/ UNCHANGED inst
    BY <1>6 DEF JobNext, RunPublish, LaunchRead, LaunchUnwanted, LaunchCreate, LaunchFail,
       RecoveryRetry, NewAttempt, RecoverySkip, RecoveryRefused, RecoveryLost, RecoveryGiveUp
  <2> QED BY <1>2, <2>1
<1>7. ASSUME NEW q \in Run, CronNext(q) PROVE UNCHANGED row
  <2>1. SweepTerminate(q)
    BY <1>7 DEF CronNext, ScheduleRecovery, SweepInspect, SweepLookupFails,
       SweepVersionChanged, Inspect, SweepObserve, SweepReap, Tick, ObservationAges
  <2> QED BY <2>1 DEF SweepTerminate
<1> QED BY <1>3, <1>4, <1>5, <1>6, <1>7 DEF Control

OwnOutcomes ==
  \A r \in Run, a \in Attempt :
    Writes(r, a) /\ IsActive(r) /\ row'[r].status \in {"completed", "error"} => Current(r, a)

LEMMA OutcomesAreOwn ==
  ASSUME HermesInv, HermesNext
  PROVE  OwnOutcomes
<1> SUFFICES ASSUME NEW r \in Run, NEW a \in Attempt, Live(r, a), pc'[r][a] # pc[r][a],
                    row' # row, IsActive(r), row'[r].status \in {"completed", "error"}
             PROVE  Current(r, a)
  BY DEF OwnOutcomes, Writes
<1>1. CASE Control /\ Forget
  <2>1. inst'[r][a] \in {"complete", "failed"}
    BY <1>1, ForgetFacts DEF HermesInv
  <2>2. inst'[r][a] # inst[r][a]
    BY <2>1 DEF Live
  <2> QED BY <1>1, <2>2, TerminateWritesNoRow
<1>2. ASSUME NEW q \in Run, NEW b \in Attempt, Adapter(q, b) PROVE Current(r, a)
  BY <1>2, WriterMovesItself, WriterIsCurrent
<1>3. ASSUME NEW q \in Run,
             \/ ToolCall(q, "working", "waiting") \/ ToolCall(q, "waiting", "working")
             \/ RouteStop(q)
      PROVE  FALSE
  BY <1>3 DEF ToolCall, RouteStop, hermesVars
<1> QED BY <1>1, <1>2, <1>3 DEF HermesNext

-----------------------------------------------------------------------------
(* The properties *)

(* The inductive invariant of the adapter on the control plane. *)
THEOREM HermesInvariance == HermesSpec => []HermesInv
<1>1. HermesInit => HermesInv
  BY HermesStarts
<1>2. HermesInv /\ [HermesNext]_allVars => HermesInv'
  BY HermesKeeps
<1> QED BY <1>1, <1>2, PTL DEF HermesSpec

(* Where an instance is, what it has checkpointed and will write, and the requests
   and bindings of the rows have their types (runHermesAttempt). *)
THEOREM HermesTyping == HermesSpec => []HermesTypeOK
<1>1. HermesInv => HermesTypeOK
  BY DEF HermesInv
<1> QED BY <1>1, HermesInvariance, PTL

(* runHermesAttempt is an engine the control plane allows: everything it does, on
   whatever replay, is a step of RunControl's specification. *)
THEOREM HermesImplementsControl == HermesSpec => ImplementsControl
<1>1. HermesInit => Init
  BY DEF HermesInit
<1>2. HermesInv /\ [HermesNext]_allVars => [Next]_vars
  BY HermesStepAllowed
<1> QED BY <1>1, <1>2, HermesInvariance, PTL DEF HermesSpec, ImplementsControl, Spec

(* snapshotRequest: the profile of the native runtime is never shared by two
   active runs, though their instances prepare, replay and retry at any time. *)
THEOREM ProfileIsExclusiveAlways == HermesSpec => []ProfileIsExclusive
<1>1. HermesInv => ProfileIsExclusive
  BY DEF HermesInv
<1> QED BY <1>1, HermesInvariance, PTL

(* finalizeRuntime, failAutomaticRecoveryExecution: an instance that a Stop or the
   sweep has outlived never completes or fails the attempt after its own. *)
THEOREM OutcomeIsOwnAlways == HermesSpec => OutcomeIsOwn
<1>1. HermesInv /\ [HermesNext]_allVars => [OwnOutcomes]_allVars
  BY OutcomesAreOwn
<1> QED BY <1>1, HermesInvariance, PTL DEF HermesSpec, OutcomeIsOwn, OwnOutcomes

(* What RunControl promises of any engine holds with this one: instances wait for
   their publication, the sweep terminates only what is over, promised retries have
   jobs, and a session has one active run; within an attempt a terminal status and a
   requested stop stay, and what a person declined is not retried. *)
THEOREM HermesKeepsControl ==
  HermesSpec => /\ [](LaunchAfterPublish /\ ReapIsOver /\ DueHasJob /\ OneActiveRun)
                /\ TerminalIsFinal /\ StopIsSticky /\ OnlyWantedRetries
<1>1. HermesSpec => Spec
  BY HermesImplementsControl DEF ImplementsControl
<1> QED BY <1>1, LaunchesAfterPublish, ReapsOnlyTheOver, PromisesHaveJobs, OneActiveRunPerSession,
        TerminalStays, StopStays, RetriesAreWanted, PTL
=============================================================================
