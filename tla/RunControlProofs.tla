--------------------------- MODULE RunControlProofs ---------------------------
(***************************************************************************)
(* Proofs, for any number of runs, attempts and sessions, that the control *)
(* plane keeps its safety properties against every engine.                 *)
(***************************************************************************)
EXTENDS RunControl, TLAPS

-----------------------------------------------------------------------------
(* The inductive invariant *)

(* Nothing refers to a run that has no row yet. *)
Unborn ==
  \A r \in Run : row[r].status = "none" =>
    /\ row[r] = NoRow /\ handoff[r] = "none" /\ ~declined[r]
    /\ sweep[r] = NoVerdict
Born == \A r \in Run : row[r].status # "none" => row[r].attempt >= 1

(* Nothing refers to an attempt the row has not reached. *)
Ahead ==
  \A r \in Run, a \in Attempt : a > row[r].attempt =>
    publish[r][a] = "none" /\ launch[r][a] = "none" /\ inst[r][a] = "none"

(* A verdict that waits for the sweep's transaction is about the row as it is,
   but for its age. *)
VerdictIsFresh ==
  \A r \in Run :
    /\ sweep[r].attempt <= row[r].attempt
    /\ sweep[r].verdict \in {"missing", "stopped", "error"} =>
         IsActive(r) /\ sweep[r].attempt = row[r].attempt

(* Whoever is about to create an instance has seen its publication, or needs none. *)
CreatorsWaited ==
  \A r \in Run :
    /\ handoff[r] = "publishing" => publish[r][1] # "none"
    /\ handoff[r] = "launching" => publish[r][1] \in {"acked", "done"}
    /\ handoff[r] = "draining" => row[r].origin = "queue"
    /\ \A a \in Attempt : launch[r][a] = "creating" => publish[r][a] = "done"

(* While a retry is promised, nothing makes its job skip it. *)
DueIsRetryable == \A r \in Run : row[r].due => ~row[r].stop /\ Retryable(r)

(* What a person declined stays declined in the row. *)
DeclinedIsCancelled == \A r \in Run : declined[r] => row[r].cancelled

IInv ==
  /\ TypeOK
  /\ Unborn /\ Born /\ Ahead
  /\ VerdictIsFresh /\ CreatorsWaited
  /\ DueIsRetryable /\ DeclinedIsCancelled
  /\ LaunchAfterPublish /\ ReapIsOver /\ DueHasJob /\ OneActiveRun

(* What no step does, whatever the engine. *)
Keeps == KeepsTerminal /\ KeepsStop /\ RetriesWanted

-----------------------------------------------------------------------------
(* A step that writes the row of one run within its attempt *)

Swept == [verdict : Verdict, attempt : 0..MaxAttempt]

(* The row new continues the attempt of the row of r. *)
Within(r, new) ==
  /\ new \in Row
  /\ row[r].status # "none" /\ new.status # "none"
  /\ new.attempt = row[r].attempt /\ new.origin = row[r].origin
  /\ IsTerminal(r) => new.status = row[r].status
  /\ row[r].stop => new.stop

(* The run r is given the row new and the verdict s. *)
RowStep(r, new, s) ==
  /\ Within(r, new)
  /\ row' = [row EXCEPT ![r] = new]
  /\ sweep' = [sweep EXCEPT ![r] = s] /\ s \in Swept
  /\ seen' \in [Run -> {"none", "first", "confirmed"}]
  /\ s.attempt <= new.attempt
  /\ s.verdict \in {"missing", "stopped", "error"} =>
       new.status \in Active /\ s.attempt = new.attempt
  /\ s.verdict = "reap" => new.status \in Terminal \/ s.attempt < new.attempt

(* Its promised retry has a job, and what a person declined is cancelled. *)
RowPromises(r, new) ==
  /\ recovery' \in [Run -> [Attempt -> RecoveryState]]
  /\ \A q \in Run : q # r => recovery'[q] = recovery[q]
  /\ new.due => /\ new.status = "error" /\ ~new.stop
                /\ new.transient /\ ~new.cancelled /\ new.attempt < MaxAutomatic
                /\ recovery'[r][new.attempt] \in {"pending", "refused"}
  /\ declined' \in [Run -> BOOLEAN]
  /\ \A q \in Run : q # r => declined'[q] = declined[q]
  /\ declined'[r] => new.cancelled

(* A step of one run within its attempt, on which everything below rests: what
   the new row and the new verdict must satisfy for IInv to survive. *)
LEMMA RowStepKeeps ==
  ASSUME IInv, NEW r \in Run, NEW new, NEW s,
         RowStep(r, new, s), RowPromises(r, new),
         inst' \in [Run -> [Attempt -> InstanceState]],
         \A q \in Run, a \in Attempt : inst'[q][a] = "none" <=> inst[q][a] = "none",
         UNCHANGED <<handoff, publish, launch>>
  PROVE  IInv' /\ Keeps
<1>1. /\ row'[r] = new /\ sweep'[r] = s
      /\ \A q \in Run : q # r => row'[q] = row[q] /\ sweep'[q] = sweep[q]
      /\ row' \in [Run -> Row] /\ sweep' \in [Run -> Swept]
      /\ new \in Row /\ row[r] \in Row
  BY DEF IInv, TypeOK, RowStep, Within, Swept
<1>2. new.attempt \in Nat /\ new.status \in Status
  BY <1>1 DEF Row
<1>3. TypeOK'
  BY <1>1 DEF IInv, TypeOK, RowStep, Within, RowPromises, Swept
<1>4. Unborn' /\ Born' /\ Ahead'
  <2>1. Unborn'
    BY SMTT(30), <1>1 DEF IInv, Unborn, RowStep, Within, RowPromises
  <2>2. Born'
    BY <1>1 DEF IInv, Born, RowStep, Within
  <2>3. Ahead'
    BY <1>1 DEF IInv, Ahead, RowStep, Within
  <2>4. QED  BY <2>1, <2>2, <2>3
<1>5. VerdictIsFresh'
  BY <1>1 DEF IInv, VerdictIsFresh, RowStep, Within, IsActive
<1>6. CreatorsWaited'
  BY <1>1 DEF IInv, CreatorsWaited, RowStep, Within
<1>7. DueIsRetryable'
  BY <1>1 DEF IInv, DueIsRetryable, RowPromises, Retryable
<1>8. DeclinedIsCancelled'
  BY <1>1 DEF IInv, DeclinedIsCancelled, RowPromises
<1>9. LaunchAfterPublish'
  BY <1>1 DEF IInv, LaunchAfterPublish, RowStep, Within
<1>10. ReapIsOver'
  BY <1>1 DEF IInv, ReapIsOver, RowStep, Within, IsTerminal
<1>11. DueHasJob'
  BY <1>1 DEF IInv, DueHasJob, RowPromises
<1>12. OneActiveRun'
  <2>1. new.status \in Active => IsActive(r)
    BY <1>1, <1>2 DEF RowStep, Within, IsActive, IsTerminal, Row, Status, Active, Terminal
  <2>2. QED  BY <1>1, <2>1 DEF IInv, OneActiveRun, IsActive
<1>13. Keeps
  BY <1>1, <1>2 DEF Keeps, KeepsTerminal, KeepsStop, RetriesWanted, RowStep, Within, IInv, TypeOK, Row
<1>14. QED
  BY <1>3, <1>4, <1>5, <1>6, <1>7, <1>8, <1>9, <1>10, <1>11, <1>12, <1>13 DEF IInv

(* A step that leaves the row and the verdict alone. *)
LEMMA SameRow ==
  ASSUME IInv, NEW r \in Run, row[r].status # "none",
         row' = row, sweep' = sweep, seen' \in [Run -> {"none", "first", "confirmed"}]
  PROVE  RowStep(r, row[r], sweep[r])
<1>1. row' = [row EXCEPT ![r] = row[r]] /\ sweep' = [sweep EXCEPT ![r] = sweep[r]]
  BY DEF IInv, TypeOK
<1>2. Within(r, row[r])
  BY DEF IInv, TypeOK, Within
<1>3. QED
  BY <1>1, <1>2 DEF RowStep, IInv, TypeOK, Swept, VerdictIsFresh, ReapIsOver, IsActive, IsTerminal

(* What a run promises is kept with its row. *)
LEMMA SamePromises ==
  ASSUME IInv, NEW r \in Run, UNCHANGED <<recovery, declined>>
  PROVE  RowPromises(r, row[r])
  BY DEF IInv, TypeOK, RowPromises, DueIsRetryable, DueHasJob, Retryable, DeclinedIsCancelled

(* A step of something else. *)
LEMMA StutterKeeps ==
  ASSUME IInv, UNCHANGED vars
  PROVE  IInv' /\ Keeps
<1>1. IInv'
  BY DEF IInv, vars, TypeOK, Unborn, Born, Ahead, VerdictIsFresh, CreatorsWaited,
         DueIsRetryable, DeclinedIsCancelled, LaunchAfterPublish, ReapIsOver, DueHasJob,
         OneActiveRun, IsActive, IsTerminal, Retryable
<1>2. Keeps
  BY DEF vars, Keeps, KeepsTerminal, KeepsStop, RetriesWanted, IInv, TypeOK, Row
<1>3. QED
  BY <1>1, <1>2

(* An UPDATE of a runs row moves updated_at: what the sweep concluded from the
   earlier row is dropped with it, so the new row owes the sweep nothing. *)
LEMMA WriteKeeps ==
  ASSUME IInv, NEW r \in Run, NEW new,
         Within(r, new), Write(r, new), RowPromises(r, new),
         UNCHANGED <<handoff, publish, launch, inst>>
  PROVE  IInv' /\ Keeps
<1> DEFINE now == [new EXCEPT !.age = "grace"]
<1>1. now \in Row
  BY DEF Within, Row, Age
<1>2. /\ now.status = new.status /\ now.attempt = new.attempt
      /\ now.stop = new.stop /\ now.cancelled = new.cancelled
      /\ now.due = new.due /\ now.transient = new.transient
      /\ now.origin = new.origin
  BY DEF Within, Row
<1>3. /\ row' = [row EXCEPT ![r] = now]
      /\ sweep' = [sweep EXCEPT ![r] = Outdated(sweep[r])]
      /\ seen' = [seen EXCEPT ![r] = "none"]
  BY DEF Write
<1> HIDE DEF now
<1>4. Within(r, now)
  BY <1>1, <1>2 DEF Within
<1>5. RowPromises(r, now)
  BY <1>2 DEF RowPromises
<1>6. RowStep(r, now, Outdated(sweep[r]))
  <2>1. now.attempt \in Nat
    BY <1>1 DEF Row
  <2>2. Outdated(sweep[r]) \in Swept
    <3>1. sweep[r] \in Swept
      BY DEF IInv, TypeOK, Swept
    <3>2. NoVerdict \in Swept
      BY MaxAttemptAssumption DEF NoVerdict, Swept, Verdict
    <3>3. QED
      BY <3>1, <3>2 DEF Outdated
  <2>3. Outdated(sweep[r]).verdict \in {"none", "reap"}
    BY DEF Outdated, NoVerdict
  <2>4. Outdated(sweep[r]).attempt <= now.attempt
    BY <2>1, <1>4 DEF Outdated, NoVerdict, IInv, VerdictIsFresh, Within
  <2>5. Outdated(sweep[r]).verdict = "reap" =>
          now.status \in Terminal \/ Outdated(sweep[r]).attempt < now.attempt
    BY <1>4 DEF Outdated, NoVerdict, IInv, ReapIsOver, Within, IsTerminal
  <2>6. QED
    BY <1>3, <1>4, <2>2, <2>3, <2>4, <2>5 DEF RowStep, IInv, TypeOK
<1>7. QED
  BY <1>5, <1>6, RowStepKeeps DEF IInv, TypeOK

(* A write that promises no retry keeps the jobs of recovery as they are. *)
LEMMA UnpromisedWriteKeeps ==
  ASSUME IInv, NEW r \in Run, NEW new,
         Within(r, new), Write(r, new), new.due = FALSE,
         row[r].cancelled => new.cancelled,
         UNCHANGED <<jobVars, inst, declined>>
  PROVE  IInv' /\ Keeps
<1>1. RowPromises(r, new)
  BY DEF IInv, TypeOK, DeclinedIsCancelled, RowPromises, jobVars
<1>2. QED
  BY <1>1, WriteKeeps DEF jobVars

-----------------------------------------------------------------------------
(* Stop, Cancel and the engine *)

(* requestRunStop: a person's Stop of an active run. *)
LEMMA RequestRunStopKeeps ==
  ASSUME IInv, NEW r \in Run, RequestRunStop(r)
  PROVE  IInv' /\ Keeps
<1> DEFINE new == [row[r] EXCEPT !.stop = TRUE, !.status = "stopping",
                                 !.cancelled = TRUE, !.due = FALSE]
<1>1. row[r] \in Row
  BY DEF IInv, TypeOK
<1>2. new.due = FALSE /\ new.cancelled = TRUE
  BY <1>1 DEF Row
<1>3. Within(r, new)
  BY <1>1 DEF Within, Row, Status, Active, Terminal, RequestRunStop, IsActive, IsTerminal
<1>4. RowPromises(r, new)
  BY <1>2 DEF RowPromises, RequestRunStop, IInv, TypeOK, jobVars
<1>5. Write(r, new)
  BY DEF RequestRunStop
<1>6. QED
  BY <1>3, <1>4, <1>5, WriteKeeps DEF RequestRunStop, jobVars

(* A person withdraws the automatic retry, whatever state the run is in. *)
LEMMA CancelRecoveryKeeps ==
  ASSUME IInv, NEW r \in Run, CancelRecovery(r)
  PROVE  IInv' /\ Keeps
<1> DEFINE new == [row[r] EXCEPT !.cancelled = TRUE, !.due = FALSE]
<1>1. row[r] \in Row
  BY DEF IInv, TypeOK
<1>2. new.due = FALSE /\ new.cancelled = TRUE
  BY <1>1 DEF Row
<1>3. Within(r, new)
  BY <1>1 DEF Within, Row, CancelRecovery
<1>4. RowPromises(r, new)
  BY <1>2 DEF RowPromises, CancelRecovery, IInv, TypeOK, jobVars
<1>5. Write(r, new)
  BY DEF CancelRecovery
<1>6. QED
  BY <1>3, <1>4, <1>5, WriteKeeps DEF CancelRecovery, jobVars

(* An instance runs only for a run that has been admitted. *)
LEMMA LiveIsBorn ==
  ASSUME IInv, NEW r \in Run, NEW a \in Attempt, Live(r, a)
  PROVE  row[r].status # "none"
  BY DEF IInv, Live, Unborn, Ahead, NoRow, Attempt

(* The engine's write of a status, guarded by the terminal statuses alone. *)
LEMMA SetRunStatusKeeps ==
  ASSUME IInv, NEW r \in Run, NEW s \in Status \ {"none"}, NEW transient \in BOOLEAN,
         row[r].status # "none",
         SetRunStatus(r, s, transient), UNCHANGED <<jobVars, inst, declined>>
  PROVE  IInv' /\ Keeps
<1> DEFINE new == [row[r] EXCEPT !.status = s, !.transient = transient]
<1>1. row[r] \in Row
  BY DEF IInv, TypeOK
<1>2. CASE IsTerminal(r)
  <2>1. UNCHANGED vars
    BY <1>2 DEF SetRunStatus, vars, jobVars
  <2>2. QED
    BY <2>1, StutterKeeps
<1>3. CASE ~IsTerminal(r)
  <2>1. Write(r, new)
    BY <1>3 DEF SetRunStatus
  <2>2. Within(r, new)
    BY <1>1, <1>3 DEF Within, Row
  <2>3. new.due = row[r].due /\ new.cancelled = row[r].cancelled
    BY <1>1 DEF Row
  <2>4. row[r].due = FALSE
    BY <1>1, <1>3 DEF IInv, DueHasJob, IsTerminal, Terminal, Row
  <2>5. QED
    BY <2>1, <2>2, <2>3, <2>4, UnpromisedWriteKeeps
<1>4. QED
  BY <1>2, <1>3

(* A write that only touches the row. *)
LEMMA TouchKeeps ==
  ASSUME IInv, NEW r \in Run, row[r].status # "none",
         Write(r, row[r]), UNCHANGED <<jobVars, inst, declined>>
  PROVE  IInv' /\ Keeps
<1>1. Within(r, row[r])
  BY DEF IInv, TypeOK, Within
<1>2. RowPromises(r, row[r])
  BY SamePromises DEF jobVars
<1>3. QED
  BY <1>1, <1>2, WriteKeeps DEF jobVars

(* Any status write of an engine, of this attempt or of an earlier one. *)
LEMMA EngineWritesKeeps ==
  ASSUME IInv, NEW r \in Run, NEW a \in Attempt, EngineWrites(r, a)
  PROVE  IInv' /\ Keeps
<1>1. row[r].status # "none" /\ UNCHANGED <<jobVars, inst, declined>>
  BY LiveIsBorn DEF EngineWrites
<1>2. CASE \E s \in {"working", "waiting", "completed", "stopped"} : SetRunStatus(r, s, FALSE)
  <2>1. PICK s \in {"working", "waiting", "completed", "stopped"} : SetRunStatus(r, s, FALSE)
    BY <1>2
  <2>2. s \in Status \ {"none"}
    BY DEF Status, Active, Terminal
  <2>3. QED
    BY <1>1, <2>1, <2>2, SetRunStatusKeeps
<1>3. CASE \E transient \in BOOLEAN : SetRunStatus(r, "error", transient)
  <2>1. "error" \in Status \ {"none"}
    BY DEF Status, Terminal
  <2>2. QED
    BY <1>1, <1>3, <2>1, SetRunStatusKeeps
<1>4. CASE Write(r, row[r])
  BY <1>1, <1>4, TouchKeeps
<1>5. QED
  BY <1>2, <1>3, <1>4 DEF EngineWrites

(* failAutomaticRecoveryExecution ends the attempt and its recovery. *)
LEMMA EngineFailsClosedKeeps ==
  ASSUME IInv, NEW r \in Run, NEW a \in Attempt, EngineFailsClosed(r, a)
  PROVE  IInv' /\ Keeps
<1> DEFINE new == [row[r] EXCEPT !.status = "error", !.transient = FALSE,
                                 !.cancelled = TRUE, !.due = FALSE]
<1>1. row[r] \in Row
  BY DEF IInv, TypeOK
<1>2. new.due = FALSE /\ new.cancelled = TRUE
  BY <1>1 DEF Row
<1>3. Within(r, new)
  BY <1>1 DEF Within, Row, Status, Terminal, EngineFailsClosed, IsTerminal
<1>4. Write(r, new) /\ UNCHANGED <<jobVars, inst, declined>>
  BY DEF EngineFailsClosed
<1>5. QED
  BY <1>2, <1>3, <1>4, UnpromisedWriteKeeps

(* A tool call of a native run writes a live row only. *)
LEMMA BridgeWritesKeeps ==
  ASSUME IInv, NEW r \in Run, BridgeWrites(r)
  PROVE  IInv' /\ Keeps
<1>1. PICK s \in {"working", "waiting"} : Write(r, [row[r] EXCEPT !.status = s])
  BY DEF BridgeWrites
<1> DEFINE new == [row[r] EXCEPT !.status = s]
<1>2. row[r] \in Row
  BY DEF IInv, TypeOK
<1>3. row[r].due = FALSE
  BY <1>2 DEF IInv, DueHasJob, BridgeWrites, Row
<1>4. new.due = FALSE /\ new.cancelled = row[r].cancelled
  BY <1>2, <1>3 DEF Row
<1>5. Within(r, new)
  BY <1>2 DEF Within, Row, Status, Active, Terminal, BridgeWrites, IsTerminal
<1>6. UNCHANGED <<jobVars, inst, declined>>
  BY DEF BridgeWrites
<1>7. QED
  BY <1>1, <1>4, <1>5, <1>6, UnpromisedWriteKeeps

(* An instance ends: the row does not notice. *)
LEMMA EngineEndsKeeps ==
  ASSUME IInv, NEW r \in Run, NEW a \in Attempt, EngineEnds(r, a)
  PROVE  IInv' /\ Keeps
<1>1. row[r].status # "none"
  BY LiveIsBorn DEF EngineEnds
<1>2. /\ inst' \in [Run -> [Attempt -> InstanceState]]
      /\ \A q \in Run, b \in Attempt : inst'[q][b] = "none" <=> inst[q][b] = "none"
  BY DEF EngineEnds, Live, IInv, TypeOK, InstanceState
<1>3. RowStep(r, row[r], sweep[r])
  BY <1>1, SameRow DEF EngineEnds, IInv, TypeOK
<1>4. RowPromises(r, row[r])
  BY SamePromises DEF EngineEnds, jobVars
<1>5. QED
  BY <1>2, <1>3, <1>4, RowStepKeeps DEF EngineEnds, jobVars

(* Several rows at once: the statuses stay. *)
LEMMA AskToStopKeeps ==
  ASSUME IInv, NEW asked \in SUBSET Run, AskToStop(asked)
  PROVE  IInv' /\ Keeps
<1> DEFINE new(r) == [row[r] EXCEPT !.stop = TRUE, !.age = "grace"]
<1>1. \A r \in Run : row[r] \in Row
  BY DEF IInv, TypeOK
<1>2. \A r \in Run :
        /\ new(r) \in Row
        /\ new(r).status = row[r].status /\ new(r).attempt = row[r].attempt
        /\ new(r).stop = TRUE /\ new(r).cancelled = row[r].cancelled
        /\ new(r).due = row[r].due /\ new(r).transient = row[r].transient
        /\ new(r).origin = row[r].origin
  BY <1>1 DEF Row, Age
<1>3. /\ \A r \in asked : row'[r] = new(r) /\ row[r].status \in Active
      /\ \A r \in Run \ asked : row'[r] = row[r]
      /\ \A r \in asked : sweep'[r] = Outdated(sweep[r])
      /\ \A r \in Run \ asked : sweep'[r] = sweep[r]
      /\ UNCHANGED <<handoff, publish, launch, recovery, inst, declined>>
  BY DEF AskToStop, Active, jobVars
<1>4. \A r \in asked : row[r].due = FALSE
  BY <1>1, <1>3 DEF IInv, DueHasJob, Active, Row
<1>5. \A r \in Run :
        /\ row'[r] \in Row
        /\ row'[r].status = row[r].status /\ row'[r].attempt = row[r].attempt
        /\ row'[r].cancelled = row[r].cancelled /\ row'[r].due = row[r].due
        /\ row'[r].transient = row[r].transient /\ row'[r].origin = row[r].origin
        /\ row[r].stop => row'[r].stop
        /\ row[r].due => row'[r] = row[r]
  <2> SUFFICES ASSUME NEW r \in Run
      PROVE /\ row'[r] \in Row
            /\ row'[r].status = row[r].status /\ row'[r].attempt = row[r].attempt
            /\ row'[r].cancelled = row[r].cancelled /\ row'[r].due = row[r].due
            /\ row'[r].transient = row[r].transient /\ row'[r].origin = row[r].origin
            /\ row[r].stop => row'[r].stop
            /\ row[r].due => row'[r] = row[r]
    OBVIOUS
  <2>1. CASE r \in asked
    BY <1>1, <1>2, <1>3, <1>4, <2>1
  <2>2. CASE r \notin asked
    BY <1>1, <1>3, <2>2
  <2> QED BY <2>1, <2>2
<1> HIDE DEF new
<1>6. TypeOK'
  <2>1. row' \in [Run -> Row]
    BY <1>5 DEF AskToStop
  <2>2. sweep' \in [Run -> Swept]
    <3>1. \A r \in Run : sweep[r] \in Swept
      BY DEF IInv, TypeOK, Swept
    <3>2. NoVerdict \in Swept
      BY MaxAttemptAssumption DEF NoVerdict, Swept, Verdict
    <3>3. \A r \in Run : Outdated(sweep[r]) \in Swept
      BY <3>1, <3>2 DEF Outdated
    <3>4. QED
      BY <3>1, <3>3 DEF AskToStop
  <2>3. seen' \in [Run -> {"none", "first", "confirmed"}]
    BY DEF AskToStop, IInv, TypeOK
  <2>4. QED
    BY <1>3, <2>1, <2>2, <2>3 DEF IInv, TypeOK, Swept
<1>7. Unborn' /\ Born' /\ Ahead'
  <2>1. Unborn'
    <3>1. ASSUME NEW r \in Run, row'[r].status = "none"
          PROVE  row'[r] = row[r] /\ sweep'[r] = sweep[r] /\ row[r].status = "none"
      BY <1>3, <1>5, <3>1 DEF Active
    <3>2. QED
      BY <1>3, <3>1 DEF IInv, Unborn
  <2>2. Born' /\ Ahead'
    BY <1>3, <1>5 DEF IInv, Born, Ahead
  <2>3. QED  BY <2>1, <2>2
<1>8. VerdictIsFresh' /\ ReapIsOver'
  <2>1. \A r \in Run : row[r].attempt \in Nat
    BY <1>1 DEF Row
  <2>2. VerdictIsFresh'
    BY <1>3, <1>5, <2>1 DEF IInv, VerdictIsFresh, Outdated, NoVerdict, IsActive
  <2>3. ReapIsOver'
    BY <1>3, <1>5 DEF IInv, ReapIsOver, Outdated, NoVerdict, IsTerminal
  <2>4. QED  BY <2>2, <2>3
<1>9. CreatorsWaited' /\ LaunchAfterPublish'
  BY <1>3, <1>5 DEF IInv, CreatorsWaited, LaunchAfterPublish
<1>10. DueIsRetryable'
  BY <1>5 DEF IInv, DueIsRetryable, Retryable
<1>11. DeclinedIsCancelled' /\ DueHasJob'
  BY <1>3, <1>5 DEF IInv, DeclinedIsCancelled, DueHasJob
<1>12. OneActiveRun'
  BY <1>5 DEF IInv, OneActiveRun, IsActive
<1>13. Keeps
  BY <1>1, <1>5 DEF Keeps, KeepsTerminal, KeepsStop, RetriesWanted, Row
<1>14. QED
  BY <1>6, <1>7, <1>8, <1>9, <1>10, <1>11, <1>12, <1>13 DEF IInv

(* stopOtherRunsOnProvider leaves the statuses to the other engines. *)
LEMMA EngineStopsOthersKeeps ==
  ASSUME IInv, NEW r \in Run, NEW a \in Attempt, EngineStopsOthers(r, a)
  PROVE  IInv' /\ Keeps
  BY AskToStopKeeps DEF EngineStopsOthers

(* Any step of an engine keeps the invariant of the control plane, and neither
   leaves a terminal status, forgets a stop, nor starts an attempt. *)
THEOREM EngineKeeps ==
  ASSUME IInv, Engine
  PROVE  IInv' /\ Keeps
  BY EngineWritesKeeps, EngineFailsClosedKeeps, EngineStopsOthersKeeps, EngineEndsKeeps,
     BridgeWritesKeeps DEF Engine

-----------------------------------------------------------------------------
(* The sweep *)

(* The sweep's bookkeeping leaves the row alone. *)
LEMMA InspectKeeps ==
  ASSUME IInv, NEW r \in Run, NEW v \in {"keep", "missing", "stopped", "error"}, Inspect(r, v)
  PROVE  IInv' /\ Keeps
<1>1. row[r] \in Row /\ row[r].status # "none" /\ row[r].status \in Active
  BY DEF IInv, TypeOK, Inspect, IsActive, Active
<1>2. CASE v = "keep"
  <2>1. RowStep(r, row[r], sweep[r])
    BY <1>1, <1>2, SameRow DEF Inspect, IInv, TypeOK
  <2>2. RowPromises(r, row[r])
    BY SamePromises DEF Inspect, jobVars
  <2>3. QED
    BY <2>1, <2>2, RowStepKeeps DEF Inspect, jobVars, IInv, TypeOK
<1>3. CASE v # "keep"
  <2> DEFINE s == [verdict |-> v, attempt |-> row[r].attempt]
  <2>1. s \in Swept /\ s.attempt = row[r].attempt /\ s.verdict # "reap"
    BY <1>1, <1>3 DEF Row, Swept, Verdict
  <2>2. sweep' = [sweep EXCEPT ![r] = s] /\ UNCHANGED <<row, seen, jobVars, inst, declined>>
    BY <1>3 DEF Inspect
  <2> HIDE DEF s
  <2>3. row' = [row EXCEPT ![r] = row[r]] /\ row[r].attempt \in Nat
    BY <1>1, <2>2 DEF IInv, TypeOK, Row
  <2>4. RowStep(r, row[r], s)
    <3>1. Within(r, row[r])
      BY <1>1 DEF Within
    <3>2. seen' \in [Run -> {"none", "first", "confirmed"}]
      BY <2>2 DEF IInv, TypeOK
    <3>3. s.attempt <= row[r].attempt
      BY <2>1, <2>3
    <3>4. QED
      BY <1>1, <2>1, <2>2, <2>3, <3>1, <3>2, <3>3 DEF RowStep
  <2>5. RowPromises(r, row[r])
    BY <2>2, SamePromises DEF jobVars
  <2>6. QED
    BY <2>2, <2>4, <2>5, RowStepKeeps DEF jobVars, IInv, TypeOK
<1>4. QED
  BY <1>2, <1>3

(* The lookup: verdictFor answers, fails, or finds another engine version. *)
LEMMA SweepLookupKeeps ==
  ASSUME IInv, NEW r \in Run,
         SweepInspect(r) \/ SweepLookupFails(r) \/ SweepVersionChanged(r)
  PROVE  IInv' /\ Keeps
<1>1. CASE SweepInspect(r)
  <2>1. row[r].attempt \in Attempt
    BY <1>1, MaxAttemptAssumption
       DEF SweepInspect, Inspect, IsActive, Active, IInv, TypeOK, Row, Born, Attempt
  <2>2. inst[r][row[r].attempt] \in InstanceState
    BY <2>1 DEF IInv, TypeOK
  <2>3. VerdictFor(r) \in {"keep", "missing", "stopped", "error"}
    BY <2>2 DEF VerdictFor, InstanceState
  <2>4. QED
    BY <1>1, <2>3, InspectKeeps DEF SweepInspect
<1>2. CASE SweepLookupFails(r) \/ SweepVersionChanged(r)
  BY <1>2, InspectKeeps DEF SweepLookupFails, SweepVersionChanged
<1>3. QED
  BY <1>1, <1>2

(* A verdict that has been acted on is forgotten. *)
LEMMA VerdictCleared ==
  ASSUME IInv, NEW r \in Run, row[r].status # "none",
         row' = row, sweep' = [sweep EXCEPT ![r] = NoVerdict],
         seen' \in [Run -> {"none", "first", "confirmed"}]
  PROVE  RowStep(r, row[r], NoVerdict)
<1>1. row' = [row EXCEPT ![r] = row[r]] /\ row[r] \in Row
  BY DEF IInv, TypeOK
<1>2. NoVerdict \in Swept /\ NoVerdict.verdict = "none" /\ NoVerdict.attempt = 0
  BY MaxAttemptAssumption DEF NoVerdict, Swept, Verdict
<1>3. Within(r, row[r])
  BY <1>1 DEF Within
<1>4. NoVerdict.attempt <= row[r].attempt
  BY <1>1, <1>2 DEF Row
<1>5. QED
  BY <1>1, <1>2, <1>3, <1>4 DEF RowStep

(* sweepWorkspace records a first absence: nothing else changes. *)
LEMMA SweepObserveKeeps ==
  ASSUME IInv, NEW r \in Run, SweepObserve(r)
  PROVE  IInv' /\ Keeps
<1>1. row[r].status # "none"
  BY DEF SweepObserve, IInv, VerdictIsFresh, IsActive, Active
<1>2. seen' \in [Run -> {"none", "first", "confirmed"}]
  BY DEF SweepObserve, IInv, TypeOK
<1>3. RowStep(r, row[r], NoVerdict)
  BY <1>1, <1>2, VerdictCleared DEF SweepObserve
<1>4. RowPromises(r, row[r])
  BY SamePromises DEF SweepObserve, jobVars
<1>5. QED
  BY <1>3, <1>4, RowStepKeeps DEF SweepObserve, jobVars, IInv, TypeOK

(* sweepWorkspace ends a run: the row it read was active, and is the row it
   writes, so the instance it will terminate belongs to an attempt that is over. *)
LEMMA SweepReapKeeps ==
  ASSUME IInv, NEW r \in Run, SweepReap(r)
  PROVE  IInv' /\ Keeps
<1> DEFINE end == IF sweep[r].verdict = "stopped" THEN "stopped" ELSE "error"
           new == [row[r] EXCEPT !.status = end, !.transient = FALSE,
                                 !.stop = TRUE, !.age = "grace"]
           s == [sweep[r] EXCEPT !.verdict = "reap"]
<1>1. /\ row[r] \in Row /\ sweep[r] \in Swept
      /\ sweep[r].verdict \in {"missing", "stopped", "error"}
  BY DEF SweepReap, IInv, TypeOK, Swept
<1>2. IsActive(r) /\ sweep[r].attempt = row[r].attempt /\ row[r].attempt \in Nat
  BY <1>1 DEF IInv, VerdictIsFresh, Row
<1>3. row[r].due = FALSE
  BY <1>1, <1>2 DEF IInv, DueHasJob, IsActive, Active, Row
<1>4. /\ new \in Row /\ new.status = end /\ new.attempt = row[r].attempt
      /\ new.stop = TRUE /\ new.due = FALSE /\ new.cancelled = row[r].cancelled
      /\ new.origin = row[r].origin
  BY <1>1, <1>3 DEF Row, Age, Status, Terminal
<1>5. s \in Swept /\ s.verdict = "reap" /\ s.attempt = row[r].attempt
  BY <1>1, <1>2 DEF Swept, Verdict
<1>6. row' = [row EXCEPT ![r] = new] /\ sweep' = [sweep EXCEPT ![r] = s]
  BY <1>1 DEF SweepReap, IInv, TypeOK, Row
<1>7. UNCHANGED <<jobVars, inst, declined>> /\ seen' = [seen EXCEPT ![r] = "none"]
  BY DEF SweepReap
<1>8. end \in {"stopped", "error"}
  OBVIOUS
<1> HIDE DEF end, new, s
<1>9. Within(r, new)
  BY <1>2, <1>4, <1>8 DEF Within, IsActive, IsTerminal, Active, Terminal
<1>10. RowStep(r, new, s)
  <2>1. seen' \in [Run -> {"none", "first", "confirmed"}]
    BY <1>7 DEF IInv, TypeOK
  <2>2. new.status \in Terminal
    BY <1>4, <1>8 DEF Terminal
  <2>3. s.attempt <= new.attempt
    BY <1>2, <1>4, <1>5
  <2>4. QED
    BY <1>5, <1>6, <1>9, <2>1, <2>2, <2>3 DEF RowStep
<1>11. RowPromises(r, new)
  BY <1>4, <1>7 DEF RowPromises, IInv, TypeOK, DeclinedIsCancelled, jobVars
<1>12. QED
  BY <1>7, <1>10, <1>11, RowStepKeeps DEF jobVars, IInv, TypeOK

(* terminateInstance changes what the platform runs, never what exists. *)
LEMMA SweepTerminateKeeps ==
  ASSUME IInv, NEW r \in Run, SweepTerminate(r)
  PROVE  IInv' /\ Keeps
<1>1. sweep[r].verdict = "reap" /\ UNCHANGED <<row, jobVars, seen, declined>>
      /\ sweep' = [sweep EXCEPT ![r] = NoVerdict]
  BY DEF SweepTerminate
<1>2. row[r].status # "none"
  BY <1>1 DEF IInv, Unborn, NoVerdict
<1>3. /\ inst' \in [Run -> [Attempt -> InstanceState]]
      /\ \A q \in Run, b \in Attempt : inst'[q][b] = "none" <=> inst[q][b] = "none"
  <2>1. CASE UNCHANGED inst
    BY <2>1 DEF IInv, TypeOK
  <2>2. CASE inst' = [inst EXCEPT ![r][sweep[r].attempt] =
                        IF @ = "running" THEN "failed" ELSE @]
    <3>1. inst \in [Run -> [Attempt -> InstanceState]]
      BY DEF IInv, TypeOK
    <3>2. \A q \in Run, b \in Attempt :
            inst'[q][b] = IF q = r /\ b = sweep[r].attempt /\ inst[q][b] = "running"
                          THEN "failed" ELSE inst[q][b]
      BY <2>2, <3>1
    <3>3. \A q \in Run, b \in Attempt : inst'[q][b] \in InstanceState
      BY <3>1, <3>2 DEF InstanceState
    <3>4. inst' \in [Run -> [Attempt -> InstanceState]]
      BY <2>2, <3>1, <3>3
    <3>5. QED
      BY <3>2, <3>4
  <2>3. QED
    BY <2>1, <2>2 DEF SweepTerminate
<1>4. RowStep(r, row[r], NoVerdict)
  BY <1>1, <1>2, VerdictCleared DEF IInv, TypeOK
<1>5. RowPromises(r, row[r])
  BY <1>1, SamePromises DEF jobVars
<1>6. QED
  BY <1>1, <1>3, <1>4, <1>5, RowStepKeeps DEF jobVars

(* The clock moves the age of a row the sweep may have read already: its verdict
   stands, since updated_at is what the sweep compares. *)
LEMMA TickKeeps ==
  ASSUME IInv, NEW r \in Run, Tick(r)
  PROVE  IInv' /\ Keeps
<1> DEFINE older == IF row[r].age = "grace" THEN "settled" ELSE "stale"
           new == [row[r] EXCEPT !.age = older]
<1>1. row[r] \in Row /\ sweep[r] \in Swept /\ IsActive(r)
  BY DEF Tick, IInv, TypeOK, Swept
<1>2. /\ new \in Row /\ new.status = row[r].status /\ new.attempt = row[r].attempt
      /\ new.stop = row[r].stop /\ new.due = row[r].due
      /\ new.cancelled = row[r].cancelled /\ new.origin = row[r].origin
  BY <1>1 DEF Row, Age
<1>3. row' = [row EXCEPT ![r] = new] /\ sweep' = [sweep EXCEPT ![r] = sweep[r]]
  BY <1>1 DEF Tick, IInv, TypeOK, Row
<1>4. UNCHANGED <<jobVars, inst, seen, declined>>
  BY DEF Tick
<1> HIDE DEF older, new
<1>5. row[r].due = FALSE
  BY <1>1 DEF IInv, DueHasJob, IsActive, Active, Row
<1>6. Within(r, new)
  BY <1>1, <1>2 DEF Within, IsActive, Active
<1>7. RowStep(r, new, sweep[r])
  BY <1>1, <1>2, <1>3, <1>4, <1>6
     DEF RowStep, IInv, TypeOK, VerdictIsFresh, ReapIsOver, IsActive, IsTerminal
<1>8. RowPromises(r, new)
  BY <1>2, <1>4, <1>5 DEF RowPromises, IInv, TypeOK, DeclinedIsCancelled, jobVars
<1>9. QED
  BY <1>4, <1>7, <1>8, RowStepKeeps DEF jobVars, IInv, TypeOK

-----------------------------------------------------------------------------
(* The jobs *)

(* A step that leaves the rows alone has to respect only what the jobs promise. *)
LEMMA FrameKeeps ==
  ASSUME IInv, UNCHANGED <<row, sweep, declined>>,
         TypeOK', Ahead', CreatorsWaited', LaunchAfterPublish', DueHasJob',
         \A r \in Run : row[r].status = "none" => handoff'[r] = "none"
  PROVE  IInv' /\ Keeps
<1>1. Unborn' /\ Born' /\ VerdictIsFresh' /\ DueIsRetryable' /\ DeclinedIsCancelled'
  BY DEF IInv, Unborn, Born, VerdictIsFresh, DueIsRetryable, DeclinedIsCancelled,
         IsActive, Retryable
<1>2. ReapIsOver' /\ OneActiveRun'
  BY DEF IInv, ReapIsOver, OneActiveRun, IsActive, IsTerminal
<1>3. Keeps
  BY DEF Keeps, KeepsTerminal, KeepsStop, RetriesWanted, IInv, TypeOK, Row
<1>4. QED
  BY <1>1, <1>2, <1>3 DEF IInv

(* An absence seen once is old enough to be confirmed. *)
LEMMA ObservationAgesKeeps ==
  ASSUME IInv, NEW r \in Run, ObservationAges(r)
  PROVE  IInv' /\ Keeps
<1>1. TypeOK'
  BY DEF ObservationAges, IInv, TypeOK, jobVars
<1>2. Ahead' /\ CreatorsWaited' /\ LaunchAfterPublish' /\ DueHasJob'
  BY DEF ObservationAges, IInv, Ahead, CreatorsWaited, LaunchAfterPublish, DueHasJob, jobVars
<1>3. QED
  BY <1>1, <1>2, FrameKeeps DEF ObservationAges, jobVars, IInv, Unborn

(* A job or a request that creates an instance has waited for the publication. *)
LEMMA CreateInstanceKeeps ==
  ASSUME IInv, NEW r \in Run, NEW a \in Attempt, CreateInstance(r, a),
         a <= row[r].attempt, a > 1 \/ row[r].origin = "turn" => publish[r][a] \in {"acked", "done"},
         UNCHANGED row,
         publish' \in [Run -> [Attempt -> Publication]],
         \A q \in Run, b \in Attempt : publish'[q][b] = publish[q][b] \/ publish'[q][b] = "done"
  PROVE  /\ inst' \in [Run -> [Attempt -> InstanceState]]
         /\ LaunchAfterPublish'
         /\ \A q \in Run, b \in Attempt : b > row[q].attempt => inst'[q][b] = "none"
<1>1. inst \in [Run -> [Attempt -> InstanceState]]
  BY DEF IInv, TypeOK
<1>2. /\ inst' \in [Run -> [Attempt -> InstanceState]]
      /\ \A q \in Run, b \in Attempt : q # r \/ b # a => inst'[q][b] = inst[q][b]
  BY <1>1 DEF CreateInstance, InstanceState
<1>3. LaunchAfterPublish'
  BY <1>2 DEF IInv, LaunchAfterPublish
<1>4. \A q \in Run, b \in Attempt : b > row[q].attempt => inst'[q][b] = "none"
  <2>1. \A q \in Run : row[q].attempt \in Nat
    BY DEF IInv, TypeOK, Row
  <2>2. QED
    BY <1>2, <2>1 DEF IInv, Ahead, Attempt
<1>5. QED
  BY <1>2, <1>3, <1>4

(* A hand-off under way is that of an admitted run. *)
LEMMA HandoffIsBorn ==
  ASSUME IInv, NEW r \in Run, handoff[r] # "none"
  PROVE  /\ row[r].status # "none" /\ 1 \in Attempt /\ 1 <= row[r].attempt
         /\ row[r].attempt \in Nat
  BY MaxAttemptAssumption DEF IInv, TypeOK, Unborn, Born, Attempt, Row

(* The requests' half of the hand-off: the Cron's, which publishes nothing first. *)
LEMMA DrainCreateKeeps ==
  ASSUME IInv, NEW r \in Run, DrainCreate(r)
  PROVE  IInv' /\ Keeps
<1>1. /\ handoff[r] = "draining" /\ handoff' = [handoff EXCEPT ![r] = "none"]
      /\ UNCHANGED <<row, publish, launch, recovery, sweep, seen, declined>>
      /\ CreateInstance(r, 1)
  BY DEF DrainCreate
<1>2. 1 \in Attempt /\ 1 <= row[r].attempt /\ row[r].origin = "queue"
  BY <1>1, HandoffIsBorn DEF IInv, CreatorsWaited
<1>3. /\ inst' \in [Run -> [Attempt -> InstanceState]]
      /\ LaunchAfterPublish'
      /\ \A q \in Run, b \in Attempt : b > row[q].attempt => inst'[q][b] = "none"
  <2>1. 1 > 1 \/ row[r].origin = "turn" => publish[r][1] \in {"acked", "done"}
    BY <1>2
  <2>2. publish' \in [Run -> [Attempt -> Publication]] /\ UNCHANGED <<row, publish>>
    BY <1>1 DEF IInv, TypeOK
  <2>3. QED
    BY <1>1, <1>2, <2>1, <2>2, CreateInstanceKeeps
<1>4. TypeOK'
  BY <1>1, <1>3 DEF IInv, TypeOK, Handoff
<1>5. Ahead' /\ CreatorsWaited' /\ DueHasJob'
  BY <1>1, <1>3 DEF IInv, TypeOK, Ahead, CreatorsWaited, DueHasJob
<1>6. QED
  BY <1>1, <1>3, <1>4, <1>5, FrameKeeps DEF IInv, TypeOK, Unborn

(* createTurn delivers the first event before it creates the instance. *)
LEMMA DeliverInitialKeeps ==
  ASSUME IInv, NEW r \in Run, DeliverInitial(r)
  PROVE  IInv' /\ Keeps
<1>1. /\ handoff[r] = "publishing" /\ handoff' = [handoff EXCEPT ![r] = "launching"]
      /\ UNCHANGED <<row, launch, recovery, inst, sweep, seen, declined>>
      /\ publish' = [publish EXCEPT ![r][1] = IF @ = "pending" THEN "acked" ELSE @]
  BY DEF DeliverInitial
<1>2. 1 \in Attempt /\ row[r].status # "none" /\ 1 <= row[r].attempt
  BY <1>1, HandoffIsBorn
<1>3. publish \in [Run -> [Attempt -> Publication]]
  BY DEF IInv, TypeOK
<1>4. /\ publish' \in [Run -> [Attempt -> Publication]]
      /\ \A q \in Run, b \in Attempt : q # r \/ b # 1 => publish'[q][b] = publish[q][b]
      /\ publish'[r][1] = IF publish[r][1] = "pending" THEN "acked" ELSE publish[r][1]
  BY <1>1, <1>2, <1>3 DEF Publication
<1>5. TypeOK'
  BY <1>1, <1>4 DEF IInv, TypeOK, Handoff
<1>6. Ahead' /\ LaunchAfterPublish' /\ DueHasJob'
  <2>1. Ahead'
    BY <1>1, <1>2, <1>4 DEF IInv, TypeOK, Ahead, Row
  <2>2. LaunchAfterPublish'
    BY <1>1, <1>4 DEF IInv, LaunchAfterPublish
  <2>3. DueHasJob'
    BY <1>1 DEF IInv, DueHasJob
  <2>4. QED
    BY <2>1, <2>2, <2>3
<1>7. CreatorsWaited'
  <2>1. publish'[r][1] \in {"acked", "done"}
    BY <1>1, <1>2, <1>3, <1>4 DEF IInv, CreatorsWaited, Publication
  <2>2. QED
    BY <1>1, <1>4, <2>1 DEF IInv, TypeOK, CreatorsWaited
<1>8. QED
  BY <1>1, <1>2, <1>5, <1>6, <1>7, FrameKeeps DEF IInv, TypeOK, Unborn

(* The process is lost, or a call is refused, at any point of the hand-off. *)
LEMMA HandoffLostKeeps ==
  ASSUME IInv, NEW r \in Run, HandoffLost(r)
  PROVE  IInv' /\ Keeps
<1>1. TypeOK'
  BY DEF HandoffLost, IInv, TypeOK, Handoff
<1>2. Ahead' /\ CreatorsWaited' /\ LaunchAfterPublish' /\ DueHasJob'
  BY DEF HandoffLost, IInv, TypeOK, Ahead, CreatorsWaited, LaunchAfterPublish, DueHasJob
<1>3. QED
  BY <1>1, <1>2, FrameKeeps DEF HandoffLost, IInv, TypeOK, Unborn

(* createTurn creates the instance and then retires the two jobs, or is lost
   between the two. *)
LEMMA CreateDirectKeeps ==
  ASSUME IInv, NEW r \in Run, CreateDirect(r)
  PROVE  IInv' /\ Keeps
<1>1. /\ handoff[r] = "launching" /\ handoff' = [handoff EXCEPT ![r] = "none"]
      /\ UNCHANGED <<row, recovery, sweep, seen, declined>>
      /\ CreateInstance(r, 1)
  BY DEF CreateDirect
<1>2. /\ 1 \in Attempt /\ 1 <= row[r].attempt /\ row[r].attempt \in Nat
      /\ publish[r][1] \in {"acked", "done"}
  BY <1>1, HandoffIsBorn DEF IInv, CreatorsWaited
<1>3. /\ publish \in [Run -> [Attempt -> Publication]]
      /\ launch \in [Run -> [Attempt -> JobState]]
  BY DEF IInv, TypeOK
<1>4. /\ publish' \in [Run -> [Attempt -> Publication]]
      /\ launch' \in [Run -> [Attempt -> JobState]]
      /\ \A q \in Run, b \in Attempt :
           /\ publish'[q][b] = publish[q][b] \/ (q = r /\ b = 1 /\ publish'[q][b] = "done")
           /\ launch'[q][b] = launch[q][b] \/ (q = r /\ b = 1 /\ launch'[q][b] = "done")
  <2>1. CASE UNCHANGED <<publish, launch>>
    BY <1>3, <2>1
  <2>2. CASE /\ publish' = [publish EXCEPT ![r][1] = "done"]
             /\ launch' = [launch EXCEPT ![r][1] = "done"]
    BY <1>2, <1>3, <2>2 DEF Publication, JobState
  <2>3. QED
    BY <2>1, <2>2 DEF CreateDirect
<1>5. /\ inst' \in [Run -> [Attempt -> InstanceState]]
      /\ LaunchAfterPublish'
      /\ \A q \in Run, b \in Attempt : b > row[q].attempt => inst'[q][b] = "none"
  BY <1>1, <1>2, <1>4, CreateInstanceKeeps
<1>6. TypeOK'
  BY <1>1, <1>4, <1>5 DEF IInv, TypeOK, Handoff
<1>7. Ahead'
  BY <1>1, <1>2, <1>4, <1>5 DEF IInv, Ahead, Attempt
<1>8. CreatorsWaited'
  BY <1>1, <1>2, <1>4 DEF IInv, TypeOK, CreatorsWaited
<1>9. DueHasJob'
  BY <1>1 DEF IInv, DueHasJob
<1>10. QED
  BY <1>1, <1>5, <1>6, <1>7, <1>8, <1>9, FrameKeeps DEF IInv, TypeOK, Unborn

(* A publication job is done once its event is delivered: nothing waits for less. *)
LEMMA RunPublishKeeps ==
  ASSUME IInv, NEW r \in Run, NEW a \in Attempt, RunPublish(r, a)
  PROVE  IInv' /\ Keeps
<1>1. /\ publish \in [Run -> [Attempt -> Publication]] /\ publish[r][a] # "none"
      /\ publish' = [publish EXCEPT ![r][a] = "done"]
      /\ UNCHANGED <<row, handoff, launch, recovery, inst, sweep, seen, declined>>
  BY DEF RunPublish, IInv, TypeOK
<1>2. /\ publish' \in [Run -> [Attempt -> Publication]]
      /\ \A q \in Run, b \in Attempt :
           publish'[q][b] = publish[q][b] \/ (q = r /\ b = a /\ publish'[q][b] = "done")
  BY <1>1 DEF Publication
<1>3. TypeOK'
  BY <1>1, <1>2 DEF IInv, TypeOK
<1>4. Ahead' /\ LaunchAfterPublish' /\ DueHasJob'
  BY <1>1, <1>2 DEF IInv, Ahead, LaunchAfterPublish, DueHasJob
<1>5. CreatorsWaited'
  <2>1. 1 \in Attempt
    BY MaxAttemptAssumption DEF Attempt
  <2>2. QED
    BY <1>1, <1>2, <2>1 DEF IInv, CreatorsWaited
<1>6. QED
  BY <1>1, <1>3, <1>4, <1>5, FrameKeeps DEF IInv, Unborn

(* A launch job that does not create yet. *)
LEMMA LaunchJobKeeps ==
  ASSUME IInv, NEW r \in Run, NEW a \in Attempt, NEW j \in JobState,
         launch[r][a] # "none", launch' = [launch EXCEPT ![r][a] = j],
         j = "creating" => publish[r][a] = "done",
         UNCHANGED <<row, handoff, publish, recovery, inst, sweep, seen, declined>>
  PROVE  IInv' /\ Keeps
<1>1. /\ launch \in [Run -> [Attempt -> JobState]]
      /\ launch' \in [Run -> [Attempt -> JobState]]
      /\ \A q \in Run, b \in Attempt :
           launch'[q][b] = launch[q][b] \/ (q = r /\ b = a /\ launch'[q][b] = j)
  BY DEF IInv, TypeOK
<1>2. TypeOK'
  BY <1>1 DEF IInv, TypeOK
<1>3. Ahead' /\ LaunchAfterPublish' /\ DueHasJob'
  BY <1>1 DEF IInv, Ahead, LaunchAfterPublish, DueHasJob
<1>4. CreatorsWaited'
  BY <1>1 DEF IInv, CreatorsWaited
<1>5. QED
  BY <1>2, <1>3, <1>4, FrameKeeps DEF IInv, Unborn

(* runLaunchJob up to its call of the Workflow binding, and its return from a
   call that failed. *)
LEMMA LaunchPreparedKeeps ==
  ASSUME IInv, NEW r \in Run, NEW a \in Attempt,
         LaunchRead(r, a) \/ LaunchFail(r, a) \/ LaunchUnwanted(r, a)
  PROVE  IInv' /\ Keeps
<1>1. {"none", "pending", "creating", "done"} = JobState
  BY DEF JobState
<1>2. CASE LaunchRead(r, a)
  <2> DEFINE live == ~row[r].stop /\ row[r].status = "working" /\ row[r].attempt = a
  <2>1. CASE live
    <3>1. launch' = [launch EXCEPT ![r][a] = "creating"] /\ publish[r][a] = "done"
      BY <1>2, <2>1 DEF LaunchRead
    <3>2. QED
      BY <1>1, <1>2, <3>1, LaunchJobKeeps DEF LaunchRead
  <2>2. CASE ~live
    <3>1. launch' = [launch EXCEPT ![r][a] = "done"]
      BY <1>2, <2>2 DEF LaunchRead
    <3>2. QED
      BY <1>1, <1>2, <3>1, LaunchJobKeeps DEF LaunchRead
  <2>3. QED
    BY <2>1, <2>2
<1>3. CASE LaunchFail(r, a)
  BY <1>1, <1>3, LaunchJobKeeps DEF LaunchFail
<1>4. CASE LaunchUnwanted(r, a)
  BY <1>1, <1>4, LaunchJobKeeps DEF LaunchUnwanted
<1>5. QED
  BY <1>2, <1>3, <1>4

(* runLaunchJob creates the instance outside its transaction: the row may have
   moved on, but the publication it waited for is done. *)
LEMMA LaunchCreateKeeps ==
  ASSUME IInv, NEW r \in Run, NEW a \in Attempt, LaunchCreate(r, a)
  PROVE  IInv' /\ Keeps
<1>1. /\ launch[r][a] = "creating" /\ launch' = [launch EXCEPT ![r][a] = "done"]
      /\ UNCHANGED <<row, handoff, publish, recovery, sweep, seen, declined>>
      /\ CreateInstance(r, a)
  BY DEF LaunchCreate
<1>2. publish[r][a] = "done"
  BY <1>1 DEF IInv, CreatorsWaited
<1>3. a <= row[r].attempt
  <2>1. row[r].attempt \in Nat
    BY DEF IInv, TypeOK, Row
  <2>2. QED
    BY <1>1, <2>1 DEF IInv, Ahead, Attempt
<1>4. /\ launch \in [Run -> [Attempt -> JobState]]
      /\ launch' \in [Run -> [Attempt -> JobState]]
      /\ \A q \in Run, b \in Attempt :
           launch'[q][b] = launch[q][b] \/ (q = r /\ b = a /\ launch'[q][b] = "done")
  BY <1>1 DEF IInv, TypeOK, JobState
<1>5. /\ inst' \in [Run -> [Attempt -> InstanceState]]
      /\ LaunchAfterPublish'
      /\ \A q \in Run, b \in Attempt : b > row[q].attempt => inst'[q][b] = "none"
  <2>1. publish' \in [Run -> [Attempt -> Publication]] /\ UNCHANGED <<row, publish>>
    BY <1>1 DEF IInv, TypeOK
  <2>2. QED
    BY <1>1, <1>2, <1>3, <2>1, CreateInstanceKeeps
<1>6. TypeOK'
  BY <1>1, <1>4, <1>5 DEF IInv, TypeOK
<1>7. Ahead'
  BY <1>1, <1>4, <1>5 DEF IInv, Ahead
<1>8. CreatorsWaited' /\ DueHasJob'
  BY <1>1, <1>4 DEF IInv, CreatorsWaited, DueHasJob
<1>9. QED
  BY <1>1, <1>5, <1>6, <1>7, <1>8, FrameKeeps DEF IInv, Unborn

-----------------------------------------------------------------------------
(* Automatic recovery *)

(* A step of a recovery job that leaves the rows alone keeps the job of every
   promised retry. *)
LEMMA RecoveryJobKeeps ==
  ASSUME IInv, NEW r \in Run, NEW a \in Attempt, NEW j \in RecoveryState,
         recovery' = [recovery EXCEPT ![r][a] = j],
         row[r].due /\ row[r].attempt = a => j \in {"pending", "refused"},
         UNCHANGED <<row, handoff, publish, launch, inst, sweep, seen, declined>>
  PROVE  IInv' /\ Keeps
<1>1. /\ recovery \in [Run -> [Attempt -> RecoveryState]]
      /\ recovery' \in [Run -> [Attempt -> RecoveryState]]
      /\ \A q \in Run : recovery'[q] = IF q = r THEN [recovery[r] EXCEPT ![a] = j]
                                       ELSE recovery[q]
  BY DEF IInv, TypeOK
<1>2. TypeOK'
  BY <1>1 DEF IInv, TypeOK
<1>3. Ahead' /\ CreatorsWaited' /\ LaunchAfterPublish'
  BY DEF IInv, Ahead, CreatorsWaited, LaunchAfterPublish
<1>4. DueHasJob'
  <2>1. SUFFICES ASSUME NEW q \in Run, row[q].due
                 PROVE  /\ row[q].status = "error"
                        /\ recovery'[q][row[q].attempt] \in {"pending", "refused"}
    BY DEF DueHasJob
  <2>2. /\ row[q].status = "error"
        /\ recovery[q][row[q].attempt] \in {"pending", "refused"}
    BY <2>1 DEF IInv, DueHasJob
  <2>3. CASE q = r /\ row[r].attempt = a
    BY <1>1, <2>1, <2>2, <2>3
  <2>4. CASE ~(q = r /\ row[r].attempt = a)
    <3>1. recovery'[q][row[q].attempt] = recovery[q][row[q].attempt]
      BY <1>1, <2>4
    <3>2. QED
      BY <2>2, <3>1
  <2>5. QED
    BY <2>3, <2>4
<1>5. QED
  BY <1>2, <1>3, <1>4, FrameKeeps DEF IInv, Unborn

(* A write that withdraws the promised retry for good. *)
LEMMA WithdrawKeeps ==
  ASSUME IInv, NEW r \in Run, row[r].status # "none",
         Write(r, [row[r] EXCEPT !.due = FALSE, !.cancelled = TRUE]),
         recovery' \in [Run -> [Attempt -> RecoveryState]],
         \A q \in Run : q # r => recovery'[q] = recovery[q],
         UNCHANGED <<handoff, publish, launch, inst, declined>>
  PROVE  IInv' /\ Keeps
<1> DEFINE new == [row[r] EXCEPT !.due = FALSE, !.cancelled = TRUE]
<1>1. row[r] \in Row
  BY DEF IInv, TypeOK
<1>2. new.due = FALSE /\ new.cancelled = TRUE
  BY <1>1 DEF Row
<1>3. Within(r, new)
  BY <1>1 DEF Within, Row
<1>4. RowPromises(r, new)
  BY <1>2 DEF RowPromises, IInv, TypeOK
<1>5. QED
  BY <1>3, <1>4, WriteKeeps

(* scheduleRunRecovery promises a retry only with the job that will make it. *)
LEMMA ScheduleRecoveryKeeps ==
  ASSUME IInv, NEW r \in Run, ScheduleRecovery(r)
  PROVE  IInv' /\ Keeps
<1>1. /\ row[r] \in Row /\ row[r].status = "error" /\ ~row[r].stop /\ Retryable(r)
      /\ recovery \in [Run -> [Attempt -> RecoveryState]]
      /\ UNCHANGED <<handoff, publish, launch, inst, declined>>
  BY DEF ScheduleRecovery, IInv, TypeOK
<1>2. row[r].attempt \in Attempt
  BY <1>1 DEF IInv, Born, Row, Attempt
<1>3. CASE /\ recovery' = [recovery EXCEPT ![r][row[r].attempt] = "pending"]
           /\ Write(r, [row[r] EXCEPT !.due = TRUE])
  <2> DEFINE new == [row[r] EXCEPT !.due = TRUE]
  <2>1. /\ new.status = "error" /\ new.stop = row[r].stop /\ new.attempt = row[r].attempt
        /\ new.transient = row[r].transient /\ new.cancelled = row[r].cancelled
    BY <1>1 DEF Row
  <2>2. Within(r, new)
    BY <1>1 DEF Within, Row
  <2>3. /\ recovery' \in [Run -> [Attempt -> RecoveryState]]
        /\ \A q \in Run : q # r => recovery'[q] = recovery[q]
        /\ recovery'[r][row[r].attempt] = "pending"
    BY <1>1, <1>2, <1>3 DEF RecoveryState
  <2>4. RowPromises(r, new)
    BY <1>1, <2>1, <2>3 DEF RowPromises, Retryable, IInv, TypeOK, DeclinedIsCancelled
  <2>5. QED
    BY <1>1, <1>3, <2>2, <2>4, WriteKeeps
<1>4. CASE /\ Write(r, [row[r] EXCEPT !.due = FALSE, !.cancelled = TRUE])
           /\ UNCHANGED recovery
  BY <1>1, <1>4, WithdrawKeeps
<1>5. QED
  BY <1>3, <1>4 DEF ScheduleRecovery

(* runRecoveryJob does nothing only for an attempt that no retry is promised to. *)
LEMMA RecoverySkipKeeps ==
  ASSUME IInv, NEW r \in Run, NEW a \in Attempt, RecoverySkip(r, a)
  PROVE  IInv' /\ Keeps
<1>1. /\ recovery \in [Run -> [Attempt -> RecoveryState]]
      /\ recovery[r][a] = "pending" /\ recovery' = [recovery EXCEPT ![r][a] = "done"]
      /\ UNCHANGED <<handoff, publish, launch, inst, declined>>
  BY DEF RecoverySkip, RecoveryDone, IInv, TypeOK
<1>2. "done" \in RecoveryState
  BY DEF RecoveryState
<1>3. CASE RecoveryCurrent(r, a) /\ NewerInSession(r)
  <2>1. Write(r, [row[r] EXCEPT !.due = FALSE, !.cancelled = TRUE])
    BY <1>3 DEF RecoverySkip
  <2>2. row[r].status # "none"
    BY <1>3 DEF RecoveryCurrent
  <2>3. /\ recovery' \in [Run -> [Attempt -> RecoveryState]]
        /\ \A q \in Run : q # r => recovery'[q] = recovery[q]
    BY <1>1, <1>2
  <2>4. QED
    BY <1>1, <2>1, <2>2, <2>3, WithdrawKeeps
<1>4. CASE ~(RecoveryCurrent(r, a) /\ NewerInSession(r))
  <2>1. /\ ~RecoveryCurrent(r, a) \/ row[r].stop \/ ~Retryable(r)
        /\ UNCHANGED <<row, sweep, seen>>
    BY <1>4 DEF RecoverySkip
  <2>2. ~(row[r].due /\ row[r].attempt = a)
    BY <2>1 DEF IInv, DueHasJob, DueIsRetryable, RecoveryCurrent, Retryable
  <2>3. QED
    BY <1>1, <1>2, <2>1, <2>2, RecoveryJobKeeps
<1>5. QED
  BY <1>3, <1>4

(* A refusal, before its second transaction, and the loss of the process there. *)
LEMMA RecoveryRefusedKeeps ==
  ASSUME IInv, NEW r \in Run, NEW a \in Attempt, RecoveryRefused(r, a) \/ RecoveryLost(r, a)
  PROVE  IInv' /\ Keeps
<1>1. "pending" \in RecoveryState /\ "refused" \in RecoveryState
  BY DEF RecoveryState
<1>2. QED
  BY <1>1, RecoveryJobKeeps DEF RecoveryRefused, RecoveryLost

(* The second transaction of a refused recovery, fenced by the attempt and its
   status. *)
LEMMA RecoveryGiveUpKeeps ==
  ASSUME IInv, NEW r \in Run, NEW a \in Attempt, RecoveryGiveUp(r, a)
  PROVE  IInv' /\ Keeps
<1>1. /\ recovery \in [Run -> [Attempt -> RecoveryState]]
      /\ recovery' = [recovery EXCEPT ![r][a] = "done"]
      /\ UNCHANGED <<handoff, publish, launch, inst, declined>>
  BY DEF RecoveryGiveUp, RecoveryDone, IInv, TypeOK
<1>2. "done" \in RecoveryState
  BY DEF RecoveryState
<1>3. CASE row[r].attempt = a /\ row[r].status = "error"
  <2>1. /\ Write(r, [row[r] EXCEPT !.due = FALSE, !.cancelled = TRUE])
        /\ row[r].status # "none"
    BY <1>3 DEF RecoveryGiveUp
  <2>2. /\ recovery' \in [Run -> [Attempt -> RecoveryState]]
        /\ \A q \in Run : q # r => recovery'[q] = recovery[q]
    BY <1>1, <1>2
  <2>3. QED
    BY <1>1, <2>1, <2>2, WithdrawKeeps
<1>4. CASE ~(row[r].attempt = a /\ row[r].status = "error")
  <2>1. UNCHANGED <<row, sweep, seen>>
    BY <1>4 DEF RecoveryGiveUp
  <2>2. ~(row[r].due /\ row[r].attempt = a)
    BY <1>4 DEF IInv, DueHasJob
  <2>3. QED
    BY <1>1, <1>2, <2>1, <2>2, RecoveryJobKeeps
<1>5. QED
  BY <1>3, <1>4

-----------------------------------------------------------------------------
(* A new attempt *)

(* retryTask: nothing of the attempts before reaches the new one, and no other
   run of the agent, so none of the session, is active. *)
LEMMA NewAttemptKeeps ==
  ASSUME IInv, NEW r \in Run, NEW automatic \in BOOLEAN, NewAttempt(r, automatic),
         recovery' \in [Run -> [Attempt -> RecoveryState]],
         \A q \in Run : q # r => recovery'[q] = recovery[q],
         automatic => ~declined[r] /\ ~NewerInSession(r)
  PROVE  IInv' /\ Keeps
<1> DEFINE a == row[r].attempt + 1
           now == [row[r] EXCEPT !.attempt = a, !.status = "working", !.stop = FALSE,
                                 !.transient = FALSE, !.due = FALSE, !.cancelled = FALSE,
                                 !.automatic = automatic, !.age = "grace"]
<1>1. /\ row[r] \in Row /\ row[r].attempt \in Nat /\ row[r].attempt >= 1
      /\ row[r].status \in {"error", "stopped"} /\ a \in Attempt
      /\ \A q \in Run : q # r => ~IsActive(q)
      /\ UNCHANGED <<handoff, inst>>
  BY DEF NewAttempt, IInv, TypeOK, Born, Row
<1>2. /\ now \in Row /\ now.attempt = a /\ now.status = "working" /\ now.stop = FALSE
      /\ now.due = FALSE /\ now.automatic = automatic /\ now.origin = row[r].origin
  <2>1. a \in 0..MaxAttempt
    BY <1>1, MaxAttemptAssumption DEF Attempt
  <2>2. "working" \in Status /\ "grace" \in Age
    BY DEF Status, Active, Age
  <2> HIDE DEF a
  <2>3. QED
    BY <1>1, <2>1, <2>2 DEF Row
<1>3. row' = [row EXCEPT ![r] = now] /\ sweep' = [sweep EXCEPT ![r] = Outdated(sweep[r])]
      /\ seen' = [seen EXCEPT ![r] = "none"]
  BY <1>1 DEF NewAttempt, Write, Row
<1>4. /\ publish' = [publish EXCEPT ![r][a] = "pending"]
      /\ launch' = [launch EXCEPT ![r][a] = "pending"]
      /\ declined' = [declined EXCEPT ![r] = FALSE]
  BY DEF NewAttempt
<1>5. a > row[r].attempt /\ a > 1 /\ a \in Nat
  BY <1>1
<1> HIDE DEF a, now
<1>6. Outdated(sweep[r]) \in Swept
  <2>1. sweep[r] \in Swept
    BY DEF IInv, TypeOK, Swept
  <2>2. NoVerdict \in Swept
    BY MaxAttemptAssumption DEF NoVerdict, Swept, Verdict
  <2>3. QED
    BY <2>1, <2>2 DEF Outdated
<1>7. /\ row'[r] = now /\ sweep'[r] = Outdated(sweep[r]) /\ ~declined'[r]
      /\ \A q \in Run : q # r => /\ row'[q] = row[q] /\ sweep'[q] = sweep[q]
                                /\ declined'[q] = declined[q]
      /\ \A q \in Run, b \in Attempt :
           /\ publish'[q][b] = IF q = r /\ b = a THEN "pending" ELSE publish[q][b]
           /\ launch'[q][b] = IF q = r /\ b = a THEN "pending" ELSE launch[q][b]
  BY <1>3, <1>4 DEF IInv, TypeOK
<1>8. TypeOK'
  <2>1. row' \in [Run -> Row] /\ sweep' \in [Run -> Swept]
        /\ seen' \in [Run -> {"none", "first", "confirmed"}]
    BY <1>2, <1>3, <1>6 DEF IInv, TypeOK, Swept
  <2>2. /\ publish' \in [Run -> [Attempt -> Publication]]
        /\ launch' \in [Run -> [Attempt -> JobState]]
        /\ declined' \in [Run -> BOOLEAN]
    BY <1>4 DEF IInv, TypeOK, Publication, JobState
  <2>3. QED
    BY <1>1, <2>1, <2>2 DEF IInv, TypeOK, Swept
<1>9. Unborn' /\ Born' /\ Ahead'
  <2>1. Unborn' /\ Born'
    BY <1>1, <1>2, <1>5, <1>7 DEF IInv, Unborn, Born
  <2>2. Ahead'
    BY <1>1, <1>2, <1>5, <1>7 DEF IInv, Ahead, Attempt
  <2>3. QED  BY <2>1, <2>2
<1>10. VerdictIsFresh' /\ ReapIsOver'
  <2>1. /\ Outdated(sweep[r]).verdict \in {"none", "reap"}
        /\ Outdated(sweep[r]).attempt <= row[r].attempt
        /\ Outdated(sweep[r]).attempt \in Nat
    BY <1>1, <1>6 DEF Outdated, NoVerdict, IInv, VerdictIsFresh, Swept
  <2>2. VerdictIsFresh'
    BY <1>1, <1>2, <1>5, <1>7, <2>1 DEF IInv, VerdictIsFresh, IsActive
  <2>3. ReapIsOver'
    BY <1>1, <1>2, <1>5, <1>7, <2>1 DEF IInv, ReapIsOver, IsTerminal
  <2>4. QED  BY <2>2, <2>3
<1>11. CreatorsWaited'
  <2>1. 1 \in Attempt /\ 1 # a
    BY <1>5, MaxAttemptAssumption DEF Attempt
  <2>2. QED
    BY <1>1, <1>2, <1>7, <2>1 DEF IInv, CreatorsWaited
<1>12. DueIsRetryable' /\ DeclinedIsCancelled' /\ DueHasJob'
  BY <1>2, <1>7 DEF IInv, DueIsRetryable, DeclinedIsCancelled, DueHasJob, Retryable
<1>13. LaunchAfterPublish'
  <2>1. inst[r][a] = "none"
    BY <1>1, <1>5 DEF IInv, Ahead
  <2>2. QED
    BY <1>1, <1>2, <1>7, <2>1 DEF IInv, LaunchAfterPublish
<1>14. OneActiveRun'
  BY <1>1, <1>7 DEF OneActiveRun, IsActive
<1>15. Keeps
  <2>1. KeepsTerminal /\ KeepsStop
    BY <1>2, <1>5, <1>7 DEF KeepsTerminal, KeepsStop
  <2>2. RetriesWanted
    BY <1>2, <1>7 DEF RetriesWanted, IInv, TypeOK, Row
  <2>3. QED
    BY <2>1, <2>2 DEF Keeps
<1>16. QED
  BY <1>8, <1>9, <1>10, <1>11, <1>12, <1>13, <1>14, <1>15 DEF IInv

(* A person's Retry. *)
LEMMA RetryTaskKeeps ==
  ASSUME IInv, NEW r \in Run, RetryTask(r)
  PROVE  IInv' /\ Keeps
<1>1. /\ recovery' \in [Run -> [Attempt -> RecoveryState]]
      /\ \A q \in Run : q # r => recovery'[q] = recovery[q]
  BY DEF RetryTask, IInv, TypeOK
<1>2. QED
  BY <1>1, NewAttemptKeeps DEF RetryTask

(* An automatic retry: what a person declined is cancelled in the row, and a
   cancelled row is not retryable. *)
LEMMA RecoveryRetryKeeps ==
  ASSUME IInv, NEW r \in Run, NEW a \in Attempt, RecoveryRetry(r, a)
  PROVE  IInv' /\ Keeps
<1>1. /\ recovery' \in [Run -> [Attempt -> RecoveryState]]
      /\ \A q \in Run : q # r => recovery'[q] = recovery[q]
  BY DEF RecoveryRetry, RecoveryDone, IInv, TypeOK, RecoveryState
<1>2. ~declined[r] /\ ~NewerInSession(r)
  BY DEF RecoveryRetry, Retryable, IInv, DeclinedIsCancelled
<1>3. QED
  BY <1>1, <1>2, NewAttemptKeeps DEF RecoveryRetry

-----------------------------------------------------------------------------
(* Admission *)

(* createTurn and the drain of the queue give a row to a run nothing referred to,
   in a session with no active run. *)
LEMMA AdmittedKeeps ==
  ASSUME IInv, NEW r \in Run, NEW origin \in {"turn", "queue"}, NEW h \in Handoff,
         row[r].status = "none", SessionFree(r), Write(r, Admitted(origin)),
         h = "publishing" \/ (h = "draining" /\ origin = "queue"),
         handoff' = [handoff EXCEPT ![r] = h],
         publish' = [publish EXCEPT ![r][1] = "pending"],
         launch' = launch \/ launch' = [launch EXCEPT ![r][1] = "pending"],
         UNCHANGED <<recovery, inst, declined>>
  PROVE  IInv' /\ Keeps
<1> DEFINE now == [Admitted(origin) EXCEPT !.age = "grace"]
<1>1. 1 \in Attempt /\ 1 \in 0..MaxAttempt
  BY MaxAttemptAssumption DEF Attempt
<1>2. /\ now \in Row /\ now.attempt = 1 /\ now.status = "working" /\ now.stop = FALSE
      /\ now.due = FALSE /\ now.automatic = FALSE /\ now.origin = origin
  BY <1>1 DEF Admitted, NoRow, Row, Age, Status, Active
<1>3. /\ row[r] = NoRow /\ handoff[r] = "none" /\ ~declined[r] /\ sweep[r] = NoVerdict
      /\ row[r].attempt = 0 /\ row[r].stop = FALSE
  BY DEF IInv, Unborn, NoRow
<1>4. \A b \in Attempt : publish[r][b] = "none" /\ launch[r][b] = "none" /\ inst[r][b] = "none"
  BY <1>3 DEF IInv, Ahead, Attempt
<1>5. /\ row' = [row EXCEPT ![r] = now] /\ sweep' = [sweep EXCEPT ![r] = NoVerdict]
      /\ seen' = [seen EXCEPT ![r] = "none"]
  BY <1>3 DEF Write, Outdated, NoVerdict
<1> HIDE DEF now
<1>6. NoVerdict \in Swept /\ NoVerdict.verdict = "none" /\ NoVerdict.attempt = 0
  BY MaxAttemptAssumption DEF NoVerdict, Swept, Verdict
<1>7. /\ row'[r] = now /\ sweep'[r] = NoVerdict /\ handoff'[r] = h /\ publish'[r][1] = "pending"
      /\ \A q \in Run : q # r => /\ row'[q] = row[q] /\ sweep'[q] = sweep[q]
                                /\ handoff'[q] = handoff[q]
                                /\ publish'[q] = publish[q] /\ launch'[q] = launch[q]
      /\ \A b \in Attempt : /\ b # 1 => publish'[r][b] = "none" /\ launch'[r][b] = "none"
                            /\ launch'[r][b] # "creating"
  BY <1>1, <1>4, <1>5 DEF IInv, TypeOK
<1>8. TypeOK'
  <2>1. row' \in [Run -> Row] /\ sweep' \in [Run -> Swept]
        /\ seen' \in [Run -> {"none", "first", "confirmed"}]
    BY <1>2, <1>5, <1>6 DEF IInv, TypeOK, Swept
  <2>2. launch' \in [Run -> [Attempt -> JobState]]
    <3>1. launch \in [Run -> [Attempt -> JobState]] /\ "pending" \in JobState
      BY DEF IInv, TypeOK, JobState
    <3>2. QED
      BY <1>1, <3>1
  <2>3. /\ publish' \in [Run -> [Attempt -> Publication]]
        /\ handoff' \in [Run -> Handoff]
    BY <1>1 DEF IInv, TypeOK, Publication
  <2>4. QED
    BY <2>1, <2>2, <2>3 DEF IInv, TypeOK, Swept
<1>9. Unborn' /\ Born' /\ Ahead'
  <2>1. Unborn' /\ Born'
    BY <1>2, <1>7 DEF IInv, Unborn, Born
  <2>2. Ahead'
    BY <1>2, <1>4, <1>7 DEF IInv, Ahead, Attempt
  <2>3. QED  BY <2>1, <2>2
<1>10. VerdictIsFresh' /\ ReapIsOver'
  BY <1>2, <1>6, <1>7 DEF IInv, VerdictIsFresh, ReapIsOver, IsActive, IsTerminal
<1>11. CreatorsWaited'
  BY <1>1, <1>2, <1>7 DEF IInv, CreatorsWaited
<1>12. DueIsRetryable' /\ DeclinedIsCancelled' /\ DueHasJob'
  BY <1>2, <1>3, <1>7 DEF IInv, DueIsRetryable, DeclinedIsCancelled, DueHasJob, Retryable
<1>13. LaunchAfterPublish'
  BY <1>4, <1>7 DEF IInv, LaunchAfterPublish
<1>14. OneActiveRun'
  BY <1>7 DEF IInv, OneActiveRun, SessionFree, IsActive
<1>15. Keeps
  <2>1. ~IsTerminal(r)
    BY DEF IsTerminal, Terminal
  <2>2. KeepsTerminal /\ KeepsStop
    BY <1>3, <1>7, <2>1 DEF KeepsTerminal, KeepsStop, IsTerminal
  <2>3. RetriesWanted
    <3>1. \A q \in Run : row[q].attempt \in Nat
      BY DEF IInv, TypeOK, Row
    <3>2. \A q \in Run : q = r \/ row'[q].attempt = row[q].attempt
      BY <1>7
    <3>3. ~row'[r].automatic
      BY <1>2, <1>7
    <3>4. QED
      BY <3>1, <3>2, <3>3 DEF RetriesWanted
  <2>4. QED
    BY <2>2, <2>3 DEF Keeps
<1>16. QED
  BY <1>8, <1>9, <1>10, <1>11, <1>12, <1>13, <1>14, <1>15 DEF IInv

(* createTurn: the row, its publication and its launch job commit together. *)
LEMMA CreateTurnKeeps ==
  ASSUME IInv, NEW r \in Run, CreateTurn(r)
  PROVE  IInv' /\ Keeps
<1>1. "publishing" \in Handoff
  BY DEF Handoff
<1>2. QED
  BY <1>1, AdmittedKeeps DEF CreateTurn, NextRun

(* The Cron admits a queued message, without a launch job. *)
LEMMA DrainQueuedKeeps ==
  ASSUME IInv, NEW r \in Run, DrainQueued(r)
  PROVE  IInv' /\ Keeps
<1>1. "draining" \in Handoff
  BY DEF Handoff
<1>2. QED
  BY <1>1, AdmittedKeeps DEF DrainQueued, NextRun

-----------------------------------------------------------------------------
(* The theorems *)

(* Nothing has been admitted yet. *)
LEMMA InitOK ==
  ASSUME Init
  PROVE  IInv
<1>1. 0 \in 0..MaxAttempt
  BY MaxAttemptAssumption
<1>2. /\ NoRow \in Row /\ NoRow.status = "none" /\ NoRow.due = FALSE
      /\ NoRow.attempt = 0
  BY <1>1 DEF NoRow, Row, Status, Age
<1>3. NoVerdict \in Swept /\ NoVerdict.verdict = "none" /\ NoVerdict.attempt = 0
  BY <1>1 DEF NoVerdict, Swept, Verdict
<1>4. 1 \in Attempt
  BY MaxAttemptAssumption DEF Attempt
<1>5. TypeOK
  BY <1>2, <1>3 DEF Init, TypeOK, Swept, Handoff, Publication, JobState, RecoveryState, InstanceState
<1>6. Unborn /\ Born /\ Ahead
  BY <1>2 DEF Init, Unborn, Born, Ahead
<1>7. VerdictIsFresh /\ ReapIsOver
  BY <1>2, <1>3 DEF Init, VerdictIsFresh, ReapIsOver
<1>8. CreatorsWaited /\ LaunchAfterPublish
  BY <1>4 DEF Init, CreatorsWaited, LaunchAfterPublish
<1>9. DueIsRetryable /\ DeclinedIsCancelled /\ DueHasJob
  BY <1>2 DEF Init, DueIsRetryable, DeclinedIsCancelled, DueHasJob
<1>10. OneActiveRun
  BY <1>2 DEF Init, OneActiveRun, IsActive, Active
<1>11. QED
  BY <1>5, <1>6, <1>7, <1>8, <1>9, <1>10 DEF IInv

(* A step of the control plane, one action at a time. *)
LEMMA ControlKeeps ==
  ASSUME IInv, Control
  PROVE  IInv' /\ Keeps
<1>1. CASE AdminStops
  BY <1>1, AskToStopKeeps DEF AdminStops
<1>2. ASSUME NEW r \in Run, AdmitNext(r)
      PROVE  IInv' /\ Keeps
  BY <1>2, CreateTurnKeeps, DrainQueuedKeeps, DrainCreateKeeps, DeliverInitialKeeps,
     CreateDirectKeeps, HandoffLostKeeps DEF AdmitNext
<1>3. ASSUME NEW r \in Run, HumanNext(r)
      PROVE  IInv' /\ Keeps
  BY <1>3, RequestRunStopKeeps, RetryTaskKeeps, CancelRecoveryKeeps DEF HumanNext
<1>4. ASSUME NEW r \in Run, CronNext(r)
      PROVE  IInv' /\ Keeps
  BY <1>4, ScheduleRecoveryKeeps, SweepLookupKeeps, SweepObserveKeeps, SweepReapKeeps,
     SweepTerminateKeeps, TickKeeps, ObservationAgesKeeps DEF CronNext
<1>5. ASSUME NEW r \in Run, NEW a \in Attempt, JobNext(r, a)
      PROVE  IInv' /\ Keeps
  BY <1>5, RunPublishKeeps, LaunchPreparedKeeps, LaunchCreateKeeps, RecoveryRetryKeeps,
     RecoverySkipKeeps, RecoveryRefusedKeeps, RecoveryGiveUpKeeps DEF JobNext
<1>6. QED
  BY <1>1, <1>2, <1>3, <1>4, <1>5 DEF Control

(* Every step of the control plane with any engine keeps the invariant, and none
   leaves a terminal status, forgets a stop, or retries what was declined. *)
THEOREM NextKeeps ==
  ASSUME IInv, [Next]_vars
  PROVE  IInv' /\ Keeps
  BY StutterKeeps, ControlKeeps, EngineKeeps DEF Next

-----------------------------------------------------------------------------
(* Attempts and instances *)

(* An attempt is never taken back, and an instance never disappears. *)
AttemptsGrow == \A r \in Run : row[r].attempt <= row'[r].attempt
InstancesStay == \A r \in Run, a \in Attempt : inst[r][a] # "none" => inst'[r][a] # "none"

LEMMA SameAttempts ==
  ASSUME IInv, UNCHANGED row
  PROVE  AttemptsGrow
  BY DEF IInv, TypeOK, Row, AttemptsGrow

LEMMA WriteGrows ==
  ASSUME IInv, NEW r \in Run, NEW new \in Row, Write(r, new), row[r].attempt <= new.attempt
  PROVE  AttemptsGrow
<1>1. \A q \in Run : row[q] \in Row /\ row[q].attempt \in Nat
  BY DEF IInv, TypeOK, Row
<1> DEFINE now == [new EXCEPT !.age = "grace"]
<1>2. \A q \in Run : row'[q] = IF q = r THEN now ELSE row[q]
  BY <1>1 DEF IInv, TypeOK, Write
<1>3. now.attempt = new.attempt
  BY DEF Row
<1> HIDE DEF now
<1>4. \A q \in Run : row[q].attempt <= row[q].attempt
  BY <1>1
<1> QED BY <1>2, <1>3, <1>4 DEF AttemptsGrow

(* Of a row, a write within its attempt. *)
LEMMA SameAttemptGrows ==
  ASSUME IInv, NEW r \in Run, NEW new \in Row, Write(r, new), new.attempt = row[r].attempt
  PROVE  AttemptsGrow
<1>1. row[r].attempt <= new.attempt
  BY DEF IInv, TypeOK, Row
<1> QED BY <1>1, WriteGrows

LEMMA SetRunStatusGrows ==
  ASSUME IInv, NEW r \in Run, NEW s \in Status, NEW transient \in BOOLEAN,
         SetRunStatus(r, s, transient)
  PROVE  AttemptsGrow
<1> DEFINE new == [row[r] EXCEPT !.status = s, !.transient = transient]
<1>1. new \in Row /\ new.attempt = row[r].attempt
  <2>1. row[r] \in Row
    BY DEF IInv, TypeOK
  <2> QED BY <2>1 DEF Row
<1>2. CASE IsTerminal(r)
  BY <1>2, SameAttempts DEF SetRunStatus
<1>3. CASE ~IsTerminal(r)
  BY <1>1, <1>3, SameAttemptGrows DEF SetRunStatus
<1> QED BY <1>2, <1>3

LEMMA AdmitGrows ==
  ASSUME IInv, NEW r \in Run, CreateTurn(r) \/ DrainQueued(r)
  PROVE  AttemptsGrow
<1>1. PICK origin \in {"turn", "queue"} : Write(r, Admitted(origin))
  <2>1. CASE CreateTurn(r)
    BY <2>1 DEF CreateTurn
  <2>2. CASE DrainQueued(r)
    BY <2>2 DEF DrainQueued
  <2> QED BY <2>1, <2>2
<1>2. Admitted(origin) \in Row /\ Admitted(origin).attempt = 1
  <2>1. 0 \in 0..MaxAttempt /\ 1 \in 0..MaxAttempt
    BY MaxAttemptAssumption
  <2>2. NoRow \in Row
    BY <2>1 DEF NoRow, Row, Status, Age
  <2> QED BY <2>1, <2>2 DEF Admitted, Row, Status, Active
<1>3. row[r].status = "none"
  BY DEF CreateTurn, DrainQueued, NextRun
<1>4. row[r].attempt = 0
  BY <1>3 DEF IInv, Unborn, NoRow
<1> QED BY <1>1, <1>2, <1>4, WriteGrows

LEMMA NewAttemptGrows ==
  ASSUME IInv, NEW r \in Run, NEW automatic \in BOOLEAN, NewAttempt(r, automatic)
  PROVE  AttemptsGrow
<1> DEFINE a == row[r].attempt + 1
           new == [row[r] EXCEPT !.attempt = a, !.status = "working", !.stop = FALSE,
                                 !.transient = FALSE, !.due = FALSE,
                                 !.cancelled = FALSE, !.automatic = automatic]
<1>1. row[r] \in Row /\ row[r].attempt \in Nat
  BY DEF IInv, TypeOK, Row
<1>2. a \in Attempt /\ Write(r, new)
  BY DEF NewAttempt
<1>3. a \in 0..MaxAttempt /\ row[r].attempt <= a
  BY <1>1, <1>2, MaxAttemptAssumption DEF Attempt
<1>4. new \in Row /\ new.attempt = a
  BY <1>1, <1>3 DEF Row, Status, Active
<1> QED BY <1>2, <1>3, <1>4, WriteGrows

LEMMA AskToStopGrows ==
  ASSUME IInv, NEW asked \in SUBSET Run, AskToStop(asked)
  PROVE  AttemptsGrow /\ UNCHANGED inst
<1> DEFINE new(r) == [row[r] EXCEPT !.stop = TRUE, !.age = "grace"]
<1>1. \A r \in Run : row[r] \in Row /\ row[r].attempt \in Nat
  BY DEF IInv, TypeOK, Row
<1>2. \A r \in Run : new(r).attempt = row[r].attempt
  BY <1>1 DEF Row
<1>3. row' = [r \in Run |-> IF r \in asked THEN new(r) ELSE row[r]] /\ UNCHANGED inst
  BY DEF AskToStop
<1> HIDE DEF new
<1>4. \A r \in Run : row'[r].attempt = row[r].attempt
  BY <1>2, <1>3
<1> QED BY <1>1, <1>3, <1>4 DEF AttemptsGrow

LEMMA HumanGrows ==
  ASSUME IInv, NEW r \in Run, HumanNext(r)
  PROVE  AttemptsGrow
<1>1. row[r] \in Row
  BY DEF IInv, TypeOK
<1>2. CASE RequestRunStop(r)
  <2> DEFINE new == [row[r] EXCEPT !.stop = TRUE, !.status = "stopping",
                                   !.cancelled = TRUE, !.due = FALSE]
  <2>1. new \in Row /\ new.attempt = row[r].attempt
    BY <1>1 DEF Row, Status, Active
  <2> QED BY <1>2, <2>1, SameAttemptGrows DEF RequestRunStop
<1>3. CASE RetryTask(r)
  BY <1>3, NewAttemptGrows DEF RetryTask
<1>4. CASE CancelRecovery(r)
  <2> DEFINE new == [row[r] EXCEPT !.cancelled = TRUE, !.due = FALSE]
  <2>1. new \in Row /\ new.attempt = row[r].attempt
    BY <1>1 DEF Row
  <2> QED BY <1>4, <2>1, SameAttemptGrows DEF CancelRecovery
<1> QED BY <1>2, <1>3, <1>4 DEF HumanNext

LEMMA RecoveryGrows ==
  ASSUME IInv, NEW r \in Run, NEW a \in Attempt, JobNext(r, a)
  PROVE  AttemptsGrow
<1>1. row[r] \in Row
  BY DEF IInv, TypeOK
<1>2. CASE RecoveryRetry(r, a)
  BY <1>2, NewAttemptGrows DEF RecoveryRetry
<1>3. CASE RecoverySkip(r, a) \/ RecoveryGiveUp(r, a)
  <2> DEFINE new == [row[r] EXCEPT !.due = FALSE, !.cancelled = TRUE]
  <2>1. new \in Row /\ new.attempt = row[r].attempt
    BY <1>1 DEF Row
  <2>2. Write(r, new) \/ UNCHANGED row
    BY <1>3 DEF RecoverySkip, RecoveryGiveUp
  <2> QED BY <2>1, <2>2, SameAttemptGrows, SameAttempts
<1>4. CASE UNCHANGED row
  BY <1>4, SameAttempts
<1> QED
  BY <1>2, <1>3, <1>4 DEF JobNext, RunPublish, LaunchRead, LaunchUnwanted, LaunchCreate, LaunchFail,
     RecoveryRefused, RecoveryLost

LEMMA CronGrows ==
  ASSUME IInv, NEW r \in Run, CronNext(r)
  PROVE  AttemptsGrow
<1>1. \A q \in Run : row[q] \in Row /\ row[q].attempt \in Nat
  BY DEF IInv, TypeOK, Row
<1>2. CASE ScheduleRecovery(r)
  <2>1. PICK new \in {[row[r] EXCEPT !.due = TRUE],
                      [row[r] EXCEPT !.due = FALSE, !.cancelled = TRUE]} : Write(r, new)
    BY <1>2 DEF ScheduleRecovery
  <2>2. new \in Row /\ new.attempt = row[r].attempt
    BY <1>1 DEF Row
  <2> QED BY <2>1, <2>2, SameAttemptGrows
<1>3. CASE SweepReap(r)
  <2>1. \A q \in Run : row'[q].attempt = row[q].attempt
    BY <1>1, <1>3 DEF SweepReap, Row, IInv, TypeOK
  <2> QED BY <1>1, <2>1 DEF AttemptsGrow
<1>4. CASE Tick(r)
  <2>1. \A q \in Run : row'[q].attempt = row[q].attempt
    BY <1>1, <1>4 DEF Tick, Row, IInv, TypeOK
  <2> QED BY <1>1, <2>1 DEF AttemptsGrow
<1>5. CASE UNCHANGED row
  BY <1>5, SameAttempts
<1> QED
  BY <1>2, <1>3, <1>4, <1>5 DEF CronNext, SweepInspect, SweepLookupFails, SweepVersionChanged,
     Inspect, SweepObserve, SweepTerminate, ObservationAges

LEMMA EngineGrows ==
  ASSUME IInv, Engine
  PROVE  AttemptsGrow
<1>1. \A r \in Run : row[r] \in Row
  BY DEF IInv, TypeOK
<1>2. ASSUME NEW r \in Run, BridgeWrites(r) PROVE AttemptsGrow
  <2>1. PICK s \in {"working", "waiting"} : Write(r, [row[r] EXCEPT !.status = s])
    BY <1>2 DEF BridgeWrites
  <2>2. [row[r] EXCEPT !.status = s] \in Row /\ [row[r] EXCEPT !.status = s].attempt = row[r].attempt
    BY <1>1 DEF Row, Status, Active
  <2> QED BY <2>1, <2>2, SameAttemptGrows
<1>3. ASSUME NEW r \in Run, NEW a \in Attempt, EngineWrites(r, a) PROVE AttemptsGrow
  <2>1. CASE Write(r, row[r])
    BY <1>1, <2>1, SameAttemptGrows
  <2>2. CASE \E s \in Status, transient \in BOOLEAN : SetRunStatus(r, s, transient)
    BY <2>2, SetRunStatusGrows
  <2>3. {"working", "waiting", "completed", "stopped", "error"} \subseteq Status
    BY DEF Status, Active, Terminal
  <2> QED BY <1>3, <2>1, <2>2, <2>3 DEF EngineWrites
<1>4. ASSUME NEW r \in Run, NEW a \in Attempt, EngineFailsClosed(r, a) PROVE AttemptsGrow
  <2> DEFINE new == [row[r] EXCEPT !.status = "error", !.transient = FALSE,
                                   !.cancelled = TRUE, !.due = FALSE]
  <2>1. new \in Row /\ new.attempt = row[r].attempt
    BY <1>1 DEF Row, Status, Terminal
  <2> QED BY <1>4, <2>1, SameAttemptGrows DEF EngineFailsClosed
<1>5. ASSUME NEW r \in Run, NEW a \in Attempt, EngineStopsOthers(r, a) PROVE AttemptsGrow
  BY <1>5, AskToStopGrows DEF EngineStopsOthers
<1>6. ASSUME NEW r \in Run, NEW a \in Attempt, EngineEnds(r, a) PROVE AttemptsGrow
  BY <1>6, SameAttempts DEF EngineEnds
<1> QED BY <1>2, <1>3, <1>4, <1>5, <1>6 DEF Engine

(* Only instances that are created, terminated or ended change. *)
LEMMA EachInstanceStays ==
  ASSUME IInv, NEW r \in Run, NEW a,
         \/ CreateInstance(r, a)
         \/ \E s \in {"complete", "failed"} : inst' = [inst EXCEPT ![r][a] = s]
         \/ inst' = [inst EXCEPT ![r][a] = IF @ = "running" THEN "failed" ELSE @]
         \/ UNCHANGED inst
  PROVE  InstancesStay
<1>1. inst \in [Run -> [Attempt -> InstanceState]]
  BY DEF IInv, TypeOK
<1>2. CASE CreateInstance(r, a)
  BY <1>1, <1>2 DEF CreateInstance, InstancesStay
<1>3. CASE \E s \in {"complete", "failed"} : inst' = [inst EXCEPT ![r][a] = s]
  BY <1>1, <1>3 DEF InstancesStay
<1>4. CASE inst' = [inst EXCEPT ![r][a] = IF @ = "running" THEN "failed" ELSE @]
  BY <1>1, <1>4 DEF InstancesStay
<1> QED BY <1>2, <1>3, <1>4 DEF InstancesStay

LEMMA InstanceStep ==
  ASSUME IInv, Next
  PROVE  InstancesStay
<1>1. CASE AdminStops
  BY <1>1, AskToStopGrows DEF AdminStops, InstancesStay
<1>2. ASSUME NEW r \in Run, AdmitNext(r) PROVE InstancesStay
  <2>1. CreateInstance(r, 1) \/ UNCHANGED inst
    BY <1>2 DEF AdmitNext, CreateTurn, DrainQueued, DrainCreate, DeliverInitial, CreateDirect,
       HandoffLost
  <2> QED BY <2>1, EachInstanceStays
<1>3. ASSUME NEW r \in Run, HumanNext(r) PROVE InstancesStay
  <2>1. UNCHANGED inst
    BY <1>3 DEF HumanNext, RequestRunStop, RetryTask, NewAttempt, CancelRecovery
  <2> QED BY <2>1 DEF InstancesStay
<1>4. ASSUME NEW r \in Run, CronNext(r) PROVE InstancesStay
  <2>1. CASE SweepTerminate(r)
    BY <2>1, EachInstanceStays DEF SweepTerminate
  <2>2. CASE UNCHANGED inst
    BY <2>2 DEF InstancesStay
  <2> QED
    BY <1>4, <2>1, <2>2 DEF CronNext, ScheduleRecovery, SweepInspect, SweepLookupFails,
       SweepVersionChanged, Inspect, SweepObserve, SweepReap, Tick, ObservationAges
<1>5. ASSUME NEW r \in Run, NEW a \in Attempt, JobNext(r, a) PROVE InstancesStay
  <2>1. CreateInstance(r, a) \/ UNCHANGED inst
    BY <1>5 DEF JobNext, RunPublish, LaunchRead, LaunchUnwanted, LaunchCreate, LaunchFail,
       RecoveryRetry, NewAttempt, RecoverySkip, RecoveryRefused, RecoveryLost, RecoveryGiveUp
  <2> QED BY <2>1, EachInstanceStays
<1>6. ASSUME NEW r \in Run,
             \/ BridgeWrites(r)
             \/ \E a \in Attempt : EngineWrites(r, a) \/ EngineFailsClosed(r, a)
                                   \/ EngineStopsOthers(r, a)
      PROVE  InstancesStay
  <2>1. UNCHANGED inst
    <3>1. CASE \E a \in Attempt : EngineStopsOthers(r, a)
      BY <3>1, AskToStopGrows DEF EngineStopsOthers
    <3>2. CASE \E a \in Attempt : EngineWrites(r, a)
      BY <3>2 DEF EngineWrites
    <3>3. CASE \E a \in Attempt : EngineFailsClosed(r, a)
      BY <3>3 DEF EngineFailsClosed
    <3>4. CASE BridgeWrites(r)
      BY <3>4 DEF BridgeWrites
    <3> QED BY <1>6, <3>1, <3>2, <3>3, <3>4
  <2> QED BY <2>1 DEF InstancesStay
<1>7. ASSUME NEW r \in Run, NEW a \in Attempt, EngineEnds(r, a) PROVE InstancesStay
  BY <1>7, EachInstanceStays DEF EngineEnds
<1> QED BY <1>1, <1>2, <1>3, <1>4, <1>5, <1>6, <1>7 DEF Next, Control, Engine

(* What an engine may rely on of the control plane, and of any other engine. *)
LEMMA NextGoesOn ==
  ASSUME IInv, [Next]_vars
  PROVE  AttemptsGrow /\ InstancesStay
<1>1. CASE UNCHANGED vars
  BY <1>1, SameAttempts DEF vars, InstancesStay
<1>2. CASE Engine
  BY <1>2, EngineGrows, InstanceStep DEF Next
<1>3. CASE Control
  <2>1. AttemptsGrow
    <3>1. CASE AdminStops
      BY <3>1, AskToStopGrows DEF AdminStops
    <3>2. ASSUME NEW r \in Run, AdmitNext(r) PROVE AttemptsGrow
      <4>1. CASE UNCHANGED row
        BY <4>1, SameAttempts
      <4> QED BY <3>2, <4>1, AdmitGrows DEF AdmitNext, DrainCreate, DeliverInitial, CreateDirect,
              HandoffLost
    <3> QED BY <1>3, <3>1, <3>2, HumanGrows, CronGrows, RecoveryGrows DEF Control
  <2> QED BY <1>3, <2>1, InstanceStep DEF Next
<1> QED BY <1>1, <1>2, <1>3 DEF Next

-----------------------------------------------------------------------------
(* The properties *)

(* The inductive invariant holds in every reachable state, whatever the number of
   runs, attempts and sessions. *)
THEOREM Invariance == Spec => []IInv
<1>1. Init => IInv
  BY InitOK
<1>2. IInv /\ [Next]_vars => IInv'
  BY NextKeeps
<1>3. QED
  BY <1>1, <1>2, PTL DEF Spec

(* Every committed row, job and verdict has the values the schema allows. *)
THEOREM TypeCorrect == Spec => []TypeOK
<1>1. IInv => TypeOK
  BY DEF IInv
<1>2. QED
  BY <1>1, Invariance, PTL

(* createTurn and runLaunchJob: no instance of a turn or a retry exists before
   the hub has acknowledged the attempt's first event. *)
THEOREM LaunchesAfterPublish == Spec => []LaunchAfterPublish
<1>1. IInv => LaunchAfterPublish
  BY DEF IInv
<1>2. QED
  BY <1>1, Invariance, PTL

(* sweepWorkspace, terminateInstance: what the sweep is about to terminate belongs
   to an attempt that is over. *)
THEOREM ReapsOnlyTheOver == Spec => []ReapIsOver
<1>1. IInv => ReapIsOver
  BY DEF IInv
<1>2. QED
  BY <1>1, Invariance, PTL

(* scheduleRunRecovery, runRecoveryJob: a promised retry has an outstanding job. *)
THEOREM PromisesHaveJobs == Spec => []DueHasJob
<1>1. IInv => DueHasJob
  BY DEF IInv
<1>2. QED
  BY <1>1, Invariance, PTL

(* createTurn, retryTask and the drain of the queue: two runs of a session are
   never active together. *)
THEOREM OneActiveRunPerSession == Spec => []OneActiveRun
<1>1. IInv => OneActiveRun
  BY DEF IInv
<1>2. QED
  BY <1>1, Invariance, PTL

(* setRunStatus, sweepWorkspace, requestRunStop: within an attempt a terminal
   status is never left. *)
THEOREM TerminalStays == Spec => TerminalIsFinal
<1>1. IInv /\ [Next]_vars => [KeepsTerminal]_vars
  BY NextKeeps DEF Keeps
<1>2. QED
  BY <1>1, Invariance, PTL DEF Spec, TerminalIsFinal

(* requestRunStop: within an attempt a requested stop is never forgotten. *)
THEOREM StopStays == Spec => StopIsSticky
<1>1. IInv /\ [Next]_vars => [KeepsStop]_vars
  BY NextKeeps DEF Keeps
<1>2. QED
  BY <1>1, Invariance, PTL DEF Spec, StopIsSticky

(* runRecoveryJob: what a person stopped or cancelled, and what a newer run of the
   session has overtaken, is never retried automatically. *)
THEOREM RetriesAreWanted == Spec => OnlyWantedRetries
<1>1. IInv /\ [Next]_vars => [RetriesWanted]_vars
  BY NextKeeps DEF Keeps
<1>2. QED
  BY <1>1, Invariance, PTL DEF Spec, OnlyWantedRetries
=============================================================================
