----------------------------- MODULE RunLegacyMC -----------------------------
(* Small instances of RunLegacy. *)
EXTENDS RunLegacy

TwoSessions == [r \in Run |-> r]

(* Bound: the first hand-off publishes and retires its jobs, every row is inside
   its grace, and no recovery is refused (RunControl's runs cover these; the sweep
   still ends a run, for a Stop or for a changed engine version). *)
HandoffIsPlain ==
  \A r \in Run :
    /\ row[r].age = "grace"
    /\ \A a \in Attempt : recovery[r][a] # "refused"
    /\ handoff[r] = "none" /\ row[r].status # "none" =>
         publish[r][1] = "done" /\ launch[r][1] = "done"

(* Bound while there are two runs: nobody stops, sweeps or retries either, so that
   what interrupts one is the other's refused key; no hand-off is lost. *)
PlainRun(r) ==
  /\ row[r].attempt <= 1 /\ sweep[r] = NoVerdict
  /\ ~declined[r] /\ ~row[r].cancelled /\ ~row[r].due
  /\ row[r].origin = "turn" /\ launch[r][1] # "creating"
  /\ handoff[r] = "publishing" => publish[r][1] = "pending" /\ launch[r][1] = "pending"
  /\ handoff[r] = "launching" => publish[r][1] = "acked" /\ launch[r][1] = "pending"

(* The first run alone, with all that can happen to it; or two plain runs. *)
OneRunOrTwoPlain ==
  /\ HandoffIsPlain
  /\ (\A r \in Run \ {1} : row[r].status = "none") \/ (\A r \in Run : PlainRun(r))
=============================================================================
