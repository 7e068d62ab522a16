----------------------------- MODULE RunHermesMC -----------------------------
(* Small instances of RunHermes. *)
EXTENDS RunHermes

TwoSessions == [r \in Run |-> r]

(* Bound: the first hand-off publishes and retires its jobs, a later attempt is
   published before it is launched, every row is inside its grace, no recovery is
   refused, and none is cancelled but by a Stop.  The sweep ends a run only for a
   Stop or for a changed engine version, and looks at an attempt only when its
   predecessor's instance has ended.  RunControl's runs cover what this leaves out. *)
HandoffIsPlain ==
  \A r \in Run :
    /\ row[r].age = "grace"
    /\ \A a \in Attempt : recovery[r][a] # "refused"
    /\ handoff[r] = "none" /\ row[r].status # "none" =>
         publish[r][1] = "done" /\ launch[r][1] = "done"
    /\ \A a \in Attempt \ {1} :
         /\ launch[r][a] \in {"creating", "done"} => publish[r][a] = "done"
         /\ sweep[r].attempt = a => ~Live(r, a - 1)
    /\ declined[r] => row[r].stop

(* Bound while there are two runs: neither is stopped, swept or retried, and
   neither hand-off is lost. *)
PlainRun(r) ==
  /\ row[r].attempt <= 1 /\ sweep[r] = NoVerdict
  /\ ~row[r].stop /\ ~row[r].cancelled /\ ~row[r].due
  /\ row[r].origin = "turn" /\ launch[r][1] # "creating"
  /\ handoff[r] = "publishing" => publish[r][1] = "pending" /\ launch[r][1] = "pending"
  /\ handoff[r] = "launching" => publish[r][1] = "acked" /\ launch[r][1] = "pending"

(* The first run alone, with all that can happen to it; or two plain runs. *)
OneRunOrTwoPlain ==
  /\ HandoffIsPlain
  /\ (\A r \in Run \ {1} : row[r].status = "none") \/ (\A r \in Run : PlainRun(r))
=============================================================================
