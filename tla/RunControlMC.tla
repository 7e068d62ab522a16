---------------------------- MODULE RunControlMC ----------------------------
(* Small instances of RunControl. *)
EXTENDS RunControl

OneSession == [r \in Run |-> 1]

(* Bound of the two-run instance: the later run is handed off without loss,
   stays at its first attempt, and is neither stopped, parked nor swept, so that
   it only ends, or not, while the earlier run, whose first hand-off is over,
   recovers. *)
LaterRunIsPlain ==
  \A r \in Run \ {1} :
    /\ row[r].attempt <= 1 /\ row[r].status # "waiting"
    /\ ~row[r].stop /\ ~row[r].cancelled /\ ~row[r].due /\ ~row[r].transient
    /\ row[r].age = "grace" /\ sweep[r] = NoVerdict /\ inst[r][1] # "failed"
    /\ launch[r][1] # "creating"
    /\ row[r].status # "none" => handoff[1] = "none" /\ publish[1][1] = "done"
    /\ row[r].origin = "turn" /\ row[r].status # "none" =>
         (handoff[r] = "none" <=> publish[r][1] = "done" /\ launch[r][1] = "done")

(* Bound of the one-run instance under fairness: a second attempt starts when the
   first one's hand-off is over and published; its launch job may be left. *)
FirstIsHandedOff ==
  \A r \in Run : row[r].attempt = 2 =>
    handoff[r] = "none" /\ publish[r][1] = "done"
=============================================================================
