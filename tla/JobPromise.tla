----------------------------- MODULE JobPromise -----------------------------
(***************************************************************************)
(* What the durable jobs promise to a transaction that enqueues one: once  *)
(* the transaction commits, the job's side effect is attempted until it is *)
(* acknowledged or refused for good, and only then is the job done.  The   *)
(* side effect may happen more than once, even after the job is done: the  *)
(* handlers are idempotent, the queue is not exactly-once.                 *)
(***************************************************************************)
CONSTANT Job

VARIABLES
  state,    \* "absent" until the enqueuing transaction commits
  settled   \* the jobs whose side effect was acknowledged or refused for good

promiseVars == <<state, settled>>

PromiseInit == state = [j \in Job |-> "absent"] /\ settled = {}

Enqueued(j) == /\ state[j] = "absent"
               /\ state' = [state EXCEPT ![j] = "pending"]
               /\ UNCHANGED settled

Settle(j) == /\ state[j] # "absent"
             /\ settled' = settled \cup {j}
             /\ UNCHANGED state

Done(j) == /\ state[j] = "pending"
           /\ j \in settled
           /\ state' = [state EXCEPT ![j] = "done"]
           /\ UNCHANGED settled

PromiseNext == \E j \in Job : Enqueued(j) \/ Settle(j) \/ Done(j)

Promise == PromiseInit /\ [][PromiseNext]_promiseVars
=============================================================================
