---------------------------- MODULE JobLifecycle ----------------------------
(***************************************************************************)
(* What the controller promises about a job, whoever calls it and in       *)
(* whatever order: ids are given out in order, a submitted job is pending  *)
(* until it is settled once and for all, and its reward is never lowered.  *)
(* One step may move several jobs, as one transaction can.                 *)
(***************************************************************************)
EXTENDS Integers

CONSTANT Jobs

VARIABLES status, reward

Settled == {"Executed", "Failed", "Cancelled", "Evicted"}

Statuses == {"None", "Pending"} \cup Settled

Init ==
  /\ status = [j \in Jobs |-> "None"]
  /\ reward = [j \in Jobs |-> 0]

Submit(j) ==
  /\ status[j] = "None"
  /\ status'[j] # "None"
  /\ reward'[j] > 0

Raise(j) ==
  /\ status[j] = "Pending"
  /\ status'[j] = "Pending"
  /\ reward'[j] >= reward[j]

Settle(j) ==
  /\ status[j] = "Pending"
  /\ status'[j] \in Settled
  /\ reward'[j] >= reward[j]

Keep(j) ==
  /\ status'[j] = status[j]
  /\ reward'[j] = reward[j]

Next ==
  /\ status' \in [Jobs -> Statuses]
  /\ reward' \in [Jobs -> Nat]
  /\ \A j \in Jobs : Submit(j) \/ Raise(j) \/ Settle(j) \/ Keep(j)
  /\ \A i, j \in Jobs : i < j /\ status'[j] # "None" => status'[i] # "None"

Spec == Init /\ [][Next]_<<status, reward>>
=============================================================================
