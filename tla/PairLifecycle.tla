---------------------------- MODULE PairLifecycle ----------------------------
(***************************************************************************)
(* What the training table promises about one (task, hotkey) pair,         *)
(* whatever the processes, trainers and network behind it do: a pair is    *)
(* queued once, each start costs one attempt, a start ends in success or   *)
(* back in the queue, and a pair is given up only when its attempts are    *)
(* spent or when it has no repository to train from.                       *)
(***************************************************************************)
EXTENDS Naturals

CONSTANTS
  Pairs,        (* the (task, hotkey) pairs                                *)
  HasRepo,      (* the pairs whose training_repo is not NULL               *)
  MaxAttempts   (* MAX_TRAINING_ATTEMPTS                                   *)

VARIABLES
  status,       (* training_status of the pair's row, "none" without a row *)
  attempts      (* n_training_attempts of the pair's row                   *)

Undecided == {"none", "pending", "training"}
Decided   == {"success", "failure"}

Init ==
  /\ status   = [p \in Pairs |-> "none"]
  /\ attempts = [p \in Pairs |-> 0]

\* Rows are inserted in batches, one per pair and never again.
Enqueue(S) ==
  /\ \A p \in S : status[p] = "none"
  /\ status' = [p \in Pairs |-> IF p \in S THEN "pending" ELSE status[p]]
  /\ UNCHANGED attempts

Start(p) ==
  /\ status[p] = "pending"
  /\ attempts[p] < MaxAttempts
  /\ p \in HasRepo
  /\ status' = [status EXCEPT ![p] = "training"]
  /\ attempts' = [attempts EXCEPT ![p] = @ + 1]

Finish(p) ==
  /\ status[p] = "training"
  /\ \E s \in {"success", "pending"} : status' = [status EXCEPT ![p] = s]
  /\ UNCHANGED attempts

Abandon(p) ==
  /\ status[p] = "pending"
  /\ attempts[p] >= MaxAttempts \/ p \notin HasRepo
  /\ status' = [status EXCEPT ![p] = "failure"]
  /\ UNCHANGED attempts

Next ==
  \/ \E S \in SUBSET Pairs : Enqueue(S)
  \/ \E p \in Pairs : Start(p) \/ Finish(p) \/ Abandon(p)

Spec == Init /\ [][Next]_<<status, attempts>>

=============================================================================
