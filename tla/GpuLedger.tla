------------------------------ MODULE GpuLedger ------------------------------
(* The validator's GPU ledger: table trainers_gpus and the coroutines that  *)
(* keep it in step with the trainers.  A row is available when used_until   *)
(* is NULL or past; a row in use also has an age, because the refresh       *)
(* leaves reservations younger than GPU_RESERVATION_GRACE_PERIOD_SECONDS    *)
(* alone.  A refresh reads the whole ledger once, then asks trainer after   *)
(* trainer and compares the answer with that old reading: everything else   *)
(* may happen in between.                                                   *)
EXTENDS Integers, FiniteSets

CONSTANTS Gpus,        \* the GPUs of all trainers
          Trainers,    \* the trainers
          Home,        \* which trainer a GPU belongs to
          Refreshers   \* the coroutines that call _update_all_trainers_gpu_availability

ASSUME HomeAssumption == Home \in [Gpus -> Trainers]

VARIABLES ledger,      \* the ledger: free, fresh (in use, younger than the grace period) or held
          view         \* per refresher: the ledger as it read it, and the trainers left

ledgerVars == <<ledger, view>>

Use == {"free", "fresh", "held"}
NoView == [seen |-> [g \in Gpus |-> "free"], left |-> {}]

LedgerTypeOK ==
    /\ ledger \in [Gpus -> Use]
    /\ view \in [Refreshers -> [seen : [Gpus -> Use], left : SUBSET Trainers]]

LedgerInit ==
    /\ ledger = [g \in Gpus |-> "free"]
    /\ view = [r \in Refreshers |-> NoView]

-----------------------------------------------------------------------------
(* Helpers.                                                                *)

GpusOf(tr) == {g \in Gpus : Home[g] = tr}

\* update_gpu_availability with hours = 0, and with hours > 0.
Freed(S) == [g \in Gpus |-> IF g \in S THEN "free" ELSE ledger[g]]
Taken(S) == [g \in Gpus |-> IF g \in S THEN "fresh" ELSE ledger[g]]

\* What _check_suitable_gpus may return to a job that needs n GPUs: n available
\* rows of one trainer (which n is the business of module GpuSelection).
Suitable(n) == {S \in SUBSET {g \in Gpus : ledger[g] = "free"} :
                    Cardinality(S) = n /\ Cardinality({Home[g] : g \in S}) = 1}

\* The refresh v once the trainers T are done; the last one ends it.
WithOut(v, T) == IF v.left \subseteq T THEN NoView
                 ELSE [v EXCEPT !.left = @ \ T]

-----------------------------------------------------------------------------
(* The refresh, _update_all_trainers_gpu_availability.                     *)

\* get_trainers: the only reading of the ledger in a refresh.
BeginRefresh(r) ==
    /\ view[r].left = {}
    /\ view' = [view EXCEPT ![r] = [seen |-> ledger, left |-> Trainers]]
    /\ UNCHANGED ledger

\* One trainer: it reports a GPU busy when a job it has not marked as ended
\* asked for it (get_gpu_info).  The answer is compared with the reading: rows
\* that were in use, past the grace period and are reported free are reset,
\* rows that were available and are reported busy are marked used for two hours.
RefreshTrainer(r, tr, busy) ==
    /\ tr \in view[r].left
    /\ LET seen  == view[r].seen
           reset == {g \in GpusOf(tr) \ busy : seen[g] = "held"}
           mark  == {g \in GpusOf(tr) \cap busy : seen[g] = "free"}
       IN  ledger' = [g \in Gpus |-> IF g \in reset THEN "free"
                                     ELSE IF g \in mark THEN "fresh" ELSE ledger[g]]
    /\ view' = [view EXCEPT ![r] = WithOut(@, {tr})]

\* A trainer that answers 5xx or not at all: all its rows are used for two hours.
Unreachable(r, tr) ==
    /\ tr \in view[r].left
    /\ ledger' = Taken(GpusOf(tr))
    /\ view' = [view EXCEPT ![r] = WithOut(@, {tr})]

\* Time: a reservation outlives the grace period (in the readings too: the
\* grace is judged when the answer is compared), then used_until passes.
Age(g) ==
    \/ /\ ledger[g] = "fresh" \/ \E r \in Refreshers : view[r].seen[g] = "fresh"
       /\ ledger' = [ledger EXCEPT ![g] = IF @ = "fresh" THEN "held" ELSE @]
       /\ view' = [r \in Refreshers |->
                     [view[r] EXCEPT !.seen[g] = IF @ = "fresh" THEN "held" ELSE @]]
    \/ /\ ledger[g] = "held"
       /\ ledger' = [ledger EXCEPT ![g] = "free"]
       /\ UNCHANGED view
=============================================================================
