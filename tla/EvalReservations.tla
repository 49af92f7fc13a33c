-------------------------- MODULE EvalReservations --------------------------
(* Remote evaluations and the ledger that keeps them under EVAL_MAX_GPUS:   *)
(* the rows of table evaluations with their GPU reservations, the coroutine *)
(* that deploys, polls and deletes for one row (_run_single_basilica_eval_  *)
(* repo and _run_single_runpod_eval_repo), the provider, and the reconciler *)
(* that compares the two every two minutes.  All evaluations ask for the    *)
(* same number of GPUs, so capacity is counted in deployments.  PvP and     *)
(* environment evaluations keep their reservations in other tables and are  *)
(* left out.                                                                *)
EXTENDS Naturals, FiniteSets

CONSTANTS Rows,        \* evaluation rows
          Names,       \* deployment names (fresh UUIDs in the code)
          NoName,      \* deployment_id NULL
          Backends,    \* the values of EVAL_BACKEND considered
          Slots,       \* deployments that fit in EVAL_MAX_GPUS
          Retries,     \* EVAL_BASILICA_MAX_RETRIES
          MaxFaults    \* bound: failures, delays and crashes

ASSUME NoNameAssumption == NoName \notin Names
ASSUME BoundsAssumption ==
    /\ Slots \in Nat /\ Retries \in Nat /\ IsFiniteSet(Rows)
    /\ \E f \in [Rows -> Names] : \A r, q \in Rows : f[r] = f[q] => r = q

VARIABLES backend,     \* EVAL_BACKEND: never changes
          row,         \* table evaluations: status, reservation, deployment_id, updated_at
          inflight,    \* deployments the provider was asked for and does not list yet
          live,        \* deployments the provider lists
          ready,       \* those whose health endpoint answers
          old,         \* those older than the orphan grace
          job,         \* the coroutine of each row
          recon,       \* the reconciler: what it listed and what it will do
          faults       \* faults so far, by kind

provider == <<inflight, live, ready, old>>
vars == <<backend, row, provider, job, recon, faults>>

Open == {"pending", "evaluating"}
Kinds == {"undeleted", "lostAnswer", "lateCreate", "slowCreate", "lookupError",
          "crash", "rejected", "notReady", "failed", "timeout", "vanished"}

NoJob == [at |-> "idle", name |-> NoName, resumed |-> FALSE, attempt |-> 0, then |-> "none"]
NoPass == [at |-> "idle", live |-> {}, old |-> {}, ghosts |-> {}]

Ats == {"idle", "load", "lookup", "giveup", "reserve", "create", "sent", "persist", "wait",
        "poll", "delete", "release", "report", "clear"}
Thens == {"none", "success", "failure", "timeout", "failed", "notReady", "unhealthy", "retry", "again"}

TypeOK ==
    /\ backend \in Backends
    /\ row \in [Rows -> [status : Open \cup {"success", "failure"}, held : BOOLEAN,
                         dep : Names \cup {NoName}, fresh : BOOLEAN]]
    /\ inflight \subseteq Names /\ live \subseteq Names
    /\ ready \subseteq live /\ old \subseteq live
    /\ job \in [Rows -> [at : Ats, name : Names \cup {NoName}, resumed : BOOLEAN,
                         attempt : Nat, then : Thens]]
    /\ recon \in [at : {"idle", "read", "reap", "reset"}, live : SUBSET Names,
                  old : SUBSET Names, ghosts : SUBSET Names]
    /\ faults \in [Kinds -> Nat]

\* The deployments of an earlier process have different names.
Given == CHOOSE f \in [Rows -> Names] : \A r, q \in Rows : f[r] = f[q] => r = q

\* The process starts, with the deployments an earlier one left behind.
Init ==
    /\ backend \in Backends
    /\ \E left \in SUBSET Rows :
         /\ Cardinality(left) <= Slots
         /\ row = [r \in Rows |->
                     IF r \in left THEN [status |-> "evaluating", held |-> TRUE, dep |-> Given[r], fresh |-> TRUE]
                     ELSE [status |-> "pending", held |-> FALSE, dep |-> NoName, fresh |-> TRUE]]
         /\ live = {Given[r] : r \in left}
    /\ inflight = {} /\ ready = {} /\ old = {}
    /\ job = [r \in Rows |-> NoJob]
    /\ recon = NoPass
    /\ faults = [k \in Kinds |-> 0]

-----------------------------------------------------------------------------
(* Helpers.                                                                *)

\* The faults that may hide a deployment from the ledger, and all of them.
Leaks == faults["undeleted"] + faults["lostAnswer"] + faults["lateCreate"]
         + faults["slowCreate"] + faults["lookupError"]
AllFaults == Leaks + faults["crash"] + faults["rejected"] + faults["notReady"]
             + faults["failed"] + faults["timeout"] + faults["vanished"]

Fault(k) == AllFaults < MaxFaults /\ faults' = [faults EXCEPT ![k] = @ + 1]
NoFault == UNCHANGED faults

\* Rows whose reservation the cap counts.
Reserved == {r \in Rows : row[r].status \in Open /\ row[r].held}

\* A name nothing has ever heard of; names nothing remembers may serve again.
Unused == Names \ (inflight \cup live \cup recon.live \cup recon.old \cup recon.ghosts
                   \cup {row[r].dep : r \in Rows} \cup {job[r].name : r \in Rows})

Fresh == CHOOSE n \in Unused : TRUE

Is(r, at) == job[r].at = at
Go(r, at) == job' = [job EXCEPT ![r].at = at]
GoThen(r, at, then) == job' = [job EXCEPT ![r].at = at, ![r].then = then]

\* A write to the row sets updated_at.
Write(r, s, h, d) ==
    row' = [row EXCEPT ![r] = [status |-> s, held |-> h, dep |-> d, fresh |-> TRUE]]

Delete(n) ==
    /\ live' = live \ {n} /\ ready' = ready \ {n} /\ old' = old \ {n}
    /\ UNCHANGED inflight

-----------------------------------------------------------------------------
(* The evaluation of a row, up to a deployment that runs.                  *)

\* _evaluate_pending_pairs_for_task: a row that is open and has no evaluation
\* in flight gets one.
Launch(r) ==
    /\ Is(r, "idle") /\ row[r].status \in Open
    /\ IF row[r].status = "pending"
       THEN Write(r, "evaluating", row[r].held, row[r].dep) ELSE UNCHANGED row
    /\ Go(r, "load")
    /\ NoFault
    /\ UNCHANGED <<backend, provider, recon>>

\* load_eval_pair_state_for_models: is there a deployment to resume?
Load(r) ==
    /\ Is(r, "load")
    /\ job' = [job EXCEPT ![r] = [@ EXCEPT !.at = IF row[r].dep = NoName THEN "reserve" ELSE "lookup",
                                           !.name = row[r].dep]]
    /\ NoFault
    /\ UNCHANGED <<backend, row, provider, recon>>

\* The deployment is gone, or not listed yet.
LookupMisses(r) ==
    /\ Is(r, "lookup") /\ job[r].name \notin live
    /\ Go(r, "giveup")
    /\ IF job[r].name \in inflight THEN Fault("lateCreate") ELSE NoFault
    /\ UNCHANGED <<backend, row, provider, recon>>

\* It is listed: poll it if it is healthy, wait for it if it is not.
LookupFinds(r) ==
    /\ Is(r, "lookup") /\ job[r].name \in ready
    /\ job' = [job EXCEPT ![r].at = "poll", ![r].resumed = TRUE]
    /\ NoFault
    /\ UNCHANGED <<backend, row, provider, recon>>

LookupUnhealthy(r) ==
    /\ Is(r, "lookup") /\ job[r].name \in live \ ready
    /\ GoThen(r, "delete", "unhealthy")
    /\ Fault("notReady")
    /\ UNCHANGED <<backend, row, provider, recon>>

\* The provider's list fails.  Basilica: "resume failed, redeploying".
\* Runpod: the exception ends the evaluation.
LookupFails(r) ==
    /\ Is(r, "lookup")
    /\ IF backend = "basilica" THEN Go(r, "giveup") ELSE GoThen(r, "report", "failure")
    /\ Fault("lookupError")
    /\ UNCHANGED <<backend, row, provider, recon>>

\* release_evaluation_gpu_reservation: only while the row names this deployment.
ReleaseRow(r) ==
    IF row[r].dep = job[r].name THEN Write(r, row[r].status, FALSE, row[r].dep) ELSE UNCHANGED row

GiveUp(r) ==
    /\ Is(r, "giveup")
    /\ ReleaseRow(r)
    /\ Go(r, "reserve")
    /\ NoFault
    /\ UNCHANGED <<backend, provider, recon>>

\* Mutant: one too many fits.
FitsOneMore == Cardinality(Reserved) <= Slots

\* try_reserve_evaluation_gpus, under the advisory lock.
Fits == Cardinality(Reserved) < Slots

\* The name is generated before the reservation, and stamped with it.
Reserve(r) ==
    /\ Is(r, "reserve") /\ Unused # {} /\ Fits /\ row[r].status \in Open
    /\ Write(r, row[r].status, TRUE, Fresh)
    /\ job' = [job EXCEPT ![r] = [NoJob EXCEPT !.at = "create", !.name = Fresh,
                                               !.attempt = job[r].attempt + 1]]
    /\ NoFault
    /\ UNCHANGED <<backend, provider, recon>>

\* EvaluationCapacityUnavailable; the release that follows names the new
\* deployment, which the row does not know.
Refused(r) ==
    /\ Is(r, "reserve") /\ ~(Fits /\ row[r].status \in Open)
    /\ GoThen(r, "report", "retry")
    /\ NoFault
    /\ UNCHANGED <<backend, row, provider, recon>>

\* The creations of all coroutines queue for _BASILICA_CREATE_LOCK.
Create(r) ==
    /\ Is(r, "create")
    /\ inflight' = inflight \cup {job[r].name}
    /\ Go(r, "sent")
    /\ NoFault
    /\ UNCHANGED <<backend, row, live, ready, old, recon>>

\* The answer to the creation, or the listing that stands in for it.
Created(r) ==
    /\ Is(r, "sent") /\ job[r].name \in live
    /\ Go(r, IF backend = "basilica" THEN "persist" ELSE "wait")
    /\ NoFault
    /\ UNCHANGED <<backend, row, provider, recon>>

\* The provider refuses, or only the answer is lost and the listing comes too
\* early, or the deployment is gone already.
CreateFails(r) ==
    /\ Is(r, "sent") /\ job[r].name \notin live
    /\ \/ job[r].name \in inflight /\ inflight' = inflight \ {job[r].name} /\ Fault("rejected")
       \/ job[r].name \in inflight /\ UNCHANGED inflight /\ Fault("lostAnswer")
       \/ job[r].name \notin inflight /\ UNCHANGED inflight /\ NoFault
    /\ GoThen(r, "release", "again")
    /\ UNCHANGED <<backend, row, live, ready, old, recon>>

\* set_evaluation_deployment_id: the name, whatever the row says by now.
\* (Runpod writes it before the creation, where it changes nothing.)
Persist(r) ==
    /\ Is(r, "persist")
    /\ Write(r, row[r].status, row[r].held, job[r].name)
    /\ Go(r, "wait")
    /\ NoFault
    /\ UNCHANGED <<backend, provider, recon>>

ReadyInTime(r) ==
    /\ Is(r, "wait") /\ job[r].name \in ready
    /\ Go(r, "poll")
    /\ NoFault
    /\ UNCHANGED <<backend, row, provider, recon>>

NotReady(r) ==
    /\ Is(r, "wait") /\ job[r].name \notin ready
    /\ GoThen(r, "delete", "notReady")
    /\ IF job[r].name \in live THEN Fault("notReady") ELSE NoFault
    /\ UNCHANGED <<backend, row, provider, recon>>

-----------------------------------------------------------------------------
(* The evaluation of a row, from the result on.                            *)

PollSucceeds(r) ==
    /\ Is(r, "poll") /\ job[r].name \in ready
    /\ GoThen(r, "delete", "success")
    /\ NoFault
    /\ UNCHANGED <<backend, row, provider, recon>>

\* The evaluator reports a failure, does not answer in time, or is gone.
PollFails(r) ==
    /\ Is(r, "poll")
    /\ \/ job[r].name \in live /\ Fault("failed") /\ GoThen(r, "delete", "failed")
       \/ job[r].name \in live /\ Fault("timeout") /\ GoThen(r, "delete", "timeout")
       \/ job[r].name \notin live /\ NoFault /\ GoThen(r, "delete", "failed")
    /\ UNCHANGED <<backend, row, provider, recon>>

\* What follows a verified deletion, by the verdict that led to it.
Deleted(r) ==
    LET v == job[r].then
        final == backend = "basilica" /\ (job[r].resumed \/ v = "timeout")
    IN  CASE v = "success"   -> GoThen(r, "report", "success")
          [] v = "unhealthy" -> Go(r, "giveup")
          [] v = "notReady"  -> GoThen(r, "release", "retry")
          [] OTHER -> IF final THEN GoThen(r, "report", "failure")
                      ELSE IF job[r].resumed THEN Go(r, "giveup")
                      ELSE GoThen(r, "release", "again")

DeleteVerified(r) ==
    /\ Is(r, "delete")
    /\ Delete(job[r].name)
    /\ Deleted(r)
    /\ NoFault
    /\ UNCHANGED <<backend, row, recon>>

\* Three attempts have failed.  Basilica ignores it after a success and after
\* a resumed evaluation, and its handler cannot delete what was never ready
\* but releases it all the same; otherwise the row keeps its reservation and
\* the evaluation is to be tried again.
DeleteFails(r) ==
    /\ Is(r, "delete") /\ job[r].name \in live
    /\ LET v == job[r].then
           ignored == backend = "basilica" /\ v # "unhealthy" /\ (v = "success" \/ job[r].resumed)
       IN  IF ignored THEN GoThen(r, "report", IF v = "success" THEN "success" ELSE "failure")
           ELSE IF backend = "basilica" /\ v = "notReady" THEN GoThen(r, "release", "retry")
           ELSE GoThen(r, "report", "retry")
    /\ Fault("undeleted")
    /\ UNCHANGED <<backend, row, provider, recon>>

\* Basilica: the handler of the failed deletion tries again and succeeds.
DeleteLate(r) ==
    /\ Is(r, "delete") /\ backend = "basilica"
    /\ job[r].then \in {"failed", "timeout"} /\ ~job[r].resumed
    /\ Delete(job[r].name)
    /\ GoThen(r, "release", "retry")
    /\ NoFault
    /\ UNCHANGED <<backend, row, recon>>

\* After the release: the next attempt, with a new name, or the end.
Release(r) ==
    /\ Is(r, "release")
    /\ ReleaseRow(r)
    /\ IF job[r].then = "retry" THEN Go(r, "report")
       ELSE IF job[r].attempt < Retries THEN Go(r, "reserve")
       ELSE GoThen(r, "report", "failure")
    /\ NoFault
    /\ UNCHANGED <<backend, provider, recon>>

\* _evaluate_and_update_hotkeys: a final status clears the reservation; a
\* retry sets the row pending and clears it in a second statement.
Report(r) ==
    /\ Is(r, "report")
    /\ LET v == job[r].then
       IN  IF v = "retry"
           THEN Write(r, "pending", row[r].held, row[r].dep) /\ Go(r, "clear")
           ELSE Write(r, v, FALSE, row[r].dep) /\ job' = [job EXCEPT ![r] = NoJob]
    /\ NoFault
    /\ UNCHANGED <<backend, provider, recon>>

\* clear_task_evaluation_deployments: the reservation, not the deployment id.
Clear(r) ==
    /\ Is(r, "clear")
    /\ Write(r, row[r].status, FALSE, row[r].dep)
    /\ job' = [job EXCEPT ![r] = NoJob]
    /\ NoFault
    /\ UNCHANGED <<backend, provider, recon>>

-----------------------------------------------------------------------------
(* The provider.                                                           *)

Listed(n) ==
    /\ n \in inflight
    /\ inflight' = inflight \ {n} /\ live' = live \cup {n}
    /\ NoFault
    /\ UNCHANGED <<backend, row, ready, old, job, recon>>

Healthy(n) ==
    /\ n \in live \ ready
    /\ ready' = ready \cup {n}
    /\ NoFault
    /\ UNCHANGED <<backend, row, inflight, live, old, job, recon>>

\* The lifetime of a deployment ends, or the provider loses it.
Vanish(n) ==
    /\ n \in live
    /\ Delete(n)
    /\ Fault("vanished")
    /\ UNCHANGED <<backend, row, job, recon>>

-----------------------------------------------------------------------------
(* Time.  A pass of the reconciler is shorter than the ghost grace, and the *)
(* orphan grace is longer than the 30 minutes a deployment may take to be   *)
(* ready.                                                                  *)

Awaited == {job[r].name : r \in {q \in Rows : job[q].at \in {"create", "sent", "persist", "wait"}}}

\* updated_at falls behind the ghost grace; a creation that takes that long
\* counts as a fault.
RowAges(r) ==
    /\ recon.at = "idle"
    /\ row[r].fresh /\ row[r].dep # NoName /\ row[r].status \in Open
    /\ row' = [row EXCEPT ![r].fresh = FALSE]
    /\ IF row[r].dep \in (inflight \cup Awaited) \ live THEN Fault("slowCreate") ELSE NoFault
    /\ UNCHANGED <<backend, provider, job, recon>>

\* created_at falls behind the orphan grace.
DeploymentAges(n) ==
    /\ n \in live \ (old \cup Awaited)
    /\ old' = old \cup {n}
    /\ NoFault
    /\ UNCHANGED <<backend, row, inflight, live, ready, job, recon>>

-----------------------------------------------------------------------------
(* The reconciler, reconcile_eval_deployments.                             *)

ListLive ==
    /\ recon.at = "idle"
    /\ recon' = [NoPass EXCEPT !.at = "read", !.live = live, !.old = old]
    /\ NoFault
    /\ UNCHANGED <<backend, row, provider, job>>

\* Mutant: a row without a reservation backs nothing.
BackedByHolders == {row[r].dep : r \in Reserved}

\* Mutant: the deployments of finished rows are backed too.
BackedForEver == {row[r].dep : r \in Rows}

\* get_active_evaluation_deployments.
Backed == {row[r].dep : r \in {q \in Rows : row[q].status \in Open}} \ {NoName}

\* plan_eval_reconcile: old deployments nothing refers to, and old rows whose
\* deployment was not listed.
Plan ==
    /\ recon.at = "read"
    /\ LET ghosts == {row[r].dep : r \in {q \in Rows : /\ row[q].status \in Open
                                                       /\ ~row[q].fresh
                                                       /\ row[q].dep \notin recon.live}}
           orphans == recon.old \ Backed
       IN  recon' = IF ghosts \cup orphans = {} THEN NoPass
                    ELSE [NoPass EXCEPT !.at = "reap", !.old = orphans, !.ghosts = ghosts]
    /\ NoFault
    /\ UNCHANGED <<backend, row, provider, job>>

\* cleanup_basilica_deployments_by_name, cleanup_runpod_deployments_by_id.
Reap ==
    /\ recon.at = "reap"
    /\ live' = live \ recon.old /\ ready' = ready \ recon.old /\ old' = old \ recon.old
    /\ recon' = IF recon.ghosts = {} THEN NoPass ELSE [recon EXCEPT !.at = "reset", !.old = {}]
    /\ NoFault
    /\ UNCHANGED <<backend, row, inflight, job>>

\* reset_evaluation_rows_for_deployment.
ResetRows(n) ==
    /\ recon.at = "reset" /\ n \in recon.ghosts
    /\ row' = [r \in Rows |->
                 IF row[r].dep = n /\ row[r].status \in Open
                 THEN [status |-> "pending", held |-> FALSE, dep |-> NoName, fresh |-> TRUE]
                 ELSE row[r]]
    /\ recon' = IF recon.ghosts = {n} THEN NoPass ELSE [recon EXCEPT !.ghosts = @ \ {n}]
    /\ NoFault
    /\ UNCHANGED <<backend, provider, job>>

\* Mutant: the recovery clears the reservations of the rows it resets.
CrashClears ==
    /\ Fault("crash")
    /\ row' = [r \in Rows |-> IF row[r].status = "evaluating"
                             THEN [row[r] EXCEPT !.status = "pending", !.held = FALSE] ELSE row[r]]
    /\ job' = [r \in Rows |-> NoJob]
    /\ recon' = NoPass
    /\ UNCHANGED <<backend, provider>>

\* The lifecycle process restarts.  The rows stay as they are: pending or
\* evaluating makes no difference to a row without a coroutine.
Crash ==
    /\ Fault("crash")
    /\ job' = [r \in Rows |-> NoJob]
    /\ recon' = NoPass
    /\ UNCHANGED <<backend, row, provider>>

-----------------------------------------------------------------------------
JobStep(r) ==
    \/ Launch(r) \/ Load(r) \/ LookupMisses(r) \/ LookupFinds(r) \/ GiveUp(r)
    \/ Reserve(r) \/ Refused(r) \/ Create(r) \/ Created(r) \/ CreateFails(r) \/ Persist(r) \/ ReadyInTime(r) \/ NotReady(r)
    \/ PollSucceeds(r) \/ PollFails(r) \/ DeleteVerified(r) \/ Release(r) \/ Report(r) \/ Clear(r)

JobFault(r) ==
    LookupUnhealthy(r) \/ LookupFails(r) \/ DeleteFails(r) \/ DeleteLate(r)

ReconStep == ListLive \/ Plan \/ Reap \/ \E n \in Names : ResetRows(n)

Next ==
    \/ \E r \in Rows : JobStep(r) \/ JobFault(r) \/ RowAges(r)
    \/ \E n \in Names : Listed(n) \/ Healthy(n) \/ Vanish(n) \/ DeploymentAges(n)
    \/ ReconStep \/ Crash

Spec == Init /\ [][Next]_vars

\* Coroutines go on, the provider answers, time passes, the loop reconciles
\* every two minutes; evaluations compete for the lock, hence the strong
\* fairness of the reservation.
Fairness ==
    /\ \A r \in Rows : WF_vars(JobStep(r)) /\ WF_vars(RowAges(r))
    /\ \A r \in Rows : SF_vars(Reserve(r))
    /\ \A n \in Names : WF_vars(Listed(n)) /\ WF_vars(Healthy(n)) /\ WF_vars(DeploymentAges(n))
    /\ WF_vars(ReconStep)

FairSpec == Spec /\ Fairness

-----------------------------------------------------------------------------
\* The deployments that run or are about to never exceed EVAL_MAX_GPUS by more
\* than one per fault that hides a deployment from the ledger (a deletion that
\* cannot be verified, a creation that comes late or whose answer is lost, a
\* failed listing); crashes, retries and the reconciler hide none.
CapHolds == Cardinality(live \cup inflight) <= Slots + Leaks

\* Without such a fault every deployment has its reservation, through
\* crashes, retries and passes of the reconciler.
LiveIsReserved ==
    Leaks = 0 => \A n \in live \cup inflight : \E r \in Reserved : row[r].dep = n

\* The reconciler, which acts on an old listing, never deletes a deployment
\* that an evaluation waits for or polls, whatever the row went through.
ReaperSparesWork ==
    [][Reap /\ faults["slowCreate"] = 0 =>
         \A r \in Rows : job[r].at \in {"persist", "wait", "poll"} => job[r].name \notin recon.old]_vars

\* In the end every row has its verdict and no deployment is left behind.
EventuallySettled ==
    <>[](live \cup inflight = {} /\ \A r \in Rows : row[r].status \in {"success", "failure"})

=============================================================================
