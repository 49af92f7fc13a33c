--------------------------- MODULE TaskEvaluation ---------------------------
(***************************************************************************)
(* One task from the end of its trainings to its final status: the         *)
(* evaluation rows and who inserts them, the lifecycle process that reads  *)
(* the task again and again, the worker it spawns for it, the evaluations  *)
(* the worker starts and forgets, and the verdict.  Orchestrator, dstack   *)
(* orchestrator and lifecycle process share the database and nothing else; *)
(* inside the lifecycle process every await lets the others run.           *)
(***************************************************************************)
EXTENDS Naturals, FiniteSets

CONSTANTS
  Hotkeys,      (* the competitors                                         *)
  Kinds,        (* the kinds of task considered                            *)
  MaxRetries,   (* bound: evaluations that end in "try again"              *)
  MaxRestarts   (* bound: restarts of the lifecycle or dstack process      *)

ASSUME EvaluationAssumption ==
  /\ IsFiniteSet(Hotkeys)
  /\ Kinds \subseteq {"tournament", "organic", "runpod", "benchmark"}
  /\ MaxRetries \in Nat /\ MaxRestarts \in Nat

VARIABLES
  task,       (* [kind, batch, miners]: never changes                      *)
  taskStatus, (* tasks.status, from TRAINING on                            *)
  training,   (* training_status of each miner, "running" until terminal   *)
  eval,       (* evaluation_status of each miner's row, "none" without one *)
  mover,      (* the status monitor_dstack_tasks is about to write         *)
  loop,       (* evaluate_tasks_loop, with what it read of this task       *)
  worker,     (* _run_and_cleanup of this task, with what it read          *)
  jobs,       (* the evaluations in flight                                 *)
  judged,     (* history: the miners whose row has been terminal           *)
  retries, restarts

vars == <<task, taskStatus, training, eval, mover, loop, worker, jobs, judged,
          retries, restarts>>

Final    == {"success", "failure"}
Competing == task.miners
Trained  == {h \in Competing : training[h] = "success"}
AllEnded == \A h \in Competing : training[h] \in Final
RowsWith(S) == {h \in Competing : eval[h] \in S}
Open     == {"pending", "evaluating"}
NoWork   == [at |-> "idle", list |-> {}, pending |-> {}, verdict |-> "none"]

\* GRPO repositories are compared with each other; organic and benchmark
\* tasks have one node each.
Cases == {t \in [kind : Kinds, batch : BOOLEAN, miners : SUBSET Hotkeys] :
            /\ t.miners # {}
            /\ t.kind # "tournament" => Cardinality(t.miners) = 1}

Init ==
  /\ task \in Cases
  /\ taskStatus = "training"
  /\ training = [h \in Hotkeys |-> "running"]
  /\ eval = [h \in Hotkeys |-> "none"]
  /\ mover = "none" /\ loop = "seed" /\ worker = NoWork /\ jobs = {}
  /\ judged = {} /\ retries = 0 /\ restarts = 0

SetRows(S, s) == [h \in Hotkeys |-> IF h \in S THEN s ELSE eval[h]]

-----------------------------------------------------------------------------
(* The other processes.                                                    *)

\* A training ends; the dstack monitor then goes on to write the task.
TrainingEnds(h) ==
  /\ h \in Competing /\ training[h] = "running"
  /\ \E s \in Final :
       /\ training' = [training EXCEPT ![h] = s]
       /\ mover' = IF task.kind # "runpod" THEN mover
                   ELSE IF s = "success" THEN "preevaluation" ELSE "failure"
  /\ UNCHANGED <<task, taskStatus, eval, loop, worker, jobs, judged, retries, restarts>>

MoverWrites ==
  /\ mover # "none"
  /\ taskStatus' = mover /\ mover' = "none"
  /\ UNCHANGED <<task, training, eval, loop, worker, jobs, judged, retries, restarts>>

MoverRestarts ==
  /\ mover # "none" /\ restarts < MaxRestarts
  /\ mover' = "none" /\ restarts' = restarts + 1
  /\ UNCHANGED <<task, taskStatus, training, eval, loop, worker, jobs, judged, retries>>

\* Missing rows only: those of a tournament task for the trained miners,
\* those of any other task for all its nodes.
MissingRows == RowsWith({"none"}) \cap (IF task.kind = "tournament" THEN Trained ELSE Competing)

SeedTrained ==
  /\ task.kind = "tournament" /\ taskStatus = "training" /\ MissingRows # {}
  /\ eval' = SetRows(MissingRows, "pending")
  /\ UNCHANGED <<task, taskStatus, training, mover, loop, worker, jobs, judged, retries, restarts>>

-----------------------------------------------------------------------------
(* evaluate_tasks_loop: seeding, then the tasks ready for evaluation.      *)

ToSeed ==
  \/ taskStatus = "preevaluation"
  \/ task.kind \in {"organic", "runpod"} /\ taskStatus = "training" /\ AllEnded

FindToSeed ==
  /\ loop = "seed"
  /\ loop' = IF ToSeed THEN "rows" ELSE "poll"
  /\ UNCHANGED <<task, taskStatus, training, eval, mover, worker, jobs, judged, retries, restarts>>

SeedRows ==
  /\ loop = "rows"
  /\ eval' = SetRows(MissingRows, "pending")
  /\ loop' = "status"
  /\ UNCHANGED <<task, taskStatus, training, mover, worker, jobs, judged, retries, restarts>>

SeedStatus ==
  /\ loop = "status"
  /\ taskStatus' = "evaluating" /\ loop' = "poll"
  /\ UNCHANGED <<task, training, eval, mover, worker, jobs, judged, retries, restarts>>

Ready ==
  \/ taskStatus = "evaluating"
  \/ /\ task.kind = "tournament" /\ taskStatus \in {"training", "evaluating"}
     /\ RowsWith(Open) # {}
  \/ taskStatus = "training" /\ AllEnded

FindReady ==
  /\ loop = "poll"
  /\ loop' = IF Ready THEN "spawn" ELSE "seed"
  /\ UNCHANGED <<task, taskStatus, training, eval, mover, worker, jobs, judged, retries, restarts>>

\* processing_task_ids: one worker at a time.
Spawn ==
  /\ loop = "spawn"
  /\ loop' = "seed"
  /\ worker' = IF worker.at = "idle" THEN [NoWork EXCEPT !.at = "check"] ELSE worker
  /\ UNCHANGED <<task, taskStatus, training, eval, mover, jobs, judged, retries, restarts>>

-----------------------------------------------------------------------------
(* The worker: start what has no evaluation in flight, then try to decide. *)

Continue(w) ==
  /\ worker' = w
  /\ UNCHANGED <<task, training, mover, loop, judged, retries, restarts>>

\* A batch waits for the last training; single evaluations do not.
CheckTrainings ==
  /\ worker.at = "check"
  /\ Continue(IF task.batch /\ ~AllEnded THEN NoWork ELSE [worker EXCEPT !.at = "pending"])
  /\ UNCHANGED <<taskStatus, eval, jobs>>

ReadPending ==
  /\ worker.at = "pending"
  /\ Continue([worker EXCEPT !.at = "evaluating", !.pending = RowsWith({"pending"})])
  /\ UNCHANGED <<taskStatus, eval, jobs>>

\* Mutant: rows left in evaluating are taken for running.
ReadPendingOnly ==
  /\ worker.at = "evaluating"
  /\ Continue([worker EXCEPT !.list = worker.pending, !.at = IF worker.pending = {} THEN "decide" ELSE "launch"])
  /\ UNCHANGED <<taskStatus, eval, jobs>>

ReadEvaluating ==
  /\ worker.at = "evaluating"
  /\ LET all == worker.pending \cup RowsWith({"evaluating"})
     IN  Continue([worker EXCEPT !.list = all, !.at = IF all = {} THEN "decide" ELSE "launch"])
  /\ UNCHANGED <<taskStatus, eval, jobs>>

\* The next batch of the loop, and whether active_evaluation_jobs has its key.
NextBatch(S) == S # {} /\ S \subseteq worker.list /\ IF task.batch THEN S = worker.list ELSE Cardinality(S) = 1
InFlight(S)  == \E j \in jobs : task.batch \/ j.of = S

Launch(S) ==
  /\ worker.at = "launch" /\ NextBatch(S)
  /\ Continue([worker EXCEPT !.list = @ \ S, !.at = IF worker.list = S THEN "decide" ELSE "launch"])
  /\ IF InFlight(S) THEN UNCHANGED <<eval, jobs>>
     ELSE /\ eval' = SetRows(S \cap worker.pending, "evaluating")
          /\ jobs' = jobs \cup {[of |-> S, failing |-> FALSE]}
  /\ UNCHANGED taskStatus

\* No verdict before the last training; at the next await the rows are read.
DecideTrainings ==
  /\ worker.at = "decide"
  /\ Continue(IF AllEnded THEN [worker EXCEPT !.at = "rows"] ELSE NoWork)
  /\ UNCHANGED <<taskStatus, eval, jobs>>

\* Mutant: the rows that are there are enough.
CoveredAlways == RowsWith({"none"}) \subseteq Competing

\* Only the rows of trained miners count, and all of them must be there.
Covered == Trained \cap RowsWith({"none"}) = {}

DecideRows ==
  /\ worker.at = "rows"
  /\ Continue(IF Covered /\ Trained \cap RowsWith(Open) = {}
              THEN [worker EXCEPT !.at = "write",
                      !.verdict = IF Trained \cap RowsWith({"success"}) = {} THEN "failure" ELSE "success"]
              ELSE NoWork)
  /\ UNCHANGED <<taskStatus, eval, jobs>>

WriteVerdict ==
  /\ worker.at = "write"
  /\ taskStatus' = worker.verdict
  /\ Continue(NoWork)
  /\ UNCHANGED <<eval, jobs>>

-----------------------------------------------------------------------------
(* Evaluations: the rows of those that passed, then the rows of the rest.  *)

Report(j, rest) ==
  /\ j \in jobs
  /\ jobs' = (jobs \ {j}) \cup (IF rest = {} THEN {} ELSE {[of |-> rest, failing |-> TRUE]})
  /\ UNCHANGED <<task, taskStatus, training, mover, loop, worker, restarts>>

JobSucceeds(j, ok) ==
  /\ ~j.failing /\ ok # {} /\ ok \subseteq j.of \cap Trained
  /\ Report(j, j.of \ ok)
  /\ eval' = SetRows(ok, "success") /\ judged' = judged \cup ok
  /\ UNCHANGED retries

\* Nothing passed, nothing was left that had, or the evaluation raised.
JobFails(j) ==
  /\ Report(j, {})
  /\ eval' = SetRows(j.of, "failure") /\ judged' = judged \cup j.of
  /\ UNCHANGED retries

\* EvaluationRetryableError, as when no GPUs can be reserved.
JobRetries(j) ==
  /\ ~j.failing /\ retries < MaxRetries
  /\ Report(j, {})
  /\ eval' = SetRows(j.of, "pending") /\ retries' = retries + 1
  /\ UNCHANGED judged

\* The lifecycle process restarts: loop, workers and evaluations are gone.
\* _recover_evaluating_tasks touches tasks in EVALUATING outside tournaments.
Recovered == IF taskStatus # "evaluating" \/ task.kind = "tournament" THEN {}
             ELSE IF task.batch THEN Competing \ RowsWith({"none"}) ELSE RowsWith({"evaluating"})

Restart ==
  /\ restarts < MaxRestarts
  /\ restarts' = restarts + 1
  /\ loop' = "seed" /\ worker' = NoWork /\ jobs' = {}
  /\ eval' = SetRows(Recovered, "pending")
  /\ UNCHANGED <<task, taskStatus, training, mover, judged, retries>>

-----------------------------------------------------------------------------
LoopStep   == FindToSeed \/ SeedRows \/ SeedStatus \/ FindReady \/ Spawn
WorkerStep == \/ CheckTrainings \/ ReadPending \/ ReadEvaluating
              \/ \E S \in SUBSET Hotkeys : Launch(S)
              \/ DecideTrainings \/ DecideRows \/ WriteVerdict
JobEnds    == \E j \in jobs : JobFails(j) \/ \E ok \in SUBSET j.of : JobSucceeds(j, ok)

Next ==
  \/ \E h \in Hotkeys : TrainingEnds(h)
  \/ MoverWrites \/ MoverRestarts \/ SeedTrained
  \/ LoopStep \/ WorkerStep \/ JobEnds
  \/ \E j \in jobs : JobRetries(j)
  \/ Restart

Spec == Init /\ [][Next]_vars

(***************************************************************************)
(* Trainings end (time limits and attempts), the loops come back every 30  *)
(* and 60 seconds, and an evaluation ends with its deployment's lifetime.  *)
(***************************************************************************)
Fairness ==
  /\ \A h \in Hotkeys : WF_vars(TrainingEnds(h))
  /\ WF_vars(MoverWrites) /\ WF_vars(SeedTrained)
  /\ WF_vars(LoopStep) /\ WF_vars(WorkerStep) /\ WF_vars(JobEnds)

FairSpec == Spec /\ Fairness

-----------------------------------------------------------------------------
RowStates == {"none", "pending", "evaluating", "success", "failure"}

TypeOK ==
  /\ task \in Cases
  /\ taskStatus \in {"training", "preevaluation", "evaluating", "success", "failure"}
  /\ training \in [Hotkeys -> {"running", "success", "failure"}]
  /\ eval \in [Hotkeys -> RowStates]
  /\ mover \in {"none", "preevaluation", "failure"}
  /\ loop \in {"seed", "rows", "status", "poll", "spawn"}
  /\ worker \in [at : {"idle", "check", "pending", "evaluating", "launch", "decide", "rows", "write"},
                 list : SUBSET Competing, pending : SUBSET Competing, verdict : Final \cup {"none"}]
  /\ jobs \subseteq [of : (SUBSET Competing) \ {{}}, failing : BOOLEAN]
  /\ judged \subseteq Competing
  /\ retries \in 0..MaxRetries /\ restarts \in 0..MaxRestarts

\* A finished task has judged every miner whose training succeeded, and had
\* waited for the last training, whoever inserted the rows and whenever.
NobodyLeftOut == taskStatus \in Final => AllEnded /\ Trained \subseteq judged

\* A task in EVALUATING has a row for every trained miner: seeding writes the
\* rows before the status, and nothing adds rows to such a task afterwards.
EvaluatingIsSeeded ==
  taskStatus = "evaluating" => AllEnded /\ Trained \cap RowsWith({"none"}) = {}

\* Every task but a benchmark's is finished for good in the end, through
\* restarts, retries and statuses overwritten from stale reads.
EventuallyFinal == task.kind # "benchmark" => <>[](taskStatus \in Final)

=============================================================================
