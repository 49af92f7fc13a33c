------------------------------ MODULE ModelPrep ------------------------------
(* Model preparation: the dispatch loop of the validator                    *)
(* (process_awaiting_model_prep_tasks), its coroutines, the trainers' prep  *)
(* jobs and the GPU ledger they share with the training scheduler.          *)
(* Environment tasks (retired) and their per-miner preparations are left    *)
(* out; the training side is one dispatch per pair (see TrainingScheduler   *)
(* and TrainerJobs for the rest of it).                                     *)
EXTENDS GpuLedger, Sequences

CONSTANTS Tasks,       \* tasks that need a preparation, numbered by age
          Pairs,       \* training pairs that compete for GPUs
          Need,        \* GPUs a task or a pair asks for
          MaxJobs,     \* bound: jobs the trainers accept
          MaxFaults    \* bound: crashes, lost calls, failed and late jobs

ASSUME TasksAssumption == Tasks \subseteq Nat /\ Tasks \cap Pairs = {}

VARIABLES status,      \* tasks table: awaiting, looking (for miners) or rejected
          cost,        \* gpu_usage_runs of the preparation: none, open, closed
          inProgress,  \* _model_prep_in_progress
          cycle,       \* the dispatch loop: the task it is at and those after it
          coro,        \* the preparation coroutine of a task
          releases,    \* GPU sets whose release is the last thing a finished coroutine does
          train,       \* the scheduler's dispatch of a pair
          jobs,        \* task_history of the trainers, in order, with their containers
          faults       \* faults so far, by kind

prepVars == <<status, cost, inProgress, cycle, coro, releases, train, jobs, faults>>
vars == <<ledgerVars, prepVars>>

Kinds == {"crash", "lostCall", "lostQuery", "failed", "late", "restart", "unreachable"}
NoCoro == [at |-> "none", gpus |-> {}, job |-> 0]
Idle == [at |-> "idle", task |-> 0, left |-> {}, ask |-> {}, gpus |-> {}]
Waiting == [at |-> "pending", gpus |-> {}]

Entries == {"TRAINING", "SUCCESS", "FAILURE"}
TypeOK ==
    /\ LedgerTypeOK
    /\ status \in [Tasks -> {"awaiting", "looking", "rejected"}]
    /\ cost \in [Tasks -> {"none", "open", "closed"}]
    /\ inProgress \subseteq Tasks
    /\ cycle \in [at : {"idle", "ask", "recovered", "check", "reserve"}, task : Tasks \cup {0},
                  left : SUBSET Tasks, ask : SUBSET Trainers, gpus : SUBSET Gpus]
    /\ coro \in [Tasks -> [at : {"none", "cost", "post", "wait", "ok", "close"},
                           gpus : SUBSET Gpus, job : Nat]]
    /\ releases \subseteq SUBSET Gpus
    /\ train \in [Pairs -> [at : {"pending", "post", "reserve", "done"}, gpus : SUBSET Gpus]]
    /\ jobs \in Seq([of : Tasks \cup Pairs, gpus : SUBSET Gpus, entry : Entries,
                     box : {"none", "up", "gone"}, said : {"nothing", "result", "error"}])
    /\ faults \in [Kinds -> Nat]

Init ==
    /\ LedgerInit
    /\ status = [t \in Tasks |-> "awaiting"]
    /\ cost = [t \in Tasks |-> "none"]
    /\ inProgress = {}
    /\ cycle = Idle
    /\ coro = [t \in Tasks |-> NoCoro]
    /\ releases = {}
    /\ train = [p \in Pairs |-> Waiting]
    /\ jobs = <<>>
    /\ faults = [k \in Kinds |-> 0]

AllFaults == faults["crash"] + faults["lostCall"] + faults["lostQuery"] + faults["failed"]
             + faults["late"] + faults["restart"] + faults["unreachable"]
Fault(k) == AllFaults < MaxFaults
            /\ faults' = [faults EXCEPT ![k] = @ + 1]

-----------------------------------------------------------------------------
(* The trainers.                                                           *)

On(i, tr) == \E g \in jobs[i].gpus : Home[g] = tr
Occupied == UNION {jobs[i].gpus : i \in {j \in DOMAIN jobs : jobs[j].entry = "TRAINING"}}
Boxed == UNION {jobs[i].gpus : i \in {j \in DOMAIN jobs : jobs[j].box = "up"}}

\* get_model_prep_job: the job that is TRAINING, else the OLDEST job of the
\* task; 0 when the trainer knows none.
PrepJob(tr, t) ==
    LET of == {i \in DOMAIN jobs : jobs[i].of = t /\ On(i, tr)}
        running == {i \in of : jobs[i].entry = "TRAINING"}
        best == IF running # {} THEN running ELSE of
    IN  IF of = {} THEN 0 ELSE CHOOSE i \in best : \A j \in best : i <= j

\* Mutant: the accepted jobs that have no container yet are not looked at.
AcceptsBoxed(S) == S \cap Boxed = {}

\* are_gpus_available, under _task_lock: no job that is TRAINING and no
\* running container holds one of the GPUs.
Accepts(S) == S \cap (Occupied \cup Boxed) = {}

\* _start_model_prep_unlocked and _start_task_unlocked: a preparation marks
\* the earlier TRAINING entries of its task on this trainer FAILURE; a pair
\* that is already TRAINING is refused by Accepts' caller.
Started(x, S) ==
    LET superseded(j) == x \in Tasks /\ j.of = x /\ j.entry = "TRAINING"
                           /\ {Home[g] : g \in j.gpus} = {Home[g] : g \in S}
        marked == [i \in DOMAIN jobs |-> IF superseded(jobs[i])
                                         THEN [jobs[i] EXCEPT !.entry = "FAILURE"] ELSE jobs[i]]
    IN  Append(marked, [of |-> x, gpus |-> S, entry |-> "TRAINING", box |-> "none", said |-> "nothing"])

\* complete_model_prep and complete_task: job i is over, but what is marked is
\* the job the trainer finds for that task, which may be another one.
Completed(i, entry) ==
    LET x == jobs[i].of
        tr == CHOOSE tr \in Trainers : On(i, tr)
        told == IF x \in Tasks THEN PrepJob(tr, x) ELSE i
        over == [jobs EXCEPT ![i].box = "gone", ![i].said = IF entry = "SUCCESS" THEN "result" ELSE "error"]
    IN  [over EXCEPT ![told].entry = entry]

\* The download is done and the container starts.
StartBox(i) ==
    /\ i \in DOMAIN jobs
    /\ jobs[i].box = "none"
    /\ jobs' = [jobs EXCEPT ![i].box = "up"]
    /\ UNCHANGED <<ledgerVars, status, cost, inProgress, cycle, coro, releases, train, faults>>

\* The container ends; the handler stores its result.
FinishJob(i) ==
    /\ i \in DOMAIN jobs
    /\ jobs[i].box = "up"
    /\ jobs' = Completed(i, "SUCCESS")
    /\ UNCHANGED <<ledgerVars, status, cost, inProgress, cycle, coro, releases, train, faults>>

\* The download or the container fails.
FailJob(i) ==
    /\ i \in DOMAIN jobs
    /\ jobs[i].box # "gone"
    /\ jobs' = Completed(i, "FAILURE")
    /\ Fault("failed")
    /\ UNCHANGED <<ledgerVars, status, cost, inProgress, cycle, coro, releases, train>>

\* The cleanup thread marks a preparation that takes longer than
\* MODEL_PREP_TIMEOUT_MINUTES; its container goes on.
MarkLate(i) ==
    /\ i \in DOMAIN jobs
    /\ jobs[i].of \in Tasks
    /\ jobs[i].entry = "TRAINING"
    /\ jobs' = [jobs EXCEPT ![i].entry = "FAILURE"]
    /\ Fault("late")
    /\ UNCHANGED <<ledgerVars, status, cost, inProgress, cycle, coro, releases, train>>

\* Mutant: the restart removes the containers and leaves the history alone.
RestartTrainerKeeps(tr) ==
    LET lost(j) == (\E g \in j.gpus : Home[g] = tr) /\ (j.of \in Tasks \/ j.box = "none")
    IN  /\ \E i \in DOMAIN jobs : lost(jobs[i]) /\ jobs[i].box # "gone"
        /\ jobs' = [i \in DOMAIN jobs |->
                      IF ~lost(jobs[i]) \/ jobs[i].box = "gone" THEN jobs[i]
                      ELSE [jobs[i] EXCEPT !.box = "gone", !.said = "error"]]
        /\ Fault("restart")
        /\ UNCHANGED <<ledgerVars, status, cost, inProgress, cycle, coro, releases, train>>

\* cleanup_orphaned_trainer_state: a preparation has no container name, so its
\* container is removed and its entry marked; so is a training job that has no
\* container yet.
RestartTrainer(tr) ==
    LET lost(j) == (\E g \in j.gpus : Home[g] = tr) /\ (j.of \in Tasks \/ j.box = "none")
    IN  /\ \E i \in DOMAIN jobs : lost(jobs[i]) /\ jobs[i].box # "gone"
        /\ jobs' = [i \in DOMAIN jobs |->
                      IF ~lost(jobs[i]) \/ jobs[i].box = "gone" THEN jobs[i]
                      ELSE [jobs[i] EXCEPT !.box = "gone", !.said = "error",
                                           !.entry = IF @ = "TRAINING" THEN "FAILURE" ELSE @]]
        /\ Fault("restart")
        /\ UNCHANGED <<ledgerVars, status, cost, inProgress, cycle, coro, releases, train>>

-----------------------------------------------------------------------------
(* The dispatch loop.  It works off the list it read at the start of the    *)
(* cycle, oldest task first; a task in progress is passed over without an   *)
(* await, so going on to the next task is part of the step before it.       *)

\* The loop at the oldest task of S that is not in progress, or asleep.
Turn(S) == LET rest == S \ inProgress'
               t == CHOOSE u \in rest : \A v \in rest : u <= v
           IN  IF rest = {} THEN Idle
               ELSE [at |-> "ask", task |-> t, left |-> {u \in S : u > t}, ask |-> Trainers, gpus |-> {}]

CycleList ==
    /\ cycle.at = "idle"
    /\ \E t \in Tasks : status[t] = "awaiting"
    /\ UNCHANGED inProgress
    /\ cycle' = Turn({t \in Tasks : status[t] = "awaiting"})
    /\ UNCHANGED <<ledgerVars, status, cost, coro, releases, train, jobs, faults>>

\* Mutant: only a finished preparation is recovered, a running one is not seen.
AskTrainerBlind(tr) ==
    LET t == cycle.task
        i == PrepJob(tr, t)
        entry == IF i = 0 THEN "none" ELSE jobs[i].entry
    IN  /\ cycle.at = "ask" /\ tr \in cycle.ask
        /\ cost' = IF entry \in {"SUCCESS", "FAILURE"} /\ cost[t] = "open"
                   THEN [cost EXCEPT ![t] = "closed"] ELSE cost
        /\ UNCHANGED inProgress
        /\ cycle' = IF entry = "SUCCESS" THEN [cycle EXCEPT !.at = "recovered", !.ask = {}]
                    ELSE [cycle EXCEPT !.ask = @ \ {tr}]
        /\ UNCHANGED <<ledgerVars, status, coro, releases, train, jobs, faults>>

\* One trainer of _recover_model_prep_from_trainer: a result closes the cost
\* run and will be written; a running job means the task is taken care of; a
\* failed one closes the cost run and the search goes on.
AskTrainer(tr) ==
    LET t == cycle.task
        i == PrepJob(tr, t)
        entry == IF i = 0 THEN "none" ELSE jobs[i].entry
    IN  /\ cycle.at = "ask" /\ tr \in cycle.ask
        /\ cost' = IF entry \in {"SUCCESS", "FAILURE"} /\ cost[t] = "open"
                   THEN [cost EXCEPT ![t] = "closed"] ELSE cost
        /\ UNCHANGED inProgress
        /\ cycle' = CASE entry = "SUCCESS" -> [cycle EXCEPT !.at = "recovered", !.ask = {}]
                      [] entry = "TRAINING" -> Turn(cycle.left)
                      [] OTHER -> [cycle EXCEPT !.ask = @ \ {tr}]
        /\ UNCHANGED <<ledgerVars, status, coro, releases, train, jobs, faults>>

\* A status query that fails counts as "no job there".
AskLost(tr) ==
    /\ cycle.at = "ask" /\ tr \in cycle.ask
    /\ cycle' = [cycle EXCEPT !.ask = @ \ {tr}]
    /\ Fault("lostQuery")
    /\ UNCHANGED <<ledgerVars, status, cost, inProgress, coro, releases, train, jobs>>

\* The status a preparation leads to: rejected for too many duplicates or a
\* measured time beyond the limit, else the search for miners.  update_task
\* writes it whatever the status is by now.
Verdicts == {"looking", "rejected"}

WriteRecovered ==
    /\ cycle.at = "recovered"
    /\ \E v \in Verdicts : status' = [status EXCEPT ![cycle.task] = v]
    /\ UNCHANGED inProgress
    /\ cycle' = Turn(cycle.left)
    /\ UNCHANGED <<ledgerVars, cost, coro, releases, train, jobs, faults>>

\* _check_suitable_gpus; without GPUs the task waits for the next cycle.
CheckGpus ==
    LET t == cycle.task
    IN  /\ cycle.at = "ask" /\ cycle.ask = {}
        /\ UNCHANGED inProgress
        /\ \/ \E S \in Suitable(Need[t]) : cycle' = [cycle EXCEPT !.at = "reserve", !.gpus = S]
           \/ Suitable(Need[t]) = {} /\ cycle' = Turn(cycle.left)
        /\ UNCHANGED <<ledgerVars, status, cost, coro, releases, train, jobs, faults>>

\* The reservation is written, then the coroutine is created.
Reserve ==
    LET t == cycle.task
    IN  /\ cycle.at = "reserve"
        /\ ledger' = Taken(cycle.gpus)
        /\ inProgress' = inProgress \cup {t}
        /\ coro' = [coro EXCEPT ![t] = [at |-> "cost", gpus |-> cycle.gpus, job |-> 0]]
        /\ cycle' = Turn(cycle.left)
        /\ UNCHANGED <<view, status, cost, releases, train, jobs, faults>>

-----------------------------------------------------------------------------
(* The coroutine of one preparation, _run_task_prep.                       *)

\* start_cost_run closes a run of the task that is still open.
OpenCost(t) ==
    /\ coro[t].at = "cost"
    /\ cost' = [cost EXCEPT ![t] = "open"]
    /\ coro' = [coro EXCEPT ![t].at = "post"]
    /\ UNCHANGED <<ledgerVars, status, inProgress, cycle, releases, train, jobs, faults>>

\* The POST reaches the trainer, which accepts it or answers 409.
PostPrep(t) ==
    /\ coro[t].at = "post"
    /\ \/ /\ Accepts(coro[t].gpus)
          /\ Len(jobs) < MaxJobs
          /\ jobs' = Started(t, coro[t].gpus)
          /\ coro' = [coro EXCEPT ![t].at = "wait", ![t].job = Len(jobs) + 1]
       \/ /\ ~Accepts(coro[t].gpus)
          /\ coro' = [coro EXCEPT ![t].at = "close"]
          /\ UNCHANGED jobs
    /\ UNCHANGED <<ledgerVars, status, cost, inProgress, cycle, releases, train, faults>>

\* The trainer answers with the result or with an error.
HearPrep(t) ==
    /\ coro[t].at = "wait"
    /\ jobs[coro[t].job].said # "nothing"
    /\ coro' = [coro EXCEPT ![t].at = IF jobs[coro[t].job].said = "result" THEN "ok" ELSE "close"]
    /\ UNCHANGED <<ledgerVars, status, cost, inProgress, cycle, releases, train, jobs, faults>>

\* The connection breaks or MODEL_PREP_TIMEOUT_SECONDS pass: the coroutine
\* sees None, the trainer's job goes on.
LosePost(t) ==
    /\ coro[t].at \in {"post", "wait"}
    /\ coro' = [coro EXCEPT ![t].at = "close"]
    /\ Fault("lostCall")
    /\ UNCHANGED <<ledgerVars, status, cost, inProgress, cycle, releases, train, jobs>>

WriteResult(t) ==
    /\ coro[t].at = "ok"
    /\ \E v \in Verdicts : status' = [status EXCEPT ![t] = v]
    /\ coro' = [coro EXCEPT ![t].at = "close"]
    /\ UNCHANGED <<ledgerVars, cost, inProgress, cycle, releases, train, jobs, faults>>

\* Mutant: the cost run is closed only when the preparation was rejected or done.
CloseCoroUnbilled(t) ==
    /\ coro[t].at = "close"
    /\ cost' = [cost EXCEPT ![t] = IF @ = "open" /\ status[t] # "awaiting" THEN "closed" ELSE @]
    /\ inProgress' = inProgress \ {t}
    /\ releases' = releases \cup {coro[t].gpus}
    /\ coro' = [coro EXCEPT ![t] = NoCoro]
    /\ UNCHANGED <<ledgerVars, status, cycle, train, jobs, faults>>

\* finally: the cost run is closed and the task leaves the set in progress ...
CloseCoro(t) ==
    /\ coro[t].at = "close"
    /\ cost' = [cost EXCEPT ![t] = IF @ = "open" THEN "closed" ELSE @]
    /\ inProgress' = inProgress \ {t}
    /\ releases' = releases \cup {coro[t].gpus}
    /\ coro' = [coro EXCEPT ![t] = NoCoro]
    /\ UNCHANGED <<ledgerVars, status, cycle, train, jobs, faults>>

\* ... and only then are its GPUs released, whoever the ledger says uses them.
Release(S) ==
    /\ S \in releases
    /\ ledger' = Freed(S)
    /\ releases' = releases \ {S}
    /\ UNCHANGED <<view, status, cost, inProgress, cycle, coro, train, jobs, faults>>

-----------------------------------------------------------------------------
(* The training scheduler, as far as it touches this state.                *)

TrainCheck(p) ==
    /\ train[p].at = "pending"
    /\ \E S \in Suitable(Need[p]) : train' = [train EXCEPT ![p] = [at |-> "post", gpus |-> S]]
    /\ UNCHANGED <<ledgerVars, status, cost, inProgress, cycle, coro, releases, jobs, faults>>

\* The POST comes first ...
TrainPost(p) ==
    /\ train[p].at = "post"
    /\ \/ /\ Accepts(train[p].gpus)
          /\ Len(jobs) < MaxJobs
          /\ jobs' = Started(p, train[p].gpus)
          /\ train' = [train EXCEPT ![p].at = "reserve"]
       \/ /\ ~Accepts(train[p].gpus)
          /\ train' = [train EXCEPT ![p] = Waiting]
          /\ UNCHANGED jobs
    /\ UNCHANGED <<ledgerVars, status, cost, inProgress, cycle, coro, releases, faults>>

\* ... and the reservation after the row is TRAINING.
TrainReserve(p) ==
    /\ train[p].at = "reserve"
    /\ ledger' = Taken(train[p].gpus)
    /\ train' = [train EXCEPT ![p].at = "done"]
    /\ UNCHANGED <<view, status, cost, inProgress, cycle, coro, releases, jobs, faults>>

\* The validator restarts: every coroutine and _model_prep_in_progress are gone.
CrashValidator ==
    /\ \/ cycle # Idle \/ releases # {}
       \/ \E t \in Tasks : coro[t] # NoCoro
       \/ \E p \in Pairs : train[p].at \in {"post", "reserve"}
    /\ cycle' = Idle
    /\ inProgress' = {}
    /\ coro' = [t \in Tasks |-> NoCoro]
    /\ releases' = {}
    /\ train' = [p \in Pairs |-> IF train[p].at = "post" THEN Waiting
                                 ELSE IF train[p].at = "reserve" THEN [train[p] EXCEPT !.at = "done"]
                                 ELSE train[p]]
    /\ view' = [r \in Refreshers |-> NoView]
    /\ Fault("crash")
    /\ UNCHANGED <<ledger, status, cost, jobs>>

-----------------------------------------------------------------------------
Refresh(r) ==
    /\ \/ BeginRefresh(r)
       \/ \E tr \in Trainers : RefreshTrainer(r, tr, Occupied)
    /\ UNCHANGED prepVars

RefreshFails(r) ==
    /\ \E tr \in Trainers : Unreachable(r, tr)
    /\ Fault("unreachable")
    /\ UNCHANGED <<status, cost, inProgress, cycle, coro, releases, train, jobs>>

Tick(g) == Age(g) /\ UNCHANGED prepVars

Loop == CycleList \/ (\E tr \in Trainers : AskTrainer(tr)) \/ WriteRecovered \/ CheckGpus \/ Reserve
Coroutine(t) == OpenCost(t) \/ PostPrep(t) \/ HearPrep(t) \/ WriteResult(t) \/ CloseCoro(t)
Releasing == \E S \in releases : Release(S)
Training(p) == TrainCheck(p) \/ TrainPost(p) \/ TrainReserve(p)
Job(i) == StartBox(i) \/ FinishJob(i)
Failures ==
    \/ \E i \in DOMAIN jobs : FailJob(i) \/ MarkLate(i)
    \/ \E tr \in Trainers : RestartTrainer(tr) \/ AskLost(tr)
    \/ \E t \in Tasks : LosePost(t)
    \/ \E r \in Refreshers : RefreshFails(r)
    \/ CrashValidator

Next ==
    \/ Loop
    \/ \E t \in Tasks : Coroutine(t)
    \/ Releasing
    \/ \E p \in Pairs : Training(p)
    \/ \E i \in DOMAIN jobs : Job(i)
    \/ \E r \in Refreshers : Refresh(r)
    \/ \E g \in Gpus : Tick(g)
    \/ Failures

Spec == Init /\ [][Next]_vars

\* The loops and coroutines run on; jobs end; reservations expire.  Nothing is
\* assumed of the refresh or of the training side beyond its jobs ending.
FairSpec ==
    /\ Spec
    /\ WF_vars(Loop)
    /\ \A t \in Tasks : WF_vars(Coroutine(t))
    /\ WF_vars(Releasing)
    /\ WF_vars(\E i \in DOMAIN jobs : Job(i))
    /\ WF_vars(\E g \in Gpus : Tick(g))

-----------------------------------------------------------------------------
(* What makes it correct.                                                  *)

Alive(i) == jobs[i].box # "gone"

\* No single failure makes the trainers prepare one task twice at a time: not
\* a restart of the validator, which forgets _model_prep_in_progress, nor a
\* lost connection, because the recovery asks the trainers first.
OnePreparation ==
    AllFaults <= 1 =>
        \A i, j \in DOMAIN jobs :
            jobs[i].of \in Tasks /\ jobs[i].of = jobs[j].of /\ Alive(i) /\ Alive(j) => i = j

\* No two containers share a GPU after at most one failure, although the
\* ledger is read, used and written at different moments by the dispatch loop,
\* the training scheduler, the releases and the refresh.  (A preparation marked
\* late before its container starts is the failure that breaks this.)
GpusExclusive ==
    AllFaults <= 1 /\ faults["late"] = 0 =>
        \A i, j \in DOMAIN jobs :
            i # j /\ jobs[i].box = "up" /\ jobs[j].box = "up" => jobs[i].gpus \cap jobs[j].gpus = {}

\* While a coroutine waits for its preparation the cost run is open; it stays
\* open without a coroutine only when the validator was restarted.
CostFollowsRun ==
    \A t \in Tasks :
        /\ coro[t].at \in {"post", "wait", "ok"} => cost[t] = "open"
        /\ cost[t] = "open" => coro[t] # NoCoro \/ faults["crash"] > 0

\* Every task that awaits its preparation gets it or is rejected.
EventuallyPrepared == \A t \in Tasks : <>(status[t] # "awaiting")
=============================================================================
