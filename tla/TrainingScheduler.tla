-------------------------- MODULE TrainingScheduler --------------------------
(***************************************************************************)
(* The tournament orchestrator's training pipeline                         *)
(* (validator/tournament/orchestrator.py) with the table                   *)
(* tournament_task_hotkey_trainings and the trainers it calls over HTTP.   *)
(*                                                                         *)
(* Three coroutines of one process share the table: the fetcher inserts    *)
(* rows, the scheduler reads the pending rows ONCE and then works through  *)
(* that in-memory list, and the monitor reads the rows in training once    *)
(* and then asks the trainers about each of them.  Every await is a place  *)
(* where the others run, so a list, a reply or a request in flight is a    *)
(* variable here.  A trainer is its job table; TrainerJobs details it.     *)
(***************************************************************************)
EXTENDS Naturals, FiniteSets

CONSTANTS
  Pairs,        (* the (task, hotkey) pairs                                *)
  HasRepo,      (* the pairs whose training_repo is not NULL               *)
  Priority,     (* priority of a pair: 1 organic, 2 tournament, 3 benchmark*)
  Created,      (* creation time of the pair's task                        *)
  Trainers,
  NoTrainer,
  NoPair,
  Slots,        (* jobs a trainer has GPUs for                             *)
  MaxAttempts,  (* MAX_TRAINING_ATTEMPTS                                   *)
  PostTries,    (* requests simple_retry makes before it reraises          *)
  MaxFaults     (* bound: calls lost and process restarts in a behaviour   *)

ASSUME SchedulerAssumption ==
  /\ HasRepo \subseteq Pairs
  /\ NoPair \notin Pairs
  /\ NoTrainer \notin Trainers
  /\ Priority \in [Pairs -> 1..3]
  /\ Created \in [Pairs -> Nat]
  /\ MaxAttempts \in Nat \ {0}
  /\ PostTries \in Nat \ {0}
  /\ Slots \in Nat \ {0}
  /\ MaxFaults \in Nat

VARIABLES
  \* the table
  status,       (* training_status, "none" while there is no row           *)
  attempts,     (* n_training_attempts                                     *)
  trainerIp,    (* trainer_ip                                              *)
  \* the scheduler coroutine
  spc,          (* "idle", "head" of the list, "post"ing, to "record"      *)
  queue,        (* rows still in its list, read when the batch was fetched *)
  seen,         (* n_training_attempts as the list remembers them          *)
  current,      (* the row it is retrying, NoPair before the first try     *)
  target,       (* trainer chosen for the current row                      *)
  tries,        (* requests made in the current call                       *)
  \* the monitor coroutine
  batch,        (* rows read in training and not yet asked about           *)
  reply,        (* answer about a row on its way to the table              *)
  \* the trainers
  job,          (* state of the pair's job on each trainer                 *)
  \* history
  starts,       (* jobs the trainers accepted for the pair                 *)
  faults        (* calls lost and restarts so far                          *)

table   == <<status, attempts, trainerIp>>
sched   == <<spc, queue, seen, current, target, tries>>
monitor == <<batch, reply>>
vars    == <<table, sched, monitor, job, starts, faults>>

(***************************************************************************)
(* A job is "closing" when the history already says FAILURE while its      *)
(* background task still cleans up, or still uploads: the cleanup thread   *)
(* has marked it late, and its own last word may yet be SUCCESS.           *)
(***************************************************************************)
JobStates == {"none", "training", "closing", "failure", "success"}
Running   == {"training", "closing"}

\* What get_task_details answers: a 404 for an unknown job leaves the
\* monitor without a response.
Report(j) ==
  IF j = "none" THEN "silent" ELSE IF j = "closing" THEN "failure" ELSE j

NoReply == [pair |-> NoPair, says |-> "silent"]

FreeSlots(t) == Slots > Cardinality({p \in Pairs : job[t][p] = "training"})

\* start_training answers 409 while the pair's background task runs, while
\* the history says TRAINING, or when the GPUs are taken.
Accepts(t, p) == job[t][p] \notin Running /\ FreeSlots(t)

(***************************************************************************)
(* get_tournament_training_tasks: ORDER BY priority ASC, created_at DESC.  *)
(***************************************************************************)
ListedBefore(p, q) ==
  \/ Priority[p] < Priority[q]
  \/ Priority[p] = Priority[q] /\ Created[p] > Created[q]

\* schedule_tasks_for_training works on the LAST element of its list.
AtHead(p) ==
  /\ spc = "head"
  /\ p \in queue
  /\ current \in {NoPair, p}
  /\ current = NoPair => \A q \in queue : ~ListedBefore(p, q)

\* Mutant of Pop: the row stays in the list (no tasks.pop).
PopKeepsRow(p) ==
  /\ spc' = "head"
  /\ current' = NoPair
  /\ target' = NoTrainer
  /\ tries' = 0
  /\ UNCHANGED queue

Pop(p) ==
  /\ queue' = queue \ {p}
  /\ spc' = IF queue = {p} THEN "idle" ELSE "head"
  /\ current' = NoPair
  /\ target' = NoTrainer
  /\ tries' = 0

Fault == faults < MaxFaults /\ faults' = faults + 1

-----------------------------------------------------------------------------
Init ==
  /\ status = [p \in Pairs |-> "none"]
  /\ attempts = [p \in Pairs |-> 0]
  /\ trainerIp = [p \in Pairs |-> NoTrainer]
  /\ spc = "idle" /\ queue = {} /\ seen = [p \in Pairs |-> 0]
  /\ current = NoPair /\ target = NoTrainer /\ tries = 0
  /\ batch = {} /\ reply = NoReply
  /\ job = [t \in Trainers |-> [p \in Pairs |-> "none"]]
  /\ starts = [p \in Pairs |-> 0]
  /\ faults = 0

\* One transaction inserts the pairs of a cycle, ON CONFLICT DO NOTHING.
AddPairs(S) ==
  /\ S # {}
  /\ \A p \in S : status[p] = "none"
  /\ status' = [p \in Pairs |-> IF p \in S THEN "pending" ELSE status[p]]
  /\ UNCHANGED <<attempts, trainerIp, sched, monitor, job, starts, faults>>

(***************************************************************************)
(* The scheduler                                                           *)
(***************************************************************************)
FetchPending ==
  /\ spc = "idle"
  /\ queue' = {p \in Pairs : status[p] = "pending"}
  /\ queue' # {}
  /\ seen' = attempts
  /\ spc' = "head"
  /\ UNCHANGED <<table, current, target, tries, monitor, job, starts, faults>>

Spent(p) == seen[p] >= MaxAttempts \/ p \notin HasRepo

GiveUp(p) ==
  /\ AtHead(p) /\ Spent(p)
  /\ status' = [status EXCEPT ![p] = "failure"]
  /\ Pop(p)
  /\ UNCHANGED <<attempts, trainerIp, seen, monitor, job, starts, faults>>

\* _check_suitable_gpus found nothing (the ledger may also hold back GPUs
\* that are free): the row waits for the next cycle.
SetAside(p) ==
  /\ AtHead(p) /\ ~Spent(p)
  /\ Pop(p)
  /\ UNCHANGED <<table, seen, monitor, job, starts, faults>>

\* The refresh just before the choice marks GPUs a trainer reports busy.
Select(p, t) ==
  /\ AtHead(p) /\ ~Spent(p)
  /\ FreeSlots(t)
  /\ spc' = "post" /\ current' = p /\ target' = t /\ tries' = 1
  /\ UNCHANGED <<table, queue, seen, monitor, job, starts, faults>>

\* simple_retry repeats the request to the same trainer; then the exception
\* reaches the loop, which keeps the row and chooses a trainer again.
Retry ==
  /\ IF tries < PostTries
       THEN tries' = tries + 1 /\ UNCHANGED <<spc, target>>
       ELSE tries' = 0 /\ spc' = "head" /\ target' = NoTrainer
  /\ UNCHANGED <<queue, seen, current>>

AcceptJob ==
  /\ Accepts(target, current)
  /\ job' = [job EXCEPT ![target][current] = "training"]
  /\ starts' = [starts EXCEPT ![current] = @ + 1]

PostAccepted ==
  /\ spc = "post"
  /\ AcceptJob
  /\ spc' = "record"
  /\ UNCHANGED <<table, queue, seen, current, target, tries, monitor, faults>>

\* The trainer took the job and its answer never came back.
PostAnswerLost ==
  /\ spc = "post"
  /\ AcceptJob
  /\ Fault
  /\ Retry
  /\ UNCHANGED <<table, monitor>>

PostRefused ==
  /\ spc = "post"
  /\ ~Accepts(target, current)
  /\ Retry
  /\ UNCHANGED <<table, monitor, job, starts, faults>>

PostLost ==
  /\ spc = "post"
  /\ Fault
  /\ Retry
  /\ UNCHANGED <<table, monitor, job, starts>>

\* Mutant of Record: the attempt is not counted.
RecordUncounted ==
  /\ spc = "record"
  /\ status' = [status EXCEPT ![current] = "training"]
  /\ trainerIp' = [trainerIp EXCEPT ![current] = target]
  /\ Pop(current)
  /\ UNCHANGED <<attempts, seen, monitor, job, starts, faults>>

Record ==
  /\ spc = "record"
  /\ status' = [status EXCEPT ![current] = "training"]
  /\ attempts' = [attempts EXCEPT ![current] = @ + 1]
  /\ trainerIp' = [trainerIp EXCEPT ![current] = target]
  /\ Pop(current)
  /\ UNCHANGED <<seen, monitor, job, starts, faults>>

(***************************************************************************)
(* The monitor                                                             *)
(***************************************************************************)
FetchTraining ==
  /\ batch = {} /\ reply = NoReply
  /\ batch' = {p \in Pairs : status[p] = "training"}
  /\ batch' # {}
  /\ UNCHANGED <<table, sched, reply, job, starts, faults>>

Ask(p) ==
  /\ p \in batch /\ reply = NoReply
  /\ batch' = batch \ {p}
  /\ reply' = [pair |-> p, says |-> Report(job[trainerIp[p]][p])]
  /\ UNCHANGED <<table, sched, job, starts, faults>>

\* The trainer does not answer, or answers with an error, three times; or it
\* answers 404 or FAILURE from a history list that another thread is just
\* reloading (see TrainerJobs).
AskLost(p) ==
  /\ p \in batch /\ reply = NoReply
  /\ Fault
  /\ batch' = batch \ {p}
  /\ \E s \in {"silent", "failure"} : reply' = [pair |-> p, says |-> s]
  /\ UNCHANGED <<table, sched, job, starts>>

\* Mutants of Outcome: no answer counts as success; every job that has not
\* succeeded is queued again; a failure is left alone.
OutcomeOptimistic(says) == IF says \in {"success", "silent"} THEN "success" ELSE IF says = "failure" THEN "pending" ELSE says
OutcomeImpatient(says) == IF says = "success" THEN "success" ELSE "pending"
OutcomeBlind(says) == IF says = "success" THEN "success" ELSE "training"

\* SUCCESS is final; a failed or lost job goes back to the queue; a job
\* that still trains is left alone.
Outcome(says) == IF says \in {"success", "training"} THEN says ELSE "pending"

Apply ==
  /\ reply # NoReply
  /\ IF Outcome(reply.says) = "training"
       THEN UNCHANGED status
       ELSE status' = [status EXCEPT ![reply.pair] = Outcome(reply.says)]
  /\ reply' = NoReply
  /\ UNCHANGED <<attempts, trainerIp, sched, batch, job, starts, faults>>

\* The process is killed and started again: its lists are gone.
Restart ==
  /\ Fault
  /\ spc' = "idle" /\ queue' = {} /\ current' = NoPair
  /\ target' = NoTrainer /\ tries' = 0
  /\ batch' = {} /\ reply' = NoReply
  /\ UNCHANGED <<table, seen, job, starts>>

(***************************************************************************)
(* The trainers                                                            *)
(***************************************************************************)
JobEnds(t, p) ==
  /\ job[t][p] = "training"
  /\ \E j \in {"success", "closing"} : job' = [job EXCEPT ![t][p] = j]
  /\ UNCHANGED <<table, sched, monitor, starts, faults>>

JobCloses(t, p) ==
  /\ job[t][p] = "closing"
  /\ \E j \in {"success", "failure"} : job' = [job EXCEPT ![t][p] = j]
  /\ UNCHANGED <<table, sched, monitor, starts, faults>>

-----------------------------------------------------------------------------
Post == PostAccepted \/ PostAnswerLost \/ PostRefused \/ PostLost

SchedulerNext ==
  \/ FetchPending
  \/ \E p \in Pairs : GiveUp(p) \/ SetAside(p)
  \/ \E p \in Pairs, t \in Trainers : Select(p, t)
  \/ Post
  \/ Record

MonitorNext ==
  \/ FetchTraining
  \/ \E p \in Pairs : Ask(p) \/ AskLost(p)
  \/ Apply

TrainerNext == \E t \in Trainers, p \in Pairs : JobEnds(t, p) \/ JobCloses(t, p)

Next ==
  \/ \E S \in SUBSET Pairs : AddPairs(S)
  \/ SchedulerNext
  \/ MonitorNext
  \/ TrainerNext
  \/ Restart

Spec == Init /\ [][Next]_vars

(***************************************************************************)
(* The coroutines loop for ever and the trainers end every job (the        *)
(* container is killed at hours_to_complete).  Choosing a trainer needs    *)
(* strong fairness: SetAside may win for a while, but the refresh every    *)
(* minute returns free GPUs to the ledger, so a trainer that is free again *)
(* and again is found in the end.                                          *)
(***************************************************************************)
Fairness ==
  /\ WF_vars(FetchPending)
  /\ \A p \in Pairs :
       /\ WF_vars(GiveUp(p) \/ SetAside(p))
       /\ SF_vars(\E t \in Trainers : Select(p, t))
  /\ WF_vars(PostAccepted \/ PostRefused)
  /\ WF_vars(Record)
  /\ WF_vars(MonitorNext)
  /\ \A t \in Trainers, p \in Pairs : WF_vars(JobEnds(t, p) \/ JobCloses(t, p))

FairSpec == Spec /\ Fairness

-----------------------------------------------------------------------------
TypeOK ==
  /\ status \in [Pairs -> {"none", "pending", "training", "success", "failure"}]
  /\ attempts \in [Pairs -> Nat]
  /\ trainerIp \in [Pairs -> Trainers \cup {NoTrainer}]
  /\ spc \in {"idle", "head", "post", "record"}
  /\ queue \subseteq Pairs
  /\ seen \in [Pairs -> Nat]
  /\ current \in Pairs \cup {NoPair}
  /\ target \in Trainers \cup {NoTrainer}
  /\ tries \in Nat
  /\ batch \subseteq Pairs
  /\ reply \in [pair : Pairs \cup {NoPair},
                says : {"silent", "training", "failure", "success"}]
  /\ job \in [Trainers -> [Pairs -> JobStates]]
  /\ starts \in [Pairs -> Nat]
  /\ faults \in Nat

\* The in-memory lists never go stale: a row the scheduler still holds is
\* pending with the attempts it remembers, and a row the monitor holds (in
\* its list or with an answer on the way) is still in training.  Both
\* coroutines write the table without looking at it again.
ListsAreCurrent ==
  /\ \A p \in queue : status[p] = "pending" /\ seen[p] = attempts[p]
  /\ \A p \in batch : status[p] = "training"
  /\ reply.pair # NoPair => status[reply.pair] = "training"

\* A pair is never started more often than MAX_TRAINING_ATTEMPTS allows as
\* the table counts, although the check reads a remembered count.
AttemptsBounded == \A p \in Pairs : attempts[p] <= MaxAttempts

\* Every attempt the table counts is a job a trainer accepted, and the only
\* jobs it does not count are the one being recorded and those whose answer
\* was lost (or whose recording a restart cut off).
Unrecorded(p) == IF spc = "record" /\ current = p THEN 1 ELSE 0

AttemptsAreStarts ==
  \A p \in Pairs :
    /\ attempts[p] + Unrecorded(p) <= starts[p]
    /\ starts[p] <= attempts[p] + Unrecorded(p) + faults

\* A pair counts as trained only if the trainer on record finished its job.
SuccessIsEarned ==
  \A p \in Pairs : status[p] = "success" =>
    trainerIp[p] \in Trainers /\ job[trainerIp[p]][p] = "success"

\* As long as no call was lost and the process was not restarted, no two
\* trainers hold a pair in status TRAINING, and its row says which one does.
OneRunWithoutFaults ==
  faults = 0 =>
    \A p \in Pairs, t \in Trainers : job[t][p] = "training" =>
      \/ status[p] = "training" /\ trainerIp[p] = t
      \/ spc = "record" /\ current = p /\ target = t

\* A decided pair stays decided: no late answer, retry or restart reopens it.
DecidedIsFinal ==
  [][\A p \in Pairs : status[p] \in {"success", "failure"} =>
       status'[p] = status[p]]_vars

\* Every queued pair is decided in the end: no lost call, refusal or retry
\* loop on another row keeps it undecided for ever.
EventuallyDecided ==
  \A p \in Pairs : status[p] = "pending" ~> status[p] \in {"success", "failure"}

\* The table, seen alone, behaves as PairLifecycle.
Lifecycle == INSTANCE PairLifecycle WITH
               Pairs <- Pairs, HasRepo <- HasRepo, MaxAttempts <- MaxAttempts,
               status <- status, attempts <- attempts
LifecycleSpec == Lifecycle!Spec

-----------------------------------------------------------------------------
(***************************************************************************)
(* What the invariants above need to be inductive: where the scheduler     *)
(* stands in its list, what the answer on its way says about the row it    *)
(* will be written to, and which trainer a row points to.                  *)
(***************************************************************************)
SchedulerShape ==
  /\ spc = "idle" => queue = {} /\ current = NoPair
  /\ current # NoPair => current \in queue /\ ~Spent(current)
  /\ spc \in {"post", "record"} => current # NoPair /\ target \in Trainers
  /\ spc = "record" => job[target][current] # "none"

MonitorShape ==
  /\ reply.pair \notin batch
  /\ reply.pair = NoPair => reply.says = "silent"
  /\ reply.pair # NoPair =>
       LET p == reply.pair IN
         /\ reply.says = "success" => job[trainerIp[p]][p] = "success"
         /\ reply.says = "failure" =>
              job[trainerIp[p]][p] # "training" \/ faults > 0
         /\ reply.says = "silent" => faults > 0

RowsKnowTheirTrainer ==
  \A p \in Pairs : status[p] \in {"training", "success"} =>
    trainerIp[p] \in Trainers /\ job[trainerIp[p]][p] # "none"

IInv ==
  /\ TypeOK
  /\ SchedulerShape
  /\ MonitorShape
  /\ RowsKnowTheirTrainer
  /\ ListsAreCurrent
  /\ AttemptsBounded
  /\ AttemptsAreStarts
  /\ SuccessIsEarned
  /\ OneRunWithoutFaults

=============================================================================
