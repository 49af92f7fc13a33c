---------------------------- MODULE TrainerJobs ----------------------------
(***************************************************************************)
(* One trainer (trainer/endpoints.py, job_state.py, cleanup.py,            *)
(* runtime.py, asgi.py): its job history, kept as a list in memory and as  *)
(* a JSON file, the background task that runs a job, and its containers.   *)
(*                                                                         *)
(* Three threads work on the history.  The event loop changes it under     *)
(* _task_lock, each time by load, edit, dump, write.  Every GPU poll loads *)
(* it in a worker thread, without the lock.  The cleanup thread marks late *)
(* jobs and saves, without the lock.  A load empties the shared list and   *)
(* fills it again; the threads can change places between any two of these  *)
(* steps.  Only training jobs are here; model preparation keeps its own    *)
(* entries in the same file.                                               *)
(***************************************************************************)
EXTENDS Naturals, Sequences, FiniteSets

CONSTANTS
  Keys,         (* (task_id, hotkey) of a training job                     *)
  Gpus,
  MaxRuns,      (* bound: requests accepted in a behaviour                 *)
  MaxPolls,     (* bound: GPU polls that overlap another thread's steps    *)
  MaxRestarts   (* bound: restarts of the trainer process                  *)

ASSUME TrainerAssumption ==
  /\ Keys # {} /\ Gpus # {}
  /\ MaxRuns \in Nat /\ MaxPolls \in Nat /\ MaxRestarts \in Nat

VARIABLES
  file,         (* task_history.json                                       *)
  mem,          (* task_history                                            *)
  holder,       (* the operation that holds _task_lock, and its next step  *)
  buf,          (* what that operation has serialized and will write       *)
  poll,         (* the GPU poll: next step, and what it read               *)
  sweep,        (* the cleanup thread: next step, and what it will write   *)
  run,          (* the background task of each key                         *)
  containers,   (* training containers that docker reports running         *)
  uploaded,     (* history: keys whose checkpoint has been uploaded        *)
  runs,         (* requests accepted so far; the last one's number         *)
  polls, restarts

store   == <<file, mem>>
lock    == <<holder, buf>>
threads == <<poll, polls, sweep>>
jobs    == <<run, containers, uploaded, runs>>
vars    == <<store, lock, threads, jobs, restarts>>

(***************************************************************************)
(* An entry names its container ("container", 0 before it is known; a      *)
(* reused entry keeps the old name) and what its started_at dates from:    *)
(* the acceptance of the job or the start of its container.                *)
(***************************************************************************)
Entry == [key : Keys, gpu : Gpus, status : {"training", "success", "failure"},
          since : {"accept", "container"}, container : 0..MaxRuns]

Free == [op |-> "none"]
Idle == [pc |-> "idle", data |-> <<>>]
NoRun == [phase |-> "none"]

\* get_task: the first entry of the key.
Has(list, k) == \E i \in DOMAIN list : list[i].key = k

IsFirst(list, i, k) ==
  list[i].key = k /\ \A j \in 1..(i - 1) : list[j].key # k

FirstHas(list, k, status) ==
  \E i \in DOMAIN list : IsFirst(list, i, k) /\ list[i].status = status

Training(list)    == {i \in DOMAIN list : list[i].status = "training"}
Active(k)         == run[k].phase # "none"

\* Mutant of Late: only jobs whose container never started are timed out.
LateBeforeStart(e) == e.since = "accept"

\* The stale-timeout of the cleanup thread: hours_to_complete plus ten
\* minutes after started_at.  container.wait itself lasts hours_to_complete
\* at most, so a job dated from its container is not late while it waits.
Late(e) ==
  ~ /\ e.since = "container" /\ run[e.key].phase \in {"clock", "wait"}
    /\ e.container = run[e.key].id

Init ==
  /\ file = <<>> /\ mem = <<>>
  /\ holder = Free /\ buf = <<>>
  /\ poll = Idle /\ polls = 0 /\ sweep = Idle
  /\ run = [k \in Keys |-> NoRun]
  /\ containers = {} /\ uploaded = {} /\ runs = 0
  /\ restarts = 0

-----------------------------------------------------------------------------
(***************************************************************************)
(* start_training.  The lock is taken and the history loaded when the GPU  *)
(* check begins; the check reads the list again after the load.            *)
(***************************************************************************)
StartRequest(k, g) ==
  /\ holder = Free /\ ~Active(k) /\ runs < MaxRuns
  /\ mem' = file
  /\ holder' = [op |-> "start", key |-> k, gpu |-> g, pc |-> "check"]
  /\ UNCHANGED <<file, buf, threads, jobs, restarts>>

\* Docker's answer counts only if it comes: an exception reads as "none busy".
GpuBusy(g, dockerAnswers) ==
  \/ \E i \in Training(mem) : mem[i].gpu = g
  \/ dockerAnswers /\ \E c \in containers : c.gpu = g

CheckGpus ==
  /\ holder.op = "start" /\ holder.pc = "check"
  /\ \E dockerAnswers \in BOOLEAN :
       IF GpuBusy(holder.gpu, dockerAnswers)
         THEN holder' = Free /\ UNCHANGED mem
         ELSE holder' = [holder EXCEPT !.pc = "edit"] /\ mem' = file
  /\ UNCHANGED <<file, buf, threads, jobs, restarts>>

Accepted(list) ==
  LET k == holder.key IN
  IF Has(list, k)
    THEN [i \in DOMAIN list |->
            IF IsFirst(list, i, k)
              THEN [list[i] EXCEPT !.status = "training", !.since = "accept",
                                   !.gpu = holder.gpu]
              ELSE list[i]]
    ELSE Append(list, [key |-> k, gpu |-> holder.gpu, status |-> "training",
                       since |-> "accept", container |-> 0])

EditStart ==
  /\ holder.op = "start" /\ holder.pc = "edit"
  /\ IF FirstHas(mem, holder.key, "training")
       THEN holder' = Free /\ UNCHANGED mem
       ELSE holder' = [holder EXCEPT !.pc = "dump"] /\ mem' = Accepted(mem)
  /\ UNCHANGED <<file, buf, threads, jobs, restarts>>

Dump ==
  /\ holder.op # "none" /\ holder.pc = "dump"
  /\ buf' = mem
  /\ holder' = [holder EXCEPT !.pc = "write"]
  /\ UNCHANGED <<store, threads, jobs, restarts>>

WriteStart ==
  /\ holder.op = "start" /\ holder.pc = "write"
  /\ file' = buf /\ buf' = <<>> /\ holder' = Free
  /\ runs' = runs + 1
  /\ run' = [run EXCEPT ![holder.key] =
       [phase |-> "stage", ok |-> FALSE, gpu |-> holder.gpu, id |-> runs + 1]]
  /\ UNCHANGED <<mem, threads, containers, uploaded, restarts>>

(***************************************************************************)
(* The updates a background task makes: complete_task,                     *)
(* update_container_name, update_training_started_at.                      *)
(***************************************************************************)
Updates == {"failed", "name", "clock", "report"}

\* The phase that follows once the update of a phase is made.
Following == [failed |-> "finish", name |-> "clock", clock |-> "wait", report |-> "none"]

Proceed(k) ==
  IF run[k].phase = "report" THEN NoRun
    ELSE [run[k] EXCEPT !.phase = Following[@]]

BeginUpdate(k) ==
  /\ holder = Free /\ run[k].phase \in Updates
  /\ mem' = file
  /\ holder' = [op |-> run[k].phase, key |-> k, pc |-> "edit"]
  /\ UNCHANGED <<file, buf, threads, jobs, restarts>>

Updated(e, r) ==
  IF r.phase = "name" THEN [e EXCEPT !.container = r.id]
  ELSE IF r.phase = "clock" THEN [e EXCEPT !.since = "container"]
  ELSE [e EXCEPT !.status = IF r.phase = "report" /\ r.ok THEN "success" ELSE "failure"]

\* An update is dropped when the list in memory does not hold the entry, and
\* started_at is not refreshed once the job is no longer TRAINING.
Dropped(k) ==
  \/ ~Has(mem, k)
  \/ run[k].phase = "clock" /\ ~FirstHas(mem, k, "training")

EditUpdate ==
  /\ holder.op \in Updates /\ holder.pc = "edit"
  /\ LET k == holder.key IN
       IF Dropped(k)
         THEN /\ holder' = Free /\ run' = [run EXCEPT ![k] = Proceed(k)]
              /\ UNCHANGED mem
         ELSE /\ mem' = [i \in DOMAIN mem |->
                   IF IsFirst(mem, i, k) THEN Updated(mem[i], run[k]) ELSE mem[i]]
              /\ holder' = [holder EXCEPT !.pc = "dump"]
              /\ UNCHANGED run
  /\ UNCHANGED <<file, buf, threads, containers, uploaded, runs, restarts>>

WriteUpdate ==
  /\ holder.op \in Updates /\ holder.pc = "write"
  /\ file' = buf /\ buf' = <<>> /\ holder' = Free
  /\ run' = [run EXCEPT ![holder.key] = Proceed(holder.key)]
  /\ UNCHANGED <<mem, threads, containers, uploaded, runs, restarts>>

\* log_task, called before, during and after the steps that take long: the
\* message is left out, the load and the save of the whole history are not.
BeginLog(k) ==
  /\ holder = Free /\ run[k].phase \in {"stage", "wait", "finish"}
  /\ mem' = file
  /\ holder' = IF Has(file, k) THEN [op |-> "log", key |-> k, pc |-> "dump"] ELSE Free
  /\ UNCHANGED <<file, buf, threads, jobs, restarts>>

WriteLog ==
  /\ holder.op = "log" /\ holder.pc = "write"
  /\ file' = buf /\ buf' = <<>> /\ holder' = Free
  /\ UNCHANGED <<mem, threads, jobs, restarts>>

-----------------------------------------------------------------------------
(***************************************************************************)
(* The background task: clone, download and build ("stage"), start of the  *)
(* container, container.wait, then removal and upload ("finish").          *)
(***************************************************************************)
Container(k) == [id |-> run[k].id, key |-> k, gpu |-> run[k].gpu]

Goes(k, phase, ok) == run' = [run EXCEPT ![k] = [@ EXCEPT !.phase = phase, !.ok = ok]]

\* A failed clone ends the task after its report; any other failure goes
\* through the final cleanup, which reports a second time.
StageFails(k) ==
  /\ run[k].phase = "stage"
  /\ \E next \in {"report", "failed"} : Goes(k, next, FALSE)
  /\ UNCHANGED <<store, lock, threads, containers, uploaded, runs, restarts>>

\* asyncio.wait_for gives up on containers.run after a minute; the thread
\* behind it does not, and its container runs with nobody waiting for it.
ContainerStarts(k) ==
  /\ run[k].phase = "stage"
  /\ containers' = containers \cup {Container(k)}
  /\ Goes(k, "name", FALSE) \/ Goes(k, "failed", FALSE)
  /\ UNCHANGED <<store, lock, threads, uploaded, runs, restarts>>

\* Mutant of WaitEnds: a timeout is reported as success at once, before the
\* upload.
WaitEndsEarly(k) ==
  /\ run[k].phase = "wait"
  /\ \/ Goes(k, "finish", TRUE) /\ containers' = containers \ {Container(k)}
     \/ Goes(k, "failed", FALSE) /\ containers' = containers \ {Container(k)}
     \/ Goes(k, "report", TRUE) /\ UNCHANGED containers
  /\ UNCHANGED <<store, lock, threads, uploaded, runs, restarts>>

\* container.wait returns, or its timeout passes with the container running;
\* a timeout counts as success.
WaitEnds(k) ==
  /\ run[k].phase = "wait"
  /\ \/ Goes(k, "finish", TRUE) /\ containers' = containers \ {Container(k)}
     \/ Goes(k, "failed", FALSE) /\ containers' = containers \ {Container(k)}
     \/ Goes(k, "finish", TRUE) /\ UNCHANGED containers
  /\ UNCHANGED <<store, lock, threads, uploaded, runs, restarts>>

\* The container is killed and removed (which may fail), then a successful
\* job is uploaded; the upload may fail too.
Finish(k) ==
  /\ run[k].phase = "finish"
  /\ containers' \in {containers, containers \ {Container(k)}}
  /\ \/ run[k].ok /\ uploaded' = uploaded \cup {k} /\ Goes(k, "report", TRUE)
     \/ UNCHANGED uploaded /\ Goes(k, "report", FALSE)
  /\ UNCHANGED <<store, lock, threads, runs, restarts>>

\* A container nobody waits for ends by itself.
Supervised(c) == Active(c.key) /\ run[c.key].id = c.id

ContainerExits(c) ==
  /\ c \in containers /\ ~Supervised(c)
  /\ containers' = containers \ {c}
  /\ UNCHANGED <<store, lock, threads, run, uploaded, runs, restarts>>

-----------------------------------------------------------------------------
(***************************************************************************)
(* The threads that do not take the lock.                                  *)
(***************************************************************************)
PollRead ==
  /\ poll.pc = "idle" /\ polls < MaxPolls
  /\ poll' = [pc |-> "clear", data |-> file] /\ polls' = polls + 1
  /\ UNCHANGED <<store, lock, sweep, jobs, restarts>>

PollClear ==
  /\ poll.pc = "clear"
  /\ mem' = <<>> /\ poll' = [poll EXCEPT !.pc = "extend"]
  /\ UNCHANGED <<file, lock, polls, sweep, jobs, restarts>>

PollExtend ==
  /\ poll.pc = "extend"
  /\ mem' = mem \o poll.data /\ poll' = Idle
  /\ UNCHANGED <<file, lock, polls, sweep, jobs, restarts>>

\* A poll that meets no other thread.
Quiet == poll = Idle /\ sweep = Idle /\ holder = Free

PollAlone ==
  /\ Quiet
  /\ mem' = file
  /\ UNCHANGED <<file, lock, threads, jobs, restarts>>

TimedOut(i) == [mem EXCEPT ![i].status = "failure"]

SweepMark(i) ==
  /\ sweep.pc = "idle"
  /\ i \in Training(mem) /\ Late(mem[i])
  /\ mem' = TimedOut(i)
  /\ sweep' = [sweep EXCEPT !.pc = "dump"]
  /\ UNCHANGED <<file, lock, poll, polls, jobs, restarts>>

SweepDump ==
  /\ sweep.pc = "dump"
  /\ sweep' = [pc |-> "write", data |-> mem]
  /\ UNCHANGED <<store, lock, poll, polls, jobs, restarts>>

SweepWrite ==
  /\ sweep.pc = "write"
  /\ file' = sweep.data /\ sweep' = Idle
  /\ UNCHANGED <<mem, lock, poll, polls, jobs, restarts>>

\* A sweep that meets no other thread.
SweepAlone(i) ==
  /\ Quiet
  /\ i \in Training(mem) /\ Late(mem[i])
  /\ mem' = TimedOut(i) /\ file' = TimedOut(i)
  /\ UNCHANGED <<lock, threads, jobs, restarts>>

-----------------------------------------------------------------------------
(***************************************************************************)
(* The process is killed and started again: cleanup_orphaned_trainer_state *)
(* removes the running containers no TRAINING entry names (a removal that  *)
(* fails is only logged), and completes the TRAINING jobs whose container  *)
(* does not run.                                                           *)
(***************************************************************************)
Tracked(c) == \E i \in Training(file) : file[i].container = c.id

Survivors == {c \in containers : Tracked(c)}

\* Mutant of Orphaned: only jobs without a container name are completed.
OrphanedUnnamed(k) ==
  \E i \in Training(file) : file[i].key = k /\ file[i].container = 0

Orphaned(k) ==
  \E i \in Training(file) :
    file[i].key = k /\ \A c \in Survivors : c.id # file[i].container

Recovered ==
  [i \in DOMAIN file |->
     IF Orphaned(file[i].key) /\ IsFirst(file, i, file[i].key)
       THEN [file[i] EXCEPT !.status = "failure"] ELSE file[i]]

Restart ==
  /\ restarts < MaxRestarts /\ restarts' = restarts + 1
  /\ \E stuck \in SUBSET (containers \ Survivors) : containers' = Survivors \cup stuck
  /\ file' = Recovered /\ mem' = Recovered
  /\ holder' = Free /\ buf' = <<>>
  /\ poll' = Idle /\ sweep' = Idle
  /\ run' = [k \in Keys |-> NoRun]
  /\ UNCHANGED <<polls, uploaded, runs>>

-----------------------------------------------------------------------------
LockStep ==
  CheckGpus \/ EditStart \/ Dump \/ WriteStart \/ EditUpdate \/ WriteUpdate \/ WriteLog

RunStep(k) ==
  \/ BeginUpdate(k)
  \/ StageFails(k)
  \/ ContainerStarts(k)
  \/ WaitEnds(k)
  \/ Finish(k)

PollStep  == PollClear \/ PollExtend
SweepStep == SweepDump \/ SweepWrite

Next ==
  \/ \E k \in Keys, g \in Gpus : StartRequest(k, g)
  \/ LockStep
  \/ \E k \in Keys : RunStep(k) \/ BeginLog(k)
  \/ \E c \in containers : ContainerExits(c)
  \/ PollRead \/ PollStep \/ PollAlone
  \/ \E i \in DOMAIN mem : SweepMark(i) \/ SweepAlone(i)
  \/ SweepStep
  \/ Restart

Spec == Init /\ [][Next]_vars

(***************************************************************************)
(* Every step of a background task ends (the container is killed at        *)
(* hours_to_complete, the rest has retry limits); the lock is released;    *)
(* polls come back every minute and sweeps every ten minutes, and like the *)
(* updates last milliseconds: again and again there is a moment without    *)
(* any, and again and again a poll or a sweep falls into one.              *)
(***************************************************************************)
Fairness ==
  /\ WF_vars(LockStep)
  /\ \A k \in Keys : SF_vars(BeginUpdate(k)) /\ WF_vars(RunStep(k))
  /\ WF_vars(PollStep)
  /\ []<>Quiet
  /\ SF_vars(PollAlone)
  /\ WF_vars(SweepStep)
  /\ \A i \in 1..(2 * MaxRuns) : SF_vars(SweepAlone(i))

FairSpec == Spec /\ Fairness

-----------------------------------------------------------------------------
Lists == Seq(Entry)

Holders ==
  {Free} \cup [op : {"start"}, key : Keys, gpu : Gpus, pc : {"check", "edit", "dump", "write"}]
         \cup [op : Updates, key : Keys, pc : {"edit", "dump", "write"}]
         \cup [op : {"log"}, key : Keys, pc : {"dump", "write"}]

Runs ==
  {NoRun} \cup [phase : Updates \cup {"stage", "wait", "finish"}, ok : BOOLEAN,
               gpu : Gpus, id : 1..MaxRuns]

TypeOK ==
  /\ file \in Lists /\ mem \in Lists /\ buf \in Lists
  /\ holder \in Holders
  /\ poll \in [pc : {"idle", "clear", "extend"}, data : Lists]
  /\ sweep \in [pc : {"idle", "dump", "write"}, data : Lists]
  /\ run \in [Keys -> Runs]
  /\ runs \in 0..MaxRuns
  /\ \A k \in Keys : Active(k) => run[k].id <= runs
  /\ containers \subseteq [id : 1..MaxRuns, key : Keys, gpu : Gpus]
  /\ uploaded \subseteq Keys

\* Wherever a list of the history stands - in the file, in memory, or on its
\* way through one of the threads - SUCCESS means the checkpoint was
\* uploaded: the validator starts to evaluate the repository on that word.
Earned(list) ==
  \A i \in DOMAIN list : list[i].status = "success" => list[i].key \in uploaded

SuccessMeansUploaded ==
  /\ Earned(file) /\ Earned(mem) /\ Earned(buf)
  /\ Earned(poll.data) /\ Earned(sweep.data)

\* After a restart a job reported as TRAINING has a running container that
\* bears its name; and recovery spares the job whose container runs on (its
\* entry stays TRAINING, unless a poll had upset the list before).
RecoveryIsSound ==
  [][restarts' # restarts =>
       /\ \A k \in Keys, i \in Training(file') : IsFirst(file', i, k) =>
            \E c \in containers' : c.key = k /\ c.id = file'[i].container
       /\ \A c \in Survivors : c \in containers' /\
            (polls = 0 => FirstHas(file', c.key, "training"))]_vars

\* No job stays TRAINING for ever, even when the report of its end was lost
\* between the threads: its GPUs are freed in the end.
InTraining(k) == \E i \in Training(file) : file[i].key = k

EventuallyNotTraining == \A k \in Keys : InTraining(k) ~> ~InTraining(k)

-----------------------------------------------------------------------------
(***************************************************************************)
(* What makes the invariants inductive: the operation that holds the lock  *)
(* is the one its task waits for, and a task reports success only after    *)
(* its upload.                                                             *)
(***************************************************************************)
LockMatchesRun == holder.op \in Updates => run[holder.key].phase = holder.op

StartsAreNew ==
  holder.op = "start" => run[holder.key] = NoRun /\ runs < MaxRuns

ReportsFollowUploads ==
  \A k \in Keys : run[k].phase = "report" /\ run[k].ok => k \in uploaded

JInv ==
  /\ TypeOK
  /\ LockMatchesRun
  /\ StartsAreNew
  /\ ReportsFollowUploads
  /\ SuccessMeansUploaded

=============================================================================
