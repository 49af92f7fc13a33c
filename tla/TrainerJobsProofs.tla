------------------------- MODULE TrainerJobsProofs -------------------------
(***************************************************************************)
(* Safety of the trainer's history for any number of keys, GPUs, jobs,     *)
(* polls and restarts.  SuccessMeansUploaded is not inductive: complete_   *)
(* task writes what its background task decided earlier.  JInv adds that a *)
(* task about to report success has uploaded (ReportsFollowUploads), and   *)
(* that the operation holding the lock is the one its task waits for       *)
(* (LockMatchesRun, StartsAreNew), so that the two cannot drift apart      *)
(* between the steps of the operation.  One lemma per action shows that it *)
(* keeps JInv; the threads without the lock only copy lists that are       *)
(* already sound.                                                          *)
(*                                                                         *)
(* RecoveryIsSound needs more (RInv, at the end): that the name of a       *)
(* container belongs to one key for good, wherever it is written           *)
(* (BearersFit), and that no copy of the history has two entries of a key  *)
(* while no poll has overlapped another thread (KeysOnce).                 *)
(***************************************************************************)
EXTENDS TrainerJobs, SequenceTheorems, TLAPS

\* ListOf: replacing the entries of a list by entries leaves a list; every edit of
\* the history has this form.
LEMMA ListOf ==
  ASSUME NEW list \in Lists, NEW f \in [DOMAIN list -> Entry]
  PROVE  f \in Lists
<1>1. list \in [1..Len(list) -> Entry] /\ Len(list) \in Nat
  BY LenProperties DEF Lists
<1>2. f \in [1..Len(list) -> Entry]
  BY <1>1
<1> QED
  BY <1>1, <1>2, SeqDef DEF Lists

\* InList: the members of a list of the history are entries.
LEMMA InList ==
  ASSUME NEW list \in Lists, NEW i \in DOMAIN list
  PROVE  list[i] \in Entry
  BY LenProperties, ElementOfSeq DEF Lists

\* PhaseOf: a key with a background task has a full record of it.
LEMMA PhaseOf ==
  ASSUME NEW k \in Keys, run \in [Keys -> Runs], run[k].phase # "none"
  PROVE  run[k] \in [phase : Updates \cup {"stage", "wait", "finish"}, ok : BOOLEAN,
                     gpu : Gpus, id : 1..MaxRuns]
  BY DEF Runs, NoRun

\* GoesOn: what Goes changes of the background tasks, and what it keeps.
LEMMA GoesOn ==
  ASSUME NEW k \in Keys, run \in [Keys -> Runs], run[k].phase # "none",
         NEW phase \in Updates \cup {"stage", "wait", "finish"}, NEW ok \in BOOLEAN,
         Goes(k, phase, ok)
  PROVE  /\ run' \in [Keys -> Runs]
         /\ run'[k].phase = phase /\ run'[k].ok = ok /\ run'[k].id = run[k].id
         /\ \A q \in Keys \ {k} : run'[q] = run[q]
<1>1. run[k] \in [phase : Updates \cup {"stage", "wait", "finish"}, ok : BOOLEAN,
                  gpu : Gpus, id : 1..MaxRuns]
  BY PhaseOf
<1>2. run'[k] = [run[k] EXCEPT !.phase = phase, !.ok = ok]
  BY DEF Goes
<1>3. run'[k] \in [phase : Updates \cup {"stage", "wait", "finish"}, ok : BOOLEAN,
                   gpu : Gpus, id : 1..MaxRuns]
  BY <1>1, <1>2
<1>4. run' \in [Keys -> Runs]
  BY <1>3 DEF Goes, Runs
<1> QED
  BY <1>1, <1>2, <1>4 DEF Goes

\* ProceedsOn: what a finished or dropped update changes of the background tasks.
LEMMA ProceedsOn ==
  ASSUME NEW k \in Keys, run \in [Keys -> Runs], run[k].phase \in Updates,
         run' = [run EXCEPT ![k] = Proceed(k)]
  PROVE  /\ run' \in [Keys -> Runs]
         /\ run'[k].phase \in {"none", "finish", "clock", "wait"}
         /\ run'[k].phase # "none" => run'[k].id = run[k].id
         /\ \A q \in Keys \ {k} : run'[q] = run[q]
<1>1. run[k] \in [phase : Updates \cup {"stage", "wait", "finish"}, ok : BOOLEAN,
                  gpu : Gpus, id : 1..MaxRuns]
  BY PhaseOf DEF Updates
<1>2. CASE run[k].phase = "report"
  BY <1>2 DEF Proceed, Runs, NoRun
<1>3. CASE run[k].phase # "report"
  <2>1. run[k].phase \in {"failed", "name", "clock"}
    BY <1>3 DEF Updates
  <2>2. Following[run[k].phase] \in {"finish", "clock", "wait"}
    BY <2>1 DEF Following
  <2>3. run'[k] = [run[k] EXCEPT !.phase = Following[run[k].phase]]
    BY <1>3 DEF Proceed
  <2>4. run'[k] \in [phase : Updates \cup {"stage", "wait", "finish"}, ok : BOOLEAN,
                     gpu : Gpus, id : 1..MaxRuns]
    BY <1>1, <2>2, <2>3 DEF Updates
  <2>5. run' \in [Keys -> Runs]
    BY <2>4 DEF Runs
  <2> QED
    BY <1>1, <2>2, <2>3, <2>5
<1> QED
  BY <1>2, <1>3

\* StartRequest (start_training takes the lock and loads) keeps JInv.
LEMMA StartRequestKeeps ==
  ASSUME NEW k \in Keys, NEW g \in Gpus, JInv, StartRequest(k, g)
  PROVE  JInv'
<1> USE TrainerAssumption DEF JInv, TypeOK, StartRequest, store, lock, threads, jobs
<1>1. TypeOK'
  BY DEF Holders, Active, Lists, Free
<1>2. LockMatchesRun' /\ StartsAreNew'
  BY DEF LockMatchesRun, StartsAreNew, Holders, Runs, Updates, Active, Goes, Free, NoRun, Proceed
<1>3. ReportsFollowUploads'
  BY DEF ReportsFollowUploads
<1>4. SuccessMeansUploaded'
  BY DEF SuccessMeansUploaded, Earned
<1> QED
  BY <1>1, <1>2, <1>3, <1>4

\* CheckGpus (are_gpus_available, then the load of start_task) keeps JInv.
LEMMA CheckGpusKeeps ==
  ASSUME JInv, CheckGpus
  PROVE  JInv'
<1> USE TrainerAssumption DEF JInv, TypeOK, CheckGpus, store, lock, threads, jobs
<1>1. TypeOK'
  BY DEF Holders, Active, Lists, Free
<1>2. LockMatchesRun' /\ StartsAreNew'
  BY DEF LockMatchesRun, StartsAreNew, Holders, Updates, Free, NoRun, Active
<1>3. ReportsFollowUploads'
  BY DEF ReportsFollowUploads
<1>4. SuccessMeansUploaded'
  BY DEF SuccessMeansUploaded, Earned
<1> QED
  BY <1>1, <1>2, <1>3, <1>4

\* EditStart keeps JInv: an accepted entry is TRAINING, so it claims no success.
LEMMA EditStartKeeps ==
  ASSUME JInv, EditStart
  PROVE  JInv'
<1> USE TrainerAssumption DEF JInv, TypeOK, EditStart, store, lock, threads, jobs
<1>a. holder \in [op : {"start"}, key : Keys, gpu : Gpus, pc : {"check", "edit", "dump", "write"}]
  BY DEF Holders, Free, Updates
<1>b. Accepted(mem) \in Lists /\ Earned(Accepted(mem))
  <2> DEFINE k == holder.key
             new == [key |-> k, gpu |-> holder.gpu, status |-> "training",
                     since |-> "accept", container |-> 0]
  <2>1. \A i \in DOMAIN mem : mem[i] \in Entry
    BY InList
  <2>2. CASE Has(mem, k)
    <3> DEFINE f == [i \in DOMAIN mem |->
            IF IsFirst(mem, i, k)
              THEN [mem[i] EXCEPT !.status = "training", !.since = "accept",
                                   !.gpu = holder.gpu]
              ELSE mem[i]]
    <3>1. Accepted(mem) = f
      BY <2>2 DEF Accepted
    <3>2. \A i \in DOMAIN mem : f[i] \in Entry
      BY <1>a, <2>1 DEF Entry
    <3>3. f \in [DOMAIN mem -> Entry]
      BY <3>2
    <3>4. f \in Lists
      BY <3>3, ListOf
    <3>5. Earned(f)
      BY <2>1 DEF Earned, SuccessMeansUploaded, Entry
    <3> QED
      BY <3>1, <3>4, <3>5
  <2>3. CASE ~Has(mem, k)
    <3>1. Accepted(mem) = Append(mem, new)
      BY <2>3 DEF Accepted
    <3>2. new \in Entry
      BY <1>a DEF Entry
    <3>3. Append(mem, new) \in Lists /\ DOMAIN Append(mem, new) = 1..(Len(mem) + 1)
      BY <3>2, LenProperties, AppendProperties DEF Lists
    <3>4. \A i \in 1..(Len(mem) + 1) :
            Append(mem, new)[i] = IF i <= Len(mem) THEN mem[i] ELSE new
      BY <3>2, AppendProperties, LenProperties DEF Lists
    <3>5. Earned(Append(mem, new))
      BY <3>3, <3>4, LenProperties DEF Earned, SuccessMeansUploaded, Lists
    <3> QED
      BY <3>1, <3>3, <3>5
  <2> QED
    BY <2>2, <2>3
<1>1. TypeOK'
  BY <1>a, <1>b DEF Holders, Active, Free
<1>2. LockMatchesRun' /\ StartsAreNew'
  BY DEF LockMatchesRun, StartsAreNew, Holders, Updates, Free, NoRun, Active
<1>3. ReportsFollowUploads'
  BY DEF ReportsFollowUploads
<1>4. SuccessMeansUploaded'
  BY <1>b DEF SuccessMeansUploaded, Earned
<1> QED
  BY <1>1, <1>2, <1>3, <1>4

\* Dump keeps JInv: the serialized copy is as sound as the list in memory.
LEMMA DumpKeeps ==
  ASSUME JInv, Dump
  PROVE  JInv'
<1> USE TrainerAssumption DEF JInv, TypeOK, Dump, store, lock, threads, jobs
<1>1. TypeOK'
  BY DEF Holders, Active, Lists, Free
<1>2. LockMatchesRun' /\ StartsAreNew'
  BY DEF LockMatchesRun, StartsAreNew
<1>3. ReportsFollowUploads'
  BY DEF ReportsFollowUploads
<1>4. SuccessMeansUploaded'
  BY DEF SuccessMeansUploaded, Earned
<1> QED
  BY <1>1, <1>2, <1>3, <1>4

\* WriteStart keeps JInv: the background task it creates is in its first stage.
LEMMA WriteStartKeeps ==
  ASSUME JInv, WriteStart
  PROVE  JInv'
<1> USE TrainerAssumption DEF JInv, TypeOK, WriteStart, store, lock, threads, jobs
<1>1. TypeOK'
  BY DEF Holders, Runs, Updates, Active, Container, Goes, Free, Idle, NoRun, Lists, Proceed, Following, LockMatchesRun, StartsAreNew
<1>2. LockMatchesRun' /\ StartsAreNew'
  BY DEF LockMatchesRun, StartsAreNew, Free, Updates
<1>3. ReportsFollowUploads'
  BY DEF ReportsFollowUploads
<1>4. SuccessMeansUploaded'
  BY DEF SuccessMeansUploaded, Earned
<1> QED
  BY <1>1, <1>2, <1>3, <1>4

\* BeginUpdate keeps JInv: the lock is taken for the update its task waits for.
LEMMA BeginUpdateKeeps ==
  ASSUME NEW k \in Keys, JInv, BeginUpdate(k)
  PROVE  JInv'
<1> USE TrainerAssumption DEF JInv, TypeOK, BeginUpdate, store, lock, threads, jobs
<1>1. TypeOK'
  BY DEF Holders, Active, Lists, Free
<1>2. LockMatchesRun' /\ StartsAreNew'
  BY DEF LockMatchesRun, StartsAreNew, Free, Updates
<1>3. ReportsFollowUploads'
  BY DEF ReportsFollowUploads
<1>4. SuccessMeansUploaded'
  BY DEF SuccessMeansUploaded, Earned
<1> QED
  BY <1>1, <1>2, <1>3, <1>4

\* EditUpdate keeps JInv: complete_task writes SUCCESS only for a task whose
\* upload is done, by ReportsFollowUploads and LockMatchesRun.
LEMMA EditUpdateKeeps ==
  ASSUME JInv, EditUpdate
  PROVE  JInv'
<1> USE TrainerAssumption DEF JInv, TypeOK, EditUpdate, store, lock, threads, jobs
<1> DEFINE k == holder.key
<1>a. k \in Keys /\ run[k].phase \in Updates /\ run[k].phase = holder.op
  BY DEF LockMatchesRun, Holders, Free, Updates
<1>c. run[k] \in [phase : Updates \cup {"stage", "wait", "finish"}, ok : BOOLEAN,
                  gpu : Gpus, id : 1..MaxRuns]
  BY <1>a, PhaseOf DEF Updates
<1>b. \/ /\ run' \in [Keys -> Runs]
         /\ run'[k].phase \in {"none", "finish", "clock", "wait"}
         /\ run'[k].phase # "none" => run'[k].id = run[k].id
         /\ \A q \in Keys \ {k} : run'[q] = run[q]
         /\ holder' = Free /\ mem' = mem
      \/ /\ run' = run
         /\ holder' = [holder EXCEPT !.pc = "dump"]
         /\ mem' = [i \in DOMAIN mem |->
                      IF IsFirst(mem, i, k) THEN Updated(mem[i], run[k]) ELSE mem[i]]
  BY <1>a, ProceedsOn
<1>d. ASSUME NEW e \in Entry
      PROVE  /\ Updated(e, run[k]) \in Entry
             /\ Updated(e, run[k]).key = e.key
             /\ Updated(e, run[k]).status = "success" =>
                  e.status = "success" \/ (run[k].phase = "report" /\ run[k].ok)
  BY <1>a, <1>c DEF Updated, Entry, Updates
<1>e. mem' \in Lists
  <2>1. \A i \in DOMAIN mem : mem[i] \in Entry
    BY InList
  <2>2. CASE mem' = mem
    BY <2>2
  <2>3. CASE mem' = [i \in DOMAIN mem |->
                      IF IsFirst(mem, i, k) THEN Updated(mem[i], run[k]) ELSE mem[i]]
    BY <1>d, <2>1, <2>3, ListOf
  <2> QED
    BY <1>b, <2>2, <2>3
<1>f. Earned(mem)'
  <2>1. \A i \in DOMAIN mem : mem[i] \in Entry
    BY InList
  <2>2. CASE mem' = mem
    BY <2>2 DEF Earned, SuccessMeansUploaded
  <2>3. CASE mem' = [i \in DOMAIN mem |->
                      IF IsFirst(mem, i, k) THEN Updated(mem[i], run[k]) ELSE mem[i]]
    BY <1>a, <1>d, <2>1, <2>3 DEF Earned, SuccessMeansUploaded, IsFirst, ReportsFollowUploads
  <2> QED
    BY <1>b, <2>2, <2>3
<1>1. TypeOK'
  BY <1>a, <1>b, <1>e DEF Holders, Active, Free, Updates
<1>2. LockMatchesRun' /\ StartsAreNew'
  BY <1>a, <1>b DEF LockMatchesRun, StartsAreNew, Holders, Free, Updates
<1>3. ReportsFollowUploads'
  BY <1>a, <1>b DEF ReportsFollowUploads
<1>4. SuccessMeansUploaded'
  BY <1>f DEF SuccessMeansUploaded, Earned
<1> QED
  BY <1>1, <1>2, <1>3, <1>4

\* WriteUpdate keeps JInv: the saved list was serialized under the same lock.
LEMMA WriteUpdateKeeps ==
  ASSUME JInv, WriteUpdate
  PROVE  JInv'
<1> USE TrainerAssumption DEF JInv, TypeOK, WriteUpdate, store, lock, threads, jobs
<1>a. holder.key \in Keys /\ run[holder.key].phase \in Updates
  BY DEF LockMatchesRun, Holders, Free, Updates
<1>b. /\ run' \in [Keys -> Runs]
      /\ run'[holder.key].phase \in {"none", "finish", "clock", "wait"}
      /\ run'[holder.key].phase # "none" => run'[holder.key].id = run[holder.key].id
      /\ \A q \in Keys \ {holder.key} : run'[q] = run[q]
  BY <1>a, ProceedsOn
<1>1. TypeOK'
  BY <1>a, <1>b, EmptySeq DEF Holders, Active, Lists, Updates
<1>2. LockMatchesRun' /\ StartsAreNew'
  BY <1>a, <1>b DEF LockMatchesRun, StartsAreNew, Free, Updates
<1>3. ReportsFollowUploads'
  BY <1>a, <1>b DEF ReportsFollowUploads
<1>4. SuccessMeansUploaded'
  BY DEF SuccessMeansUploaded, Earned
<1> QED
  BY <1>1, <1>2, <1>3, <1>4

\* BeginLog (log_task takes the lock and loads) keeps JInv.
LEMMA BeginLogKeeps ==
  ASSUME NEW k \in Keys, JInv, BeginLog(k)
  PROVE  JInv'
<1> USE TrainerAssumption DEF JInv, TypeOK, BeginLog, store, lock, threads, jobs
<1>1. TypeOK'
  BY DEF Holders, Active, Lists, Free
<1>2. LockMatchesRun' /\ StartsAreNew'
  BY DEF LockMatchesRun, StartsAreNew, Free, Updates
<1>3. ReportsFollowUploads'
  BY DEF ReportsFollowUploads
<1>4. SuccessMeansUploaded'
  BY DEF SuccessMeansUploaded, Earned
<1> QED
  BY <1>1, <1>2, <1>3, <1>4

\* WriteLog keeps JInv: a log entry saves the history as it was loaded.
LEMMA WriteLogKeeps ==
  ASSUME JInv, WriteLog
  PROVE  JInv'
<1> USE TrainerAssumption DEF JInv, TypeOK, WriteLog, store, lock, threads, jobs
<1>1. TypeOK'
  BY EmptySeq DEF Holders, Active, Lists, Free
<1>2. LockMatchesRun' /\ StartsAreNew'
  BY DEF LockMatchesRun, StartsAreNew, Free, Updates
<1>3. ReportsFollowUploads'
  BY DEF ReportsFollowUploads
<1>4. SuccessMeansUploaded'
  BY DEF SuccessMeansUploaded, Earned
<1> QED
  BY <1>1, <1>2, <1>3, <1>4

\* StageFails (a failed clone, download or build) keeps JInv.
LEMMA StageFailsKeeps ==
  ASSUME NEW k \in Keys, JInv, StageFails(k)
  PROVE  JInv'
<1> USE TrainerAssumption DEF JInv, TypeOK, StageFails, store, lock, threads, jobs
<1>a. run[k].phase = "stage" /\ run[k].phase # "none"
  OBVIOUS
<1>b. /\ run' \in [Keys -> Runs]
      /\ run'[k].phase \in {"report", "failed"} /\ run'[k].ok = FALSE
      /\ run'[k].id = run[k].id
      /\ \A q \in Keys \ {k} : run'[q] = run[q]
  BY <1>a, GoesOn DEF Updates
<1>c. run[k].id \in 1..MaxRuns /\ run[k].gpu \in Gpus
  BY <1>a, PhaseOf
<1>1. TypeOK'
  BY <1>a, <1>b, <1>c DEF Active, Container, Lists
<1>2. LockMatchesRun' /\ StartsAreNew'
  BY <1>a, <1>b DEF LockMatchesRun, StartsAreNew, Holders, Updates, Free, NoRun
<1>3. ReportsFollowUploads'
  BY <1>a, <1>b DEF ReportsFollowUploads
<1>4. SuccessMeansUploaded'
  BY DEF SuccessMeansUploaded, Earned
<1> QED
  BY <1>1, <1>2, <1>3, <1>4

\* ContainerStarts keeps JInv.
LEMMA ContainerStartsKeeps ==
  ASSUME NEW k \in Keys, JInv, ContainerStarts(k)
  PROVE  JInv'
<1> USE TrainerAssumption DEF JInv, TypeOK, ContainerStarts, store, lock, threads, jobs
<1>a. run[k].phase = "stage" /\ run[k].phase # "none"
  OBVIOUS
<1>b. /\ run' \in [Keys -> Runs]
      /\ run'[k].phase \in {"name", "failed"}
      /\ run'[k].id = run[k].id
      /\ \A q \in Keys \ {k} : run'[q] = run[q]
  BY <1>a, GoesOn DEF Updates
<1>c. run[k].id \in 1..MaxRuns /\ run[k].gpu \in Gpus
  BY <1>a, PhaseOf
<1>d. Container(k) \in [id : 1..MaxRuns, key : Keys, gpu : Gpus]
  BY <1>c DEF Container
<1>e. \A q \in Keys : run'[q].phase # "none" => run'[q].id <= runs'
  BY <1>a, <1>b DEF Active
<1>1. TypeOK'
  BY <1>b, <1>d, <1>e DEF Active, Lists
<1>2. LockMatchesRun' /\ StartsAreNew'
  BY <1>a, <1>b DEF LockMatchesRun, StartsAreNew, Holders, Updates, Free, NoRun
<1>3. ReportsFollowUploads'
  BY <1>a, <1>b DEF ReportsFollowUploads
<1>4. SuccessMeansUploaded'
  BY DEF SuccessMeansUploaded, Earned
<1> QED
  BY <1>1, <1>2, <1>3, <1>4

\* WaitEnds keeps JInv: the end of container.wait is not yet a report.
LEMMA WaitEndsKeeps ==
  ASSUME NEW k \in Keys, JInv, WaitEnds(k)
  PROVE  JInv'
<1> USE TrainerAssumption DEF JInv, TypeOK, WaitEnds, store, lock, threads, jobs
<1>a. run[k].phase = "wait" /\ run[k].phase # "none"
  OBVIOUS
<1>b. /\ run' \in [Keys -> Runs]
      /\ run'[k].phase \in {"finish", "failed"}
      /\ run'[k].id = run[k].id
      /\ \A q \in Keys \ {k} : run'[q] = run[q]
  BY <1>a, GoesOn DEF Updates
<1>c. run[k].id \in 1..MaxRuns /\ run[k].gpu \in Gpus
  BY <1>a, PhaseOf
<1>1. TypeOK'
  BY <1>a, <1>b, <1>c DEF Active, Container, Lists
<1>2. LockMatchesRun' /\ StartsAreNew'
  BY <1>a, <1>b DEF LockMatchesRun, StartsAreNew, Holders, Updates, Free, NoRun
<1>3. ReportsFollowUploads'
  BY <1>a, <1>b DEF ReportsFollowUploads
<1>4. SuccessMeansUploaded'
  BY DEF SuccessMeansUploaded, Earned
<1> QED
  BY <1>1, <1>2, <1>3, <1>4

\* Finish keeps JInv: a successful report is reached through the upload only.
LEMMA FinishKeeps ==
  ASSUME NEW k \in Keys, JInv, Finish(k)
  PROVE  JInv'
<1> USE TrainerAssumption DEF JInv, TypeOK, Finish, store, lock, threads, jobs
<1>a. run[k].phase = "finish" /\ run[k].phase # "none"
  OBVIOUS
<1>b. /\ run' \in [Keys -> Runs]
      /\ run'[k].phase = "report" /\ (run'[k].ok => k \in uploaded')
      /\ run'[k].id = run[k].id
      /\ \A q \in Keys \ {k} : run'[q] = run[q]
  BY <1>a, GoesOn DEF Updates
<1>c. run[k].id \in 1..MaxRuns /\ run[k].gpu \in Gpus
  BY <1>a, PhaseOf
<1>1. TypeOK'
  BY <1>a, <1>b, <1>c DEF Active, Container, Lists
<1>2. LockMatchesRun' /\ StartsAreNew'
  BY <1>a, <1>b DEF LockMatchesRun, StartsAreNew, Holders, Updates, Free, NoRun
<1>3. ReportsFollowUploads'
  BY <1>a, <1>b DEF ReportsFollowUploads
<1>4. SuccessMeansUploaded'
  BY DEF SuccessMeansUploaded, Earned
<1> QED
  BY <1>1, <1>2, <1>3, <1>4

\* ContainerExits keeps JInv.
LEMMA ContainerExitsKeeps ==
  ASSUME NEW c \in containers, JInv, ContainerExits(c)
  PROVE  JInv'
<1> USE TrainerAssumption DEF JInv, TypeOK, ContainerExits, store, lock, threads, jobs
<1>1. TypeOK'
  BY DEF Active, Lists
<1>2. LockMatchesRun' /\ StartsAreNew'
  BY DEF LockMatchesRun, StartsAreNew
<1>3. ReportsFollowUploads'
  BY DEF ReportsFollowUploads
<1>4. SuccessMeansUploaded'
  BY DEF SuccessMeansUploaded, Earned
<1> QED
  BY <1>1, <1>2, <1>3, <1>4

\* PollRead keeps JInv: a poll reads what the file says.
LEMMA PollReadKeeps ==
  ASSUME JInv, PollRead
  PROVE  JInv'
<1> USE TrainerAssumption DEF JInv, TypeOK, PollRead, store, lock, threads, jobs
<1>1. TypeOK'
  BY DEF Active, Lists
<1>2. LockMatchesRun' /\ StartsAreNew'
  BY DEF LockMatchesRun, StartsAreNew
<1>3. ReportsFollowUploads'
  BY DEF ReportsFollowUploads
<1>4. SuccessMeansUploaded'
  BY DEF SuccessMeansUploaded, Earned
<1> QED
  BY <1>1, <1>2, <1>3, <1>4

\* PollClear keeps JInv: an empty list claims nothing.
LEMMA PollClearKeeps ==
  ASSUME JInv, PollClear
  PROVE  JInv'
<1> USE TrainerAssumption DEF JInv, TypeOK, PollClear, store, lock, threads, jobs
<1>1. TypeOK'
  BY EmptySeq DEF Holders, Active, Lists
<1>2. LockMatchesRun' /\ StartsAreNew'
  BY DEF LockMatchesRun, StartsAreNew
<1>3. ReportsFollowUploads'
  BY DEF ReportsFollowUploads
<1>4. SuccessMeansUploaded'
  BY DEF SuccessMeansUploaded, Earned
<1> QED
  BY <1>1, <1>2, <1>3, <1>4

\* PollExtend keeps JInv: old entries appended to newer ones are still sound,
\* because uploads are never undone.
LEMMA PollExtendKeeps ==
  ASSUME JInv, PollExtend
  PROVE  JInv'
<1> USE TrainerAssumption DEF JInv, TypeOK, PollExtend, store, lock, threads, jobs
<1>1. TypeOK'
  BY DEF Holders, Active, Lists, Free, Idle, NoRun, Updates, Runs
<1>2. LockMatchesRun' /\ StartsAreNew'
  BY DEF LockMatchesRun, StartsAreNew
<1>3. ReportsFollowUploads'
  BY DEF ReportsFollowUploads
<1>4. SuccessMeansUploaded'
  BY DEF SuccessMeansUploaded, Earned, Idle, Lists
<1> QED
  BY <1>1, <1>2, <1>3, <1>4

\* PollAlone keeps JInv.
LEMMA PollAloneKeeps ==
  ASSUME JInv, PollAlone
  PROVE  JInv'
<1> USE TrainerAssumption DEF JInv, TypeOK, PollAlone, Quiet, store, lock, threads, jobs
<1>1. TypeOK'
  BY DEF Active, Lists
<1>2. LockMatchesRun' /\ StartsAreNew'
  BY DEF LockMatchesRun, StartsAreNew
<1>3. ReportsFollowUploads'
  BY DEF ReportsFollowUploads
<1>4. SuccessMeansUploaded'
  BY DEF SuccessMeansUploaded, Earned
<1> QED
  BY <1>1, <1>2, <1>3, <1>4

\* SweepMark (the cleanup thread marks a late job) keeps JInv.
LEMMA SweepMarkKeeps ==
  ASSUME NEW i \in DOMAIN mem, JInv, SweepMark(i)
  PROVE  JInv'
<1> USE TrainerAssumption DEF JInv, TypeOK, SweepMark, TimedOut, store, lock, threads, jobs
<1>a. \A j \in DOMAIN mem : mem[j] \in Entry
  BY InList
<1>b. mem' \in [DOMAIN mem -> Entry]
  BY <1>a DEF Entry
<1>c. mem' \in Lists
  BY <1>b, ListOf
<1>1. TypeOK'
  BY <1>c DEF Active, Lists
<1>2. LockMatchesRun' /\ StartsAreNew'
  BY DEF LockMatchesRun, StartsAreNew
<1>3. ReportsFollowUploads'
  BY DEF ReportsFollowUploads
<1>4. SuccessMeansUploaded'
  BY <1>a DEF SuccessMeansUploaded, Earned, Entry
<1> QED
  BY <1>1, <1>2, <1>3, <1>4

\* SweepAlone (the cleanup thread marks a late job and saves) keeps JInv.
LEMMA SweepAloneKeeps ==
  ASSUME NEW i \in DOMAIN mem, JInv, SweepAlone(i)
  PROVE  JInv'
<1> USE TrainerAssumption DEF JInv, TypeOK, SweepAlone, TimedOut, Quiet, store, lock, threads, jobs
<1>a. \A j \in DOMAIN mem : mem[j] \in Entry
  BY InList
<1>b. mem' \in [DOMAIN mem -> Entry]
  BY <1>a DEF Entry
<1>c. mem' \in Lists
  BY <1>b, ListOf
<1>1. TypeOK'
  BY <1>c DEF Active, Lists
<1>2. LockMatchesRun' /\ StartsAreNew'
  BY DEF LockMatchesRun, StartsAreNew
<1>3. ReportsFollowUploads'
  BY DEF ReportsFollowUploads
<1>4. SuccessMeansUploaded'
  BY <1>a DEF SuccessMeansUploaded, Earned, Entry
<1> QED
  BY <1>1, <1>2, <1>3, <1>4

\* SweepDump keeps JInv.
LEMMA SweepDumpKeeps ==
  ASSUME JInv, SweepDump
  PROVE  JInv'
<1> USE TrainerAssumption DEF JInv, TypeOK, SweepDump, store, lock, threads, jobs
<1>1. TypeOK'
  BY DEF Active, Lists
<1>2. LockMatchesRun' /\ StartsAreNew'
  BY DEF LockMatchesRun, StartsAreNew
<1>3. ReportsFollowUploads'
  BY DEF ReportsFollowUploads
<1>4. SuccessMeansUploaded'
  BY DEF SuccessMeansUploaded, Earned
<1> QED
  BY <1>1, <1>2, <1>3, <1>4

\* SweepWrite keeps JInv: a save from an older copy of the list is still sound.
LEMMA SweepWriteKeeps ==
  ASSUME JInv, SweepWrite
  PROVE  JInv'
<1> USE TrainerAssumption DEF JInv, TypeOK, SweepWrite, store, lock, threads, jobs
<1>1. TypeOK'
  BY DEF Holders, Active, Lists, Free, Idle, NoRun, Updates, Runs
<1>2. LockMatchesRun' /\ StartsAreNew'
  BY DEF LockMatchesRun, StartsAreNew
<1>3. ReportsFollowUploads'
  BY DEF ReportsFollowUploads
<1>4. SuccessMeansUploaded'
  BY DEF SuccessMeansUploaded, Earned, Idle
<1> QED
  BY <1>1, <1>2, <1>3, <1>4

\* Restart (cleanup_orphaned_trainer_state) keeps JInv: recovery completes jobs
\* as failures only.
LEMMA RestartKeeps ==
  ASSUME JInv, Restart
  PROVE  JInv'
<1> USE TrainerAssumption DEF JInv, TypeOK, Restart, store, lock, threads, jobs
<1>a. \A i \in DOMAIN file : file[i] \in Entry
  BY InList
<1>b. Recovered \in [DOMAIN file -> Entry]
  BY <1>a DEF Recovered, Entry
<1>c. Recovered \in Lists
  BY <1>b, ListOf
<1>d. Earned(Recovered)
  BY <1>a DEF Earned, Recovered, SuccessMeansUploaded, Entry
<1>1. TypeOK'
  BY <1>c, EmptySeq DEF Survivors, Holders, Runs, Active, Lists, Free, Idle, NoRun
<1>2. LockMatchesRun' /\ StartsAreNew'
  BY DEF LockMatchesRun, StartsAreNew, Free, Updates
<1>3. ReportsFollowUploads'
  BY DEF ReportsFollowUploads, NoRun
<1>4. SuccessMeansUploaded'
  BY <1>c, <1>d DEF SuccessMeansUploaded, Earned, Idle
<1> QED
  BY <1>1, <1>2, <1>3, <1>4

-----------------------------------------------------------------------------
\* InitEstablishes: the empty history satisfies JInv.
LEMMA InitEstablishes == Init => JInv
<1> USE TrainerAssumption DEF Init, JInv
<1>1. Init => TypeOK
  BY EmptySeq DEF TypeOK, Lists, Holders, Free, Idle, NoRun, Runs, Active
<1>2. Init => LockMatchesRun /\ StartsAreNew
  BY DEF LockMatchesRun, StartsAreNew, Free, Updates
<1>3. Init => ReportsFollowUploads
  BY DEF ReportsFollowUploads, NoRun
<1>4. Init => SuccessMeansUploaded
  BY EmptySeq DEF SuccessMeansUploaded, Earned, Idle
<1> QED
  BY <1>1, <1>2, <1>3, <1>4

\* StutterKeeps: a stuttering step keeps JInv.
LEMMA StutterKeeps ==
  ASSUME JInv, UNCHANGED vars
  PROVE  JInv'
<1> USE DEF vars, store, lock, threads, jobs
<1>1. TypeOK'
  BY DEF JInv, TypeOK, Active
<1>2. LockMatchesRun' /\ StartsAreNew'
  BY DEF JInv, LockMatchesRun, StartsAreNew
<1>3. ReportsFollowUploads'
  BY DEF JInv, ReportsFollowUploads
<1>4. SuccessMeansUploaded'
  BY DEF JInv, SuccessMeansUploaded, Earned
<1> QED
  BY <1>1, <1>2, <1>3, <1>4 DEF JInv

\* NextKeeps: every step of the trainer keeps JInv.
LEMMA NextKeeps ==
  ASSUME JInv, Next
  PROVE  JInv'
<1>1. ASSUME NEW k \in Keys, NEW g \in Gpus, StartRequest(k, g) PROVE JInv'
  BY <1>1, StartRequestKeeps
<1>2. ASSUME LockStep PROVE JInv'
  BY <1>2, CheckGpusKeeps, EditStartKeeps, DumpKeeps, WriteStartKeeps,
     EditUpdateKeeps, WriteUpdateKeeps, WriteLogKeeps DEF LockStep
<1>3. ASSUME NEW k \in Keys, RunStep(k) \/ BeginLog(k) PROVE JInv'
  BY <1>3, BeginLogKeeps, BeginUpdateKeeps, StageFailsKeeps, ContainerStartsKeeps,
     WaitEndsKeeps, FinishKeeps DEF RunStep
<1>4. ASSUME NEW c \in containers, ContainerExits(c) PROVE JInv'
  BY <1>4, ContainerExitsKeeps
<1>5. ASSUME PollRead \/ PollStep \/ PollAlone PROVE JInv'
  BY <1>5, PollReadKeeps, PollClearKeeps, PollExtendKeeps, PollAloneKeeps DEF PollStep
<1>6. ASSUME NEW i \in DOMAIN mem, SweepMark(i) \/ SweepAlone(i) PROVE JInv'
  BY <1>6, SweepMarkKeeps, SweepAloneKeeps
<1>7. ASSUME SweepStep \/ Restart PROVE JInv'
  BY <1>7, SweepDumpKeeps, SweepWriteKeeps, RestartKeeps DEF SweepStep
<1> QED
  BY <1>1, <1>2, <1>3, <1>4, <1>5, <1>6, <1>7 DEF Next

\* Invariance: JInv holds in every reachable state of the trainer, however
\* the event loop, the polls, the cleanup thread and restarts interleave.
THEOREM Invariance == Spec => []JInv
<1>1. JInv /\ [Next]_vars => JInv'
  BY NextKeeps, StutterKeeps
<1> QED
  BY InitEstablishes, <1>1, PTL DEF Spec

\* TypeCorrect: the trainer's state keeps its types.
THEOREM TypeCorrect == Spec => []TypeOK
<1>1. JInv => TypeOK
  BY DEF JInv
<1> QED
  BY Invariance, <1>1, PTL

\* SuccessIsUploaded: wherever the history stands, SUCCESS comes after the
\* upload of a checkpoint of that key (complete_task is last in
\* _final_cleanup), although two threads copy the history without a lock.
THEOREM SuccessIsUploaded == Spec => []SuccessMeansUploaded
<1>1. JInv => SuccessMeansUploaded
  BY DEF JInv
<1> QED
  BY Invariance, <1>1, PTL

-----------------------------------------------------------------------------
(***************************************************************************)
(* Recovery.  A container's number belongs to one key, wherever it stands: *)
(* with the container, with the background task that started it, or in any *)
(* copy of the history (BearersFit).  Until the first poll overlaps another *)
(* thread no copy of the history has two entries of a key (KeysOnce).      *)
(***************************************************************************)
Names(list, n, k) == \E i \in DOMAIN list : list[i].container = n /\ list[i].key = k

Bears(n, k) ==
  \/ \E c \in containers : c.id = n /\ c.key = k
  \/ Active(k) /\ run[k].id = n
  \/ Names(file, n, k) \/ Names(mem, n, k) \/ Names(buf, n, k)
  \/ Names(poll.data, n, k) \/ Names(sweep.data, n, k)

BearersFit ==
  \A n \in 1..MaxRuns, k \in Keys : Bears(n, k) =>
    n <= runs /\ \A q \in Keys : Bears(n, q) => q = k

Once(list) == \A i, j \in DOMAIN list : list[i].key = list[j].key => i = j

KeysOnce ==
  polls = 0 =>
    poll.pc = "idle" /\ Once(file) /\ Once(mem) /\ Once(buf) /\ Once(sweep.data)

RInv == JInv /\ polls \in Nat /\ BearersFit /\ KeysOnce

\* NoneNew: a step after which nothing bears a number that did not bear it
\* before keeps BearersFit.
LEMMA NoneNew ==
  ASSUME BearersFit, runs' = runs,
         \A n \in 1..MaxRuns, k \in Keys : Bears(n, k)' => Bears(n, k)
  PROVE  BearersFit'
BY DEF BearersFit

\* Steps that change neither background tasks nor containers, and copy or
\* empty lists, bring no number to another key.
LEMMA CopyingKeepsBearers ==
  ASSUME JInv, BearersFit,
         \/ \E k \in Keys, g \in Gpus : StartRequest(k, g)
         \/ CheckGpus \/ Dump \/ WriteLog
         \/ \E k \in Keys : BeginUpdate(k) \/ BeginLog(k)
         \/ PollRead \/ PollClear \/ PollAlone \/ SweepDump \/ SweepWrite
         \/ UNCHANGED vars
  PROVE  BearersFit'
<1>1. /\ run' = run /\ containers' = containers /\ runs' = runs
      /\ file' \in {file, buf, sweep.data} /\ mem' \in {mem, file, <<>>}
      /\ buf' \in {buf, mem, <<>>} /\ poll'.data \in {poll.data, file}
      /\ sweep'.data \in {sweep.data, mem, <<>>}
  BY DEF StartRequest, CheckGpus, Dump, WriteLog, BeginUpdate, BeginLog, PollRead, PollClear,
         PollAlone, SweepDump, SweepWrite, JInv, TypeOK, vars, store, lock, threads, jobs, Idle
<1>2. ASSUME NEW n \in 1..MaxRuns, NEW k \in Keys, Bears(n, k)'
      PROVE  Bears(n, k)
  <2>1. ~Names(<<>>, n, k)
    BY DEF Names
  <2>2. CASE Names(file', n, k)
    BY <1>1, <2>2 DEF Bears
  <2>3. CASE Names(mem', n, k)
    BY <1>1, <2>1, <2>3 DEF Bears
  <2>4. CASE Names(buf', n, k)
    BY <1>1, <2>1, <2>4 DEF Bears
  <2>5. CASE Names(poll'.data, n, k)
    BY <1>1, <2>5 DEF Bears
  <2>6. CASE Names(sweep'.data, n, k)
    BY <1>1, <2>1, <2>6 DEF Bears
  <2>7. CASE \E c \in containers' : c.id = n /\ c.key = k
    BY <1>1, <2>7 DEF Bears
  <2>8. CASE Active(k)' /\ run'[k].id = n
    BY <1>1, <2>8 DEF Bears, Active
  <2> QED
    BY <1>2, <2>2, <2>3, <2>4, <2>5, <2>6, <2>7, <2>8 DEF Bears, Names
<1> QED
  BY <1>1, <1>2, NoneNew

\* The steps of a background task outside the history: a container bears the
\* number and the key of the task that starts it.
LEMMA RunningKeepsBearers ==
  ASSUME JInv, BearersFit,
         \/ \E k \in Keys : \/ StageFails(k) \/ ContainerStarts(k)
                            \/ WaitEnds(k) \/ Finish(k)
         \/ \E c \in containers : ContainerExits(c)
  PROVE  BearersFit'
<1>1. UNCHANGED <<store, lock, threads, runs>>
  BY DEF StageFails, ContainerStarts, WaitEnds, Finish, ContainerExits
<1>2. /\ run \in [Keys -> Runs] /\ \A k \in Keys : Active(k)' => Active(k) /\ run'[k].id = run[k].id
  <2>1. CASE \E c \in containers : ContainerExits(c)
    BY <2>1 DEF ContainerExits, Active, JInv, TypeOK
  <2>2. ASSUME NEW k \in Keys, StageFails(k) \/ ContainerStarts(k) \/ WaitEnds(k) \/ Finish(k)
        PROVE  \A q \in Keys : Active(q)' => Active(q) /\ run'[q].id = run[q].id
    <3>1. run[k].phase # "none" /\ run \in [Keys -> Runs]
      BY <2>2 DEF StageFails, ContainerStarts, WaitEnds, Finish, JInv, TypeOK
    <3>2. \E phase \in Updates \cup {"stage", "wait", "finish"}, ok \in BOOLEAN : Goes(k, phase, ok)
      BY <2>2 DEF StageFails, ContainerStarts, WaitEnds, Finish, Updates
    <3>3. run'[k].id = run[k].id /\ \A q \in Keys \ {k} : run'[q] = run[q]
      BY <3>1, <3>2, GoesOn
    <3> QED
      BY <3>1, <3>3 DEF Active
  <2> QED
    BY <2>1, <2>2 DEF JInv, TypeOK
<1>3. \A c \in containers' : c \in containers \/ \E k \in Keys : Active(k) /\ c = Container(k)
  BY DEF StageFails, ContainerStarts, WaitEnds, Finish, ContainerExits, Active
<1>4. ASSUME NEW n \in 1..MaxRuns, NEW k \in Keys, Bears(n, k)'
      PROVE  Bears(n, k)
  <2>1. CASE \E c \in containers' : c.id = n /\ c.key = k
    <3>1. PICK c \in containers' : c.id = n /\ c.key = k
      BY <2>1
    <3> QED
      BY <1>3, <3>1 DEF Bears, Container
  <2>2. CASE Active(k)' /\ run'[k].id = n
    BY <1>2, <2>2 DEF Bears
  <2> QED
    BY <1>1, <1>4, <2>1, <2>2 DEF Bears, Names, store, lock, threads
<1> QED
  BY <1>1, <1>4, NoneNew

\* A task that is accepted gets the next number, which nothing bears yet.
LEMMA WriteStartKeepsBearers ==
  ASSUME JInv, BearersFit, WriteStart
  PROVE  BearersFit'
<1>1. /\ UNCHANGED <<mem, threads, containers>> /\ file' = buf /\ buf' = <<>>
      /\ runs' = runs + 1 /\ runs \in Nat /\ holder.key \in Keys
      /\ run'[holder.key].id = runs + 1 /\ \A q \in Keys \ {holder.key} : run'[q] = run[q]
  BY TrainerAssumption DEF WriteStart, JInv, TypeOK, StartsAreNew, Holders, Updates, Free
<1>2. ASSUME NEW n \in 1..MaxRuns, NEW k \in Keys, Bears(n, k)'
      PROVE  Bears(n, k) \/ (n = runs + 1 /\ k = holder.key)
  BY <1>1, <1>2 DEF Bears, Names, Active, threads
<1>3. ASSUME NEW n \in 1..MaxRuns, NEW k \in Keys, Bears(n, k)
      PROVE  n <= runs /\ n # runs + 1
  BY <1>1, <1>3 DEF BearersFit
<1> QED
  BY <1>1, <1>2, <1>3 DEF BearersFit

\* EditStart keeps the keys and the names of a list, or adds one entry of a
\* key it has not, without a name.
LEMMA AcceptedNames ==
  ASSUME JInv, EditStart, NEW n \in 1..MaxRuns, NEW k \in Keys, Names(Accepted(mem), n, k)
  PROVE  Names(mem, n, k)
<1> DEFINE new == [key |-> holder.key, gpu |-> holder.gpu, status |-> "training",
                   since |-> "accept", container |-> 0]
<1>1. mem \in Lists /\ DOMAIN mem = 1..Len(mem) /\ Len(mem) \in Nat
  BY LenProperties DEF JInv, TypeOK, Lists
<1>2. CASE Has(mem, holder.key)
  <2>1. Accepted(mem) = [i \in DOMAIN mem |->
            IF IsFirst(mem, i, holder.key)
              THEN [mem[i] EXCEPT !.status = "training", !.since = "accept",
                                   !.gpu = holder.gpu]
              ELSE mem[i]]
    BY <1>2 DEF Accepted
  <2>2. PICK i \in DOMAIN mem : Accepted(mem)[i].container = n /\ Accepted(mem)[i].key = k
    BY <2>1 DEF Names
  <2>3. mem[i] \in Entry
    BY <1>1, InList
  <2>4. Accepted(mem)[i].container = mem[i].container /\ Accepted(mem)[i].key = mem[i].key
    <3>1. CASE IsFirst(mem, i, holder.key)
      <4>1. Accepted(mem)[i] = [mem[i] EXCEPT !.status = "training", !.since = "accept",
                                             !.gpu = holder.gpu]
        BY <2>1, <3>1
      <4> QED
        BY <2>3, <4>1 DEF Entry
    <3>2. CASE ~IsFirst(mem, i, holder.key)
      BY <2>1, <3>2
    <3> QED
      BY <3>1, <3>2
  <2> QED
    BY <2>2, <2>4 DEF Names
<1>3. CASE ~Has(mem, holder.key)
  <2>1. Accepted(mem) = Append(mem, new)
    BY <1>3 DEF Accepted
  <2>2. holder \in [op : {"start"}, key : Keys, gpu : Gpus, pc : {"check", "edit", "dump", "write"}]
    BY DEF EditStart, JInv, TypeOK, Holders, Free, Updates
  <2>3. new \in Entry
    BY <2>2, TrainerAssumption DEF Entry
  <2>4. DOMAIN Append(mem, new) = 1..(Len(mem) + 1) /\
        \A i \in 1..(Len(mem) + 1) : Append(mem, new)[i] = IF i <= Len(mem) THEN mem[i] ELSE new
    BY <1>1, <2>3, AppendProperties, LenProperties DEF Lists
  <2>5. PICK i \in 1..(Len(mem) + 1) : Append(mem, new)[i].container = n /\ Append(mem, new)[i].key = k
    BY <2>1, <2>4 DEF Names
  <2>6. i <= Len(mem) /\ Append(mem, new)[i] = mem[i]
    BY <2>4, <2>5
  <2> QED
    BY <1>1, <2>5, <2>6 DEF Names
<1> QED
  BY <1>2, <1>3

\* The entry of a new job has a key of its own.
LEMMA EditStartKeepsBearers ==
  ASSUME JInv, BearersFit, EditStart
  PROVE  BearersFit'
<1>1. UNCHANGED <<file, buf, threads, jobs>> /\ (mem' = mem \/ mem' = Accepted(mem))
  BY DEF EditStart
<1>2. ASSUME NEW n \in 1..MaxRuns, NEW k \in Keys, Bears(n, k)'
      PROVE  Bears(n, k)
  <2>1. Names(mem', n, k) => Names(mem, n, k)
    BY <1>1, AcceptedNames
  <2>2. Names(mem', n, k) <=> Names(mem, n, k)'
    BY DEF Names
  <2> QED
    BY <1>1, <1>2, <2>1 DEF Bears, Names, Active, threads, jobs
<1> QED
  BY <1>1, <1>2, NoneNew DEF jobs

\* EditUpdate writes into an entry of its key the number of that key's task.
LEMMA EditUpdateKeepsBearers ==
  ASSUME JInv, BearersFit, EditUpdate
  PROVE  BearersFit'
<1> DEFINE k == holder.key
<1>1. k \in Keys /\ run[k].phase \in Updates /\ Active(k) /\ run \in [Keys -> Runs]
  BY DEF EditUpdate, JInv, TypeOK, LockMatchesRun, Holders, Free, Updates, Active
<1>2. /\ UNCHANGED <<file, buf, threads, containers, runs>>
      /\ \/ run' = [run EXCEPT ![k] = Proceed(k)] /\ mem' = mem
         \/ /\ run' = run
            /\ mem' = [i \in DOMAIN mem |->
                         IF IsFirst(mem, i, k) THEN Updated(mem[i], run[k]) ELSE mem[i]]
  BY DEF EditUpdate
<1>3. \A q \in Keys : Active(q)' => Active(q) /\ run'[q].id = run[q].id
  BY <1>1, <1>2, ProceedsOn DEF Active
<1>4. ASSUME NEW n \in 1..MaxRuns, NEW q \in Keys, Names(mem', n, q)
      PROVE  Bears(n, q)
  <2>1. CASE mem' = mem
    BY <1>4, <2>1 DEF Bears
  <2>2. CASE mem' = [i \in DOMAIN mem |->
                       IF IsFirst(mem, i, k) THEN Updated(mem[i], run[k]) ELSE mem[i]]
    <3>1. PICK i \in DOMAIN mem : mem'[i].container = n /\ mem'[i].key = q
      BY <1>4, <2>2 DEF Names
    <3>2. mem[i] \in Entry
      BY InList DEF JInv, TypeOK
    <3>3. CASE IsFirst(mem, i, k)
      <4>1. mem'[i] = Updated(mem[i], run[k]) /\ mem[i].key = k
        BY <2>2, <3>3 DEF IsFirst
      <4>2. Updated(mem[i], run[k]).key = k
        BY <3>2, <4>1 DEF Updated, Entry
      <4>3. Updated(mem[i], run[k]).container \in {mem[i].container, run[k].id}
        BY <3>2 DEF Updated, Entry
      <4> QED
        BY <1>1, <3>1, <4>1, <4>2, <4>3 DEF Bears, Names
    <3>4. CASE ~IsFirst(mem, i, k)
      BY <2>2, <3>1, <3>4 DEF Bears, Names
    <3> QED
      BY <3>3, <3>4
  <2> QED
    BY <1>2, <2>1, <2>2
<1>5. ASSUME NEW n \in 1..MaxRuns, NEW q \in Keys, Bears(n, q)'
      PROVE  Bears(n, q)
  <2>1. Names(mem, n, q)' <=> Names(mem', n, q)
    BY DEF Names
  <2>2. CASE Names(mem', n, q)
    BY <1>4, <2>2
  <2>3. CASE Active(q)' /\ run'[q].id = n
    BY <1>3, <2>3 DEF Bears
  <2> QED
    BY <1>2, <1>5, <2>2, <2>3 DEF Bears, Names, threads
<1> QED
  BY <1>2, <1>5, NoneNew

\* An update that is written changes no entry's key or container.
LEMMA WriteUpdateKeepsBearers ==
  ASSUME JInv, BearersFit, WriteUpdate
  PROVE  BearersFit'
<1> DEFINE k == holder.key
<1>1. k \in Keys /\ run[k].phase \in Updates /\ Active(k) /\ run \in [Keys -> Runs]
  BY DEF WriteUpdate, JInv, TypeOK, LockMatchesRun, Holders, Free, Updates, Active
<1>2. /\ UNCHANGED <<mem, threads, containers, runs>> /\ file' = buf /\ buf' = <<>>
      /\ run' = [run EXCEPT ![k] = Proceed(k)]
  BY DEF WriteUpdate
<1>3. \A q \in Keys : Active(q)' => Active(q) /\ run'[q].id = run[q].id
  BY <1>1, <1>2, ProceedsOn DEF Active
<1>4. ASSUME NEW n \in 1..MaxRuns, NEW q \in Keys, Bears(n, q)'
      PROVE  Bears(n, q)
  BY <1>2, <1>3, <1>4 DEF Bears, Names, threads
<1> QED
  BY <1>2, <1>4, NoneNew

\* What a poll appends it read from the history.
LEMMA PollExtendKeepsBearers ==
  ASSUME JInv, BearersFit, PollExtend
  PROVE  BearersFit'
<1>1. /\ UNCHANGED <<file, lock, sweep, jobs>> /\ mem' = mem \o poll.data /\ poll'.data = <<>>
  BY DEF PollExtend, Idle
<1>2. mem \in Lists /\ poll.data \in Lists
  BY DEF JInv, TypeOK
<1>3. \A i \in DOMAIN mem' : (i \in DOMAIN mem /\ mem'[i] = mem[i])
                             \/ \E j \in DOMAIN poll.data : mem'[i] = poll.data[j]
  BY <1>1, <1>2, ConcatProperties, LenProperties DEF Lists
<1>4. ASSUME NEW n \in 1..MaxRuns, NEW k \in Keys, Bears(n, k)'
      PROVE  Bears(n, k)
  <2>1. Names(mem, n, k)' => Names(mem, n, k) \/ Names(poll.data, n, k)
    BY <1>3 DEF Names
  <2> QED
    BY <1>1, <1>4, <2>1 DEF Bears, Names, Active, lock, jobs
<1> QED
  BY <1>1, <1>4, NoneNew DEF jobs

\* Marking entries as failed changes neither keys nor names.
LEMMA MarkingKeepsBearers ==
  ASSUME JInv, BearersFit,
         \/ \E i \in DOMAIN mem : SweepMark(i) \/ SweepAlone(i)
         \/ Restart
  PROVE  BearersFit'
<1>1. \A i \in DOMAIN mem : mem[i] \in Entry
  BY InList DEF JInv, TypeOK
<1>2. \A i \in DOMAIN file : file[i] \in Entry
  BY InList DEF JInv, TypeOK
<1>3. ASSUME NEW i \in DOMAIN mem, NEW n \in 1..MaxRuns, NEW k \in Keys, Names(TimedOut(i), n, k)
      PROVE  Names(mem, n, k)
  BY <1>1, <1>3 DEF Names, TimedOut, Entry
<1>4. ASSUME NEW n \in 1..MaxRuns, NEW k \in Keys, Names(Recovered, n, k)
      PROVE  Names(file, n, k)
  BY <1>2, <1>4 DEF Names, Recovered, Entry
<1>5. ASSUME NEW i \in DOMAIN mem, SweepMark(i) \/ SweepAlone(i)
      PROVE  BearersFit'
  <2>1. /\ UNCHANGED <<buf, poll, jobs>> /\ mem' = TimedOut(i) /\ file' \in {file, TimedOut(i)}
        /\ sweep'.data = sweep.data
    BY <1>5 DEF SweepMark, SweepAlone, lock, threads, jobs, JInv, TypeOK
  <2>2. ASSUME NEW n \in 1..MaxRuns, NEW k \in Keys, Bears(n, k)'
        PROVE  Bears(n, k)
    <3>1. Names(TimedOut(i), n, k) => Names(mem, n, k)
      BY <1>3
    <3> QED
      BY <2>1, <2>2, <3>1 DEF Bears, Names, Active, jobs
  <2> QED
    BY <2>1, <2>2, NoneNew DEF jobs
<1>6. CASE Restart
  <2>1. /\ containers' \subseteq containers /\ file' = Recovered /\ mem' = Recovered
        /\ buf' = <<>> /\ poll'.data = <<>> /\ sweep'.data = <<>>
        /\ runs' = runs /\ \A k \in Keys : ~Active(k)'
    BY <1>6 DEF Restart, Survivors, Idle, Active, NoRun
  <2>2. ASSUME NEW n \in 1..MaxRuns, NEW k \in Keys, Bears(n, k)'
        PROVE  Bears(n, k)
    <3>1. Names(Recovered, n, k) => Names(file, n, k)
      BY <1>4
    <3> QED
      BY <2>1, <2>2, <3>1 DEF Bears, Names
  <2> QED
    BY <2>1, <2>2, NoneNew
<1> QED
  BY <1>5, <1>6

\* No step gives a number to a second key.
LEMMA BearersKeep ==
  ASSUME JInv, BearersFit, [Next]_vars
  PROVE  BearersFit'
BY CopyingKeepsBearers, RunningKeepsBearers, WriteStartKeepsBearers, EditStartKeepsBearers,
   EditUpdateKeepsBearers, WriteUpdateKeepsBearers, PollExtendKeepsBearers, MarkingKeepsBearers
   DEF Next, LockStep, RunStep, PollStep, SweepStep

-----------------------------------------------------------------------------
\* A step without a poll that overlaps another thread leaves one entry a key
\* in each copy of the history.
LEMMA KeysStayOnce ==
  ASSUME JInv, polls \in Nat, KeysOnce, [Next]_vars
  PROVE  KeysOnce' /\ polls' \in Nat
<1>0. polls' \in Nat /\ (polls' = 0 => polls = 0)
  <2>1. LockStep => polls' = polls
    BY DEF LockStep, CheckGpus, EditStart, Dump, WriteStart, EditUpdate, WriteUpdate, WriteLog, threads
  <2>2. ASSUME NEW k \in Keys, RunStep(k) \/ BeginLog(k) \/ \E g \in Gpus : StartRequest(k, g)
        PROVE  polls' = polls
    BY <2>2 DEF RunStep, BeginUpdate, StageFails, ContainerStarts, WaitEnds, Finish, BeginLog,
                StartRequest, threads
  <2>3. ASSUME NEW c \in containers, ContainerExits(c)
        PROVE  polls' = polls
    BY <2>3 DEF ContainerExits, threads
  <2>4. PollRead => polls' = polls + 1
    BY DEF PollRead
  <2>5. PollStep \/ PollAlone \/ SweepStep \/ Restart \/ UNCHANGED vars => polls' = polls
    BY DEF PollStep, PollClear, PollExtend, PollAlone, SweepStep, SweepDump, SweepWrite, Restart,
           vars, threads
  <2>6. ASSUME NEW i \in DOMAIN mem, SweepMark(i) \/ SweepAlone(i)
        PROVE  polls' = polls
    BY <2>6 DEF SweepMark, SweepAlone, threads
  <2>7. polls' = polls \/ polls' = polls + 1
    BY <2>1, <2>2, <2>3, <2>4, <2>5, <2>6 DEF Next
  <2> QED
    BY <2>7
<1> SUFFICES ASSUME polls' = 0
             PROVE  KeysOnce'
  BY <1>0 DEF KeysOnce
<1>1. /\ polls = 0 /\ poll.pc = "idle" /\ Once(<<>>)
      /\ Once(file) /\ Once(mem) /\ Once(buf) /\ Once(sweep.data)
  BY <1>0 DEF KeysOnce, Once
<1>2. ASSUME NEW list, Once(list), NEW f, DOMAIN f = DOMAIN list,
             \A i \in DOMAIN list : f[i].key = list[i].key
      PROVE  Once(f)
  BY <1>2 DEF Once
<1>3. \A i \in DOMAIN mem : mem[i] \in Entry
  BY InList DEF JInv, TypeOK
<1>4. \A i \in DOMAIN file : file[i] \in Entry
  BY InList DEF JInv, TypeOK
<1>5. ASSUME poll' = poll, file' \in {file, buf, sweep.data}, mem' \in {mem, file},
             buf' \in {buf, mem, <<>>}, sweep'.data \in {sweep.data, mem, <<>>}
      PROVE  KeysOnce'
  BY <1>1, <1>5 DEF KeysOnce, Once
<1>10. CASE LockStep /\ ~EditStart /\ ~EditUpdate
  BY <1>5, <1>10 DEF LockStep, CheckGpus, Dump, WriteStart, WriteUpdate, WriteLog, store, threads
<1>11. ASSUME NEW k \in Keys, RunStep(k) \/ BeginLog(k) \/ \E g \in Gpus : StartRequest(k, g)
       PROVE  KeysOnce'
  BY <1>5, <1>11 DEF RunStep, BeginUpdate, StageFails, ContainerStarts, WaitEnds, Finish, BeginLog,
                     StartRequest, store, lock, threads
<1>12. ASSUME NEW c \in containers, ContainerExits(c)
       PROVE  KeysOnce'
  BY <1>5, <1>12 DEF ContainerExits, store, lock, threads
<1>13. CASE PollRead \/ PollStep \/ PollAlone
  <2>1. ~PollRead /\ ~PollStep
    BY <1>1 DEF PollRead, PollStep, PollClear, PollExtend
  <2> QED
    BY <1>5, <1>13, <2>1 DEF PollAlone, lock, threads
<1>14. CASE SweepStep \/ UNCHANGED vars
  BY <1>5, <1>14 DEF SweepStep, SweepDump, SweepWrite, vars, store, lock, threads, Idle
<1>6. CASE EditStart
  <2>1. UNCHANGED <<file, buf, threads>> /\ (mem' = mem \/ mem' = Accepted(mem))
    BY <1>6 DEF EditStart
  <2>2. Once(Accepted(mem))
    <3> DEFINE new == [key |-> holder.key, gpu |-> holder.gpu, status |-> "training",
                       since |-> "accept", container |-> 0]
    <3>1. CASE Has(mem, holder.key)
      <4>1. Accepted(mem) = [i \in DOMAIN mem |->
                IF IsFirst(mem, i, holder.key)
                  THEN [mem[i] EXCEPT !.status = "training", !.since = "accept",
                                       !.gpu = holder.gpu]
                  ELSE mem[i]]
        BY <3>1 DEF Accepted
      <4>2. DOMAIN Accepted(mem) = DOMAIN mem
        BY <4>1
      <4>3. \A i \in DOMAIN mem : Accepted(mem)[i].key = mem[i].key
        BY <1>3, <4>1 DEF Entry
      <4> QED
        BY <1>1, <1>2, <4>2, <4>3
    <3>2. CASE ~Has(mem, holder.key)
      <4>1. Accepted(mem) = Append(mem, new)
        BY <3>2 DEF Accepted
      <4>2. mem \in Lists /\ DOMAIN mem = 1..Len(mem) /\ Len(mem) \in Nat
        BY LenProperties DEF JInv, TypeOK, Lists
      <4>3. holder \in [op : {"start"}, key : Keys, gpu : Gpus, pc : {"check", "edit", "dump", "write"}]
        BY <1>6 DEF EditStart, JInv, TypeOK, Holders, Free, Updates
      <4>4. new \in Entry
        BY <4>3, TrainerAssumption DEF Entry
      <4>5. /\ DOMAIN Append(mem, new) = 1..(Len(mem) + 1)
            /\ \A i \in 1..(Len(mem) + 1) : Append(mem, new)[i] = IF i <= Len(mem) THEN mem[i] ELSE new
        BY <4>2, <4>4, AppendProperties, LenProperties DEF Lists
      <4>6. \A i \in 1..Len(mem) : mem[i].key # holder.key
        BY <3>2, <4>2 DEF Has
      <4>7. Once(Append(mem, new))
        BY <1>1, <4>2, <4>5, <4>6 DEF Once
      <4> QED
        BY <4>1, <4>7
    <3> QED
      BY <3>1, <3>2
  <2> QED
    BY <1>1, <2>1, <2>2 DEF KeysOnce, Once, threads
<1>7. CASE EditUpdate
  <2>1. UNCHANGED <<file, buf, threads>> /\
        (mem' = mem \/ mem' = [i \in DOMAIN mem |->
            IF IsFirst(mem, i, holder.key) THEN Updated(mem[i], run[holder.key]) ELSE mem[i]])
    BY <1>7 DEF EditUpdate
  <2>2. \A i \in DOMAIN mem : Updated(mem[i], run[holder.key]).key = mem[i].key
    BY <1>3 DEF Updated, Entry
  <2>3. DOMAIN mem' = DOMAIN mem /\ \A i \in DOMAIN mem : mem'[i].key = mem[i].key
    BY <2>1, <2>2
  <2> QED
    BY <1>1, <2>1, <2>3 DEF KeysOnce, Once, threads
<1>8. ASSUME NEW i \in DOMAIN mem, SweepMark(i) \/ SweepAlone(i)
      PROVE  KeysOnce'
  <2>1. /\ buf' = buf /\ poll' = poll /\ mem' = TimedOut(i) /\ file' \in {file, TimedOut(i)}
        /\ sweep'.data = sweep.data
    BY <1>8 DEF SweepMark, SweepAlone, lock, threads, JInv, TypeOK
  <2>2. DOMAIN TimedOut(i) = DOMAIN mem /\ \A j \in DOMAIN mem : TimedOut(i)[j].key = mem[j].key
    BY <1>3 DEF TimedOut, Entry
  <2>3. Once(TimedOut(i))
    BY <1>1, <2>2 DEF Once
  <2> QED
    BY <1>1, <2>1, <2>3 DEF KeysOnce, Once
<1>9. CASE Restart
  <2>1. /\ file' = Recovered /\ mem' = Recovered /\ buf' = <<>>
        /\ poll'.pc = "idle" /\ sweep'.data = <<>>
    BY <1>9 DEF Restart, Idle
  <2>2. DOMAIN Recovered = DOMAIN file /\ \A j \in DOMAIN file : Recovered[j].key = file[j].key
    BY <1>4 DEF Recovered, Entry
  <2>3. Once(Recovered)
    BY <1>1, <2>2 DEF Once
  <2> QED
    BY <1>1, <2>1, <2>3 DEF KeysOnce, Once
<1> QED
  BY <1>6, <1>7, <1>8, <1>9, <1>10, <1>11, <1>12, <1>13, <1>14 DEF Next

-----------------------------------------------------------------------------
\* What recovery leaves in TRAINING has a container of its name and key that
\* runs on, and recovery keeps every job whose container runs on.
LEMMA RestartIsSound ==
  ASSUME RInv, Restart
  PROVE  /\ \A k \in Keys, i \in Training(file') : IsFirst(file', i, k) =>
              \E c \in containers' : c.key = k /\ c.id = file'[i].container
         /\ \A c \in Survivors : c \in containers' /\
              (polls = 0 => FirstHas(file', c.key, "training"))
<1>0. /\ file' = Recovered /\ Survivors \subseteq containers'
      /\ \A i \in DOMAIN file : file[i] \in Entry
      /\ containers \subseteq [id : 1..MaxRuns, key : Keys, gpu : Gpus]
  BY InList DEF Restart, RInv, JInv, TypeOK
<1>1. DOMAIN Recovered = DOMAIN file /\ \A i \in DOMAIN file :
        Recovered[i] = IF Orphaned(file[i].key) /\ IsFirst(file, i, file[i].key)
                       THEN [file[i] EXCEPT !.status = "failure"] ELSE file[i]
  BY DEF Recovered
<1>2. \A i \in DOMAIN file : /\ Recovered[i].key = file[i].key
                             /\ Recovered[i].container = file[i].container
  BY <1>0, <1>1 DEF Entry
<1>3. \A i \in DOMAIN file, k \in Keys : IsFirst(Recovered, i, k) <=> IsFirst(file, i, k)
  <2>1. file \in Lists /\ DOMAIN file = 1..Len(file) /\ Len(file) \in Nat
    BY LenProperties DEF RInv, JInv, TypeOK, Lists
  <2> QED
    BY <1>2, <2>1 DEF IsFirst
\* An entry and a running container of one number are of one key.
<1>4. ASSUME NEW c \in containers, NEW i \in DOMAIN file, file[i].container = c.id
      PROVE  c.key = file[i].key /\ c.key \in Keys
  <2>1. c.id \in 1..MaxRuns /\ c.key \in Keys /\ file[i].key \in Keys
    BY <1>0 DEF Entry
  <2>2. Bears(c.id, c.key) /\ Bears(c.id, file[i].key)
    BY <1>4 DEF Bears, Names
  <2> QED
    BY <2>1, <2>2 DEF RInv, BearersFit
<1>5. ASSUME NEW k \in Keys, NEW i \in Training(file'), IsFirst(file', i, k)
      PROVE  \E c \in containers' : c.key = k /\ c.id = file'[i].container
  <2>1. i \in DOMAIN file /\ IsFirst(file, i, k) /\ file[i].key = k /\ Recovered[i].status = "training"
    BY <1>0, <1>1, <1>3, <1>5 DEF Training, IsFirst
  <2>2. ~Orphaned(k) /\ file[i].status = "training"
    BY <1>0, <1>1, <2>1 DEF Entry
  <2>3. PICK c \in Survivors : c.id = file[i].container
    BY <2>1, <2>2 DEF Orphaned, Training
  <2>4. c \in containers /\ c \in containers'
    BY <1>0, <2>3 DEF Survivors
  <2> QED
    BY <1>0, <1>2, <1>4, <2>1, <2>3, <2>4
<1>6. ASSUME NEW c \in Survivors, polls = 0
      PROVE  FirstHas(file', c.key, "training")
  <2>1. c \in containers /\ Tracked(c)
    BY <1>6 DEF Survivors
  <2>2. PICK i \in Training(file) : file[i].container = c.id
    BY <2>1 DEF Tracked
  <2>3. i \in DOMAIN file /\ file[i].status = "training" /\ file[i].key = c.key /\ c.key \in Keys
    BY <1>4, <2>1, <2>2 DEF Training
  <2>4. \A j \in DOMAIN file : file[j].key = c.key => j = i
    BY <1>6, <2>3 DEF RInv, KeysOnce, Once
  <2>5. IsFirst(file, i, c.key)
    <3>1. file \in Lists /\ DOMAIN file = 1..Len(file) /\ Len(file) \in Nat
      BY LenProperties DEF RInv, JInv, TypeOK, Lists
    <3> QED
      BY <2>3, <2>4, <3>1 DEF IsFirst
  <2>6. ~Orphaned(c.key)
    BY <1>6, <2>2, <2>4 DEF Orphaned, Training
  <2>7. Recovered[i] = file[i] /\ IsFirst(Recovered, i, c.key)
    BY <1>1, <1>3, <2>3, <2>5, <2>6
  <2> QED
    BY <1>0, <1>1, <2>3, <2>7 DEF FirstHas
<1> QED
  BY <1>0, <1>5, <1>6

\* RecoveryHolds (cleanup_orphaned_trainer_state): whatever the threads had
\* done to the history, a job in TRAINING after a restart has its own container
\* running; and unless polls had upset the history, none whose container runs
\* on is given up.
THEOREM RecoveryHolds == Spec => RecoveryIsSound
<1>1. Init => RInv
  <2> SUFFICES ASSUME Init
               PROVE  RInv
    OBVIOUS
  <2>1. JInv
    BY InitEstablishes
  <2>2. ~(\E n \in 1..MaxRuns, k \in Keys : Bears(n, k))
    BY DEF Init, Bears, Names, Active, NoRun, Idle
  <2>3. KeysOnce /\ polls \in Nat
    BY DEF Init, KeysOnce, Once, Idle
  <2> QED
    BY <2>1, <2>2, <2>3 DEF RInv, BearersFit
<1>2. RInv /\ [Next]_vars => RInv'
  <2>1. JInv /\ [Next]_vars => JInv'
    BY NextKeeps, StutterKeeps
  <2> QED
    BY <2>1, BearersKeep, KeysStayOnce DEF RInv
<1>3. RInv /\ [Next]_vars => [restarts' # restarts =>
       /\ \A k \in Keys, i \in Training(file') : IsFirst(file', i, k) =>
            \E c \in containers' : c.key = k /\ c.id = file'[i].container
       /\ \A c \in Survivors : c \in containers' /\
            (polls = 0 => FirstHas(file', c.key, "training"))]_vars
  <2> SUFFICES ASSUME RInv, Next, restarts' # restarts
               PROVE  Restart
    BY RestartIsSound
  <2> QED
    BY DEF Next, LockStep, RunStep, PollStep, SweepStep, StartRequest, CheckGpus, EditStart, Dump,
         WriteStart, EditUpdate, WriteUpdate, WriteLog, BeginUpdate, StageFails, ContainerStarts,
         WaitEnds, Finish, BeginLog, ContainerExits, PollRead, PollClear, PollExtend, PollAlone,
         SweepMark, SweepAlone, SweepDump, SweepWrite
<1> QED
  BY <1>1, <1>2, <1>3, PTL DEF Spec, RecoveryIsSound

=============================================================================
