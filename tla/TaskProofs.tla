----------------------------- MODULE TaskProofs -----------------------------
(***************************************************************************)
(* Theorems about the modules that follow one task: TaskEvaluation, from   *)
(* the end of its trainings to its verdict, OrganicTasks, a customer's     *)
(* task from PENDING to its end, and Scoring, its ranking.  The modules    *)
(* share nothing; each part below has an inductive invariant of its own.   *)
(***************************************************************************)
EXTENDS TaskEvaluation, OrganicTasks, Scoring, FiniteSetTheorems, SequenceTheorems, TLAPS

-----------------------------------------------------------------------------
(***************************************************************************)
(* TaskEvaluation.  The inductive invariant follows a verdict back along   *)
(* what was read when: whatever is about to write a status after the       *)
(* trainings read them when all had ended, and an ended training stays so. *)
(***************************************************************************)

\* A row that has a verdict was judged.
RowsAreJudged == \A h \in Competing : eval[h] \in Final => h \in judged

\* The dstack monitor writes the status of a task whose one training ended.
MoverShape ==
  /\ mover # "none" => task.kind = "runpod" /\ AllEnded
  /\ mover = "failure" => Trained = {}

Unseeded == Trained \cap RowsWith({"none"})

\* A task found for seeding has all its trainings behind it, and once its rows
\* are written they are all there.
LoopShape ==
  /\ taskStatus = "preevaluation" => AllEnded
  /\ loop \in {"rows", "status"} => AllEnded
  /\ loop = "status" => Unseeded = {}

WorkerAt == {"idle", "check", "pending", "evaluating", "launch", "decide", "rows", "write"}

WorkerShape ==
  /\ worker.at = "rows" => AllEnded
  /\ worker.at = "write" =>
       AllEnded /\ Trained \subseteq judged /\ worker.verdict \in Final

IInv ==
  /\ TypeOK /\ RowsAreJudged /\ MoverShape /\ LoopShape /\ WorkerShape
  /\ NobodyLeftOut /\ EvaluatingIsSeeded

-----------------------------------------------------------------------------
\* A task outside the tournaments has one miner: its training is the last.
LEMMA OneMiner ==
  ASSUME TypeOK, task.kind # "tournament", NEW h \in Competing
  PROVE  Competing = {h}
<1>1. IsFiniteSet(Competing)
  BY EvaluationAssumption, FS_Subset DEF TypeOK, Cases, Competing
<1>2. Cardinality(Competing) = 1
  BY DEF TypeOK, Cases, Competing
<1>3. \E x : Competing = {x}
  BY <1>1, <1>2, FS_Singleton
<1> QED
  BY <1>3

\* The invariant holds at the start.
LEMMA InitHolds == Init => IInv
<1> SUFFICES ASSUME Init PROVE IInv
  OBVIOUS
<1>1. TypeOK
  BY EvaluationAssumption DEF Init, TypeOK, RowStates, NoWork, Final, Competing, Cases
<1>2. RowsAreJudged
  BY DEF Init, RowsAreJudged, Final, Competing, Cases
<1> QED
  BY <1>1, <1>2 DEF Init, IInv, MoverShape, LoopShape, WorkerShape, NobodyLeftOut,
     EvaluatingIsSeeded, Unseeded, NoWork, Final

\* While the trainings stand and rows are only added or given a verdict that
\* is recorded, nothing that was found about them is lost.
LEMMA ReadingsStand ==
  ASSUME IInv, task' = task, training' = training
  PROVE  Competing' = Competing /\ Trained' = Trained /\ AllEnded' = AllEnded
BY DEF Competing, Trained, AllEnded

\* The end of a training keeps the invariant.
LEMMA TrainingEndsKeeps ==
  ASSUME IInv, NEW h \in Hotkeys, TrainingEnds(h)
  PROVE  IInv'
<1> USE DEF IInv
<1>1. ~AllEnded /\ Competing' = Competing
  BY DEF TrainingEnds, AllEnded, Final, Competing
<1>2. /\ mover = "none" /\ taskStatus \notin Final \cup {"preevaluation", "evaluating"}
      /\ loop \notin {"rows", "status"} /\ worker.at \notin {"rows", "write"}
  BY <1>1 DEF MoverShape, LoopShape, WorkerShape, NobodyLeftOut, EvaluatingIsSeeded
<1>3. TypeOK'
  BY <1>1 DEF TrainingEnds, TypeOK, Final
<1>4. RowsAreJudged'
  BY <1>1 DEF TrainingEnds, RowsAreJudged
<1>5. MoverShape'
  <2>1. CASE task.kind # "runpod"
    BY <1>2, <2>1 DEF TrainingEnds, MoverShape
  <2>2. CASE task.kind = "runpod"
    <3>1. Competing = {h}
      BY <2>2, OneMiner DEF TrainingEnds
    <3>2. PICK s \in Final : /\ training' = [training EXCEPT ![h] = s]
                             /\ mover' = IF s = "success" THEN "preevaluation" ELSE "failure"
      BY <2>2 DEF TrainingEnds
    <3>3. training'[h] = s
      BY <3>2 DEF TypeOK
    <3>4. AllEnded'
      BY <1>1, <3>1, <3>3 DEF AllEnded
    <3>5. mover' = "failure" => Trained' = {}
      BY <1>1, <3>1, <3>2, <3>3 DEF Trained
    <3> QED
      BY <2>2, <3>4, <3>5 DEF MoverShape, TrainingEnds
  <2> QED
    BY <2>1, <2>2
<1> QED
  BY <1>2, <1>3, <1>4, <1>5 DEF TrainingEnds, LoopShape, WorkerShape, NobodyLeftOut, EvaluatingIsSeeded

\* The dstack monitor.
LEMMA MoverKeeps ==
  ASSUME IInv, MoverWrites \/ MoverRestarts
  PROVE  IInv'
<1> USE DEF IInv
<1>1. Competing' = Competing /\ Trained' = Trained /\ AllEnded' = AllEnded /\ Unseeded' = Unseeded
  BY ReadingsStand DEF MoverWrites, MoverRestarts, Unseeded, RowsWith
<1>2. TypeOK'
  <2>1. CASE MoverWrites
    BY <1>1, <2>1 DEF TypeOK, MoverWrites
  <2>2. CASE MoverRestarts
    <3>1. restarts' \in 0..MaxRestarts
      BY <2>2, EvaluationAssumption DEF TypeOK, MoverRestarts
    <3> QED
      BY <1>1, <2>2, <3>1 DEF TypeOK, MoverRestarts
  <2> QED
    BY <2>1, <2>2
<1>3. RowsAreJudged' /\ MoverShape' /\ LoopShape' /\ WorkerShape'
  BY <1>1 DEF RowsAreJudged, MoverShape, LoopShape, WorkerShape, MoverWrites, MoverRestarts
<1>4. NobodyLeftOut' /\ EvaluatingIsSeeded'
  BY <1>1 DEF NobodyLeftOut, EvaluatingIsSeeded, Unseeded, MoverShape, Final, MoverWrites,
     MoverRestarts, TypeOK
<1> QED
  BY <1>2, <1>3, <1>4

\* Rows are only added: what was seeded stays seeded, what was judged stays.
LEMMA SeedingKeeps ==
  ASSUME IInv, eval' = SetRows(MissingRows, "pending"),
         UNCHANGED <<task, training, taskStatus, mover, worker, jobs, judged, retries, restarts>>,
         loop' \in {loop, "status"}, loop' = "status" => loop \in {"rows", "status"}
  PROVE  IInv'
<1> USE DEF IInv
<1>1. Competing' = Competing /\ Trained' = Trained /\ AllEnded' = AllEnded
  BY ReadingsStand
<1>2. TypeOK'
  BY <1>1 DEF TypeOK, SetRows, RowStates
<1>3. RowsAreJudged'
  BY <1>1 DEF RowsAreJudged, SetRows, Final, TypeOK, Cases, Competing
<1>4. Unseeded' = {}
  BY <1>1 DEF Unseeded, RowsWith, MissingRows, SetRows, TypeOK, Cases, Competing, Trained
<1>5. MoverShape' /\ LoopShape' /\ WorkerShape' /\ NobodyLeftOut' /\ EvaluatingIsSeeded'
  BY <1>1, <1>4 DEF MoverShape, LoopShape, WorkerShape, NobodyLeftOut, EvaluatingIsSeeded, Unseeded
<1> QED
  BY <1>2, <1>3, <1>5

\* The lifecycle loop's other steps: reads, the status of a seeded task, a worker.
LEMMA LoopKeeps ==
  ASSUME IInv, FindToSeed \/ SeedStatus \/ FindReady \/ Spawn
  PROVE  IInv'
<1> USE DEF IInv
<1>1. Competing' = Competing /\ Trained' = Trained /\ AllEnded' = AllEnded /\ Unseeded' = Unseeded
  BY ReadingsStand DEF FindToSeed, SeedStatus, FindReady, Spawn, Unseeded, RowsWith
<1>2. CASE FindToSeed
  BY <1>1, <1>2 DEF FindToSeed, ToSeed, TypeOK, RowsAreJudged, MoverShape, LoopShape, WorkerShape,
     NobodyLeftOut, EvaluatingIsSeeded, Unseeded
<1>3. CASE SeedStatus
  BY <1>1, <1>3 DEF SeedStatus, TypeOK, RowsAreJudged, MoverShape, LoopShape, WorkerShape,
     NobodyLeftOut, EvaluatingIsSeeded, Unseeded, Final
<1>4. CASE FindReady
  BY <1>1, <1>4 DEF FindReady, TypeOK, RowsAreJudged, MoverShape, LoopShape, WorkerShape,
     NobodyLeftOut, EvaluatingIsSeeded, Unseeded
<1>5. CASE Spawn
  BY <1>1, <1>5 DEF Spawn, NoWork, TypeOK, RowsAreJudged, MoverShape, LoopShape, WorkerShape,
     NobodyLeftOut, EvaluatingIsSeeded, Unseeded
<1> QED
  BY <1>2, <1>3, <1>4, <1>5

\* The worker's reads and its verdict leave the rows alone.
LEMMA WorkerKeeps ==
  ASSUME IInv, \/ CheckTrainings \/ ReadPending \/ ReadEvaluating
               \/ DecideTrainings \/ DecideRows \/ WriteVerdict
  PROVE  IInv'
<1> USE DEF IInv, Continue
<1>1. Competing' = Competing /\ Trained' = Trained /\ AllEnded' = AllEnded /\ Unseeded' = Unseeded
  BY ReadingsStand DEF CheckTrainings, ReadPending, ReadEvaluating, DecideTrainings, DecideRows,
     WriteVerdict, Unseeded, RowsWith
<1>2. RowsAreJudged' /\ MoverShape'
  BY <1>1 DEF RowsAreJudged, MoverShape, CheckTrainings, ReadPending, ReadEvaluating,
     DecideTrainings, DecideRows, WriteVerdict
<1>3. worker' \in [at : WorkerAt, list : SUBSET Competing, pending : SUBSET Competing,
                   verdict : Final \cup {"none"}]
  <2>1. /\ RowsWith({"pending"}) \subseteq Competing /\ RowsWith({"evaluating"}) \subseteq Competing
        /\ worker \in [at : WorkerAt, list : SUBSET Competing, pending : SUBSET Competing,
                       verdict : Final \cup {"none"}]
    BY DEF RowsWith, TypeOK, WorkerAt
  <2>2. NoWork \in [at : WorkerAt, list : SUBSET Competing, pending : SUBSET Competing,
                   verdict : Final \cup {"none"}]
    BY DEF NoWork, WorkerAt
  <2>3. CASE CheckTrainings \/ DecideTrainings
    BY <2>1, <2>2, <2>3 DEF CheckTrainings, DecideTrainings, WorkerAt
  <2>4. CASE ReadPending
    BY <2>1, <2>4 DEF ReadPending, WorkerAt
  <2>5. CASE ReadEvaluating
    BY <2>1, <2>5 DEF ReadEvaluating, WorkerAt
  <2>6. CASE DecideRows
    BY <2>1, <2>2, <2>6 DEF DecideRows, WorkerAt, Final
  <2>7. CASE WriteVerdict
    BY <2>2, <2>7 DEF WriteVerdict
  <2> QED
    BY <2>3, <2>4, <2>5, <2>6, <2>7
<1>4. TypeOK' /\ LoopShape' /\ NobodyLeftOut' /\ EvaluatingIsSeeded'
  <2>1. CASE CheckTrainings \/ ReadPending \/ ReadEvaluating \/ DecideTrainings \/ DecideRows
    <3>1. UNCHANGED <<task, taskStatus, training, eval, mover, loop, jobs, judged, retries, restarts>>
      BY <2>1 DEF CheckTrainings, ReadPending, ReadEvaluating, DecideTrainings, DecideRows
    <3> QED
      BY <1>1, <1>3, <3>1 DEF TypeOK, WorkerAt, LoopShape, NobodyLeftOut, EvaluatingIsSeeded, Unseeded
  <2>2. CASE WriteVerdict
    <3>1. /\ taskStatus' \in Final /\ AllEnded /\ Trained \subseteq judged
          /\ UNCHANGED <<task, training, eval, mover, loop, jobs, judged, retries, restarts>>
      BY <2>2 DEF WriteVerdict, WorkerShape
    <3> QED
      BY <1>1, <1>3, <3>1 DEF TypeOK, WorkerAt, LoopShape, NobodyLeftOut, EvaluatingIsSeeded, Unseeded, Final
  <2> QED
    BY <2>1, <2>2
<1>5. WorkerShape'
  <2>1. CASE CheckTrainings \/ ReadPending \/ ReadEvaluating \/ DecideTrainings \/ WriteVerdict
    <3>1. worker'.at \notin {"rows", "write"} \/ (worker'.at = "rows" /\ AllEnded)
      <4>1. DOMAIN worker = {"at", "list", "pending", "verdict"}
        BY DEF TypeOK
      <4>2. CASE CheckTrainings \/ DecideTrainings
        BY <4>1, <4>2 DEF CheckTrainings, DecideTrainings, NoWork, TypeOK
      <4>3. CASE ReadPending
        BY <4>1, <4>3 DEF ReadPending, TypeOK
      <4>4. CASE ReadEvaluating
        BY <4>1, <4>4 DEF ReadEvaluating, TypeOK
      <4>5. CASE WriteVerdict
        BY <4>5 DEF WriteVerdict, NoWork
      <4> QED
        BY <2>1, <4>2, <4>3, <4>4, <4>5
    <3> QED
      BY <1>1, <3>1 DEF WorkerShape
  <2>2. CASE DecideRows
    <3>1. CASE Covered /\ Trained \cap RowsWith(Open) = {}
      <4>1. \A h \in Trained : eval[h] \in Final
        BY <3>1 DEF Covered, RowsWith, Open, Trained, TypeOK, RowStates, Final, Competing, Cases
      <4>2. Trained \subseteq judged
        BY <4>1 DEF RowsAreJudged, Trained
      <4> QED
        BY <1>1, <2>2, <3>1, <4>2 DEF DecideRows, WorkerShape, TypeOK, Final
    <3>2. CASE ~(Covered /\ Trained \cap RowsWith(Open) = {})
      BY <1>1, <2>2, <3>2 DEF DecideRows, WorkerShape, NoWork
    <3> QED
      BY <3>1, <3>2
  <2> QED
    BY <2>1, <2>2
<1> QED
  BY <1>2, <1>4, <1>5

\* An evaluation is started, ends or is lost: rows that exist go on existing
\* and a verdict is recorded, so what the statuses rest on is not disturbed.
LEMMA RowsMove ==
  ASSUME IInv, TypeOK', NEW S \in SUBSET Competing, NEW s \in {"pending", "evaluating", "success", "failure"},
         eval' = SetRows(S, s), judged \subseteq judged', s \in Final => S \subseteq judged',
         UNCHANGED <<task, taskStatus, training, mover>>,
         loop' \in {loop, "seed"}, worker'.at \in {worker.at, "idle", "launch", "decide"},
         worker'.verdict = worker.verdict \/ worker'.at # "write"
  PROVE  IInv'
<1> USE DEF IInv
<1>1. Competing' = Competing /\ Trained' = Trained /\ AllEnded' = AllEnded
  BY ReadingsStand
<1>2. RowsAreJudged'
  BY <1>1 DEF RowsAreJudged, SetRows, TypeOK, Cases, Competing, Final
<1>3. Unseeded' \subseteq Unseeded
  BY <1>1 DEF Unseeded, RowsWith, SetRows, TypeOK, Cases, Competing, Trained
<1>4. MoverShape' /\ LoopShape' /\ WorkerShape' /\ NobodyLeftOut' /\ EvaluatingIsSeeded'
  BY <1>1, <1>3 DEF MoverShape, LoopShape, WorkerShape, NobodyLeftOut, EvaluatingIsSeeded, Unseeded
<1> QED
  BY <1>2, <1>4

\* So does starting evaluations.
LEMMA LaunchKeeps ==
  ASSUME IInv, NEW S \in SUBSET Hotkeys, Launch(S)
  PROVE  IInv'
<1> USE DEF IInv, Launch, Continue
<1>1. S # {} /\ S \subseteq Competing /\ Competing' = Competing
  BY DEF NextBatch, TypeOK, Competing
<1>2. TypeOK'
  <2>1. worker' \in [at : {"decide", "launch"}, list : SUBSET Competing, pending : SUBSET Competing,
                     verdict : Final \cup {"none"}]
    <3>1. worker.list \ S \in SUBSET Competing
      BY DEF TypeOK
    <3>2. worker' = [worker EXCEPT !.list = worker.list \ S,
                                  !.at = IF worker.list = S THEN "decide" ELSE "launch"]
      OBVIOUS
    <3> QED
      BY <3>1, <3>2 DEF TypeOK
  <2>2. eval' \in [Hotkeys -> RowStates]
    BY DEF TypeOK, SetRows, RowStates
  <2>3. jobs' \subseteq [of : (SUBSET Competing) \ {{}}, failing : BOOLEAN]
    <3>1. [of |-> S, failing |-> FALSE] \in [of : (SUBSET Competing) \ {{}}, failing : BOOLEAN]
      BY <1>1
    <3>2. jobs' \subseteq jobs \cup {[of |-> S, failing |-> FALSE]}
      OBVIOUS
    <3>3. jobs \subseteq [of : (SUBSET Competing) \ {{}}, failing : BOOLEAN]
      BY DEF TypeOK
    <3> QED
      BY <3>1, <3>2, <3>3
  <2> QED
    BY <1>1, <2>1, <2>2, <2>3 DEF TypeOK
<1>3. PICK T \in SUBSET Competing : eval' = SetRows(T, "evaluating")
  <2>1. eval = SetRows({}, "evaluating")
    BY DEF SetRows, TypeOK
  <2> QED
    BY <1>1, <2>1
<1>4. worker'.at \in {"decide", "launch"}
  BY DEF TypeOK
<1> QED
  BY <1>2, <1>3, <1>4, RowsMove DEF Final

\* So does every end of an evaluation.
LEMMA JobKeeps ==
  ASSUME IInv, NEW j \in jobs,
         \/ JobFails(j) \/ JobRetries(j) \/ \E ok \in SUBSET j.of : JobSucceeds(j, ok)
  PROVE  IInv'
<1> USE DEF IInv, Report
<1>1. j.of \in (SUBSET Competing) \ {{}}
  BY DEF TypeOK
<1>2. CASE JobFails(j)
  <2>1. TypeOK'
    BY <1>1, <1>2 DEF JobFails, TypeOK, SetRows, RowStates, Competing
  <2> QED
    BY <1>1, <1>2, <2>1, RowsMove DEF JobFails, Final
<1>3. CASE JobRetries(j)
  <2>1. TypeOK'
    BY <1>1, <1>3, EvaluationAssumption DEF JobRetries, TypeOK, SetRows, RowStates, Competing
  <2> QED
    BY <1>1, <1>3, <2>1, RowsMove DEF JobRetries, Final
<1>4. ASSUME NEW ok \in SUBSET j.of, JobSucceeds(j, ok) PROVE IInv'
  <2>1. eval' \in [Hotkeys -> RowStates] /\ judged' \subseteq Competing
    BY <1>1, <1>4 DEF JobSucceeds, TypeOK, SetRows, RowStates
  <2>2. jobs' \subseteq [of : (SUBSET Competing) \ {{}}, failing : BOOLEAN]
    <3>1. jobs \subseteq [of : (SUBSET Competing) \ {{}}, failing : BOOLEAN]
      BY DEF TypeOK
    <3>2. CASE j.of \ ok = {}
      BY <1>4, <3>1, <3>2 DEF JobSucceeds
    <3>3. CASE j.of \ ok # {}
      <4>1. [of |-> j.of \ ok, failing |-> TRUE] \in [of : (SUBSET Competing) \ {{}}, failing : BOOLEAN]
        BY <1>1, <3>3
      <4>2. jobs' \subseteq jobs \cup {[of |-> j.of \ ok, failing |-> TRUE]}
        BY <1>4 DEF JobSucceeds
      <4> QED
        BY <3>1, <4>1, <4>2
    <3> QED
      BY <3>2, <3>3
  <2>3. TypeOK'
    BY <1>4, <2>1, <2>2 DEF JobSucceeds, TypeOK, Competing
  <2> QED
    BY <1>1, <1>4, <2>3, RowsMove DEF JobSucceeds, Final
<1> QED
  BY <1>2, <1>3, <1>4

\* So does a restart of the lifecycle process.
LEMMA RestartKeeps ==
  ASSUME IInv, Restart
  PROVE  IInv'
<1> USE DEF IInv, Restart
<1>1. Recovered \in SUBSET Competing
  BY DEF Recovered, RowsWith
<1>2. TypeOK'
  BY EvaluationAssumption DEF TypeOK, SetRows, RowStates, NoWork, Competing
<1> QED
  BY <1>1, <1>2, RowsMove DEF NoWork, Final

\* No step disturbs the invariant.
LEMMA NextKeeps == IInv /\ [Next]_vars => IInv'
<1> SUFFICES ASSUME IInv, [Next]_vars PROVE IInv'
  OBVIOUS
<1>1. CASE UNCHANGED vars
  BY <1>1 DEF vars, IInv, TypeOK, RowsAreJudged, MoverShape, LoopShape, WorkerShape, NobodyLeftOut,
     EvaluatingIsSeeded, Unseeded, AllEnded, Trained, RowsWith, Competing
<1>2. CASE \E h \in Hotkeys : TrainingEnds(h)
  BY <1>2, TrainingEndsKeeps
<1>3. CASE MoverWrites \/ MoverRestarts
  BY <1>3, MoverKeeps
<1>4. CASE SeedTrained \/ SeedRows
  BY <1>4, SeedingKeeps DEF SeedTrained, SeedRows
<1>5. CASE FindToSeed \/ SeedStatus \/ FindReady \/ Spawn
  BY <1>5, LoopKeeps
<1>6. CASE WorkerStep
  BY <1>6, WorkerKeeps, LaunchKeeps DEF WorkerStep
<1>7. CASE JobEnds \/ \E j \in jobs : JobRetries(j)
  BY <1>7, JobKeeps DEF JobEnds
<1>8. CASE Restart
  BY <1>8, RestartKeeps
<1> QED
  BY <1>1, <1>2, <1>3, <1>4, <1>5, <1>6, <1>7, <1>8 DEF Next, LoopStep

\* IInv is inductive and holds of every behaviour.
THEOREM Invariance == Spec => []IInv
BY InitHolds, NextKeeps, PTL DEF Spec

\* Type correctness of the task's rows, readers and evaluations.
THEOREM TypeCorrect == Spec => []TypeOK
BY Invariance, PTL DEF IInv

\* _finalize_task_status_from_evaluations never finishes a task before its last
\* training, or with a trained miner whose row never had a verdict.
THEOREM EverybodyJudged == Spec => []NobodyLeftOut
BY Invariance, PTL DEF IInv

\* _seed_task_evaluations_for_evaluation never leaves a task in EVALUATING that
\* lacks the row of a trained miner, whatever process stops in between.
THEOREM SeededBeforeEvaluating == Spec => []EvaluatingIsSeeded
BY Invariance, PTL DEF IInv

-----------------------------------------------------------------------------
(***************************************************************************)
(* OrganicTasks.  OrganicInv says what the lists and the row in hand mean  *)
(* for the table (RowsStand, Watched), what a task's status says of its    *)
(* row (Staged), and counts the runs (Accounted): a run is somebody's      *)
(* while it is being recorded or while the row in TRAINING names it, and   *)
(* those that are nobody's were lost by a failure.                         *)
(***************************************************************************)

Ends == {"done", "failed", "no offers"}

\* Two of the loops work on rows nobody else writes.
RowsStand ==
  /\ \A e \in queue : row[e[1]].status = "pending" /\ row[e[1]].attempts = e[2]
  /\ hand # Free => /\ hand.entry \in queue /\ hand.entry[2] < MaxAttempts
                    /\ Len(runs[hand.entry[1]]) # 0
  /\ hand.at = "named" => row[hand.entry[1]].name = Len(runs[hand.entry[1]])

Watched ==
  /\ \A e \in watch.list : row[e[1]].status = "training" /\ row[e[1]].attempts = e[2]
  /\ watch.at = "row" =>
       LET r == row[watch.entry[1]]
       IN  /\ watch.entry \notin watch.list
           /\ r.status = "training" /\ r.attempts = watch.entry[2]
           /\ runs[watch.entry[1]][r.name] = watch.says
  /\ watch.at = "task" =>
       /\ row[watch.entry[1]].status \in Decided
       /\ watch.says = "done" => row[watch.entry[1]].status = "success"

\* What a row and a status say.
Staged ==
  /\ \A t \in Tasks :
       /\ row[t].attempts <= MaxAttempts
       /\ row[t].status \in {"training", "success"} => row[t].name \in DOMAIN runs[t]
       /\ row[t].status = "success" => runs[t][row[t].name] = "done"
       /\ status[t] = "training" => row[t].status # "none"
       /\ status[t] \in PastTraining => row[t].status \in Decided
       /\ status[t] = "success" => row[t].status = "success"
  /\ fetch.at = "status" => \A t \in fetch.list : row[t].status # "none"
  /\ fetch.at = "idle" => fetch.list = {}

Held(t) == hand # Free /\ hand.entry[1] = t

Somebodys(t) ==
  IF Held(t) THEN {Len(runs[t])}
  ELSE IF row[t].status = "training" THEN {row[t].name} ELSE {}

Lost(t) == LiveRuns(t) \ Somebodys(t)

Accounted ==
  \A t \in Tasks :
    /\ Len(runs[t]) <= row[t].attempts + (IF Held(t) THEN 1 ELSE 0) + faults
    /\ Cardinality(Lost(t)) <= faults

OrganicInv == OrganicTypeOK /\ RowsStand /\ Watched /\ Staged /\ Accounted

-----------------------------------------------------------------------------
(* Facts about runs                                                        *)

\* A task's runs, and those whose names were lost, are finitely many.
LEMMA LiveRunsFinite ==
  ASSUME OrganicTypeOK, NEW t \in Tasks
  PROVE  /\ IsFiniteSet(LiveRuns(t)) /\ IsFiniteSet(Lost(t))
         /\ Cardinality(Lost(t)) \in Nat /\ Cardinality(LiveRuns(t)) \in Nat
<1>0. runs[t] \in Seq(RunStates)
  BY DEF OrganicTypeOK
<1>1. DOMAIN runs[t] = 1 .. Len(runs[t]) /\ Len(runs[t]) \in Nat
  BY <1>0, LenProperties
<1>2. IsFiniteSet(1 .. Len(runs[t]))
  <2>1. 1 \in Int /\ Len(runs[t]) \in Int
    BY <1>1
  <2> QED
    BY <2>1, FS_Interval
<1>3. LiveRuns(t) \subseteq 1 .. Len(runs[t]) /\ Lost(t) \subseteq 1 .. Len(runs[t])
  BY <1>1 DEF LiveRuns, Lost
<1>4. IsFiniteSet(LiveRuns(t)) /\ IsFiniteSet(Lost(t))
  BY <1>2, <1>3, FS_Subset
<1> QED
  BY <1>4, FS_CardinalityType

\* A count of runs that has not grown needs no new failure.
LEMMA SmallerCount ==
  ASSUME NEW S, NEW T, IsFiniteSet(T), S \subseteq T, NEW n \in Nat, Cardinality(T) <= n
  PROVE  Cardinality(S) <= n
<1>1. IsFiniteSet(S) /\ Cardinality(S) <= Cardinality(T)
  BY FS_Subset
<1> QED
  BY <1>1, FS_CardinalityType

\* One member more is one more to count.
LEMMA OneMore ==
  ASSUME NEW S, NEW T, NEW x, IsFiniteSet(T), S \subseteq T \cup {x}, NEW n \in Nat, Cardinality(T) <= n
  PROVE  Cardinality(S) <= n + 1
<1>1. IsFiniteSet(T \cup {x}) /\ Cardinality(T \cup {x}) <= Cardinality(T) + 1
  <2>1. Cardinality(T) \in Nat
    BY FS_CardinalityType
  <2> QED
    BY <2>1, FS_AddElement
<1>2. Cardinality(T \cup {x}) <= n + 1
  BY <1>1, FS_CardinalityType
<1> QED
  BY <1>1, <1>2, SmallerCount

\* Whatever leaves rows, runs and the row in hand alone loses no run.
LEMMA AccountStays ==
  ASSUME OrganicInv, UNCHANGED <<row, runs, hand>>, faults' = faults \/ faults' = faults + 1
  PROVE  Accounted'
<1> SUFFICES ASSUME NEW t \in Tasks
             PROVE  /\ Len(runs'[t]) <= row'[t].attempts + (IF Held(t)' THEN 1 ELSE 0) + faults'
                    /\ Cardinality(Lost(t)') <= faults'
  BY DEF Accounted
<1>1. Lost(t)' = Lost(t) /\ Held(t)' = Held(t)
  BY DEF Lost, LiveRuns, Somebodys, Held
<1>2. Cardinality(Lost(t)) \in Nat /\ faults \in Nat
  BY LiveRunsFinite DEF OrganicInv, OrganicTypeOK
<1>3. runs[t] \in Seq(RunStates) /\ row[t].attempts \in Nat
  BY DEF OrganicInv, OrganicTypeOK, TrainingRows
<1>4. Len(runs[t]) \in Nat
  BY <1>3, LenProperties
<1>5. /\ Len(runs[t]) <= row[t].attempts + (IF Held(t) THEN 1 ELSE 0) + faults
      /\ Cardinality(Lost(t)) <= faults
  BY DEF OrganicInv, Accounted
<1> QED
  BY <1>1, <1>2, <1>3, <1>4, <1>5

-----------------------------------------------------------------------------
(* The lifecycle process                                                   *)

\* It writes no row, and the statuses it writes claim nothing of one.
LEMMA StatusStepKeeps ==
  ASSUME OrganicInv, OrganicTypeOK', UNCHANGED <<row, runs, dstack>>, faults' = faults \/ faults' = faults + 1,
         \A t \in Tasks : status'[t] = status[t] \/ status'[t] \notin PastTraining \cup {"training"}
  PROVE  OrganicInv'
<1>1. RowsStand' /\ Watched'
  BY DEF OrganicInv, RowsStand, Watched, dstack
<1>2. Staged'
  BY DEF OrganicInv, Staged, PastTraining, dstack
<1>3. Accounted'
  BY AccountStays DEF dstack
<1> QED
  BY <1>1, <1>2, <1>3 DEF OrganicInv

\* A fault is counted once.
LEMMA FaultTypes ==
  ASSUME OrganicInv, Fault
  PROVE  faults' \in Nat /\ faults' = faults + 1 /\ faults \in Nat
<1>1. faults \in Nat
  BY DEF OrganicInv, OrganicTypeOK
<1>2. faults' = faults + 1
  BY DEF Fault
<1> QED
  BY <1>1, <1>2

\* Gathering tasks gives each of them a step of its coroutine.
LEMMA GatherTypes ==
  ASSUME NEW S, NEW step \in {"mark", "assign", "resume"}, Gather(S, step)
  PROVE  work' \in [Tasks -> {"idle", "mark", "prepare", "assign", "resume"}]
BY DEF Gather

\* Step Begin keeps the invariant.
LEMMA BeginKeeps ==
  ASSUME OrganicInv, BeginPrepare \/ BeginAssign \/ BeginResume
  PROVE  OrganicInv'
<1>1. /\ UNCHANGED <<status, delays, row, runs, dstack, faults>>
      /\ phase' \in {"prepare", "assign", "resume"}
      /\ work' \in [Tasks -> {"idle", "mark", "prepare", "assign", "resume"}]
  BY GatherTypes DEF BeginPrepare, BeginAssign, BeginResume
<1>2. OrganicTypeOK'
  BY <1>1 DEF OrganicInv, OrganicTypeOK, dstack
<1> QED
  BY <1>1, <1>2, StatusStepKeeps

\* Step Write keeps the invariant.
LEMMA WriteKeeps ==
  ASSUME OrganicInv, NEW t \in Tasks, delays' \in [Tasks -> Nat],
         NEW s \in {"preparing", "looking", "prep failure", "ready", "no nodes", "delayed"},
         NEW next \in {"prepare", "idle"}, Write(t, s, next)
  PROVE  OrganicInv'
<1>1. OrganicTypeOK'
  BY DEF OrganicInv, OrganicTypeOK, Write, dstack, Statuses, Ended
<1>2. \A u \in Tasks : status'[u] = status[u] \/ status'[u] \notin PastTraining \cup {"training"}
  BY DEF OrganicInv, OrganicTypeOK, Write, PastTraining
<1> QED
  BY <1>1, <1>2, StatusStepKeeps DEF Write

\* A task's coroutine keeps the invariant.
LEMMA CoroutineKeeps ==
  ASSUME OrganicInv, NEW t \in Tasks,
         \/ MarkPreparing(t) \/ StorePrepared(t) \/ PrepFails(t)
         \/ StoreAssigned(t) \/ AssignFails(t) \/ Resume(t)
  PROVE  OrganicInv'
<1>1. delays \in [Tasks -> Nat]
  BY DEF OrganicInv, OrganicTypeOK
<1>2. CASE MarkPreparing(t)
  BY <1>1, <1>2, WriteKeeps DEF MarkPreparing
<1>3. CASE StorePrepared(t)
  BY <1>1, <1>3, WriteKeeps DEF StorePrepared
<1>4. CASE PrepFails(t)
  BY <1>1, <1>4, WriteKeeps DEF PrepFails
<1>5. CASE StoreAssigned(t)
  BY <1>1, <1>5, WriteKeeps DEF StoreAssigned
<1>6. CASE AssignFails(t)
  <2>1. delays' \in [Tasks -> Nat]
    <3>1. UNCHANGED delays \/ delays' = [delays EXCEPT ![t] = @ + 1]
      BY <1>6 DEF AssignFails
    <3> QED
      BY <1>1, <3>1
  <2> QED
    BY <2>1, <1>6, WriteKeeps DEF AssignFails
<1>7. CASE Resume(t)
  BY <1>1, <1>7, WriteKeeps DEF Resume
<1> QED
  BY <1>2, <1>3, <1>4, <1>5, <1>6, <1>7

\* Step LifecycleRestarts keeps the invariant.
LEMMA LifecycleRestartsKeeps ==
  ASSUME OrganicInv, LifecycleRestarts
  PROVE  OrganicInv'
<1>1. OrganicTypeOK'
  <2>1. status' \in [Tasks -> Statuses]
    BY DEF OrganicInv, OrganicTypeOK, LifecycleRestarts, Statuses
  <2>2. work' \in [Tasks -> {"idle", "mark", "prepare", "assign", "resume"}] /\ phase' = "prepare"
    BY DEF LifecycleRestarts
  <2>3. faults' \in Nat
    BY FaultTypes DEF LifecycleRestarts
  <2> QED
    BY <2>1, <2>2, <2>3 DEF OrganicInv, OrganicTypeOK, LifecycleRestarts, dstack
<1>2. \A u \in Tasks : status'[u] = status[u] \/ status'[u] \notin PastTraining \cup {"training"}
  BY DEF OrganicInv, OrganicTypeOK, LifecycleRestarts, PastTraining
<1> QED
  BY <1>1, <1>2, StatusStepKeeps DEF LifecycleRestarts, Fault

-----------------------------------------------------------------------------
(* The fetcher                                                             *)

\* Step FetchReady keeps the invariant.
LEMMA FetchReadyKeeps ==
  ASSUME OrganicInv, FetchReady
  PROVE  OrganicInv'
<1> USE DEF FetchReady, lifecycle, Idle
<1>1. OrganicTypeOK'
  BY DEF OrganicInv, OrganicTypeOK, TasksIn
<1>2. RowsStand' /\ Watched' /\ Staged'
  BY DEF OrganicInv, RowsStand, Watched, Staged
<1>3. Accounted'
  BY AccountStays
<1> QED
  BY <1>1, <1>2, <1>3 DEF OrganicInv

\* A new row is in no list and has no run.
LEMMA InsertRowsKeeps ==
  ASSUME OrganicInv, InsertRows
  PROVE  OrganicInv'
<1> USE DEF InsertRows, lifecycle
<1>1. \A t \in Tasks : /\ row'[t] \in TrainingRows
                       /\ row'[t].attempts = row[t].attempts /\ row'[t].name = row[t].name
                       /\ row'[t].status = row[t].status \/ (row[t].status = "none" /\ row'[t].status = "pending")
                       /\ t \in fetch.list => row'[t].status # "none"
  <2> SUFFICES ASSUME NEW t \in Tasks
               PROVE  /\ row'[t] \in TrainingRows
                      /\ row'[t].attempts = row[t].attempts /\ row'[t].name = row[t].name
                      /\ row'[t].status = row[t].status \/ (row[t].status = "none" /\ row'[t].status = "pending")
                      /\ t \in fetch.list => row'[t].status # "none"
    OBVIOUS
  <2>1. row[t] \in TrainingRows
    BY DEF OrganicInv, OrganicTypeOK
  <2>2. row'[t] = IF t \in fetch.list /\ row[t].status = "none" THEN [row[t] EXCEPT !.status = "pending"] ELSE row[t]
    OBVIOUS
  <2> QED
    BY <2>1, <2>2 DEF TrainingRows
<1>2. OrganicTypeOK'
  <2>1. row' \in [Tasks -> TrainingRows]
    BY <1>1
  <2>2. fetch' \in [at : {"idle", "rows", "status"}, list : SUBSET Tasks]
    BY DEF OrganicInv, OrganicTypeOK
  <2> QED
    BY <2>1, <2>2 DEF OrganicInv, OrganicTypeOK
<1>3. RowsStand'
  <2>1. \A e \in queue : e[1] \in Tasks
    BY DEF OrganicInv, OrganicTypeOK, Entries
  <2>2. hand # Free => hand.entry[1] \in Tasks
    BY <2>1 DEF OrganicInv, RowsStand
  <2>3. hand.at = "named" => hand # Free
    BY DEF Free
  <2> QED
    BY <1>1, <2>1, <2>2, <2>3 DEF OrganicInv, RowsStand
<1>4. Watched'
  BY <1>1 DEF OrganicInv, OrganicTypeOK, Watched, Entries, Decided
<1>5. Staged'
  BY <1>1 DEF OrganicInv, OrganicTypeOK, Staged, Decided
<1>6. Accounted'
  <2> SUFFICES ASSUME NEW t \in Tasks
               PROVE  Held(t)' = Held(t) /\ Lost(t)' = Lost(t)
    BY <1>1 DEF OrganicInv, Accounted
  <2> QED
    BY <1>1 DEF Held, Lost, LiveRuns, Somebodys
<1> QED
  BY <1>2, <1>3, <1>4, <1>5, <1>6 DEF OrganicInv

\* Step MarkTraining keeps the invariant.
LEMMA MarkTrainingKeeps ==
  ASSUME OrganicInv, NEW t \in Tasks, MarkTraining(t)
  PROVE  OrganicInv'
<1> USE DEF MarkTraining, lifecycle, Idle
<1>1. OrganicTypeOK'
  <2>1. status' \in [Tasks -> Statuses]
    BY DEF OrganicInv, OrganicTypeOK, Statuses
  <2>2. fetch' \in [at : {"idle", "rows", "status"}, list : SUBSET Tasks]
    BY DEF OrganicInv, OrganicTypeOK
  <2> QED
    BY <2>1, <2>2 DEF OrganicInv, OrganicTypeOK
<1>2. RowsStand' /\ Watched'
  BY DEF OrganicInv, RowsStand, Watched
<1>3. Staged'
  BY DEF OrganicInv, OrganicTypeOK, Staged, PastTraining
<1>4. Accounted'
  BY AccountStays
<1> QED
  BY <1>1, <1>2, <1>3, <1>4 DEF OrganicInv

\* So does a fetch that fails.
LEMMA FetchFailsKeeps ==
  ASSUME OrganicInv, FetchFails
  PROVE  OrganicInv'
<1> USE DEF FetchFails, lifecycle
<1>1. OrganicTypeOK'
  <2>1. fetch' \in [at : {"idle", "rows", "status"}, list : SUBSET Tasks]
    BY DEF Idle
  <2> QED
    BY <2>1, FaultTypes DEF OrganicInv, OrganicTypeOK
<1>2. RowsStand' /\ Watched' /\ Staged'
  BY DEF OrganicInv, RowsStand, Watched, Staged, Idle
<1>3. Accounted'
  BY AccountStays DEF Fault
<1> QED
  BY <1>1, <1>2, <1>3 DEF OrganicInv

-----------------------------------------------------------------------------
(* The scheduler                                                           *)

\* Step FetchPending keeps the invariant.
LEMMA FetchPendingKeeps ==
  ASSUME OrganicInv, FetchPending
  PROVE  OrganicInv'
<1> USE DEF FetchPending, lifecycle
<1>1. \A e \in queue' : e \in Entries /\ row[e[1]].status = "pending" /\ row[e[1]].attempts = e[2]
  <2>1. \A u \in Tasks : row[u].attempts \in Nat
    BY DEF OrganicInv, OrganicTypeOK, TrainingRows
  <2> QED
    BY <2>1 DEF RowsIn, Entry, Entries
<1>2. OrganicTypeOK'
  BY <1>1 DEF OrganicInv, OrganicTypeOK
<1>3. hand = Free
  BY DEF OrganicInv, RowsStand
<1>4. RowsStand'
  BY <1>1, <1>3 DEF OrganicInv, RowsStand, Free
<1>5. Watched' /\ Staged'
  BY DEF OrganicInv, Watched, Staged
<1>6. Accounted'
  BY AccountStays
<1> QED
  BY <1>2, <1>4, <1>5, <1>6 DEF OrganicInv

\* A row in the list is pending, so the monitor does not have it.
LEMMA QueuedFacts ==
  ASSUME OrganicInv, NEW e \in queue
  PROVE  /\ e[1] \in Tasks /\ e[2] \in Nat /\ e = <<e[1], e[2]>>
         /\ row[e[1]] \in TrainingRows /\ runs[e[1]] \in Seq(RunStates)
         /\ row[e[1]].status = "pending" /\ row[e[1]].attempts = e[2]
         /\ \A d \in watch.list : d[1] # e[1]
         /\ watch.at \in {"row", "task"} => watch.entry[1] # e[1]
         /\ ~ Held(e[1]) => Somebodys(e[1]) = {}
<1>1. e \in Entries
  BY DEF OrganicInv, OrganicTypeOK
<1>2. e[1] \in Tasks /\ e[2] \in Nat /\ e = <<e[1], e[2]>>
  BY <1>1 DEF Entries
<1>3. row[e[1]].status = "pending" /\ row[e[1]].attempts = e[2]
  BY DEF OrganicInv, RowsStand
<1>4. \A d \in watch.list : d[1] # e[1]
  BY <1>3 DEF OrganicInv, Watched
<1>5. watch.at \in {"row", "task"} => watch.entry[1] # e[1]
  BY <1>3 DEF OrganicInv, Watched, Decided
<1> QED
  BY <1>2, <1>3, <1>4, <1>5 DEF OrganicInv, OrganicTypeOK, Somebodys

\* The other rows are left alone when one is written.
LEMMA OneRow ==
  ASSUME OrganicInv, NEW t \in Tasks, NEW r \in TrainingRows, row' = [row EXCEPT ![t] = r]
  PROVE  /\ row' \in [Tasks -> TrainingRows]
         /\ row'[t] = r /\ \A u \in Tasks : u # t => row'[u] = row[u]
BY DEF OrganicInv, OrganicTypeOK

\* Every row that is written was still open, so no verdict rests on it.
LEMMA RowStages ==
  ASSUME OrganicInv, NEW t \in Tasks, NEW r \in TrainingRows, row' = [row EXCEPT ![t] = r],
         UNCHANGED <<status, runs, fetch>>,
         r.attempts <= MaxAttempts, r.status # "none", row[t].status \notin Decided,
         r.status \in {"training", "success"} => r.name \in DOMAIN runs[t],
         r.status = "success" => runs[t][r.name] = "done"
  PROVE  Staged'
<1>1. row'[t] = r /\ \A u \in Tasks : u # t => row'[u] = row[u]
  BY OneRow
<1>2. status[t] \notin PastTraining /\ status[t] # "success"
  BY DEF OrganicInv, Staged, PastTraining
<1>3. fetch.list \subseteq Tasks
  BY DEF OrganicInv, OrganicTypeOK
<1>4. ASSUME NEW u \in Tasks
      PROVE  /\ row'[u].attempts <= MaxAttempts
             /\ row'[u].status \in {"training", "success"} => row'[u].name \in DOMAIN runs[u]
             /\ row'[u].status = "success" => runs[u][row'[u].name] = "done"
             /\ status[u] = "training" => row'[u].status # "none"
             /\ status[u] \in PastTraining => row'[u].status \in Decided
             /\ status[u] = "success" => row'[u].status = "success"
  <2>1. CASE u = t
    BY <1>1, <1>2, <2>1
  <2>2. CASE u # t
    BY <1>1, <2>2 DEF OrganicInv, Staged
  <2> QED
    BY <2>1, <2>2
<1>5. fetch.at = "status" => \A u \in fetch.list : row'[u].status # "none"
  BY <1>1, <1>3 DEF OrganicInv, Staged
<1>6. fetch.at = "idle" => fetch.list = {}
  BY DEF OrganicInv, Staged
<1> QED
  BY <1>4, <1>5, <1>6 DEF Staged

\* A step about one task that loses none of its runs.
LEMMA OneAccount ==
  ASSUME OrganicInv, NEW t \in Tasks, UNCHANGED faults,
         \A u \in Tasks : u # t => runs'[u] = runs[u] /\ row'[u] = row[u] /\ Held(u)' = Held(u),
         Len(runs'[t]) <= row'[t].attempts + (IF Held(t)' THEN 1 ELSE 0) + faults,
         Lost(t)' \subseteq Lost(t)
  PROVE  Accounted'
<1> SUFFICES ASSUME NEW u \in Tasks
             PROVE  /\ Len(runs'[u]) <= row'[u].attempts + (IF Held(u)' THEN 1 ELSE 0) + faults'
                    /\ Cardinality(Lost(u)') <= faults'
  BY DEF Accounted
<1>1. /\ Len(runs[u]) <= row[u].attempts + (IF Held(u) THEN 1 ELSE 0) + faults
      /\ Cardinality(Lost(u)) <= faults /\ IsFiniteSet(Lost(u)) /\ faults \in Nat
  BY LiveRunsFinite DEF OrganicInv, Accounted, OrganicTypeOK
<1>2. CASE u = t
  <2>1. Cardinality(Lost(u)') <= faults
    BY <1>1, <1>2, SmallerCount
  <2> QED
    BY <1>2, <2>1
<1>3. CASE u # t
  <2>1. runs'[u] = runs[u] /\ row'[u] = row[u] /\ Held(u)' = Held(u)
    BY <1>3
  <2>2. Lost(u)' = Lost(u)
    BY <2>1 DEF Lost, LiveRuns, Somebodys
  <2> QED
    BY <1>1, <2>1, <2>2
<1> QED
  BY <1>2, <1>3

\* Step GiveUp keeps the invariant.
LEMMA GiveUpKeeps ==
  ASSUME OrganicInv, NEW e \in queue, GiveUp(e)
  PROVE  OrganicInv'
<1> DEFINE t == e[1]
           r == [row[t] EXCEPT !.status = "failure"]
<1>1. /\ t \in Tasks /\ row[t] \in TrainingRows /\ row[t].status = "pending"
      /\ e = <<e[1], e[2]>> /\ row[t].attempts = e[2]
  BY QueuedFacts
<1>2. r \in TrainingRows /\ r.status = "failure" /\ r.attempts = row[t].attempts /\ r.name = row[t].name
  BY <1>1 DEF TrainingRows, Decided
<1>3. row' = [row EXCEPT ![t] = r]
  BY DEF GiveUp
<1>4. row' \in [Tasks -> TrainingRows] /\ row'[t] = r /\ \A u \in Tasks : u # t => row'[u] = row[u]
  BY <1>1, <1>2, <1>3, OneRow
<1>5. /\ hand = Free /\ queue' = queue \ {e}
      /\ UNCHANGED <<status, delays, runs, lifecycle, fetch, hand, watch, faults>>
  BY DEF GiveUp
<1>6. OrganicTypeOK'
  BY <1>4, <1>5 DEF OrganicInv, OrganicTypeOK, lifecycle
<1>7. RowsStand'
  <2>1. \A d \in queue' : d[1] \in Tasks /\ d[1] # t
    <3> SUFFICES ASSUME NEW d \in queue, d # e
                 PROVE  d[1] \in Tasks /\ d[1] # t
      BY <1>5
    <3>1. d[1] \in Tasks /\ d = <<d[1], d[2]>> /\ row[d[1]].attempts = d[2]
      BY QueuedFacts
    <3> QED
      BY <3>1, <1>1
  <2> QED
    BY <2>1, <1>4, <1>5 DEF OrganicInv, RowsStand, Free
<1>8. Watched'
  <2>1. /\ \A d \in watch.list : d[1] # t /\ d[1] \in Tasks
        /\ watch.at \in {"row", "task"} => watch.entry[1] # t /\ watch.entry[1] \in Tasks
    BY QueuedFacts DEF OrganicInv, OrganicTypeOK, Entries
  <2> QED
    BY <2>1, <1>4, <1>5 DEF OrganicInv, Watched
<1>9. Staged'
  <2>1. r.attempts <= MaxAttempts
    BY <1>1, <1>2 DEF OrganicInv, Staged
  <2> QED
    BY <1>1, <1>2, <1>3, <1>5, <2>1, RowStages DEF Decided
<1>10. Accounted'
  <2> SUFFICES ASSUME NEW u \in Tasks
               PROVE  Held(u)' = Held(u) /\ Lost(u)' = Lost(u) /\ row'[u].attempts = row[u].attempts
    BY <1>5 DEF OrganicInv, Accounted
  <2>1. ~ Held(u) /\ Held(u)' = Held(u)
    BY <1>5 DEF Held
  <2> QED
    BY <2>1, <1>1, <1>2, <1>4, <1>5 DEF Lost, LiveRuns, Somebodys
<1> QED
  BY <1>6, <1>7, <1>8, <1>9, <1>10 DEF OrganicInv

\* A submission: the new run is the one in hand, or it is lost.
LEMMA SubmittedFacts ==
  ASSUME OrganicInv, NEW t \in Tasks, Submitted(t)
  PROVE  /\ runs' \in [Tasks -> Seq(RunStates)]
         /\ Len(runs[t]) \in Nat /\ Len(runs'[t]) = Len(runs[t]) + 1
         /\ DOMAIN runs'[t] = 1 .. Len(runs[t]) + 1 /\ DOMAIN runs[t] = 1 .. Len(runs[t])
         /\ \A i \in DOMAIN runs[t] : runs'[t][i] = runs[t][i]
         /\ \A u \in Tasks : u # t => runs'[u] = runs[u]
<1>1. runs \in [Tasks -> Seq(RunStates)] /\ runs[t] \in Seq(RunStates)
  BY DEF OrganicInv, OrganicTypeOK
<1>2. runs' = [runs EXCEPT ![t] = Append(runs[t], "provisioning")]
  BY DEF Submitted
<1>3. "provisioning" \in RunStates
  BY DEF RunStates, Live
<1>4. /\ Append(runs[t], "provisioning") \in Seq(RunStates)
      /\ Len(Append(runs[t], "provisioning")) = Len(runs[t]) + 1
      /\ \A i \in 1 .. Len(runs[t]) : Append(runs[t], "provisioning")[i] = runs[t][i]
  BY <1>1, <1>3, AppendProperties
<1>5. runs'[t] = Append(runs[t], "provisioning") /\ \A u \in Tasks : u # t => runs'[u] = runs[u]
  BY <1>1, <1>2
<1>6. runs' \in [Tasks -> Seq(RunStates)]
  BY <1>1, <1>2, <1>4
<1>7. /\ Len(runs[t]) \in Nat /\ DOMAIN runs[t] = 1 .. Len(runs[t])
      /\ DOMAIN runs'[t] = 1 .. Len(runs'[t])
  BY <1>1, <1>4, <1>5, LenProperties
<1> QED
  BY <1>4, <1>5, <1>6, <1>7

\* A submission leaves what is known of statuses and of the monitor.
LEMMA SubmissionKeepsTable ==
  ASSUME OrganicInv, NEW e \in queue, Submitted(e[1]), hand = Free,
         UNCHANGED <<status, delays, row, lifecycle, fetch, queue, watch>>
  PROVE  Watched' /\ Staged'
<1>1. e[1] \in Tasks /\ row[e[1]].status = "pending" /\ (watch.at \in {"row", "task"} => watch.entry[1] # e[1])
  BY QueuedFacts
<1>2. \A u \in Tasks : u # e[1] => runs'[u] = runs[u]
  BY <1>1, SubmittedFacts
<1>3. watch.at \in {"row", "task"} => watch.entry[1] \in Tasks
  BY DEF OrganicInv, OrganicTypeOK, Entries
<1>4. Watched'
  BY <1>1, <1>2, <1>3 DEF OrganicInv, Watched
<1>5. Staged'
  BY <1>1, <1>2 DEF OrganicInv, Staged
<1> QED
  BY <1>4, <1>5

\* Step Submit keeps the invariant.
LEMMA SubmitKeeps ==
  ASSUME OrganicInv, NEW e \in queue, Submit(e)
  PROVE  OrganicInv'
<1> DEFINE t == e[1]
<1>1. /\ hand = Free /\ e[2] < MaxAttempts /\ Submitted(t)
      /\ hand' = [at |-> "submitted", entry |-> e]
      /\ UNCHANGED <<status, delays, row, lifecycle, fetch, queue, watch, faults>>
  BY DEF Submit
<1>2. /\ t \in Tasks /\ e \in Entries /\ row[t].attempts = e[2] /\ ~ Held(t) /\ Somebodys(t) = {}
      /\ row[t].attempts \in Nat /\ faults \in Nat
  BY <1>1, QueuedFacts DEF OrganicInv, OrganicTypeOK, Held
<1>3. /\ runs' \in [Tasks -> Seq(RunStates)]
      /\ Len(runs[t]) \in Nat /\ Len(runs'[t]) = Len(runs[t]) + 1
      /\ DOMAIN runs'[t] = 1 .. Len(runs[t]) + 1 /\ DOMAIN runs[t] = 1 .. Len(runs[t])
      /\ \A i \in DOMAIN runs[t] : runs'[t][i] = runs[t][i]
      /\ \A u \in Tasks : u # t => runs'[u] = runs[u]
  BY <1>1, <1>2, SubmittedFacts
<1>4. OrganicTypeOK'
  BY <1>1, <1>2, <1>3 DEF OrganicInv, OrganicTypeOK, lifecycle
<1>5. RowsStand'
  BY <1>1, <1>2, <1>3 DEF OrganicInv, RowsStand, Free
<1>6. Watched' /\ Staged'
  BY <1>1, SubmissionKeepsTable
<1>7. Accounted'
  <2>1. Held(t)' /\ Somebodys(t)' = {Len(runs[t]) + 1}
    BY <1>1, <1>3 DEF Held, Free, Somebodys
  <2>2. Lost(t)' \subseteq Lost(t)
    BY <1>2, <1>3, <2>1 DEF Lost, LiveRuns
  <2>3. Len(runs[t]) <= row[t].attempts + faults
    BY <1>2 DEF OrganicInv, Accounted
  <2>4. Len(runs'[t]) <= row'[t].attempts + (IF Held(t)' THEN 1 ELSE 0) + faults
    BY <1>1, <1>2, <1>3, <2>1, <2>3
  <2>5. \A u \in Tasks : u # t => runs'[u] = runs[u] /\ row'[u] = row[u] /\ Held(u)' = Held(u)
    BY <1>1, <1>3 DEF Held, Free
  <2> QED
    BY <1>1, <1>2, <2>2, <2>4, <2>5, OneAccount
<1> QED
  BY <1>4, <1>5, <1>6, <1>7 DEF OrganicInv

\* Step SubmitAnswerLost keeps the invariant.
LEMMA SubmitAnswerLostKeeps ==
  ASSUME OrganicInv, NEW e \in queue, SubmitAnswerLost(e)
  PROVE  OrganicInv'
<1> DEFINE t == e[1]
<1>1. /\ hand = Free /\ Submitted(t) /\ Fault
      /\ UNCHANGED <<status, delays, row, lifecycle, fetch, queue, hand, watch>>
  BY DEF SubmitAnswerLost
<1>2. /\ t \in Tasks /\ ~ Held(t) /\ Somebodys(t) = {} /\ row[t].attempts \in Nat
      /\ faults \in Nat /\ faults' \in Nat /\ faults' = faults + 1
  BY <1>1, QueuedFacts, FaultTypes DEF OrganicInv, OrganicTypeOK, Held, TrainingRows
<1>3. /\ runs' \in [Tasks -> Seq(RunStates)]
      /\ Len(runs[t]) \in Nat /\ Len(runs'[t]) = Len(runs[t]) + 1
      /\ DOMAIN runs'[t] = 1 .. Len(runs[t]) + 1 /\ DOMAIN runs[t] = 1 .. Len(runs[t])
      /\ \A i \in DOMAIN runs[t] : runs'[t][i] = runs[t][i]
      /\ \A u \in Tasks : u # t => runs'[u] = runs[u]
  BY <1>1, <1>2, SubmittedFacts
<1>4. OrganicTypeOK'
  BY <1>1, <1>2, <1>3 DEF OrganicInv, OrganicTypeOK, lifecycle
<1>5. RowsStand'
  BY <1>1 DEF OrganicInv, RowsStand, Free
<1>6. Watched' /\ Staged'
  BY <1>1, SubmissionKeepsTable
<1>7. Accounted'
  <2> SUFFICES ASSUME NEW u \in Tasks
               PROVE  /\ Len(runs'[u]) <= row'[u].attempts + (IF Held(u)' THEN 1 ELSE 0) + faults'
                      /\ Cardinality(Lost(u)') <= faults'
    BY DEF Accounted
  <2>1. /\ Len(runs[u]) <= row[u].attempts + (IF Held(u) THEN 1 ELSE 0) + faults
        /\ Cardinality(Lost(u)) <= faults
    BY DEF OrganicInv, Accounted
  <2>2. ~ Held(u) /\ ~ Held(u)'
    BY <1>1 DEF Held
  <2>3. IsFiniteSet(Lost(u)) /\ Cardinality(Lost(u)) \in Nat
    BY LiveRunsFinite DEF OrganicInv
  <2>4. CASE u = t
    <3>1. Lost(u)' \subseteq Lost(u) \cup {Len(runs[t]) + 1}
      <4> SUFFICES ASSUME NEW i \in Lost(u)', i # Len(runs[t]) + 1
                   PROVE  i \in Lost(u)
        OBVIOUS
      <4>1. i \in DOMAIN runs[u] /\ runs'[u][i] = runs[u][i]
        BY <1>2, <1>3, <2>4 DEF Lost, LiveRuns
      <4> QED
        BY <1>1, <2>2, <2>4, <4>1 DEF Lost, LiveRuns, Somebodys
    <3>2. Cardinality(Lost(u)') <= faults + 1
      BY <1>2, <2>1, <2>3, <3>1, OneMore
    <3> QED
      BY <1>1, <1>2, <1>3, <2>1, <2>2, <2>4, <3>2
  <2>5. CASE u # t
    <3>1. Lost(u)' = Lost(u)
      BY <1>1, <1>3, <2>2, <2>5 DEF Lost, LiveRuns, Somebodys
    <3>2. runs[u] \in Seq(RunStates) /\ row[u].attempts \in Nat
      BY DEF OrganicInv, OrganicTypeOK, TrainingRows
    <3>3. Len(runs[u]) \in Nat
      BY <3>2, LenProperties
    <3> QED
      BY <1>1, <1>2, <1>3, <2>1, <2>2, <2>3, <2>5, <3>1, <3>2, <3>3
  <2> QED
    BY <2>4, <2>5
<1> QED
  BY <1>4, <1>5, <1>6, <1>7 DEF OrganicInv

\* What is in hand is a pending row of the list.
LEMMA HandFacts ==
  ASSUME OrganicInv, hand # Free
  PROVE  /\ hand.entry \in queue /\ hand.entry[1] \in Tasks /\ hand.entry[2] < MaxAttempts
         /\ hand \in [at : {"submitted", "named"}, entry : Entries]
         /\ row[hand.entry[1]] \in TrainingRows /\ row[hand.entry[1]].attempts = hand.entry[2]
         /\ row[hand.entry[1]].status = "pending"
         /\ Len(runs[hand.entry[1]]) \in Nat \ {0}
         /\ DOMAIN runs[hand.entry[1]] = 1 .. Len(runs[hand.entry[1]])
         /\ Held(hand.entry[1]) /\ Somebodys(hand.entry[1]) = {Len(runs[hand.entry[1]])}
<1>1. /\ hand.entry \in queue /\ hand.entry[2] < MaxAttempts /\ Len(runs[hand.entry[1]]) # 0
      /\ hand \in [at : {"submitted", "named"}, entry : Entries]
  BY DEF OrganicInv, RowsStand, OrganicTypeOK
<1>2. /\ hand.entry[1] \in Tasks /\ row[hand.entry[1]] \in TrainingRows
      /\ row[hand.entry[1]].attempts = hand.entry[2] /\ row[hand.entry[1]].status = "pending"
      /\ runs[hand.entry[1]] \in Seq(RunStates)
  BY <1>1, QueuedFacts
<1>3. Len(runs[hand.entry[1]]) \in Nat /\ DOMAIN runs[hand.entry[1]] = 1 .. Len(runs[hand.entry[1]])
  BY <1>2, LenProperties
<1>4. Held(hand.entry[1]) /\ Somebodys(hand.entry[1]) = {Len(runs[hand.entry[1]])}
  BY DEF Held, Somebodys
<1> QED
  BY <1>1, <1>2, <1>3, <1>4

\* Step RecordName keeps the invariant.
LEMMA RecordNameKeeps ==
  ASSUME OrganicInv, RecordName
  PROVE  OrganicInv'
<1> DEFINE t == hand.entry[1]
           r == [row[t] EXCEPT !.name = Len(runs[t])]
<1>1. /\ hand.at = "submitted" /\ hand # Free
      /\ row' = [row EXCEPT ![t] = r] /\ hand' = [hand EXCEPT !.at = "named"]
      /\ UNCHANGED <<status, delays, runs, lifecycle, fetch, queue, watch, faults>>
  BY DEF RecordName, Free
<1>2. /\ hand.entry \in queue /\ t \in Tasks /\ hand.entry[2] < MaxAttempts
      /\ hand \in [at : {"submitted", "named"}, entry : Entries]
      /\ row[t] \in TrainingRows /\ row[t].attempts = hand.entry[2] /\ row[t].status = "pending"
      /\ Len(runs[t]) \in Nat \ {0} /\ Held(t) /\ Somebodys(t) = {Len(runs[t])}
  BY <1>1, HandFacts
<1>3. /\ r \in TrainingRows /\ r.status = "pending" /\ r.attempts = row[t].attempts
      /\ r.name = Len(runs[t])
  BY <1>2 DEF TrainingRows
<1>4. row' \in [Tasks -> TrainingRows] /\ row'[t] = r /\ \A u \in Tasks : u # t => row'[u] = row[u]
  BY <1>1, <1>2, <1>3, OneRow
<1>5. /\ hand'.at = "named" /\ hand'.entry = hand.entry /\ hand' # Free
      /\ hand' \in [at : {"submitted", "named"}, entry : Entries]
  <2>1. hand'.at = "named" /\ hand'.entry = hand.entry /\ hand' \in [at : {"submitted", "named"}, entry : Entries]
    BY <1>1, <1>2
  <2> QED
    BY <2>1 DEF Free
<1>6. OrganicTypeOK'
  BY <1>1, <1>4, <1>5 DEF OrganicInv, OrganicTypeOK, lifecycle
<1>7. RowsStand'
  <2>1. \A e \in queue : row'[e[1]].status = "pending" /\ row'[e[1]].attempts = e[2]
    <3> SUFFICES ASSUME NEW e \in queue
                 PROVE  row'[e[1]].status = "pending" /\ row'[e[1]].attempts = e[2]
      OBVIOUS
    <3>1. e[1] \in Tasks /\ row[e[1]].status = "pending" /\ row[e[1]].attempts = e[2]
      BY QueuedFacts
    <3> QED
      BY <3>1, <1>3, <1>4
  <2> QED
    BY <2>1, <1>1, <1>2, <1>3, <1>4, <1>5 DEF RowsStand
<1>8. Watched'
  <2>1. /\ \A d \in watch.list : d[1] # t /\ d[1] \in Tasks
        /\ watch.at \in {"row", "task"} => watch.entry[1] # t /\ watch.entry[1] \in Tasks
    BY <1>2, QueuedFacts DEF OrganicInv, OrganicTypeOK, Entries
  <2> QED
    BY <2>1, <1>1, <1>4 DEF OrganicInv, Watched
<1>9. Staged'
  <2>1. r.attempts <= MaxAttempts
    BY <1>2, <1>3 DEF OrganicInv, Staged
  <2> QED
    BY <1>1, <1>2, <1>3, <2>1, RowStages DEF Decided
<1>10. Accounted'
  <2>1. \A u \in Tasks : Held(u)' = Held(u)
    BY <1>1, <1>5 DEF Held
  <2>2. Lost(t)' = Lost(t)
    BY <1>1, <1>2, <2>1 DEF Lost, LiveRuns, Somebodys
  <2>3. Len(runs[t]) <= row[t].attempts + 1 + faults
    BY <1>2 DEF OrganicInv, Accounted
  <2>4. Len(runs'[t]) <= row'[t].attempts + (IF Held(t)' THEN 1 ELSE 0) + faults
    BY <1>1, <1>2, <1>3, <1>4, <2>1, <2>3
  <2> QED
    BY <1>1, <1>2, <1>4, <2>1, <2>2, <2>4, OneAccount
<1> QED
  BY <1>6, <1>7, <1>8, <1>9, <1>10 DEF OrganicInv

\* The run passes from the hand to the row.
LEMMA RecordStartKeeps ==
  ASSUME OrganicInv, RecordStart, NEW e \in queue, hand.entry = e
  PROVE  OrganicInv'
<1> DEFINE t == e[1]
           r == [status |-> "training", attempts |-> row[t].attempts + 1, name |-> row[t].name]
<1>1. /\ hand.at = "named" /\ hand # Free
      /\ row' = [row EXCEPT ![t] = r] /\ queue' = queue \ {e} /\ hand' = Free
      /\ UNCHANGED <<status, delays, runs, lifecycle, fetch, watch, faults>>
  BY DEF RecordStart, Free
<1>2. /\ t \in Tasks /\ e[2] < MaxAttempts
      /\ row[t] \in TrainingRows /\ row[t].attempts = e[2] /\ row[t].status = "pending"
      /\ Len(runs[t]) \in Nat \ {0} /\ DOMAIN runs[t] = 1 .. Len(runs[t])
      /\ Held(t) /\ Somebodys(t) = {Len(runs[t])}
  BY <1>1, HandFacts
<1>3. row[t].name = Len(runs[t]) /\ row[t].attempts \in Nat /\ MaxAttempts \in Nat /\ faults \in Nat
  BY <1>1, <1>2, OrganicAssumption DEF OrganicInv, RowsStand, OrganicTypeOK, TrainingRows
<1>4. /\ r \in TrainingRows /\ r.status = "training" /\ r.attempts = row[t].attempts + 1
      /\ r.name = Len(runs[t])
  BY <1>2, <1>3 DEF TrainingRows
<1>5. row' \in [Tasks -> TrainingRows] /\ row'[t] = r /\ \A u \in Tasks : u # t => row'[u] = row[u]
  BY <1>1, <1>2, <1>4, OneRow
<1>6. OrganicTypeOK'
  BY <1>1, <1>5 DEF OrganicInv, OrganicTypeOK, lifecycle
<1>7. RowsStand'
  <2>1. \A d \in queue' : d \in queue /\ d[1] \in Tasks /\ d[1] # t
    <3> SUFFICES ASSUME NEW d \in queue, d # e
                 PROVE  d[1] \in Tasks /\ d[1] # t
      BY <1>1
    <3>1. d[1] \in Tasks /\ d = <<d[1], d[2]>> /\ row[d[1]].attempts = d[2]
      BY QueuedFacts
    <3>2. e = <<e[1], e[2]>>
      BY <1>2, QueuedFacts
    <3> QED
      BY <3>1, <3>2, <1>2
  <2> QED
    BY <2>1, <1>1, <1>5 DEF OrganicInv, RowsStand, Free
<1>8. Watched'
  <2>1. /\ \A d \in watch.list : d[1] # t /\ d[1] \in Tasks
        /\ watch.at \in {"row", "task"} => watch.entry[1] # t /\ watch.entry[1] \in Tasks
    BY <1>2, QueuedFacts DEF OrganicInv, OrganicTypeOK, Entries
  <2> QED
    BY <2>1, <1>1, <1>5 DEF OrganicInv, Watched
<1>9. Staged'
  <2>1. r.attempts <= MaxAttempts /\ r.name \in DOMAIN runs[t]
    BY <1>2, <1>3, <1>4
  <2> QED
    BY <1>1, <1>2, <1>4, <2>1, RowStages DEF Decided
<1>10. Accounted'
  <2>1. ~ Held(t)' /\ Somebodys(t)' = {Len(runs[t])}
    BY <1>1, <1>4, <1>5 DEF Held, Somebodys
  <2>2. \A u \in Tasks : u # t => Held(u)' = Held(u)
    BY <1>1 DEF Held
  <2>3. Lost(t)' = Lost(t)
    BY <1>1, <1>2, <2>1 DEF Lost, LiveRuns
  <2>4. Len(runs[t]) <= row[t].attempts + 1 + faults
    BY <1>2 DEF OrganicInv, Accounted
  <2>5. Len(runs'[t]) <= row'[t].attempts + (IF Held(t)' THEN 1 ELSE 0) + faults
    BY <1>1, <1>2, <1>3, <1>4, <1>5, <2>1, <2>4
  <2> QED
    BY <1>1, <1>2, <1>5, <2>2, <2>3, <2>5, OneAccount
<1> QED
  BY <1>6, <1>7, <1>8, <1>9, <1>10 DEF OrganicInv

\* A failure empties the hand: the run in it, if any, is lost.
LEMMA HandIsLost ==
  ASSUME OrganicInv, Fault, hand' = Free, UNCHANGED <<row, runs>>
  PROVE  Accounted'
<1> SUFFICES ASSUME NEW u \in Tasks
             PROVE  /\ Len(runs'[u]) <= row'[u].attempts + (IF Held(u)' THEN 1 ELSE 0) + faults'
                    /\ Cardinality(Lost(u)') <= faults'
  BY DEF Accounted
<1>1. /\ Len(runs[u]) <= row[u].attempts + (IF Held(u) THEN 1 ELSE 0) + faults
      /\ Cardinality(Lost(u)) <= faults /\ IsFiniteSet(Lost(u)) /\ Cardinality(Lost(u)) \in Nat
  BY LiveRunsFinite DEF OrganicInv, Accounted
<1>2. faults \in Nat /\ faults' = faults + 1
  BY FaultTypes
<1>3. runs[u] \in Seq(RunStates) /\ row[u].attempts \in Nat
  BY DEF OrganicInv, OrganicTypeOK, TrainingRows
<1>4. Len(runs[u]) \in Nat
  BY <1>3, LenProperties
<1>5. ~ Held(u)'
  BY DEF Held
<1>6. Lost(u)' \subseteq Lost(u) \cup {Len(runs[u])}
  BY DEF Lost, LiveRuns, Somebodys, Held
<1>7. Cardinality(Lost(u)') <= faults + 1
  BY <1>1, <1>2, <1>6, OneMore
<1> QED
  BY <1>1, <1>2, <1>3, <1>4, <1>5, <1>7

\* Step RecordFails keeps the invariant.
LEMMA RecordFailsKeeps ==
  ASSUME OrganicInv, RecordFails
  PROVE  OrganicInv'
<1> USE DEF RecordFails, lifecycle
<1>1. OrganicTypeOK'
  BY FaultTypes DEF OrganicInv, OrganicTypeOK
<1>2. RowsStand' /\ Watched' /\ Staged'
  BY DEF OrganicInv, RowsStand, Watched, Staged, Free
<1>3. Accounted'
  BY HandIsLost
<1> QED
  BY <1>1, <1>2, <1>3 DEF OrganicInv

\* Step DstackRestarts keeps the invariant.
LEMMA DstackRestartsKeeps ==
  ASSUME OrganicInv, DstackRestarts
  PROVE  OrganicInv'
<1> USE DEF DstackRestarts, lifecycle
<1>1. OrganicTypeOK'
  <2>1. faults' \in Nat
    BY FaultTypes
  <2>2. watch' \in [at : {"ask"}, list : SUBSET Entries, entry : {<<>>}, says : {"none"}]
    BY DEF Unwatched
  <2>3. fetch' \in [at : {"idle", "rows", "status"}, list : SUBSET Tasks]
    BY DEF Idle
  <2> QED
    BY <2>1, <2>2, <2>3 DEF OrganicInv, OrganicTypeOK
<1>2. RowsStand' /\ Watched'
  BY DEF RowsStand, Watched, Free, Unwatched
<1>3. Staged'
  BY DEF OrganicInv, Staged, Idle
<1>4. Accounted'
  BY HandIsLost
<1> QED
  BY <1>1, <1>2, <1>3, <1>4 DEF OrganicInv

-----------------------------------------------------------------------------
(* The monitor                                                             *)

\* A row in the list is in TRAINING, so nobody has it in hand.
LEMMA WatchedFacts ==
  ASSUME OrganicInv, NEW e \in watch.list
  PROVE  /\ e[1] \in Tasks /\ e[2] \in Nat /\ e = <<e[1], e[2]>> /\ e \in Entries
         /\ row[e[1]].status = "training" /\ row[e[1]].attempts = e[2]
         /\ runs[e[1]][row[e[1]].name] \in RunStates
<1>1. e \in Entries
  BY DEF OrganicInv, OrganicTypeOK
<1>2. e[1] \in Tasks /\ e[2] \in Nat /\ e = <<e[1], e[2]>>
  BY <1>1 DEF Entries
<1>3. row[e[1]].status = "training" /\ row[e[1]].attempts = e[2]
  BY DEF OrganicInv, Watched
<1>4. row[e[1]].name \in DOMAIN runs[e[1]]
  BY <1>2, <1>3 DEF OrganicInv, Staged
<1>5. runs[e[1]] \in Seq(RunStates)
  BY <1>2 DEF OrganicInv, OrganicTypeOK
<1>6. runs[e[1]][row[e[1]].name] \in RunStates
  BY <1>4, <1>5, ElementOfSeq, LenProperties
<1> QED
  BY <1>1, <1>2, <1>3, <1>6

\* Faults stay a number.
LEMMA FaultsAreCounted ==
  ASSUME OrganicInv, faults' = faults \/ faults' = faults + 1
  PROVE  faults' \in Nat
<1>1. faults \in Nat
  BY DEF OrganicInv, OrganicTypeOK
<1> QED
  BY <1>1

\* A task that is not in hand has no more runs than attempts and faults.
LEMMA RunsOf ==
  ASSUME OrganicInv, NEW t \in Tasks, ~ Held(t)
  PROVE  Len(runs[t]) <= row[t].attempts + faults /\ row[t].attempts \in Nat /\ faults \in Nat
<1>1. row[t].attempts \in Nat /\ faults \in Nat
  BY DEF OrganicInv, OrganicTypeOK, TrainingRows
<1>2. Len(runs[t]) <= row[t].attempts + (IF Held(t) THEN 1 ELSE 0) + faults
  BY DEF OrganicInv, Accounted
<1> QED
  BY <1>1, <1>2

\* A step that changes nothing but what the monitor has read.
LEMMA WatchStepKeeps ==
  ASSUME OrganicInv, UNCHANGED <<status, delays, row, runs, lifecycle, fetch, queue, hand>>,
         faults' = faults \/ faults' = faults + 1, Watched',
         \/ watch' \in [at : {"ask"}, list : SUBSET Entries, entry : {<<>>}, says : {"none"}]
         \/ watch' \in [at : {"row", "task"}, list : SUBSET Entries, entry : Entries, says : {"done", "failed", "no offers"}]
  PROVE  OrganicInv'
<1>1. faults' \in Nat
  BY FaultsAreCounted
<1>2. OrganicTypeOK'
  BY <1>1 DEF OrganicInv, OrganicTypeOK, lifecycle
<1>3. RowsStand' /\ Staged'
  BY DEF OrganicInv, RowsStand, Staged
<1>4. Accounted'
  BY AccountStays
<1> QED
  BY <1>2, <1>3, <1>4 DEF OrganicInv

\* Step FetchWatched keeps the invariant.
LEMMA FetchWatchedKeeps ==
  ASSUME OrganicInv, FetchWatched
  PROVE  OrganicInv'
<1>1. watch = Unwatched /\ watch' = [watch EXCEPT !.list = RowsIn("training")]
  BY DEF FetchWatched
<1>2. \A e \in RowsIn("training") : e \in Entries /\ row[e[1]].status = "training" /\ row[e[1]].attempts = e[2]
  <2>1. \A u \in Tasks : row[u].attempts \in Nat
    BY DEF OrganicInv, OrganicTypeOK, TrainingRows
  <2> QED
    BY <2>1 DEF RowsIn, Entry, Entries
<1>3. watch' = [at |-> "ask", list |-> RowsIn("training"), entry |-> <<>>, says |-> "none"]
  BY <1>1 DEF Unwatched
<1>4. watch' \in [at : {"ask"}, list : SUBSET Entries, entry : {<<>>}, says : {"none"}]
  BY <1>2, <1>3
<1>5. Watched'
  BY <1>2, <1>3 DEF Watched, FetchWatched
<1> QED
  BY <1>4, <1>5, WatchStepKeeps DEF FetchWatched

\* One row leaves the list.
LEMMA PassedOver ==
  ASSUME OrganicInv, NEW e \in watch.list, watch.at = "ask", watch' = [watch EXCEPT !.list = @ \ {e}],
         UNCHANGED <<status, delays, row, runs, lifecycle, fetch, queue, hand>>,
         faults' = faults \/ faults' = faults + 1
  PROVE  OrganicInv'
<1>1. watch \in [at : {"ask"}, list : SUBSET Entries, entry : {<<>>}, says : {"none"}]
  BY DEF OrganicInv, OrganicTypeOK
<1>2. /\ watch' \in [at : {"ask"}, list : SUBSET Entries, entry : {<<>>}, says : {"none"}]
      /\ watch'.list = watch.list \ {e} /\ watch'.at = "ask"
  BY <1>1
<1>3. Watched'
  BY <1>2 DEF OrganicInv, Watched
<1> QED
  BY <1>2, <1>3, WatchStepKeeps

\* Step Ask keeps the invariant.
LEMMA AskKeeps ==
  ASSUME OrganicInv, NEW e \in watch.list, Ask(e)
  PROVE  OrganicInv'
<1> DEFINE says == runs[e[1]][row[e[1]].name]
<1>1. /\ watch.at = "ask"
      /\ UNCHANGED <<status, delays, row, runs, lifecycle, fetch, queue, hand, faults>>
      /\ watch' = IF says \in Live THEN [watch EXCEPT !.list = @ \ {e}]
                   ELSE [at |-> "row", list |-> watch.list \ {e}, entry |-> e, says |-> says]
  BY DEF Ask
<1>2. CASE says \in Live
  BY <1>1, <1>2, PassedOver
<1>3. CASE says \notin Live
  <2>1. /\ e \in Entries /\ says \in RunStates
        /\ row[e[1]].status = "training" /\ row[e[1]].attempts = e[2]
    BY WatchedFacts
  <2>2. says \in {"done", "failed", "no offers"}
    BY <1>3, <2>1 DEF RunStates
  <2>3. watch' = [at |-> "row", list |-> watch.list \ {e}, entry |-> e, says |-> says]
    BY <1>1, <1>3
  <2>4. watch.list \in SUBSET Entries
    BY DEF OrganicInv, OrganicTypeOK
  <2>5. watch' \in [at : {"row", "task"}, list : SUBSET Entries, entry : Entries, says : {"done", "failed", "no offers"}]
    BY <2>1, <2>2, <2>3, <2>4
  <2>6. Watched'
    <3>1. /\ watch'.at = "row" /\ watch'.list = watch.list \ {e} /\ watch'.entry = e /\ watch'.says = says
      BY <2>3
    <3>2. \A d \in watch.list : row[d[1]].status = "training" /\ row[d[1]].attempts = d[2]
      BY DEF OrganicInv, Watched
    <3> QED
      BY <1>1, <2>1, <3>1, <3>2 DEF Watched
  <2> QED
    BY <1>1, <2>5, <2>6, WatchStepKeeps
<1> QED
  BY <1>2, <1>3

\* Step AskFails keeps the invariant.
LEMMA AskFailsKeeps ==
  ASSUME OrganicInv, NEW e \in watch.list, AskFails(e)
  PROVE  OrganicInv'
BY PassedOver DEF AskFails, Fault

\* What the monitor has in hand.
LEMMA AnsweredFacts ==
  ASSUME OrganicInv, watch.at \in {"row", "task"}
  PROVE  /\ watch \in [at : {"row", "task"}, list : SUBSET Entries, entry : Entries, says : {"done", "failed", "no offers"}]
         /\ watch.entry[1] \in Tasks /\ watch.entry[2] \in Nat
         /\ watch.entry = <<watch.entry[1], watch.entry[2]>>
<1>1. watch \in [at : {"row", "task"}, list : SUBSET Entries, entry : Entries, says : {"done", "failed", "no offers"}]
  BY DEF OrganicInv, OrganicTypeOK
<1>2. watch.entry \in Entries
  BY <1>1
<1>3. watch.entry[1] \in Tasks /\ watch.entry[2] \in Nat /\ watch.entry = <<watch.entry[1], watch.entry[2]>>
  BY <1>2 DEF Entries
<1> QED
  BY <1>1, <1>3

\* The monitor goes on to an entry of its list.
LEMMA NextWatchedTypes ==
  ASSUME OrganicInv, watch.at \in {"row", "task"}, NextWatched
  PROVE  /\ watch' \in [at : {"ask"}, list : SUBSET Entries, entry : {<<>>}, says : {"none"}]
         /\ watch'.at = "ask" /\ watch'.list = watch.list
<1>1. watch.list \in SUBSET Entries
  BY AnsweredFacts
<1>2. watch' = [at |-> "ask", list |-> watch.list, entry |-> <<>>, says |-> "none"]
  BY DEF NextWatched, Unwatched
<1> QED
  BY <1>1, <1>2

\* Step WriteFails keeps the invariant.
LEMMA WriteFailsKeeps ==
  ASSUME OrganicInv, WriteFails
  PROVE  OrganicInv'
<1>1. watch' \in [at : {"ask"}, list : SUBSET Entries, entry : {<<>>}, says : {"none"}]
      /\ watch'.at = "ask" /\ watch'.list = watch.list
  BY NextWatchedTypes DEF WriteFails
<1>2. Watched'
  BY <1>1 DEF OrganicInv, Watched, WriteFails
<1> QED
  BY <1>1, <1>2, WatchStepKeeps DEF WriteFails, Fault

\* The run the row names is over when the row leaves TRAINING: none is lost.
LEMMA WriteRowKeeps ==
  ASSUME OrganicInv, WriteRow, NEW e \in Entries, watch.entry = e
  PROVE  OrganicInv'
<1> DEFINE t == e[1]
           s == Outcome(watch.says, e[2])
           r == [row[t] EXCEPT !.status = s]
<1>1. /\ watch.at = "row" /\ row' = [row EXCEPT ![t] = r]
      /\ IF s = "pending" THEN NextWatched ELSE watch' = [watch EXCEPT !.at = "task"]
      /\ UNCHANGED <<status, delays, runs, lifecycle, fetch, queue, hand, faults>>
  BY DEF WriteRow
<1>2. /\ t \in Tasks /\ row[t] \in TrainingRows /\ e = <<e[1], e[2]>> /\ e \notin watch.list
      /\ row[t].status = "training" /\ row[t].attempts = e[2] /\ runs[t][row[t].name] = watch.says
      /\ watch \in [at : {"row", "task"}, list : SUBSET Entries, entry : Entries, says : {"done", "failed", "no offers"}]
  BY <1>1, AnsweredFacts DEF OrganicInv, OrganicTypeOK, Watched
<1>3. s \in {"success", "failure", "pending"} /\ (s = "success" <=> watch.says = "done")
  BY DEF Outcome
<1>4. /\ r \in TrainingRows /\ r.status = s /\ r.attempts = row[t].attempts /\ r.name = row[t].name
  BY <1>2, <1>3 DEF TrainingRows, Decided
<1>5. row' \in [Tasks -> TrainingRows] /\ row'[t] = r /\ \A u \in Tasks : u # t => row'[u] = row[u]
  BY <1>1, <1>2, <1>4, OneRow
<1>6. \/ /\ watch' \in [at : {"ask"}, list : SUBSET Entries, entry : {<<>>}, says : {"none"}]
         /\ watch'.at = "ask" /\ watch'.list = watch.list
      \/ /\ watch' \in [at : {"row", "task"}, list : SUBSET Entries, entry : Entries, says : {"done", "failed", "no offers"}]
         /\ watch'.at = "task" /\ watch'.list = watch.list /\ watch'.entry = e /\ watch'.says = watch.says
         /\ s # "pending"
  <2>1. CASE s = "pending"
    BY <1>1, <2>1, NextWatchedTypes
  <2>2. CASE s # "pending"
    <3>1. watch' = [watch EXCEPT !.at = "task"]
      BY <1>1, <2>2
    <3> QED
      BY <3>1, <1>2, <2>2
  <2> QED
    BY <2>1, <2>2
<1>7. OrganicTypeOK'
  BY <1>1, <1>5, <1>6 DEF OrganicInv, OrganicTypeOK, lifecycle
<1>8. \A d \in queue : d[1] \in Tasks /\ d[1] # t
  BY <1>1, QueuedFacts
<1>9. ~ Held(t)
  BY <1>8 DEF OrganicInv, RowsStand, Held
<1>10. RowsStand'
  <2>1. hand # Free => hand.entry \in queue
    BY DEF OrganicInv, RowsStand
  <2>2. hand.at = "named" => hand # Free
    BY DEF Free
  <2> QED
    BY <2>1, <2>2, <1>1, <1>5, <1>8 DEF OrganicInv, RowsStand
<1>11. Watched'
  <2>1. \A d \in watch.list : d[1] # t /\ d[1] \in Tasks
    <3> SUFFICES ASSUME NEW d \in watch.list
                 PROVE  d[1] # t /\ d[1] \in Tasks
      OBVIOUS
    <3>1. d = <<d[1], d[2]>> /\ row[d[1]].attempts = d[2] /\ d[1] \in Tasks
      BY WatchedFacts
    <3>2. d[1] = t => d = <<e[1], e[2]>>
      BY <3>1, <1>2
    <3>3. d[1] # t
      BY <3>2, <1>2
    <3> QED
      BY <3>1, <3>3
  <2>2. \A d \in watch'.list : row'[d[1]].status = "training" /\ row'[d[1]].attempts = d[2]
    <3>1. watch'.list = watch.list
      BY <1>6
    <3>2. \A d \in watch.list : row[d[1]].status = "training" /\ row[d[1]].attempts = d[2]
      BY DEF OrganicInv, Watched
    <3> QED
      BY <2>1, <3>1, <3>2, <1>5
  <2>3. watch'.at # "row"
    BY <1>6
  <2>4. watch'.at = "task" => /\ row'[watch'.entry[1]].status \in Decided
                              /\ watch'.says = "done" => row'[watch'.entry[1]].status = "success"
    BY <1>3, <1>4, <1>5, <1>6 DEF Decided
  <2> QED
    BY <2>2, <2>3, <2>4 DEF Watched
<1>12. Staged'
  <2>1. r.attempts <= MaxAttempts /\ r.name \in DOMAIN runs[t]
    BY <1>2, <1>4 DEF OrganicInv, Staged
  <2>2. r.status = "success" => runs[t][r.name] = "done"
    BY <1>2, <1>3, <1>4
  <2>3. r.status # "none" /\ row[t].status \notin Decided
    BY <1>2, <1>3, <1>4 DEF Decided
  <2> QED
    BY <1>1, <1>2, <1>4, <2>1, <2>2, <2>3, RowStages
<1>13. Accounted'
  <2>1. \A u \in Tasks : Held(u)' = Held(u)
    BY <1>1 DEF Held
  <2>2. watch.says \notin Live
    BY <1>2 DEF Live
  <2>3. Lost(t)' \subseteq Lost(t)
    <3>1. LiveRuns(t)' = LiveRuns(t) /\ row[t].name \notin LiveRuns(t)
      BY <1>1, <1>2, <2>2 DEF LiveRuns
    <3>2. Somebodys(t) = {row[t].name}
      BY <1>2, <1>9 DEF Somebodys
    <3> QED
      BY <3>1, <3>2 DEF Lost
  <2>4. Len(runs[t]) <= row[t].attempts + faults /\ row[t].attempts \in Nat /\ faults \in Nat
    BY <1>2, <1>9, RunsOf
  <2>5. Len(runs'[t]) <= row'[t].attempts + (IF Held(t)' THEN 1 ELSE 0) + faults
    <3>1. row'[t].attempts = row[t].attempts /\ UNCHANGED runs /\ ~ Held(t)'
      BY <1>1, <1>2, <1>4, <1>5, <1>9, <2>1
    <3> QED
      BY <3>1, <2>4
  <2> QED
    BY <1>1, <1>2, <1>5, <2>1, <2>3, <2>5, OneAccount
<1> QED
  BY <1>7, <1>10, <1>11, <1>12, <1>13 DEF OrganicInv

\* The status follows a decided row.
LEMMA WriteTaskKeeps ==
  ASSUME OrganicInv, WriteTask
  PROVE  OrganicInv'
<1> DEFINE t == watch.entry[1]
<1>1. /\ watch.at = "task" /\ NextWatched
      /\ status' = [status EXCEPT ![t] = IF watch.says = "done" THEN "preevaluation" ELSE "failure"]
      /\ UNCHANGED <<delays, row, runs, lifecycle, fetch, queue, hand, faults>>
  BY DEF WriteTask
<1>2. t \in Tasks /\ row[t].status \in Decided
  BY <1>1, AnsweredFacts DEF OrganicInv, Watched
<1>3. /\ watch' \in [at : {"ask"}, list : SUBSET Entries, entry : {<<>>}, says : {"none"}]
      /\ watch'.at = "ask" /\ watch'.list = watch.list
  BY <1>1, NextWatchedTypes
<1>4. status' \in [Tasks -> Statuses]
  BY <1>1 DEF OrganicInv, OrganicTypeOK, Statuses, PastTraining
<1>5. OrganicTypeOK'
  BY <1>1, <1>3, <1>4 DEF OrganicInv, OrganicTypeOK, lifecycle
<1>6. RowsStand' /\ Watched'
  BY <1>1, <1>3 DEF OrganicInv, RowsStand, Watched
<1>7. Staged'
  <2>1. \A u \in Tasks : u # t => status'[u] = status[u]
    BY <1>1 DEF OrganicInv, OrganicTypeOK
  <2>2. status'[t] \in {"preevaluation", "failure"}
    BY <1>1, <1>2 DEF OrganicInv, OrganicTypeOK
  <2> QED
    BY <1>1, <1>2, <2>1, <2>2 DEF OrganicInv, Staged, PastTraining
<1>8. Accounted'
  BY <1>1, AccountStays
<1> QED
  BY <1>5, <1>6, <1>7, <1>8 DEF OrganicInv

-----------------------------------------------------------------------------
(* The cloud and the evaluation                                            *)

\* A run that is live is not one the monitor has an answer of, nor one a
\* trained row names.
LEMMA TurnsKeep ==
  ASSUME OrganicInv, NEW t \in Tasks, NEW i \in DOMAIN runs[t], runs[t][i] \in Live,
         NEW s \in RunStates, runs' = [runs EXCEPT ![t][i] = s],
         UNCHANGED <<status, delays, row, lifecycle, dstack, faults>>
  PROVE  OrganicInv'
<1>1. runs[t] \in Seq(RunStates) /\ i \in 1 .. Len(runs[t]) /\ DOMAIN runs[t] = 1 .. Len(runs[t])
  BY LenProperties DEF OrganicInv, OrganicTypeOK
<1>2. /\ [runs[t] EXCEPT ![i] = s] \in Seq(RunStates)
      /\ Len([runs[t] EXCEPT ![i] = s]) = Len(runs[t])
      /\ \A j \in 1 .. Len(runs[t]) : [runs[t] EXCEPT ![i] = s][j] = IF j = i THEN s ELSE runs[t][j]
  BY <1>1, ExceptSeq
<1>3. /\ runs' \in [Tasks -> Seq(RunStates)] /\ runs'[t] = [runs[t] EXCEPT ![i] = s]
      /\ \A u \in Tasks : u # t => runs'[u] = runs[u]
  BY <1>2 DEF OrganicInv, OrganicTypeOK
<1>4. /\ Len(runs'[t]) = Len(runs[t]) /\ DOMAIN runs'[t] = DOMAIN runs[t]
      /\ \A j \in DOMAIN runs[t] : j # i => runs'[t][j] = runs[t][j]
  BY <1>1, <1>2, <1>3, LenProperties
<1>5. \A u \in Tasks : Len(runs'[u]) = Len(runs[u]) /\ DOMAIN runs'[u] = DOMAIN runs[u]
  BY <1>3, <1>4
<1>6. \A u \in Tasks : \A j \in DOMAIN runs[u] : runs[u][j] \notin Live => runs'[u][j] = runs[u][j]
  BY <1>3, <1>4
<1>7. OrganicTypeOK'
  BY <1>3 DEF OrganicInv, OrganicTypeOK, lifecycle, dstack
<1>8. RowsStand'
  <2>1. hand # Free => hand.entry[1] \in Tasks
    BY HandFacts
  <2>2. hand.at = "named" => hand # Free
    BY DEF Free
  <2> QED
    BY <2>1, <2>2, <1>5 DEF OrganicInv, RowsStand, dstack
<1>9. Watched'
  <2>1. watch.at = "row" => runs'[watch.entry[1]][row[watch.entry[1]].name] = watch.says
    <3> SUFFICES ASSUME watch.at = "row"
                 PROVE  runs'[watch.entry[1]][row[watch.entry[1]].name] = watch.says
      OBVIOUS
    <3>1. /\ watch.entry[1] \in Tasks /\ row[watch.entry[1]].status = "training"
          /\ runs[watch.entry[1]][row[watch.entry[1]].name] = watch.says
          /\ watch.says \in {"done", "failed", "no offers"}
      BY AnsweredFacts DEF OrganicInv, Watched
    <3>2. row[watch.entry[1]].name \in DOMAIN runs[watch.entry[1]]
      BY <3>1 DEF OrganicInv, Staged
    <3> QED
      BY <3>1, <3>2, <1>6 DEF Live
  <2> QED
    BY <2>1 DEF OrganicInv, Watched, dstack
<1>10. Staged'
  <2>1. \A u \in Tasks : row[u].status = "success" => runs'[u][row[u].name] = "done"
    BY <1>6 DEF OrganicInv, Staged, Live
  <2> QED
    BY <2>1, <1>5 DEF OrganicInv, Staged, dstack
<1>11. Accounted'
  <2>1. \A u \in Tasks : Held(u)' = Held(u)
    BY DEF Held, dstack
  <2>2. LiveRuns(t)' \subseteq LiveRuns(t)
    BY <1>4 DEF LiveRuns
  <2>3. Somebodys(t)' = Somebodys(t)
    BY <1>4, <2>1 DEF Somebodys
  <2>4. Lost(t)' \subseteq Lost(t)
    BY <2>2, <2>3 DEF Lost
  <2>5. Len(runs'[t]) <= row'[t].attempts + (IF Held(t)' THEN 1 ELSE 0) + faults
    BY <1>4, <2>1 DEF OrganicInv, Accounted
  <2> QED
    BY <1>3, <2>1, <2>4, <2>5, OneAccount
<1> QED
  BY <1>7, <1>8, <1>9, <1>10, <1>11 DEF OrganicInv

\* Step Cloud keeps the invariant.
LEMMA CloudKeeps ==
  ASSUME OrganicInv, NEW t \in Tasks, RunStarts(t) \/ RunEnds(t)
  PROVE  OrganicInv'
<1>1. PICK i \in DOMAIN runs[t] :
        /\ runs[t][i] \in Live
        /\ \E s \in RunStates : runs' = [runs EXCEPT ![t][i] = s]
        /\ UNCHANGED <<status, delays, row, lifecycle, dstack, faults>>
  BY DEF RunStarts, RunEnds, Turns, Live, RunStates
<1>2. PICK s \in RunStates : runs' = [runs EXCEPT ![t][i] = s]
  BY <1>1
<1> QED
  BY <1>1, <1>2, TurnsKeep

\* A status is written whose row is decided.
LEMMA FinishKeeps ==
  ASSUME OrganicInv, NEW t \in Tasks, NEW s \in PastTraining, status' = [status EXCEPT ![t] = s],
         UNCHANGED <<delays, row, runs, lifecycle, dstack, faults>>,
         row[t].status \in Decided, s = "success" => row[t].status = "success"
  PROVE  OrganicInv'
<1>1. status' \in [Tasks -> Statuses] /\ status'[t] = s /\ \A u \in Tasks : u # t => status'[u] = status[u]
  BY DEF OrganicInv, OrganicTypeOK, Statuses
<1>2. OrganicTypeOK'
  BY <1>1 DEF OrganicInv, OrganicTypeOK, lifecycle, dstack
<1>3. RowsStand' /\ Watched'
  BY DEF OrganicInv, RowsStand, Watched, dstack
<1>4. Staged'
  BY <1>1 DEF OrganicInv, Staged, dstack, PastTraining
<1>5. Accounted'
  BY AccountStays DEF dstack
<1> QED
  BY <1>2, <1>3, <1>4, <1>5 DEF OrganicInv

\* Step Evaluation keeps the invariant.
LEMMA EvaluationKeeps ==
  ASSUME OrganicInv, NEW t \in Tasks, Seed(t) \/ Finish(t)
  PROVE  OrganicInv'
<1>1. CASE Seed(t)
  <2>1. row[t].status \in Decided
    <3>1. row[t] \in TrainingRows
      BY DEF OrganicInv, OrganicTypeOK
    <3>2. row[t].status \in {"none", "pending", "training"} \cup Decided
      BY <3>1 DEF TrainingRows
    <3> QED
      BY <3>2, <1>1 DEF Seed, Seedable, OrganicInv, Staged, PastTraining
  <2> QED
    BY <2>1, <1>1, FinishKeeps DEF Seed, PastTraining
<1>2. CASE Finish(t)
  <2>1. PICK s \in IF row[t].status = "success" THEN Decided ELSE {"failure"} : status' = [status EXCEPT ![t] = s]
    BY <1>2 DEF Finish
  <2>2. s \in PastTraining /\ (s = "success" => row[t].status = "success")
    BY <2>1 DEF Decided, PastTraining
  <2> QED
    BY <2>1, <2>2, <1>2, FinishKeeps DEF Finish
<1> QED
  BY <1>1, <1>2

-----------------------------------------------------------------------------
(* The invariant and the theorems                                          *)

\* The invariant holds at the start.
LEMMA InitEstablishes ==
  ASSUME OrganicInit
  PROVE  OrganicInv
<1>0. faults \in Nat
  <2>1. faults \in 0 .. MaxFaults
    BY DEF OrganicInit
  <2> QED
    BY <2>1, OrganicAssumption
<1>1. OrganicTypeOK
  <2>1. status \in [Tasks -> Statuses]
    BY DEF OrganicInit, Statuses, Ended
  <2>2. row \in [Tasks -> TrainingRows]
    <3>1. NoTraining \in TrainingRows
      BY DEF NoTraining, TrainingRows
    <3> QED
      BY <3>1 DEF OrganicInit
  <2>3. runs \in [Tasks -> Seq(RunStates)]
    <3>1. <<>> \in Seq(RunStates)
      BY EmptySeq
    <3> QED
      BY <3>1 DEF OrganicInit
  <2>4. watch \in [at : {"ask"}, list : SUBSET Entries, entry : {<<>>}, says : {"none"}]
    BY DEF OrganicInit, Unwatched
  <2>5. fetch \in [at : {"idle", "rows", "status"}, list : SUBSET Tasks]
    BY DEF OrganicInit, Idle
  <2>6. /\ delays \in [Tasks -> Nat] /\ phase \in {"prepare", "assign", "resume"}
        /\ work \in [Tasks -> {"idle", "mark", "prepare", "assign", "resume"}]
        /\ queue \in SUBSET Entries /\ hand = Free
    BY DEF OrganicInit
  <2> QED
    BY <2>1, <2>2, <2>3, <2>4, <2>5, <2>6, <1>0 DEF OrganicTypeOK
<1>2. RowsStand /\ Watched
  BY DEF OrganicInit, RowsStand, Watched, Free, Unwatched
<1>3. Staged
  <2>1. \A t \in Tasks : /\ row[t].attempts = 0 /\ row[t].status = "none"
                         /\ status[t] \in {"pending", "ready", "prep failure"}
    BY DEF OrganicInit, NoTraining
  <2>2. fetch.at = "idle" /\ fetch.list = {}
    BY DEF OrganicInit, Idle
  <2>3. 0 <= MaxAttempts
    BY OrganicAssumption
  <2> QED
    BY <2>1, <2>2, <2>3 DEF Staged, PastTraining
<1>4. Accounted
  <2> SUFFICES ASSUME NEW t \in Tasks
               PROVE  /\ Len(runs[t]) <= row[t].attempts + (IF Held(t) THEN 1 ELSE 0) + faults
                      /\ Cardinality(Lost(t)) <= faults
    BY DEF Accounted
  <2>1. runs[t] = <<>> /\ row[t].attempts = 0 /\ ~ Held(t)
    BY DEF OrganicInit, NoTraining, Held
  <2>2. Lost(t) = {}
    <3>1. DOMAIN runs[t] = {}
      BY <2>1
    <3> QED
      BY <3>1 DEF Lost, LiveRuns
  <2>4. Len(runs[t]) = 0
    BY <2>1
  <2>3. Cardinality(Lost(t)) = 0
    BY <2>2, FS_EmptySet
  <2> QED
    BY <1>0, <2>1, <2>3, <2>4
<1> QED
  BY <1>1, <1>2, <1>3, <1>4 DEF OrganicInv

\* So does a step that changes nothing.
LEMMA StutterKeeps ==
  ASSUME OrganicInv, UNCHANGED organicVars
  PROVE  OrganicInv'
<1>1. UNCHANGED <<status, delays, row, runs, phase, work, fetch, queue, hand, watch, faults>>
  BY DEF organicVars, lifecycle, dstack
<1>2. OrganicTypeOK'
  BY <1>1 DEF OrganicInv, OrganicTypeOK
<1> QED
  BY <1>1, <1>2, StatusStepKeeps DEF dstack

\* Every step keeps the invariant.
LEMMA OrganicNextKeeps ==
  ASSUME OrganicInv, OrganicNext
  PROVE  OrganicInv'
<1>1. CASE LifecycleNext
  BY <1>1, BeginKeeps, CoroutineKeeps DEF LifecycleNext
<1>2. CASE LifecycleRestarts
  BY <1>2, LifecycleRestartsKeeps
<1>3. CASE FetchNext
  BY <1>3, FetchReadyKeeps, InsertRowsKeeps, FetchFailsKeeps, MarkTrainingKeeps DEF FetchNext
<1>4. CASE ScheduleNext
  <2>1. CASE RecordStart
    <3>1. hand # Free
      BY <2>1 DEF RecordStart, Free
    <3>2. hand.entry \in queue
      BY <3>1, HandFacts
    <3> QED
      BY <2>1, <3>2, RecordStartKeeps
  <2> QED
    BY <1>4, <2>1, FetchPendingKeeps, RecordNameKeeps, RecordFailsKeeps,
       GiveUpKeeps, SubmitKeeps, SubmitAnswerLostKeeps DEF ScheduleNext
<1>5. CASE MonitorNext
  <2>1. CASE WriteRow
    <3>1. watch.entry \in Entries
      BY <2>1, AnsweredFacts DEF WriteRow
    <3> QED
      BY <2>1, <3>1, WriteRowKeeps
  <2> QED
    BY <1>5, <2>1, FetchWatchedKeeps, WriteTaskKeeps, WriteFailsKeeps, AskKeeps, AskFailsKeeps DEF MonitorNext
<1>6. CASE DstackRestarts
  BY <1>6, DstackRestartsKeeps
<1>7. CASE \E t \in Tasks : RunStarts(t) \/ RunEnds(t) \/ Seed(t) \/ Finish(t)
  BY <1>7, CloudKeeps, EvaluationKeeps
<1> QED
  BY <1>1, <1>2, <1>3, <1>4, <1>5, <1>6, <1>7 DEF OrganicNext

\* The invariant is inductive: every step of either process, of the cloud and
\* every failure keeps it.
THEOREM OrganicInvariance == OrganicSpec => []OrganicInv
<1>1. OrganicInit => OrganicInv
  BY InitEstablishes
<1>2. OrganicInv /\ [OrganicNext]_organicVars => OrganicInv'
  BY OrganicNextKeeps, StutterKeeps
<1> QED
  BY <1>1, <1>2, PTL DEF OrganicSpec

\* The state of the lifecycle process, of the dstack orchestrator and of the
\* table always has the types OrganicTypeOK gives it.
THEOREM OrganicTypeCorrect == OrganicSpec => []OrganicTypeOK
<1>1. OrganicInv => OrganicTypeOK
  BY DEF OrganicInv
<1> QED
  BY <1>1, OrganicInvariance, PTL

\* The counting of the invariant gives the bound on live runs.
LEMMA AccountsAdmit ==
  ASSUME OrganicInv
  PROVE  RunsAreAccounted
<1> SUFFICES ASSUME NEW t \in Tasks
             PROVE  Len(runs[t]) <= MaxAttempts + faults /\ Cardinality(LiveRuns(t)) <= 1 + faults
  BY DEF RunsAreAccounted
<1>1. /\ Len(runs[t]) <= row[t].attempts + (IF Held(t) THEN 1 ELSE 0) + faults
      /\ Cardinality(Lost(t)) <= faults /\ IsFiniteSet(Lost(t))
  BY LiveRunsFinite DEF OrganicInv, Accounted
<1>2. row[t].attempts \in Nat /\ faults \in Nat /\ MaxAttempts \in Nat /\ row[t].attempts <= MaxAttempts
  BY OrganicAssumption DEF OrganicInv, OrganicTypeOK, TrainingRows, Staged
<1>3. runs[t] \in Seq(RunStates)
  BY DEF OrganicInv, OrganicTypeOK
<1>4. Len(runs[t]) \in Nat
  BY <1>3, LenProperties
<1>5. Held(t) => row[t].attempts < MaxAttempts
  BY HandFacts DEF Held
<1>6. Len(runs[t]) <= MaxAttempts + faults
  BY <1>1, <1>2, <1>4, <1>5
<1>7. \E n : LiveRuns(t) \subseteq Lost(t) \cup {n}
  BY DEF Lost, Somebodys
<1>8. Cardinality(LiveRuns(t)) <= faults + 1
  BY <1>1, <1>2, <1>7, OneMore
<1> QED
  BY <1>2, <1>6, <1>8

\* A task never costs more runs than its attempts and one for each failure,
\* and no more of them run at once than one and one for each failure, for any
\* number of tasks and retries.
THEOREM RunsStayAccounted == OrganicSpec => []RunsAreAccounted
<1>1. OrganicInv => RunsAreAccounted
  BY AccountsAdmit
<1> QED
  BY <1>1, OrganicInvariance, PTL

\* No task is evaluated before its row is decided, and every success rests on
\* the run the row names being done.
THEOREM VerdictsStayBacked == OrganicSpec => []VerdictsHaveRuns
<1>1. OrganicInv => VerdictsHaveRuns
  BY DEF OrganicInv, Staged, VerdictsHaveRuns
<1> QED
  BY <1>1, OrganicInvariance, PTL

-----------------------------------------------------------------------------
(***************************************************************************)
(* Scoring: its types, and that finalizing a task again is as good as      *)
(* finalizing it once.                                                     *)
(***************************************************************************)

Rows == [loss : Losses \cup {NoLoss}, reason : Derived \cup Excluding \cup {NoReason}, score : {FirstPlace, 0, Penalty}]

\* A row without a loss carries no reason of a ranking.
Proper == {node \in Rows : node.loss = NoLoss => node.reason \notin Derived}

\* Rebuilding a row that a ranking wrote gives the result the ranking was
\* given, if that result was itself rebuilt from a row.
Steady(results) ==
    \A h \in Miners : /\ results[h].loss \in Losses \cup {NoLoss}
                      /\ results[h].reason \in Excluding \cup {NoReason}
                      /\ results[h].loss = NoLoss => results[h].reason # NoReason /\ results[h].finetune = FALSE
                      /\ results[h].loss # NoLoss => results[h].finetune = TRUE

FreshRows == [h \in Miners |-> Persisted(NoRow, outcome[h])]

\* The rows give the results that the last evaluations alone would give.
Current == \A h \in Miners : Rebuilt(rows[h]) = Rebuilt(FreshRows[h])

ScoringInv == ScoringTypeOK /\ rows \in [Miners -> Proper] /\ Current /\ RefinalizeIsFresh

\* What an evaluation may say is a loss and a reason.
LEMMA OutcomesType ==
    ASSUME NEW result \in Outcomes
    PROVE  result.loss \in Losses \cup {NoLoss} /\ result.reason \in Excluding \cup {NoReason}
<1>1. CASE \E l \in Losses \cup {NoLoss}, f \in BOOLEAN : result = Evaluated(l, f)
  <2>1. PICK l \in Losses \cup {NoLoss}, f \in BOOLEAN : result = Evaluated(l, f)
    BY <1>1
  <2>2. CASE l = NoLoss
    BY <2>1, <2>2 DEF Evaluated, Excluding
  <2>3. CASE l # NoLoss
    BY <2>1, <2>3 DEF Evaluated
  <2> QED BY <2>2, <2>3
<1>2. CASE result = [loss |-> NoLoss, finetune |-> TRUE, reason |-> NoReason]
  BY <1>2
<1> QED BY <1>1, <1>2 DEF Outcomes

\* A row that is rebuilt has the loss it was stored with, and an exclusion or none.
LEMMA RebuiltRow ==
    ASSUME NEW node \in Proper
    PROVE  /\ Rebuilt(node).loss \in Losses \cup {NoLoss}
           /\ Rebuilt(node).reason \in Excluding \cup {NoReason}
           /\ Rebuilt(node).loss = NoLoss => Rebuilt(node).reason # NoReason /\ Rebuilt(node).finetune = FALSE
           /\ Rebuilt(node).loss # NoLoss => Rebuilt(node).finetune = TRUE
<1>1. /\ node.loss \in Losses \cup {NoLoss}
      /\ node.reason \in Derived \cup Excluding \cup {NoReason}
      /\ node.loss = NoLoss => node.reason \notin Derived
  BY DEF Proper, Rows
<1>2. CASE node.loss = NoLoss
  <2>1. Rebuilt(node).loss = NoLoss /\ Rebuilt(node).finetune = FALSE
    BY <1>2 DEF Rebuilt
  <2>2. Rebuilt(node).reason = IF node.reason = NoReason THEN "evaluation failed" ELSE node.reason
    BY <1>2 DEF Rebuilt
  <2>3. "evaluation failed" \in Excluding /\ "evaluation failed" # NoReason
    BY DEF Excluding, NoReason
  <2> QED BY <1>1, <1>2, <2>1, <2>2, <2>3
<1>3. CASE node.loss # NoLoss
  <2>1. Rebuilt(node).loss = node.loss /\ Rebuilt(node).finetune = TRUE
    BY <1>3 DEF Rebuilt
  <2>2. Rebuilt(node).reason = IF node.reason \in Derived THEN NoReason ELSE node.reason
    BY <1>3 DEF Rebuilt
  <2> QED BY <1>1, <1>3, <2>1, <2>2
<1> QED BY <1>2, <1>3

\* So do all rows of a task.
LEMMA RebuiltSteady ==
    ASSUME NEW table, \A h \in Miners : table[h] \in Proper
    PROVE  Steady([h \in Miners |-> Rebuilt(table[h])])
BY RebuiltRow DEF Steady

\* A ranking gives a reason of its own exactly to those that are not excluded.
LEMMA VerdictKeeps ==
    ASSUME NEW results, NEW hb, NEW h \in Miners, Steady(results)
    PROVE  IF results[h].reason = NoReason
           THEN h \in Valid(results) /\ Verdict(results, hb, h) \in Derived
           ELSE h \notin Valid(results) /\ Verdict(results, hb, h) = results[h].reason
<1>1. CASE results[h].reason = NoReason
  <2>1. h \in Valid(results)
    BY <1>1 DEF Steady, Valid
  <2>2. Verdict(results, hb, h) \in Derived
    BY <2>1 DEF Verdict, Derived
  <2> QED BY <1>1, <2>1, <2>2
<1>2. CASE results[h].reason # NoReason
  BY <1>2 DEF Valid, Verdict
<1> QED BY <1>1, <1>2

\* The scores are the three that a task gives.
LEMMA PointsType ==
    ASSUME NEW results, NEW hb, NEW h
    PROVE  Points(results, hb, h) \in {FirstPlace, 0, Penalty}
BY DEF Points

\* A row that was ranked is rebuilt to what was ranked.
LEMMA RankedRows ==
    ASSUME NEW results, NEW hb, NEW h \in Miners, Steady(results)
    PROVE  /\ Ranked(results, hb)[h] \in Proper
           /\ Rebuilt(Ranked(results, hb)[h]) =
                [loss |-> results[h].loss, finetune |-> results[h].finetune, reason |-> results[h].reason]
<1> DEFINE verdict == Verdict(results, hb, h)
           node == [loss |-> results[h].loss, reason |-> verdict, score |-> Points(results, hb, h)]
<1>1. Ranked(results, hb)[h] = node
  BY DEF Ranked
<1>2. /\ node.loss = results[h].loss /\ node.reason = verdict
      /\ results[h].loss \in Losses \cup {NoLoss}
  BY DEF Steady
<1>3. CASE results[h].reason = NoReason
  <2>1. results[h].loss # NoLoss /\ results[h].finetune = TRUE /\ verdict \in Derived
    BY <1>3, VerdictKeeps DEF Steady
  <2>2. node \in Proper
    BY <1>2, <2>1, PointsType DEF Rows, Proper
  <2>3. Rebuilt(node) = [loss |-> node.loss, finetune |-> TRUE, reason |-> NoReason]
    BY <1>2, <2>1 DEF Rebuilt
  <2> QED BY <1>1, <1>2, <1>3, <2>1, <2>2, <2>3
<1>4. CASE results[h].reason # NoReason
  <2>1. verdict = results[h].reason /\ verdict \in Excluding /\ verdict \notin Derived /\ verdict # NoReason
    BY <1>4, VerdictKeeps DEF Steady, Derived, Excluding, NoReason
  <2>2. node \in Proper
    BY <1>2, <2>1, PointsType DEF Rows, Proper
  <2>3. CASE results[h].loss = NoLoss
    <3>1. results[h].finetune = FALSE
      BY <2>3 DEF Steady
    <3>2. Rebuilt(node) = [loss |-> NoLoss, finetune |-> FALSE, reason |-> verdict]
      BY <1>2, <2>1, <2>3 DEF Rebuilt
    <3> HIDE DEF node, verdict
    <3> QED BY <1>1, <2>1, <2>2, <2>3, <3>1, <3>2
  <2>4. CASE results[h].loss # NoLoss
    <3>1. results[h].finetune = TRUE
      BY <2>4 DEF Steady
    <3>2. Rebuilt(node) = [loss |-> node.loss, finetune |-> TRUE, reason |-> verdict]
      BY <1>2, <2>1, <2>4 DEF Rebuilt
    <3> HIDE DEF node, verdict
    <3> QED BY <1>1, <1>2, <2>1, <2>2, <2>4, <3>1, <3>2
  <2> QED BY <2>3, <2>4
<1> QED BY <1>3, <1>4

\* The rows of a new task are proper.
LEMMA InvInit == ScoringInit => ScoringInv
<1> SUFFICES ASSUME ScoringInit PROVE ScoringInv
  OBVIOUS
<1>1. Evaluated(NoLoss, FALSE) \in Outcomes /\ NoRow \in Proper
  <2>1. \A f \in BOOLEAN : Evaluated(NoLoss, f) \in Outcomes
    BY DEF Outcomes
  <2>2. Evaluated(NoLoss, FALSE) \in Outcomes
    BY <2>1, Zenon
  <2>3. NoRow \in Proper
    BY DEF NoRow, Proper, Rows, NoReason, Derived
  <2> QED BY <2>2, <2>3
<1>2. ScoringTypeOK /\ rows \in [Miners -> Proper]
  BY <1>1 DEF ScoringInit, ScoringTypeOK, Rows, Proper
<1>3. Current
  BY DEF ScoringInit, Current, FreshRows, Rebuilt, NoRow, Persisted, Evaluated, NoReason, Derived
<1> QED BY <1>2, <1>3 DEF ScoringInit, ScoringInv, RefinalizeIsFresh

\* Evaluations and rankings keep the rows proper.
LEMMA InvNext == ScoringInv /\ [ScoringNext]_scoringVars => ScoringInv'
<1> SUFFICES ASSUME ScoringInv, [ScoringNext]_scoringVars PROVE ScoringInv'
  OBVIOUS
<1>0. rows \in [Miners -> Proper] /\ outcome \in [Miners -> Outcomes] /\ higher \in BOOLEAN
  BY DEF ScoringInv, ScoringTypeOK
<1>1. ASSUME NEW h \in Miners, NEW result \in Outcomes, EvaluateHotkey(h, result)
      PROVE  ScoringInv'
  <2>1. Persisted(rows[h], result) \in Proper
    <3>1. result.reason \notin Derived
      BY OutcomesType DEF Excluding, NoReason, Derived
    <3> QED BY <1>0, <3>1, OutcomesType DEF Persisted, Rows, Proper
  <2>2. ScoringTypeOK' /\ rows' \in [Miners -> Proper]
    BY <1>0, <1>1, <2>1 DEF EvaluateHotkey, ScoringTypeOK, Rows, Proper
  <2>3. ASSUME NEW g \in Miners PROVE Rebuilt(rows'[g]) = Rebuilt(FreshRows'[g])
    <3>1. CASE g = h
      <4>1. rows'[g] = Persisted(rows[g], result) /\ FreshRows'[g] = Persisted(NoRow, result)
        BY <1>0, <1>1, <3>1 DEF EvaluateHotkey, FreshRows
      <4>2. /\ Persisted(rows[g], result).loss = Persisted(NoRow, result).loss
            /\ Persisted(rows[g], result).reason = Persisted(NoRow, result).reason
        BY <1>0 DEF Persisted, NoRow, Rows, Proper
      <4> QED BY <4>1, <4>2 DEF Rebuilt
    <3>2. CASE g # h
      <4>1. rows'[g] = rows[g] /\ FreshRows'[g] = FreshRows[g]
        BY <1>0, <1>1, <3>2 DEF EvaluateHotkey, FreshRows
      <4> QED BY <4>1 DEF ScoringInv, Current
    <3> QED BY <3>1, <3>2
  <2>4. RefinalizeIsFresh'
    BY <1>1 DEF EvaluateHotkey, RefinalizeIsFresh
  <2> QED BY <2>2, <2>3, <2>4 DEF ScoringInv, Current
<1>2. ASSUME FinalizeTask PROVE ScoringInv'
  <2> DEFINE results == [h \in Miners |-> Rebuilt(rows[h])]
  <2>1. rows' = Ranked(results, higher) /\ outcome' = outcome /\ higher' = higher /\ finalized' = TRUE
    BY <1>2 DEF FinalizeTask, Finalized
  <2>2. Steady(results)
    BY <1>0, RebuiltSteady
  <2>3. \A h \in Miners : rows'[h] \in Proper /\ Rebuilt(rows'[h]) =
            [loss |-> results[h].loss, finetune |-> results[h].finetune, reason |-> results[h].reason]
    BY <2>1, <2>2, RankedRows
  <2>4. \A h \in Miners : Rebuilt(rows'[h]) = Rebuilt(rows[h])
    BY <2>3 DEF Rebuilt
  <2>5. rows' \in [Miners -> Proper]
    <3>1. rows' = [h \in Miners |-> rows'[h]]
      BY <2>1 DEF Ranked
    <3> QED BY <2>3, <3>1
  <2>6. ScoringTypeOK'
    BY <1>0, <2>1, <2>5 DEF ScoringTypeOK, Rows, Proper
  <2>7. FreshRows' = FreshRows
    BY <2>1 DEF FreshRows
  <2>8. Current'
    BY <2>4, <2>7 DEF ScoringInv, Current
  <2>9. results = [h \in Miners |-> Rebuilt(FreshRows[h])]
    BY DEF ScoringInv, Current
  <2>10. RefinalizeIsFresh'
    BY <2>1, <2>7, <2>9 DEF RefinalizeIsFresh, Finalized, FreshRows
  <2> QED BY <2>5, <2>6, <2>8, <2>10 DEF ScoringInv
<1>3. ASSUME UNCHANGED scoringVars PROVE ScoringInv'
  BY <1>3 DEF ScoringInv, ScoringTypeOK, Current, RefinalizeIsFresh, FreshRows, scoringVars
<1> QED BY <1>1, <1>2, <1>3 DEF ScoringNext

\* Every reachable state of a task's scoring is well typed.
THEOREM ScoringTypeCorrect == ScoringSpec => []ScoringTypeOK
<1>1. ScoringInv => ScoringTypeOK
  BY DEF ScoringInv
<1> QED BY <1>1, InvInit, InvNext, PTL DEF ScoringSpec

\* Whatever was evaluated and finalized before, and in whatever order, the
\* scores of a finalized task are those of its last evaluations alone.
THEOREM RefinalizeCorrect == ScoringSpec => []RefinalizeIsFresh
<1>1. ScoringInv => RefinalizeIsFresh
  BY DEF ScoringInv
<1> QED BY <1>1, InvInit, InvNext, PTL DEF ScoringSpec
=============================================================================
