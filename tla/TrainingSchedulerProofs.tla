---------------------- MODULE TrainingSchedulerProofs ----------------------
(***************************************************************************)
(* Proofs about TrainingScheduler for every value of its constants.        *)
(*                                                                         *)
(* IInv is the inductive invariant: the properties of the table, plus      *)
(* SchedulerShape and MonitorShape, which say what the lists, answers and  *)
(* requests in flight between two awaits mean for the table.  One lemma    *)
(* per action shows that IInv survives it; the theorems follow.            *)
(***************************************************************************)
EXTENDS TrainingScheduler, TLAPS

-----------------------------------------------------------------------------
\* The fetcher
\* AddPairs: new rows are in no list, so only their own status matters.
LEMMA AddPairsKeeps ==
  ASSUME NEW S \in SUBSET Pairs, IInv, AddPairs(S)
  PROVE  IInv'
<1> USE DEF IInv, TypeOK, AddPairs, table, sched, monitor
<1>1. TypeOK'
  OBVIOUS
<1>2. RowsKnowTheirTrainer'
  BY DEF RowsKnowTheirTrainer
<1>3. ListsAreCurrent'
  BY DEF ListsAreCurrent
<1>4. SuccessIsEarned'
  BY DEF SuccessIsEarned
<1>5. OneRunWithoutFaults'
  BY DEF OneRunWithoutFaults
<1>6. /\ SchedulerShape'
      /\ MonitorShape'
      /\ AttemptsBounded'
      /\ AttemptsAreStarts'
  BY DEF SchedulerShape, Spent, MonitorShape, AttemptsBounded, AttemptsAreStarts, Unrecorded
<1> QED
  BY <1>1, <1>2, <1>3, <1>4, <1>5, <1>6

-----------------------------------------------------------------------------
\* The scheduler
\* FetchPending: the list just read is the table.
LEMMA FetchPendingKeeps ==
  ASSUME IInv, FetchPending
  PROVE  IInv'
<1> USE DEF IInv, TypeOK, FetchPending, table, sched, monitor
<1>1. TypeOK'
  OBVIOUS
<1>2. SchedulerShape'
  BY DEF SchedulerShape
<1>3. ListsAreCurrent'
  BY DEF ListsAreCurrent
<1>4. AttemptsAreStarts'
  BY DEF AttemptsAreStarts, Unrecorded
<1>5. OneRunWithoutFaults'
  BY DEF OneRunWithoutFaults
<1>6. /\ MonitorShape'
      /\ RowsKnowTheirTrainer'
      /\ AttemptsBounded'
      /\ SuccessIsEarned'
  BY DEF MonitorShape, RowsKnowTheirTrainer, AttemptsBounded, SuccessIsEarned
<1> QED
  BY <1>1, <1>2, <1>3, <1>4, <1>5, <1>6

\* GiveUp: the row leaves the list as it fails.
LEMMA GiveUpKeeps ==
  ASSUME NEW p \in Pairs, IInv, GiveUp(p)
  PROVE  IInv'
<1> USE DEF IInv, TypeOK, GiveUp, AtHead, Pop, table, sched, monitor
<1>1. TypeOK'
  OBVIOUS
<1>2. SchedulerShape'
  BY DEF SchedulerShape
<1>3. RowsKnowTheirTrainer'
  BY DEF RowsKnowTheirTrainer
<1>4. ListsAreCurrent'
  BY DEF ListsAreCurrent
<1>5. AttemptsAreStarts'
  BY DEF AttemptsAreStarts, Unrecorded
<1>6. SuccessIsEarned'
  BY DEF SuccessIsEarned
<1>7. OneRunWithoutFaults'
  BY DEF OneRunWithoutFaults, ListsAreCurrent
<1>8. /\ MonitorShape'
      /\ AttemptsBounded'
  BY DEF MonitorShape, AttemptsBounded
<1> QED
  BY <1>1, <1>2, <1>3, <1>4, <1>5, <1>6, <1>7, <1>8

\* SetAside: the row leaves the list untouched.
LEMMA SetAsideKeeps ==
  ASSUME NEW p \in Pairs, IInv, SetAside(p)
  PROVE  IInv'
<1> USE DEF IInv, TypeOK, SetAside, AtHead, Pop, table, sched, monitor
<1>1. TypeOK'
  OBVIOUS
<1>2. SchedulerShape'
  BY DEF SchedulerShape
<1>3. ListsAreCurrent'
  BY DEF ListsAreCurrent
<1>4. AttemptsAreStarts'
  BY DEF AttemptsAreStarts, Unrecorded
<1>5. OneRunWithoutFaults'
  BY DEF OneRunWithoutFaults
<1>6. /\ MonitorShape'
      /\ RowsKnowTheirTrainer'
      /\ AttemptsBounded'
      /\ SuccessIsEarned'
  BY DEF MonitorShape, RowsKnowTheirTrainer, AttemptsBounded, SuccessIsEarned
<1> QED
  BY <1>1, <1>2, <1>3, <1>4, <1>5, <1>6

\* Select: the chosen row is pending and has attempts left.
LEMMA SelectKeeps ==
  ASSUME NEW p \in Pairs, NEW t \in Trainers, IInv, Select(p, t)
  PROVE  IInv'
<1> USE DEF IInv, TypeOK, Select, AtHead, table, sched, monitor
<1>1. TypeOK'
  OBVIOUS
<1>2. SchedulerShape'
  BY SchedulerAssumption DEF SchedulerShape, Spent
<1>3. AttemptsAreStarts'
  BY DEF AttemptsAreStarts, Unrecorded
<1>4. OneRunWithoutFaults'
  BY DEF OneRunWithoutFaults
<1>5. /\ MonitorShape'
      /\ RowsKnowTheirTrainer'
      /\ ListsAreCurrent'
      /\ AttemptsBounded'
      /\ SuccessIsEarned'
  BY DEF MonitorShape, RowsKnowTheirTrainer, ListsAreCurrent, AttemptsBounded, SuccessIsEarned
<1> QED
  BY <1>1, <1>2, <1>3, <1>4, <1>5

\* PostAccepted: the job starts for a row that no other trainer runs.
LEMMA PostAcceptedKeeps ==
  ASSUME IInv, PostAccepted
  PROVE  IInv'
<1> USE DEF IInv, TypeOK, PostAccepted, AcceptJob, Accepts, Running, table, sched, monitor
<1>1. TypeOK'
  BY DEF JobStates, SchedulerShape
<1>2. SchedulerShape'
  BY DEF SchedulerShape, Spent
<1>3. MonitorShape'
  BY DEF MonitorShape, ListsAreCurrent, SchedulerShape
<1>4. RowsKnowTheirTrainer'
  BY DEF RowsKnowTheirTrainer
<1>5. AttemptsAreStarts'
  BY DEF AttemptsAreStarts, Unrecorded
<1>6. SuccessIsEarned'
  BY DEF SuccessIsEarned, SchedulerShape, ListsAreCurrent
<1>7. OneRunWithoutFaults'
  BY DEF OneRunWithoutFaults
<1>8. /\ ListsAreCurrent'
      /\ AttemptsBounded'
  BY DEF ListsAreCurrent, AttemptsBounded
<1> QED
  BY <1>1, <1>2, <1>3, <1>4, <1>5, <1>6, <1>7, <1>8

\* PostAnswerLost: the uncounted start is paid for by the fault.
LEMMA PostAnswerLostKeeps ==
  ASSUME IInv, PostAnswerLost
  PROVE  IInv'
<1> USE DEF IInv, TypeOK, PostAnswerLost, AcceptJob, Accepts, Running, Fault, Retry, table, sched, monitor
<1>1. TypeOK'
  BY DEF JobStates, SchedulerShape
<1>2. SchedulerShape'
  BY DEF SchedulerShape, Spent
<1>3. MonitorShape'
  BY DEF MonitorShape, ListsAreCurrent, SchedulerShape
<1>4. RowsKnowTheirTrainer'
  BY DEF RowsKnowTheirTrainer
<1>5. AttemptsAreStarts'
  BY DEF AttemptsAreStarts, Unrecorded
<1>6. SuccessIsEarned'
  BY DEF SuccessIsEarned, SchedulerShape, ListsAreCurrent
<1>7. OneRunWithoutFaults'
  BY DEF OneRunWithoutFaults
<1>8. /\ ListsAreCurrent'
      /\ AttemptsBounded'
  BY DEF ListsAreCurrent, AttemptsBounded
<1> QED
  BY <1>1, <1>2, <1>3, <1>4, <1>5, <1>6, <1>7, <1>8

\* PostRefused: the row stays current.
LEMMA PostRefusedKeeps ==
  ASSUME IInv, PostRefused
  PROVE  IInv'
<1> USE DEF IInv, TypeOK, PostRefused, Retry, table, sched, monitor
<1>1. TypeOK'
  OBVIOUS
<1>2. SchedulerShape'
  BY DEF SchedulerShape, Spent
<1>3. AttemptsAreStarts'
  BY DEF AttemptsAreStarts, Unrecorded
<1>4. OneRunWithoutFaults'
  BY DEF OneRunWithoutFaults
<1>5. /\ MonitorShape'
      /\ RowsKnowTheirTrainer'
      /\ ListsAreCurrent'
      /\ AttemptsBounded'
      /\ SuccessIsEarned'
  BY DEF MonitorShape, RowsKnowTheirTrainer, ListsAreCurrent, AttemptsBounded, SuccessIsEarned
<1> QED
  BY <1>1, <1>2, <1>3, <1>4, <1>5

\* PostLost: the row stays current.
LEMMA PostLostKeeps ==
  ASSUME IInv, PostLost
  PROVE  IInv'
<1> USE DEF IInv, TypeOK, PostLost, Fault, Retry, table, sched, monitor
<1>1. TypeOK'
  OBVIOUS
<1>2. SchedulerShape'
  BY DEF SchedulerShape, Spent
<1>3. MonitorShape'
  BY DEF MonitorShape
<1>4. AttemptsAreStarts'
  BY DEF AttemptsAreStarts, Unrecorded
<1>5. OneRunWithoutFaults'
  BY DEF OneRunWithoutFaults
<1>6. /\ RowsKnowTheirTrainer'
      /\ ListsAreCurrent'
      /\ AttemptsBounded'
      /\ SuccessIsEarned'
  BY DEF RowsKnowTheirTrainer, ListsAreCurrent, AttemptsBounded, SuccessIsEarned
<1> QED
  BY <1>1, <1>2, <1>3, <1>4, <1>5, <1>6

\* Record: the remembered attempt count is the row's, so the bound holds.
LEMMA RecordKeeps ==
  ASSUME IInv, Record
  PROVE  IInv'
<1> USE DEF IInv, TypeOK, Record, Pop, table, sched, monitor
<1>1. TypeOK'
  BY DEF SchedulerShape
<1>2. SchedulerShape'
  BY DEF SchedulerShape
<1>3. MonitorShape'
  BY DEF MonitorShape, ListsAreCurrent, SchedulerShape
<1>4. RowsKnowTheirTrainer'
  BY DEF RowsKnowTheirTrainer, SchedulerShape
<1>5. ListsAreCurrent'
  BY DEF ListsAreCurrent
<1>6. AttemptsBounded'
  BY SchedulerAssumption DEF AttemptsBounded, SchedulerShape, ListsAreCurrent, Spent
<1>7. AttemptsAreStarts'
  BY DEF AttemptsAreStarts, Unrecorded
<1>8. SuccessIsEarned'
  BY DEF SuccessIsEarned
<1>9. OneRunWithoutFaults'
  BY DEF OneRunWithoutFaults, SchedulerShape, ListsAreCurrent
<1> QED
  BY <1>1, <1>2, <1>3, <1>4, <1>5, <1>6, <1>7, <1>8, <1>9

-----------------------------------------------------------------------------
\* The monitor
\* FetchTraining: the batch just read is the table.
LEMMA FetchTrainingKeeps ==
  ASSUME IInv, FetchTraining
  PROVE  IInv'
<1> USE DEF IInv, TypeOK, FetchTraining, NoReply, table, sched, monitor
<1>1. TypeOK'
  OBVIOUS
<1>2. MonitorShape'
  BY SchedulerAssumption DEF MonitorShape
<1>3. ListsAreCurrent'
  BY DEF ListsAreCurrent
<1>4. /\ SchedulerShape'
      /\ RowsKnowTheirTrainer'
      /\ AttemptsBounded'
      /\ AttemptsAreStarts'
      /\ SuccessIsEarned'
      /\ OneRunWithoutFaults'
  BY DEF SchedulerShape, Spent, RowsKnowTheirTrainer, AttemptsBounded, AttemptsAreStarts, Unrecorded, SuccessIsEarned, OneRunWithoutFaults
<1> QED
  BY <1>1, <1>2, <1>3, <1>4

\* Ask: the answer describes the job the row points to.
LEMMA AskKeeps ==
  ASSUME NEW p \in Pairs, IInv, Ask(p)
  PROVE  IInv'
<1> USE DEF IInv, TypeOK, Ask, Report, NoReply, table, sched, monitor
<1>1. TypeOK'
  BY DEF JobStates, ListsAreCurrent, RowsKnowTheirTrainer
<1>2. MonitorShape'
  BY DEF JobStates, MonitorShape, ListsAreCurrent, RowsKnowTheirTrainer
<1>3. ListsAreCurrent'
  BY DEF ListsAreCurrent
<1>4. /\ SchedulerShape'
      /\ RowsKnowTheirTrainer'
      /\ AttemptsBounded'
      /\ AttemptsAreStarts'
      /\ SuccessIsEarned'
      /\ OneRunWithoutFaults'
  BY DEF SchedulerShape, Spent, RowsKnowTheirTrainer, AttemptsBounded, AttemptsAreStarts, Unrecorded, SuccessIsEarned, OneRunWithoutFaults
<1> QED
  BY <1>1, <1>2, <1>3, <1>4

\* AskLost: silence is paid for by the fault.
LEMMA AskLostKeeps ==
  ASSUME NEW p \in Pairs, IInv, AskLost(p)
  PROVE  IInv'
<1> USE DEF IInv, TypeOK, AskLost, Fault, NoReply, table, sched, monitor
<1>1. TypeOK'
  OBVIOUS
<1>2. MonitorShape'
  BY DEF MonitorShape
<1>3. ListsAreCurrent'
  BY DEF ListsAreCurrent
<1>4. AttemptsAreStarts'
  BY DEF AttemptsAreStarts, Unrecorded
<1>5. OneRunWithoutFaults'
  BY DEF OneRunWithoutFaults
<1>6. /\ SchedulerShape'
      /\ RowsKnowTheirTrainer'
      /\ AttemptsBounded'
      /\ SuccessIsEarned'
  BY DEF SchedulerShape, Spent, RowsKnowTheirTrainer, AttemptsBounded, SuccessIsEarned
<1> QED
  BY <1>1, <1>2, <1>3, <1>4, <1>5, <1>6

\* Apply: the row answered for is still in training.
LEMMA ApplyKeeps ==
  ASSUME IInv, Apply
  PROVE  IInv'
<1> USE DEF IInv, TypeOK, Apply, Outcome, NoReply, table, sched, monitor
<1>1. TypeOK'
  OBVIOUS
<1>2. MonitorShape'
  BY SchedulerAssumption DEF MonitorShape
<1>3. RowsKnowTheirTrainer'
  BY SchedulerAssumption DEF RowsKnowTheirTrainer, ListsAreCurrent
<1>4. ListsAreCurrent'
  BY DEF ListsAreCurrent, MonitorShape
<1>5. SuccessIsEarned'
  BY DEF SuccessIsEarned, MonitorShape, ListsAreCurrent, RowsKnowTheirTrainer
<1>6. OneRunWithoutFaults'
  BY DEF OneRunWithoutFaults, MonitorShape
<1>7. /\ SchedulerShape'
      /\ AttemptsBounded'
      /\ AttemptsAreStarts'
  BY DEF SchedulerShape, Spent, AttemptsBounded, AttemptsAreStarts, Unrecorded
<1> QED
  BY <1>1, <1>2, <1>3, <1>4, <1>5, <1>6, <1>7

-----------------------------------------------------------------------------
\* Restart and the trainers
\* Restart: empty lists are current.
LEMMA RestartKeeps ==
  ASSUME IInv, Restart
  PROVE  IInv'
<1> USE DEF IInv, TypeOK, Restart, Fault, NoReply, table, sched, monitor
<1>1. TypeOK'
  OBVIOUS
<1>2. SchedulerShape'
  BY DEF SchedulerShape
<1>3. MonitorShape'
  BY DEF MonitorShape
<1>4. ListsAreCurrent'
  BY DEF ListsAreCurrent
<1>5. AttemptsAreStarts'
  BY DEF AttemptsAreStarts, Unrecorded
<1>6. OneRunWithoutFaults'
  BY DEF OneRunWithoutFaults
<1>7. /\ RowsKnowTheirTrainer'
      /\ AttemptsBounded'
      /\ SuccessIsEarned'
  BY DEF RowsKnowTheirTrainer, AttemptsBounded, SuccessIsEarned
<1> QED
  BY <1>1, <1>2, <1>3, <1>4, <1>5, <1>6, <1>7

\* JobEnds: a job's end takes no run away from a row.
LEMMA JobEndsKeeps ==
  ASSUME NEW p \in Pairs, NEW t \in Trainers, IInv, JobEnds(t, p)
  PROVE  IInv'
<1> USE DEF IInv, TypeOK, JobEnds, table, sched, monitor
<1>1. TypeOK'
  BY DEF JobStates
<1>2. SchedulerShape'
  BY DEF SchedulerShape, Spent
<1>3. MonitorShape'
  BY DEF MonitorShape
<1>4. RowsKnowTheirTrainer'
  BY DEF RowsKnowTheirTrainer
<1>5. SuccessIsEarned'
  BY DEF SuccessIsEarned
<1>6. OneRunWithoutFaults'
  BY DEF OneRunWithoutFaults
<1>7. /\ ListsAreCurrent'
      /\ AttemptsBounded'
      /\ AttemptsAreStarts'
  BY DEF ListsAreCurrent, AttemptsBounded, AttemptsAreStarts, Unrecorded
<1> QED
  BY <1>1, <1>2, <1>3, <1>4, <1>5, <1>6, <1>7

\* JobCloses: a closing job was already reported as failed.
LEMMA JobClosesKeeps ==
  ASSUME NEW p \in Pairs, NEW t \in Trainers, IInv, JobCloses(t, p)
  PROVE  IInv'
<1> USE DEF IInv, TypeOK, JobCloses, table, sched, monitor
<1>1. TypeOK'
  BY DEF JobStates
<1>2. SchedulerShape'
  BY DEF SchedulerShape, Spent
<1>3. MonitorShape'
  BY DEF MonitorShape
<1>4. RowsKnowTheirTrainer'
  BY DEF RowsKnowTheirTrainer
<1>5. SuccessIsEarned'
  BY DEF SuccessIsEarned
<1>6. OneRunWithoutFaults'
  BY DEF OneRunWithoutFaults
<1>7. /\ ListsAreCurrent'
      /\ AttemptsBounded'
      /\ AttemptsAreStarts'
  BY DEF ListsAreCurrent, AttemptsBounded, AttemptsAreStarts, Unrecorded
<1> QED
  BY <1>1, <1>2, <1>3, <1>4, <1>5, <1>6, <1>7

-----------------------------------------------------------------------------
\* The invariant holds at the start.
LEMMA InitEstablishes == Init => IInv
BY SchedulerAssumption
   DEF Init, IInv, TypeOK, JobStates, SchedulerShape, MonitorShape,
       RowsKnowTheirTrainer, ListsAreCurrent, AttemptsBounded,
       AttemptsAreStarts, Unrecorded, SuccessIsEarned, OneRunWithoutFaults,
       NoReply

\* So does a step that changes nothing.
LEMMA StutterKeeps == IInv /\ UNCHANGED vars => IInv'
BY DEF IInv, TypeOK, vars, table, sched, monitor, SchedulerShape, Spent,
       MonitorShape, RowsKnowTheirTrainer, ListsAreCurrent, AttemptsBounded,
       AttemptsAreStarts, Unrecorded, SuccessIsEarned, OneRunWithoutFaults

\* Every step keeps the invariant.
LEMMA NextKeeps == IInv /\ [Next]_vars => IInv'
<1> SUFFICES ASSUME IInv, [Next]_vars
             PROVE  IInv'
  OBVIOUS
<1>1. CASE \E S \in SUBSET Pairs : AddPairs(S)
  BY <1>1, AddPairsKeeps
<1>2. CASE SchedulerNext
  BY <1>2, FetchPendingKeeps, GiveUpKeeps, SetAsideKeeps, SelectKeeps,
     PostAcceptedKeeps, PostAnswerLostKeeps, PostRefusedKeeps, PostLostKeeps,
     RecordKeeps
     DEF SchedulerNext, Post
<1>3. CASE MonitorNext
  BY <1>3, FetchTrainingKeeps, AskKeeps, AskLostKeeps, ApplyKeeps
     DEF MonitorNext
<1>4. CASE TrainerNext
  BY <1>4, JobEndsKeeps, JobClosesKeeps DEF TrainerNext
<1>5. CASE Restart
  BY <1>5, RestartKeeps
<1>6. CASE UNCHANGED vars
  BY <1>6, StutterKeeps
<1> QED
  BY <1>1, <1>2, <1>3, <1>4, <1>5, <1>6 DEF Next

\* Invariance: IInv holds in every reachable state.
THEOREM Invariance == Spec => []IInv
<1>1. Init => IInv
  BY InitEstablishes
<1>2. IInv /\ [Next]_vars => IInv'
  BY NextKeeps
<1> QED
  BY <1>1, <1>2, PTL DEF Spec

\* Every variable of the pipeline keeps its type.
THEOREM TypeCorrect == Spec => []TypeOK
<1>1. IInv => TypeOK
  BY DEF IInv
<1> QED
  BY <1>1, Invariance, PTL

\* The rows the two coroutines hold in memory are as they read them, so
\* writing the table without looking at it again loses no update.
THEOREM ListsStayCurrent == Spec => []ListsAreCurrent
<1>1. IInv => ListsAreCurrent
  BY DEF IInv
<1> QED
  BY <1>1, Invariance, PTL

\* n_training_attempts never exceeds MAX_TRAINING_ATTEMPTS.
THEOREM AttemptsStayBounded == Spec => []AttemptsBounded
<1>1. IInv => AttemptsBounded
  BY DEF IInv
<1> QED
  BY <1>1, Invariance, PTL

\* The attempts counted and the jobs accepted differ by the lost calls only.
THEOREM AttemptsCountStarts == Spec => []AttemptsAreStarts
<1>1. IInv => AttemptsAreStarts
  BY DEF IInv
<1> QED
  BY <1>1, Invariance, PTL

\* A row says success only if its trainer finished the job with success.
THEOREM SuccessStaysEarned == Spec => []SuccessIsEarned
<1>1. IInv => SuccessIsEarned
  BY DEF IInv
<1> QED
  BY <1>1, Invariance, PTL

\* Without lost calls and restarts a pair trains on one trainer at a time.
THEOREM OneRun == Spec => []OneRunWithoutFaults
<1>1. IInv => OneRunWithoutFaults
  BY DEF IInv
<1> QED
  BY <1>1, Invariance, PTL

-----------------------------------------------------------------------------
(***************************************************************************)
(* Every step of the pipeline is, on the table, a step of PairLifecycle or *)
(* leaves the table alone.                                                 *)
(***************************************************************************)
LEMMA StepImplementsLifecycle ==
  ASSUME IInv, [Next]_vars
  PROVE  [Lifecycle!Next]_<<status, attempts>>
<1> USE DEF Lifecycle!Next
<1>1. ASSUME NEW S \in SUBSET Pairs, AddPairs(S)
      PROVE  Lifecycle!Enqueue(S)
  BY <1>1 DEF AddPairs, Lifecycle!Enqueue
<1>2. ASSUME NEW p \in Pairs, GiveUp(p)
      PROVE  Lifecycle!Abandon(p)
  BY <1>2 DEF GiveUp, AtHead, Spent, Lifecycle!Abandon, IInv, ListsAreCurrent
<1>3. ASSUME Record
      PROVE  current \in Pairs /\ Lifecycle!Start(current)
  <2>1. /\ current \in Pairs
        /\ status[current] = "pending"
        /\ attempts[current] < MaxAttempts
        /\ current \in HasRepo
    BY <1>3, SchedulerAssumption
       DEF Record, IInv, TypeOK, SchedulerShape, Spent, ListsAreCurrent
  <2> QED
    BY <1>3, <2>1 DEF Record, Lifecycle!Start
<1>4. ASSUME Apply
      PROVE  \/ UNCHANGED <<status, attempts>>
             \/ reply.pair \in Pairs /\ Lifecycle!Finish(reply.pair)
  <2>1. /\ reply.pair \in Pairs
        /\ status[reply.pair] = "training"
    BY <1>4 DEF Apply, IInv, TypeOK, MonitorShape, ListsAreCurrent, NoReply
  <2> QED
    BY <1>4, <2>1 DEF Apply, Outcome, Lifecycle!Finish
<1>5. ASSUME \/ FetchPending \/ Post \/ FetchTraining \/ TrainerNext \/ Restart
             \/ \E p \in Pairs : SetAside(p) \/ Ask(p) \/ AskLost(p)
             \/ \E p \in Pairs, t \in Trainers : Select(p, t)
      PROVE  UNCHANGED <<status, attempts>>
  BY <1>5
     DEF FetchPending, Post, PostAccepted, PostAnswerLost, PostRefused,
         PostLost, FetchTraining, TrainerNext, JobEnds, JobCloses, Restart,
         SetAside, Ask, AskLost, Select, table
<1>6. ASSUME UNCHANGED vars
      PROVE  UNCHANGED <<status, attempts>>
  BY <1>6 DEF vars, table
<1> QED
  BY <1>1, <1>2, <1>3, <1>4, <1>5, <1>6
     DEF Next, SchedulerNext, MonitorNext

\* The table, whatever the processes behind it do, behaves as PairLifecycle.
THEOREM ImplementsLifecycle == Spec => LifecycleSpec
<1>1. Init => Lifecycle!Init
  BY DEF Init, Lifecycle!Init
<1>2. IInv /\ [Next]_vars => [Lifecycle!Next]_<<status, attempts>>
  BY StepImplementsLifecycle
<1> QED
  BY <1>1, <1>2, Invariance, PTL DEF Spec, LifecycleSpec, Lifecycle!Spec

\* No step takes a pair out of success or failure.
THEOREM DecidedStaysFinal == Spec => DecidedIsFinal
<1>1. ASSUME TypeOK, [Lifecycle!Next]_<<status, attempts>>
      PROVE  \A p \in Pairs : status[p] \in {"success", "failure"} =>
               status'[p] = status[p]
  BY <1>1
     DEF TypeOK, Lifecycle!Next, Lifecycle!Enqueue, Lifecycle!Start, Lifecycle!Finish,
         Lifecycle!Abandon
<1>2. IInv /\ [Next]_vars =>
        [\A p \in Pairs : status[p] \in {"success", "failure"} =>
           status'[p] = status[p]]_vars
  BY <1>1, StepImplementsLifecycle DEF IInv
<1> QED
  BY <1>2, Invariance, PTL DEF Spec, DecidedIsFinal

=============================================================================
