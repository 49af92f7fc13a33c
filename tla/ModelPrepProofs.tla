-------------------------- MODULE ModelPrepProofs --------------------------
(* Proofs about ModelPrep, for every number of tasks, pairs, trainers and   *)
(* GPUs and every length of a run: the types, the bill, and, while at most  *)
(* one thing has failed, that a task is prepared once at a time and that no *)
(* two containers share a GPU.                                              *)
(* Then, from finite sets of numbers up, about GpuSelection: which GPUs a   *)
(* job gets on a trainer of any size and with any links.                    *)
EXTENDS ModelPrep, GpuSelection, FiniteSetTheorems, TLAPS

-----------------------------------------------------------------------------
(* The inductive invariant.                                                *)

\* A job asks for GPUs; what it has said, it said when it was over.
JobFits(i) ==
    /\ jobs[i].gpus # {}
    /\ jobs[i].said # "nothing" => jobs[i].box = "gone"

\* A task is in progress exactly while it has a coroutine.
CoroFits(t) ==
    /\ coro[t].at = "none" => coro[t] = NoCoro
    /\ coro[t].at = "none" <=> t \notin inProgress
    /\ coro[t].at # "none" => coro[t].gpus # {}
    /\ coro[t].at = "wait" => coro[t].job \in DOMAIN jobs

\* The loop is at a task that is not in progress.
CycleFits ==
    /\ cycle.at # "idle" => cycle.task \in Tasks \ inProgress
    /\ cycle.at = "reserve" => cycle.gpus # {}

TrainFits(p) == train[p].at = "post" => train[p].gpus # {}

Fits ==
    /\ \A i \in DOMAIN jobs : JobFits(i)
    /\ \A t \in Tasks : CoroFits(t)
    /\ \A p \in Pairs : TrainFits(p)
    /\ CycleFits

\* Somebody knows of preparation i: the coroutine that waits for it or, when a
\* restart or a lost connection took that away, the loop before it does
\* anything for the task again.
Minded(i) ==
    LET t == jobs[i].of
    IN  \/ coro[t].at = "wait" /\ coro[t].job = i
        \/ /\ faults["lostCall"] + faults["crash"] > 0
           /\ coro[t].at \in {"none", "close"}
           /\ cycle.task = t =>
                \/ cycle.at \in {"idle", "recovered"}
                \/ cycle.at = "ask" /\ \A tr \in Trainers : On(i, tr) => tr \in cycle.ask

PrepsMinded ==
    \A i \in DOMAIN jobs : jobs[i].of \in Tasks /\ Alive(i) =>
        Minded(i) /\ (jobs[i].entry = "TRAINING" \/ faults["late"] > 0)

PrepsApart ==
    \A i, j \in DOMAIN jobs :
        jobs[i].of \in Tasks /\ jobs[i].of = jobs[j].of /\ Alive(i) /\ Alive(j) => i = j

\* The job keeps others off its GPUs.
Holding(i) == jobs[i].entry = "TRAINING" \/ jobs[i].box = "up"

HoldersApart ==
    faults["late"] = 0 =>
        /\ \A i \in DOMAIN jobs : Alive(i) => Holding(i)
        /\ \A i, j \in DOMAIN jobs :
             i # j /\ Holding(i) /\ Holding(j) => jobs[i].gpus \cap jobs[j].gpus = {}

OneFailure == AllFaults <= 1 => PrepsMinded /\ PrepsApart /\ HoldersApart

IInv == TypeOK /\ Fits /\ OneFailure

-----------------------------------------------------------------------------
(* Least numbers: the loop takes the oldest task, the trainer its oldest    *)
(* job.                                                                     *)

\* Among finite parts there is a smallest one, whichever are chosen.
LEMMA MinimalSubset ==
  ASSUME NEW S, NEW C, C \subseteq FiniteSubsetsOf(S), C # {}
  PROVE  \E X \in C : \A Y \in C : Y \subseteq X => Y = X
<1>1. \E X \in C : \A Y \in C : ~ (<<Y, X>> \in StrictSubsetOrdering(S))
  BY FS_StrictSubsetOrderingWellFounded, WFMin
<1> QED
  BY <1>1 DEF StrictSubsetOrdering, FiniteSubsetsOf

\* A set of natural numbers that is not empty has a least one.
LEMMA LeastNat ==
  ASSUME NEW T \in SUBSET Nat, T # {}
  PROVE  \E x \in T : \A y \in T : x <= y
<1> DEFINE C == {0 .. x : x \in T}
<1>1. C \subseteq FiniteSubsetsOf(Nat) /\ C # {}
  <2>1. \A x \in T : IsFiniteSet(0 .. x) /\ 0 .. x \subseteq Nat
    BY FS_Interval
  <2> QED
    BY <2>1 DEF FiniteSubsetsOf
<1>2. PICK X \in C : \A Y \in C : Y \subseteq X => Y = X
  <2> HIDE DEF C
  <2> QED
    BY <1>1, MinimalSubset
<1>3. PICK x \in T : X = 0 .. x
  BY <1>2
<1>4. ASSUME NEW y \in T
      PROVE  x <= y
  <2>1. CASE y < x
    <3>1. 0 .. y \in C /\ 0 .. y \subseteq 0 .. x
      BY <2>1
    <3>2. 0 .. y = 0 .. x
      BY <3>1, <1>2, <1>3
    <3> QED
      BY <3>2, <2>1
  <2> QED
    BY <2>1
<1> QED
  BY <1>4

-----------------------------------------------------------------------------
(* What the helpers of the model do.                                       *)

JobType == [of : Tasks \cup Pairs, gpus : SUBSET Gpus, entry : Entries,
            box : {"none", "up", "gone"}, said : {"nothing", "result", "error"}]
CoroType == [at : {"none", "cost", "post", "wait", "ok", "close"}, gpus : SUBSET Gpus, job : Nat]
CycleType == [at : {"idle", "ask", "recovered", "check", "reserve"}, task : Tasks \cup {0},
              left : SUBSET Tasks, ask : SUBSET Trainers, gpus : SUBSET Gpus]

\* A fault is counted; if that makes one, it is the only one.
LEMMA FaultCounts ==
  ASSUME faults \in [Kinds -> Nat], NEW k \in Kinds, Fault(k)
  PROVE  /\ faults' \in [Kinds -> Nat]
         /\ faults'[k] = faults[k] + 1
         /\ \A j \in Kinds \ {k} : faults'[j] = faults[j]
         /\ AllFaults' <= 1 => /\ AllFaults <= 1
                               /\ \A j \in Kinds : faults[j] = 0
<1>1. /\ faults' \in [Kinds -> Nat] /\ faults'[k] = faults[k] + 1
      /\ \A j \in Kinds \ {k} : faults'[j] = faults[j]
  BY DEF Fault
<1>2. \A j \in Kinds : faults[j] \in Nat /\ faults'[j] \in Nat
  BY <1>1
<1>3. {"crash", "lostCall", "lostQuery", "failed", "late", "restart", "unreachable"} = Kinds
  BY DEF Kinds
<1>4. AllFaults' = AllFaults + 1
  <2>1. \A j \in Kinds : faults'[j] = faults[j] + IF j = k THEN 1 ELSE 0
    BY <1>1, <1>2
  <2> DEFINE one(j) == IF j = k THEN 1 ELSE 0
  <2>2. one("crash") + one("lostCall") + one("lostQuery") + one("failed") + one("late")
          + one("restart") + one("unreachable") = 1
    BY DEF Kinds
  <2>3. \A j \in Kinds : one(j) \in Nat
    OBVIOUS
  <2>4. \A j \in Kinds : faults'[j] = faults[j] + one(j)
    BY <2>1
  <2> HIDE DEF one
  <2> QED
    BY <1>2, <1>3, <2>2, <2>3, <2>4 DEF AllFaults
<1>5. AllFaults \in Nat /\ (AllFaults = 0 => \A j \in Kinds : faults[j] = 0)
  BY <1>2, <1>3 DEF AllFaults
<1> QED
  BY <1>1, <1>4, <1>5

\* The loop at the next task, or asleep.
LEMMA TurnLooks ==
  ASSUME NEW S \in SUBSET Tasks, cycle' = Turn(S)
  PROVE  /\ cycle' \in CycleType
         /\ \/ cycle'.at = "idle"
            \/ /\ cycle'.at = "ask" /\ cycle'.ask = Trainers
               /\ cycle'.task \in Tasks \ inProgress'
<1> DEFINE rest == S \ inProgress'
           t == CHOOSE u \in rest : \A v \in rest : u <= v
<1>1. CASE rest = {}
  <2>1. cycle' = Idle
    BY <1>1 DEF Turn
  <2> QED
    BY <2>1 DEF Idle, CycleType
<1>2. CASE rest # {}
  <2>1. \E u \in rest : \A v \in rest : u <= v
    BY <1>2, LeastNat, TasksAssumption
  <2>2. t \in rest
    BY <2>1
  <2>3. cycle' = [at |-> "ask", task |-> t, left |-> {u \in S : u > t}, ask |-> Trainers, gpus |-> {}]
    BY <1>2 DEF Turn
  <2> QED
    BY <2>2, <2>3 DEF CycleType
<1> QED
  BY <1>1, <1>2

\* Every job is on a trainer.
LEMMA JobIsOn ==
  ASSUME jobs \in Seq(JobType), NEW i \in DOMAIN jobs, jobs[i].gpus # {}
  PROVE  \E tr \in Trainers : On(i, tr)
<1>1. jobs[i] \in JobType
  OBVIOUS
<1>2. PICK g \in jobs[i].gpus : g \in Gpus
  BY <1>1 DEF JobType
<1> QED
  BY <1>2, HomeAssumption DEF On

\* The trainer answers with a job of the task, a running one if there is one.
LEMMA PrepFinds ==
  ASSUME jobs \in Seq(JobType), NEW tr \in Trainers, NEW t \in Tasks, NEW i \in DOMAIN jobs,
         jobs[i].of = t, On(i, tr)
  PROVE  /\ PrepJob(tr, t) \in DOMAIN jobs
         /\ jobs[PrepJob(tr, t)].of = t
         /\ jobs[i].entry = "TRAINING" => jobs[PrepJob(tr, t)].entry = "TRAINING"
<1> DEFINE of == {j \in DOMAIN jobs : jobs[j].of = t /\ On(j, tr)}
           running == {j \in of : jobs[j].entry = "TRAINING"}
           best == IF running # {} THEN running ELSE of
<1>1. i \in of /\ best # {} /\ best \subseteq of
  OBVIOUS
<1>2. DOMAIN jobs \subseteq Nat
  OBVIOUS
<1>3. \E k \in best : \A j \in best : k <= j
  <2> HIDE DEF best
  <2> QED
    BY <1>1, <1>2, LeastNat
<1>4. PrepJob(tr, t) = CHOOSE k \in best : \A j \in best : k <= j
  BY <1>1 DEF PrepJob
<1>5. PrepJob(tr, t) \in best
  <2> HIDE DEF best
  <2> QED
    BY <1>3, <1>4
<1> QED
  BY <1>1, <1>5

\* The answer to a question is no job, or a job of the task.
LEMMA PrepJobType ==
  ASSUME jobs \in Seq(JobType), NEW tr \in Trainers, NEW t \in Tasks
  PROVE  PrepJob(tr, t) \in DOMAIN jobs \cup {0}
<1>1. CASE \E i \in DOMAIN jobs : jobs[i].of = t /\ On(i, tr)
  BY <1>1, PrepFinds
<1>2. CASE ~ \E i \in DOMAIN jobs : jobs[i].of = t /\ On(i, tr)
  BY <1>2 DEF PrepJob
<1> QED
  BY <1>1, <1>2

\* Jobs keep their owner and their GPUs.
SameJobs ==
    /\ jobs' \in Seq(JobType) /\ DOMAIN jobs' = DOMAIN jobs
    /\ \A j \in DOMAIN jobs : jobs'[j].of = jobs[j].of /\ jobs'[j].gpus = jobs[j].gpus

\* A job is over: it is the one that goes; marked is one of the same owner.
LEMMA CompletedEnds ==
  ASSUME jobs \in Seq(JobType), NEW i \in DOMAIN jobs, jobs[i].gpus # {},
         NEW entry \in Entries, jobs' = Completed(i, entry)
  PROVE  /\ SameJobs
         /\ jobs'[i].box = "gone"
         /\ \A j \in DOMAIN jobs \ {i} : jobs'[j].box = jobs[j].box /\ jobs'[j].said = jobs[j].said
         /\ \E told \in DOMAIN jobs : /\ jobs[told].of = jobs[i].of
                                      /\ jobs'[told].entry = entry
                                      /\ jobs[i].of \notin Tasks => told = i
                                      /\ \A j \in DOMAIN jobs \ {told} : jobs'[j].entry = jobs[j].entry
<1> DEFINE x == jobs[i].of
           tr == CHOOSE tr \in Trainers : On(i, tr)
           told == IF x \in Tasks THEN PrepJob(tr, x) ELSE i
           word == IF entry = "SUCCESS" THEN "result" ELSE "error"
           over == [jobs EXCEPT ![i].box = "gone", ![i].said = word]
<1>1. told \in DOMAIN jobs /\ jobs[told].of = jobs[i].of /\ (x \notin Tasks => told = i)
  <2>1. tr \in Trainers /\ On(i, tr)
    BY JobIsOn
  <2> HIDE DEF tr
  <2> QED
    BY <2>1, PrepFinds
<1>2. jobs' = [over EXCEPT ![told].entry = entry]
  BY DEF Completed
<1> HIDE DEF told
<1>3. jobs \in [1..Len(jobs) -> JobType] /\ DOMAIN jobs = 1..Len(jobs) /\ Len(jobs) \in Nat
  OBVIOUS
<1>4. over[i] = [[jobs[i] EXCEPT !.box = "gone"] EXCEPT !.said = word]
  BY <1>3
<1>5. /\ over[i] \in JobType /\ over[i].of = jobs[i].of /\ over[i].gpus = jobs[i].gpus
      /\ over[i].entry = jobs[i].entry /\ over[i].box = "gone" /\ over[i].said = word
  <2>1. jobs[i] \in JobType /\ word \in {"nothing", "result", "error"}
    BY <1>3
  <2> QED
    BY <1>4, <2>1 DEF JobType
<1>6. over \in [1..Len(jobs) -> JobType] /\ \A j \in DOMAIN jobs \ {i} : over[j] = jobs[j]
  BY <1>3, <1>5
<1> HIDE DEF over
<1>7. jobs'[told] = [over[told] EXCEPT !.entry = entry] /\ over[told] \in JobType
  BY <1>1, <1>2, <1>3, <1>6
<1>8. /\ jobs'[told] \in JobType /\ jobs'[told].of = over[told].of /\ jobs'[told].gpus = over[told].gpus
      /\ jobs'[told].entry = entry /\ jobs'[told].box = over[told].box /\ jobs'[told].said = over[told].said
  BY <1>7 DEF JobType
<1>9. /\ jobs' \in [1..Len(jobs) -> JobType]
      /\ \A j \in DOMAIN jobs \ {told} : jobs'[j] = over[j]
  BY <1>1, <1>2, <1>3, <1>6, <1>8
<1>10. jobs' \in Seq(JobType) /\ DOMAIN jobs' = DOMAIN jobs
  BY <1>3, <1>9
<1>11. \A j \in DOMAIN jobs : /\ jobs'[j].of = jobs[j].of /\ jobs'[j].gpus = jobs[j].gpus
                              /\ jobs'[j].box = over[j].box /\ jobs'[j].said = over[j].said
                              /\ j # told => jobs'[j].entry = jobs[j].entry
  BY <1>5, <1>6, <1>8, <1>9
<1> QED
  BY <1>1, <1>5, <1>6, <1>8, <1>10, <1>11 DEF SameJobs

\* A new job; jobs of the same task that are marked for it were running.
LEMMA StartedAdds ==
  ASSUME jobs \in Seq(JobType), NEW x \in Tasks \cup Pairs, NEW S \in SUBSET Gpus, jobs' = Started(x, S)
  PROVE  /\ jobs' \in Seq(JobType)
         /\ DOMAIN jobs' = DOMAIN jobs \cup {Len(jobs) + 1} /\ Len(jobs) + 1 \notin DOMAIN jobs
         /\ jobs'[Len(jobs) + 1] = [of |-> x, gpus |-> S, entry |-> "TRAINING", box |-> "none", said |-> "nothing"]
         /\ \A j \in DOMAIN jobs :
              /\ jobs'[j].of = jobs[j].of /\ jobs'[j].gpus = jobs[j].gpus
              /\ jobs'[j].box = jobs[j].box /\ jobs'[j].said = jobs[j].said
              /\ \/ jobs'[j].entry = jobs[j].entry
                 \/ jobs[j].of = x /\ x \in Tasks /\ jobs[j].entry = "TRAINING" /\ jobs'[j].entry = "FAILURE"
<1> DEFINE superseded(j) == x \in Tasks /\ j.of = x /\ j.entry = "TRAINING"
                              /\ {Home[g] : g \in j.gpus} = {Home[g] : g \in S}
           marked == [i \in DOMAIN jobs |-> IF superseded(jobs[i])
                                            THEN [jobs[i] EXCEPT !.entry = "FAILURE"] ELSE jobs[i]]
           new == [of |-> x, gpus |-> S, entry |-> "TRAINING", box |-> "none", said |-> "nothing"]
<1>1. jobs \in [1..Len(jobs) -> JobType] /\ DOMAIN jobs = 1..Len(jobs) /\ Len(jobs) \in Nat
  OBVIOUS
<1>2. jobs' = Append(marked, new)
  BY DEF Started
<1>3. ASSUME NEW j \in DOMAIN jobs
      PROVE  /\ marked[j] \in JobType
             /\ marked[j].of = jobs[j].of /\ marked[j].gpus = jobs[j].gpus
             /\ marked[j].box = jobs[j].box /\ marked[j].said = jobs[j].said
             /\ \/ marked[j].entry = jobs[j].entry
                \/ jobs[j].of = x /\ x \in Tasks /\ jobs[j].entry = "TRAINING" /\ marked[j].entry = "FAILURE"
  <2>1. CASE superseded(jobs[j])
    <3>1. marked[j] = [jobs[j] EXCEPT !.entry = "FAILURE"] /\ jobs[j] \in JobType
      BY <1>1, <2>1
    <3> QED
      BY <2>1, <3>1 DEF JobType, Entries
  <2>2. CASE ~superseded(jobs[j])
    BY <1>1, <2>2
  <2> QED
    BY <2>1, <2>2
<1>4. marked \in [1..Len(jobs) -> JobType] /\ DOMAIN marked = 1..Len(jobs)
  BY <1>1, <1>3
<1>5. new \in JobType
  BY DEF JobType, Entries
<1> HIDE DEF marked, new
<1>6. marked \in Seq(JobType) /\ Len(marked) = Len(jobs)
  BY <1>1, <1>4
<1>7. /\ jobs' \in Seq(JobType) /\ Len(jobs') = Len(jobs) + 1
      /\ jobs'[Len(jobs) + 1] = new
      /\ \A j \in 1..Len(jobs) : jobs'[j] = marked[j]
  BY <1>2, <1>5, <1>6
<1>8. DOMAIN jobs' = 1..(Len(jobs) + 1)
  BY <1>7
<1> QED
  BY <1>1, <1>3, <1>7, <1>8 DEF new

-----------------------------------------------------------------------------
(* What the steps have in common.                                          *)

FaultsGrow ==
    /\ faults' \in [Kinds -> Nat]
    /\ AllFaults' <= 1 => AllFaults <= 1 /\ \A k \in Kinds : faults'[k] >= faults[k]

\* Faults are counted and never taken back.
LEMMA FaultsDoGrow ==
  ASSUME TypeOK, UNCHANGED faults \/ \E k \in Kinds : Fault(k)
  PROVE  FaultsGrow
<1>1. faults \in [Kinds -> Nat]
  BY DEF TypeOK
<1>2. CASE UNCHANGED faults
  BY <1>1, <1>2 DEF FaultsGrow, AllFaults
<1>3. ASSUME NEW k \in Kinds, Fault(k)
      PROVE  FaultsGrow
  BY <1>1, <1>3, FaultCounts DEF FaultsGrow
<1> QED
  BY <1>2, <1>3

\* The ledger is written by all, and its type is all the proofs need of it.
LEMMA LedgerTyped ==
  ASSUME LedgerTypeOK
  PROVE  /\ \A S \in SUBSET Gpus : Freed(S) \in [Gpus -> Use] /\ Taken(S) \in [Gpus -> Use]
         /\ \A n : \A S \in Suitable(n) : S \subseteq Gpus /\ S # {}
<1>1. \A S \in SUBSET Gpus : Freed(S) \in [Gpus -> Use] /\ Taken(S) \in [Gpus -> Use]
  BY DEF LedgerTypeOK, Freed, Taken, Use
<1>2. ASSUME NEW n, NEW S \in Suitable(n)
      PROVE  S \subseteq Gpus /\ S # {}
  <2>1. S \subseteq Gpus /\ Cardinality({Home[g] : g \in S}) = 1
    BY DEF Suitable
  <2>2. ASSUME S = {}
        PROVE  FALSE
    <3>1. {Home[g] : g \in S} = {}
      BY <2>2
    <3> QED
      BY <2>1, <3>1, FS_EmptySet
  <2> QED
    BY <2>1, <2>2
<1> QED
  BY <1>1, <1>2

\* A step that leaves the jobs alone keeps what OneFailure says of them, as
\* long as every preparation is minded.
LEMMA JobsStay ==
  ASSUME IInv, jobs' = jobs, FaultsGrow,
         \A i \in DOMAIN jobs :
            AllFaults' <= 1 /\ jobs[i].of \in Tasks /\ Alive(i) /\ Minded(i) => Minded(i)'
  PROVE  OneFailure'
<1> SUFFICES ASSUME AllFaults' <= 1
             PROVE  PrepsMinded' /\ PrepsApart' /\ HoldersApart'
  BY DEF OneFailure
<1>1. PrepsMinded /\ PrepsApart /\ HoldersApart /\ faults'["late"] >= faults["late"]
  BY DEF IInv, OneFailure, FaultsGrow, Kinds
<1>2. faults["late"] \in Nat /\ faults'["late"] \in Nat
  BY DEF IInv, TypeOK, FaultsGrow, Kinds
<1>3. PrepsMinded'
  BY <1>1, <1>2 DEF PrepsMinded, Alive
<1>4. PrepsApart'
  BY <1>1 DEF PrepsApart, Alive
<1>5. HoldersApart'
  BY <1>1, <1>2 DEF HoldersApart, Alive, Holding
<1> QED
  BY <1>3, <1>4, <1>5

\* The loop turns to another task: that task it asks all trainers about.
LEMMA TurnKeeps ==
  ASSUME IInv, NEW S \in SUBSET Tasks, cycle' = Turn(S), jobs' = jobs, coro' = coro, train' = train,
         UNCHANGED <<inProgress, faults>>
  PROVE  Fits' /\ OneFailure' /\ cycle' \in CycleType
<1>1. /\ cycle' \in CycleType
      /\ \/ cycle'.at = "idle"
         \/ /\ cycle'.at = "ask" /\ cycle'.ask = Trainers
            /\ cycle'.task \in Tasks \ inProgress'
  BY TurnLooks
<1>2. Fits'
  BY <1>1 DEF IInv, Fits, JobFits, CoroFits, TrainFits, CycleFits
<1>3. FaultsGrow
  BY FaultsDoGrow DEF IInv
<1>4. \A i \in DOMAIN jobs : Minded(i) => Minded(i)'
  BY <1>1 DEF Minded, On
<1> QED
  BY <1>1, <1>2, <1>3, <1>4, JobsStay

-----------------------------------------------------------------------------
(* The dispatch loop.                                                      *)

\* The dispatch loop keeps the invariant.
LEMMA LoopKeeps ==
  ASSUME IInv, CycleList \/ (\E tr \in Trainers : AskTrainer(tr)) \/ WriteRecovered \/ CheckGpus
  PROVE  IInv'
<1> USE DEF ledgerVars
<1>0. /\ TypeOK /\ LedgerTypeOK /\ jobs \in Seq(JobType) /\ cycle \in CycleType
      /\ cost \in [Tasks -> {"none", "open", "closed"}]
      /\ status \in [Tasks -> {"awaiting", "looking", "rejected"}]
      /\ cycle.left \subseteq Tasks /\ CycleFits /\ Fits
  BY DEF IInv, TypeOK, JobType, CycleType, Fits
<1>1. ASSUME NEW S \in SUBSET Tasks, cycle' = Turn(S),
             UNCHANGED <<ledgerVars, inProgress, coro, releases, train, jobs, faults>>,
             cost' \in [Tasks -> {"none", "open", "closed"}],
             status' \in [Tasks -> {"awaiting", "looking", "rejected"}]
      PROVE  IInv'
  <2>1. Fits' /\ OneFailure' /\ cycle' \in CycleType
    BY <1>1, TurnKeeps
  <2>2. TypeOK'
    BY <1>0, <1>1, <2>1 DEF TypeOK, LedgerTypeOK, CycleType
  <2> QED
    BY <2>1, <2>2 DEF IInv
<1>2. CASE CycleList
  BY <1>0, <1>1, <1>2 DEF CycleList
<1>3. ASSUME NEW tr \in Trainers, AskTrainer(tr)
      PROVE  IInv'
  <2> DEFINE t == cycle.task
             i == PrepJob(tr, t)
             entry == IF i = 0 THEN "none" ELSE jobs[i].entry
  <2>1. /\ cycle.at = "ask" /\ tr \in cycle.ask /\ t \in Tasks \ inProgress
        /\ UNCHANGED <<ledgerVars, status, inProgress, coro, releases, train, jobs, faults>>
        /\ cost' = IF entry \in {"SUCCESS", "FAILURE"} /\ cost[t] = "open"
                   THEN [cost EXCEPT ![t] = "closed"] ELSE cost
        /\ cycle' = CASE entry = "SUCCESS" -> [cycle EXCEPT !.at = "recovered", !.ask = {}]
                      [] entry = "TRAINING" -> Turn(cycle.left)
                      [] OTHER -> [cycle EXCEPT !.ask = @ \ {tr}]
    BY <1>0, <1>3 DEF AskTrainer, CycleFits
  <2>2. cost' \in [Tasks -> {"none", "open", "closed"}]
    <3> HIDE DEF entry, t
    <3> QED
      BY <1>0, <2>1
  <2>3. CASE entry = "TRAINING"
    <3>1. cycle' = Turn(cycle.left)
      BY <2>1, <2>3
    <3> QED
      BY <1>0, <1>1, <2>1, <2>2, <3>1
  <2>4. ASSUME cycle' \in CycleType, cycle'.task = t,
               \/ cycle'.at = "recovered"
               \/ /\ entry # "TRAINING"
                  /\ cycle'.at = "ask" /\ cycle'.ask = cycle.ask \ {tr}
        PROVE  IInv'
    <3>1. TypeOK'
      BY <1>0, <2>1, <2>2, <2>4 DEF TypeOK, LedgerTypeOK, CycleType
    <3>2. Fits'
      BY <1>0, <2>1, <2>4 DEF Fits, JobFits, CoroFits, TrainFits, CycleFits
    <3>3. FaultsGrow
      BY <1>0, <2>1, FaultsDoGrow
    <3>4. ASSUME NEW k \in DOMAIN jobs, AllFaults' <= 1, jobs[k].of \in Tasks, Alive(k), Minded(k)
          PROVE  Minded(k)'
      <4>1. ASSUME jobs[k].of = t, On(k, tr), ~ (coro[t].at = "wait" /\ coro[t].job = k)
            PROVE  entry = "TRAINING"
        <5>1. AllFaults <= 1 /\ PrepsMinded
          BY <3>3, <3>4 DEF FaultsGrow, IInv, OneFailure
        <5>2. faults["late"] = 0
          <6>1. faults["lostCall"] + faults["crash"] > 0
            BY <3>4, <4>1 DEF Minded
          <6>2. \A j \in Kinds : faults[j] \in Nat
            BY <1>0 DEF TypeOK
          <6> QED
            BY <5>1, <6>1, <6>2 DEF AllFaults, Kinds
        <5>3. jobs[k].entry = "TRAINING"
          BY <3>4, <5>1, <5>2 DEF PrepsMinded
        <5>4. i \in DOMAIN jobs /\ jobs[i].entry = "TRAINING"
          BY <1>0, <2>1, <4>1, <5>3, PrepFinds
        <5> QED
          BY <1>0, <5>4
      <4> HIDE DEF entry
      <4>2. CASE jobs[k].of = t
        BY <2>1, <2>4, <3>4, <4>1, <4>2 DEF Minded, On
      <4>3. CASE jobs[k].of # t
        BY <2>1, <2>4, <3>4, <4>3 DEF Minded, On
      <4> QED
        BY <4>2, <4>3
    <3> QED
      BY <2>1, <3>1, <3>2, <3>3, <3>4, JobsStay DEF IInv
  <2>5. CASE entry = "SUCCESS"
    <3>1. cycle' = [[cycle EXCEPT !.at = "recovered"] EXCEPT !.ask = {}]
      BY <2>1, <2>5
    <3>2. cycle' \in CycleType /\ cycle'.task = t /\ cycle'.at = "recovered"
      BY <1>0, <3>1 DEF CycleType
    <3> QED
      BY <2>4, <3>2
  <2>6. CASE entry \notin {"SUCCESS", "TRAINING"}
    <3>1. cycle' = [cycle EXCEPT !.ask = @ \ {tr}]
      BY <2>1, <2>6
    <3>2. cycle' \in CycleType /\ cycle'.task = t /\ cycle'.at = "ask" /\ cycle'.ask = cycle.ask \ {tr}
      BY <1>0, <2>1, <3>1 DEF CycleType
    <3> QED
      BY <2>4, <2>6, <3>2
  <2> QED
    BY <2>3, <2>5, <2>6
<1>4. CASE WriteRecovered
  <2>1. status' \in [Tasks -> {"awaiting", "looking", "rejected"}]
    BY <1>0, <1>4 DEF WriteRecovered, Verdicts
  <2> QED
    BY <1>0, <1>1, <1>4, <2>1 DEF WriteRecovered
<1>5. CASE CheckGpus
  <2>1. CASE cycle' = Turn(cycle.left)
    BY <1>0, <1>1, <1>5, <2>1 DEF CheckGpus
  <2>2. ASSUME NEW S \in Suitable(Need[cycle.task]), cycle' = [cycle EXCEPT !.at = "reserve", !.gpus = S]
        PROVE  IInv'
    <3>1. cycle' = [[cycle EXCEPT !.at = "reserve"] EXCEPT !.gpus = S] /\ S \subseteq Gpus /\ S # {}
      BY <1>0, <2>2, LedgerTyped
    <3>2. cycle' \in CycleType /\ cycle'.at = "reserve" /\ cycle'.gpus = S /\ cycle'.task = cycle.task
      BY <1>0, <3>1 DEF CycleType
    <3>3. UNCHANGED <<ledgerVars, status, cost, inProgress, coro, releases, train, jobs, faults>>
          /\ cycle.at = "ask" /\ cycle.ask = {}
      BY <1>5 DEF CheckGpus
    <3>4. TypeOK'
      BY <1>0, <3>2, <3>3 DEF TypeOK, LedgerTypeOK, CycleType
    <3>5. Fits'
      BY <1>0, <3>1, <3>2, <3>3 DEF Fits, JobFits, CoroFits, TrainFits, CycleFits
    <3>6. FaultsGrow
      BY <1>0, <3>3, FaultsDoGrow
    <3>7. ASSUME NEW k \in DOMAIN jobs, Minded(k)
          PROVE  Minded(k)'
      <4>1. \E tr \in Trainers : On(k, tr)
        BY <1>0, JobIsOn DEF Fits, JobFits
      <4> QED
        BY <3>2, <3>3, <3>7, <4>1 DEF Minded, On
    <3> QED
      BY <3>3, <3>4, <3>5, <3>6, <3>7, JobsStay DEF IInv
  <2> QED
    BY <1>5, <2>1, <2>2 DEF CheckGpus
<1> QED
  BY <1>2, <1>3, <1>4, <1>5

\* A lost question counts as "no job there": a fault of its own.
LEMMA AskLostKeeps ==
  ASSUME IInv, NEW tr \in Trainers, AskLost(tr)
  PROVE  IInv'
<1> USE DEF ledgerVars
<1>0. /\ TypeOK /\ LedgerTypeOK /\ jobs \in Seq(JobType) /\ cycle \in CycleType /\ Fits
      /\ faults \in [Kinds -> Nat]
  BY DEF IInv, TypeOK, JobType, CycleType
<1>1. /\ UNCHANGED <<ledgerVars, status, cost, inProgress, coro, releases, train, jobs>>
      /\ Fault("lostQuery") /\ "lostQuery" \in Kinds /\ cycle.at = "ask"
      /\ cycle' = [cycle EXCEPT !.ask = @ \ {tr}]
  BY DEF AskLost, Kinds
<1>2. cycle' \in CycleType /\ cycle'.task = cycle.task /\ cycle'.at = "ask"
  BY <1>0, <1>1 DEF CycleType
<1>3. FaultsGrow
  BY <1>0, <1>1, FaultsDoGrow
<1>4. TypeOK'
  BY <1>0, <1>1, <1>2, <1>3 DEF TypeOK, LedgerTypeOK, CycleType, FaultsGrow
<1>5. Fits'
  BY <1>0, <1>1, <1>2 DEF Fits, JobFits, CoroFits, TrainFits, CycleFits
<1>6. ASSUME NEW k \in DOMAIN jobs, AllFaults' <= 1, Minded(k)
      PROVE  Minded(k)'
  <2>1. faults["lostCall"] = 0 /\ faults["crash"] = 0
    BY <1>0, <1>1, <1>6, FaultCounts DEF Kinds
  <2> QED
    BY <1>1, <1>6, <2>1 DEF Minded
<1> QED
  BY <1>1, <1>3, <1>4, <1>5, <1>6, JobsStay DEF IInv

-----------------------------------------------------------------------------
(* The coroutine of one preparation.                                       *)

\* What the steps of a coroutine have in common that start no job.
LEMMA CoroMoves ==
  ASSUME IInv, NEW t \in Tasks, jobs' = jobs, FaultsGrow, UNCHANGED <<view, train>>,
         ledger' \in [Gpus -> Use], cost' \in [Tasks -> {"none", "open", "closed"}],
         status' \in [Tasks -> {"awaiting", "looking", "rejected"}], releases' \subseteq SUBSET Gpus,
         cycle' \in CycleType, CycleFits', inProgress' \subseteq Tasks,
         \A u \in Tasks \ {t} : u \in inProgress' <=> u \in inProgress,
         coro' \in [Tasks -> CoroType], \A u \in Tasks \ {t} : coro'[u] = coro[u], CoroFits(t)',
         \A i \in DOMAIN jobs :
            AllFaults' <= 1 /\ jobs[i].of \in Tasks /\ Alive(i) /\ Minded(i) => Minded(i)'
  PROVE  IInv'
<1>1. TypeOK'
  BY DEF IInv, TypeOK, LedgerTypeOK, CycleType, CoroType, FaultsGrow
<1>2. \A u \in Tasks : CoroFits(u)'
  BY DEF IInv, Fits, CoroFits
<1>3. Fits'
  BY <1>2 DEF IInv, Fits, JobFits, TrainFits
<1> QED
  BY <1>1, <1>3, JobsStay DEF IInv

\* The reservation: the task has no preparation under way.
LEMMA ReserveKeeps ==
  ASSUME IInv, Reserve
  PROVE  IInv'
<1> USE DEF ledgerVars
<1>0. /\ TypeOK /\ LedgerTypeOK /\ jobs \in Seq(JobType) /\ cycle \in CycleType
      /\ Fits /\ CycleFits /\ coro \in [Tasks -> CoroType]
  BY DEF IInv, TypeOK, JobType, CycleType, CoroType, Fits
<1>11. PICK t \in Tasks : t = cycle.task
  BY <1>0 DEF Reserve, CycleFits
<1>1. /\ UNCHANGED <<view, status, cost, releases, train, jobs, faults>>
      /\ cycle.at = "reserve" /\ ledger' = Taken(cycle.gpus) /\ inProgress' = inProgress \cup {t}
      /\ coro' = [coro EXCEPT ![t] = [at |-> "cost", gpus |-> cycle.gpus, job |-> 0]]
      /\ cycle' = Turn(cycle.left)
  BY <1>11 DEF Reserve
<1>2. t \in Tasks \ inProgress /\ cycle.gpus # {} /\ cycle.gpus \subseteq Gpus /\ cycle.left \subseteq Tasks
  BY <1>0, <1>1, <1>11 DEF CycleFits, CycleType
<1>3. /\ cycle' \in CycleType
      /\ \/ cycle'.at = "idle"
         \/ /\ cycle'.at = "ask" /\ cycle'.ask = Trainers
            /\ cycle'.task \in Tasks \ inProgress'
  BY <1>1, <1>2, TurnLooks
<1>4. /\ coro' \in [Tasks -> CoroType] /\ \A u \in Tasks \ {t} : coro'[u] = coro[u]
      /\ coro'[t].at = "cost" /\ coro'[t].gpus = cycle.gpus
  BY <1>0, <1>1, <1>2 DEF CoroType
<1>5. CoroFits(t)' /\ CycleFits'
  BY <1>1, <1>2, <1>3, <1>4 DEF CoroFits, CycleFits
<1>6. ledger' \in [Gpus -> Use]
  BY <1>0, <1>1, <1>2, LedgerTyped
<1>7. FaultsGrow
  BY <1>0, <1>1, FaultsDoGrow
<1>8. ASSUME NEW i \in DOMAIN jobs, AllFaults' <= 1, jobs[i].of \in Tasks, Alive(i), Minded(i)
      PROVE  Minded(i)'
  <2>1. CASE jobs[i].of = t
    <3>1. coro[t].at = "none"
      BY <1>0, <1>2 DEF Fits, CoroFits
    <3> QED
      BY <1>1, <1>8, <1>11, <2>1, <3>1 DEF Minded
  <2>2. CASE jobs[i].of # t
    BY <1>1, <1>3, <1>4, <1>8, <2>2 DEF Minded, On
  <2> QED
    BY <2>1, <2>2
<1>9. /\ cost' \in [Tasks -> {"none", "open", "closed"}]
      /\ status' \in [Tasks -> {"awaiting", "looking", "rejected"}]
      /\ releases' \subseteq SUBSET Gpus /\ inProgress' \subseteq Tasks
      /\ \A u \in Tasks \ {t} : u \in inProgress' <=> u \in inProgress
  BY <1>0, <1>1, <1>2 DEF TypeOK
<1> QED
  BY <1>1, <1>2, <1>3, <1>4, <1>5, <1>6, <1>7, <1>8, <1>9, CoroMoves

\* A task's coroutine keeps the invariant.
LEMMA CoroutineKeeps ==
  ASSUME IInv, NEW t \in Tasks,
         OpenCost(t) \/ HearPrep(t) \/ LosePost(t) \/ WriteResult(t) \/ CloseCoro(t)
  PROVE  IInv'
<1> USE DEF ledgerVars
<1>0. /\ TypeOK /\ LedgerTypeOK /\ jobs \in Seq(JobType) /\ cycle \in CycleType
      /\ Fits /\ CycleFits /\ CoroFits(t) /\ coro \in [Tasks -> CoroType] /\ coro[t] \in CoroType
      /\ ledger \in [Gpus -> Use] /\ cost \in [Tasks -> {"none", "open", "closed"}]
      /\ status \in [Tasks -> {"awaiting", "looking", "rejected"}]
      /\ releases \subseteq SUBSET Gpus /\ inProgress \subseteq Tasks /\ faults \in [Kinds -> Nat]
  BY DEF IInv, TypeOK, JobType, CycleType, CoroType, Fits, LedgerTypeOK
\* The coroutine stays, at another place.
<1>1. ASSUME NEW a \in {"post", "ok", "close"}, coro' = [coro EXCEPT ![t].at = a], coro[t].at # "none"
      PROVE  /\ coro' \in [Tasks -> CoroType] /\ \A u \in Tasks \ {t} : coro'[u] = coro[u]
             /\ coro'[t].at = a /\ coro'[t].gpus = coro[t].gpus
  <2>1. coro'[t] = [coro[t] EXCEPT !.at = a] /\ a \in {"none", "cost", "post", "wait", "ok", "close"}
    BY <1>0, <1>1
  <2>2. coro'[t] \in CoroType /\ coro'[t].at = a /\ coro'[t].gpus = coro[t].gpus
    BY <1>0, <2>1 DEF CoroType
  <2> QED
    BY <1>0, <1>1, <2>2
<1>2. ASSUME NEW a \in {"post", "ok", "close"}, coro' = [coro EXCEPT ![t].at = a], coro[t].at # "none",
             UNCHANGED <<ledgerVars, inProgress, cycle, releases, train, jobs>>, FaultsGrow,
             cost' \in [Tasks -> {"none", "open", "closed"}],
             status' \in [Tasks -> {"awaiting", "looking", "rejected"}],
             \A i \in DOMAIN jobs :
                AllFaults' <= 1 /\ jobs[i].of = t /\ Alive(i) /\ Minded(i) => Minded(i)'
      PROVE  IInv'
  <2>1. /\ coro' \in [Tasks -> CoroType] /\ \A u \in Tasks \ {t} : coro'[u] = coro[u]
        /\ coro'[t].at = a /\ coro'[t].gpus = coro[t].gpus
    BY <1>1, <1>2
  <2>2. CoroFits(t)' /\ CycleFits'
    BY <1>0, <1>2, <2>1 DEF CoroFits, CycleFits
  <2>3. ASSUME NEW i \in DOMAIN jobs, AllFaults' <= 1, jobs[i].of \in Tasks, Alive(i), Minded(i)
        PROVE  Minded(i)'
    <3>1. CASE jobs[i].of = t
      BY <1>2, <2>3, <3>1
    <3>2. CASE jobs[i].of # t
      <4>1. \A k \in Kinds : faults'[k] >= faults[k] /\ faults'[k] \in Nat /\ faults[k] \in Nat
        BY <1>0, <1>2, <2>3 DEF FaultsGrow
      <4>2. faults["lostCall"] + faults["crash"] > 0 => faults'["lostCall"] + faults'["crash"] > 0
        BY <4>1 DEF Kinds
      <4> QED
        BY <1>2, <2>1, <2>3, <3>2, <4>2 DEF Minded, On
    <3> QED
      BY <3>1, <3>2
  <2> QED
    BY <1>0, <1>2, <2>1, <2>2, <2>3, CoroMoves
<1>3. CASE OpenCost(t)
  <2>1. FaultsGrow
    BY <1>0, <1>3, FaultsDoGrow DEF OpenCost
  <2> QED
    BY <1>0, <1>2, <1>3, <2>1 DEF OpenCost, Minded
<1>4. CASE HearPrep(t)
  <2>1. FaultsGrow
    BY <1>0, <1>4, FaultsDoGrow DEF HearPrep
  <2>2. coro[t].job \in DOMAIN jobs /\ ~Alive(coro[t].job)
    BY <1>0, <1>4 DEF HearPrep, CoroFits, Fits, JobFits, Alive
  <2>3. \A i \in DOMAIN jobs : jobs[i].of = t /\ Alive(i) => ~Minded(i)
    BY <1>4, <2>2 DEF HearPrep, Minded
  <2>4. \E a \in {"ok", "close"} : coro' = [coro EXCEPT ![t].at = a]
    BY <1>4 DEF HearPrep
  <2> QED
    BY <1>0, <1>2, <1>4, <2>1, <2>3, <2>4 DEF HearPrep
<1>5. CASE LosePost(t)
  <2>1. FaultsGrow /\ Fault("lostCall") /\ "lostCall" \in Kinds
    BY <1>0, <1>5, FaultsDoGrow DEF LosePost, Kinds
  <2>2. ASSUME NEW i \in DOMAIN jobs, AllFaults' <= 1, jobs[i].of = t, Alive(i), Minded(i)
        PROVE  Minded(i)'
    <3>1. faults["lostCall"] = 0 /\ faults["crash"] = 0 /\ faults'["lostCall"] = 1 /\ faults'["crash"] = 0
      BY <1>0, <2>1, <2>2, FaultCounts DEF Kinds
    <3>2. coro'[t].at = "close"
      BY <1>0, <1>1, <1>5 DEF LosePost
    <3>3. coro[t].at = "wait"
      BY <2>2, <3>1 DEF Minded
    <3>4. cycle'.task = t => cycle'.at = "idle"
      BY <1>0, <1>5, <3>3 DEF LosePost, CycleFits, CoroFits
    <3> QED
      BY <1>5, <2>2, <3>1, <3>2, <3>4 DEF Minded, LosePost
  <2> QED
    BY <1>0, <1>2, <1>5, <2>1, <2>2 DEF LosePost
<1>6. CASE WriteResult(t)
  <2>1. FaultsGrow
    BY <1>0, <1>6, FaultsDoGrow DEF WriteResult
  <2>2. status' \in [Tasks -> {"awaiting", "looking", "rejected"}]
    BY <1>0, <1>6 DEF WriteResult, Verdicts
  <2> QED
    BY <1>0, <1>2, <1>6, <2>1, <2>2 DEF WriteResult, Minded
<1>7. CASE CloseCoro(t)
  <2>1. FaultsGrow
    BY <1>0, <1>7, FaultsDoGrow DEF CloseCoro
  <2>2. /\ coro' \in [Tasks -> CoroType] /\ \A u \in Tasks \ {t} : coro'[u] = coro[u]
        /\ coro'[t] = NoCoro /\ coro'[t].at = "none"
    BY <1>0, <1>7 DEF CloseCoro, NoCoro, CoroType
  <2>3. /\ inProgress' = inProgress \ {t} /\ releases' = releases \cup {coro[t].gpus}
        /\ UNCHANGED <<ledgerVars, status, cycle, train, jobs, faults>> /\ coro[t].at = "close"
        /\ cost' \in [Tasks -> {"none", "open", "closed"}]
    BY <1>0, <1>7 DEF CloseCoro
  <2>4. CoroFits(t)' /\ CycleFits' /\ releases' \subseteq SUBSET Gpus
    BY <1>0, <2>2, <2>3 DEF CoroFits, CycleFits, CoroType
  <2>5. \A i \in DOMAIN jobs : Minded(i) => Minded(i)'
    <3> SUFFICES ASSUME NEW i \in DOMAIN jobs, Minded(i)
                 PROVE  Minded(i)'
      OBVIOUS
    <3>2. CASE jobs[i].of = t
      BY <2>2, <2>3, <3>2 DEF Minded, On
    <3>3. CASE jobs[i].of # t
      BY <1>7, <2>3, <3>3 DEF CloseCoro, Minded, On
    <3> QED
      BY <3>2, <3>3
  <2> QED
    BY <1>0, <2>1, <2>2, <2>3, <2>4, <2>5, CoroMoves
<1> QED
  BY <1>3, <1>4, <1>5, <1>6, <1>7

-----------------------------------------------------------------------------
(* The ledger, the training side up to its POST, and the restart.          *)

\* The refresh and time keep the ledger's type.
LEMMA LedgerStepsKeep ==
  ASSUME LedgerTypeOK,
         \/ \E r \in Refreshers : BeginRefresh(r) \/ \E tr \in Trainers : Unreachable(r, tr)
         \/ \E r \in Refreshers, tr \in Trainers : RefreshTrainer(r, tr, Occupied)
         \/ \E g \in Gpus : Age(g)
  PROVE  LedgerTypeOK'
<1> DEFINE ViewType == [seen : [Gpus -> Use], left : SUBSET Trainers]
<1>0. ledger \in [Gpus -> Use] /\ view \in [Refreshers -> ViewType]
  BY DEF LedgerTypeOK
<1>1. ASSUME NEW r \in Refreshers, BeginRefresh(r)
      PROVE  LedgerTypeOK'
  BY <1>0, <1>1 DEF BeginRefresh, LedgerTypeOK
<1>2. ASSUME NEW r \in Refreshers, NEW tr \in Trainers
      PROVE  WithOut(view[r], {tr}) \in ViewType
  <2>1. view[r] \in ViewType
    BY <1>0
  <2>2. NoView \in ViewType
    BY DEF NoView, Use
  <2> QED
    BY <2>1, <2>2 DEF WithOut
<1>3. ASSUME NEW r \in Refreshers, NEW tr \in Trainers, Unreachable(r, tr)
      PROVE  LedgerTypeOK'
  <2>1. ledger' \in [Gpus -> Use]
    BY <1>0, <1>3, LedgerTyped DEF Unreachable, GpusOf
  <2>2. view' \in [Refreshers -> ViewType]
    BY <1>0, <1>2, <1>3 DEF Unreachable
  <2> QED
    BY <2>1, <2>2 DEF LedgerTypeOK
<1>4. ASSUME NEW r \in Refreshers, NEW tr \in Trainers, RefreshTrainer(r, tr, Occupied)
      PROVE  LedgerTypeOK'
  <2>1. ledger' \in [Gpus -> Use]
    BY <1>0, <1>4 DEF RefreshTrainer, Use
  <2>2. view' \in [Refreshers -> ViewType]
    BY <1>0, <1>2, <1>4 DEF RefreshTrainer
  <2> QED
    BY <2>1, <2>2 DEF LedgerTypeOK
<1>5. ASSUME NEW g \in Gpus, Age(g)
      PROVE  LedgerTypeOK'
  <2>1. ledger' \in [Gpus -> Use]
    BY <1>0, <1>5 DEF Age, Use
  <2>2. CASE view' = [r \in Refreshers |-> [view[r] EXCEPT !.seen[g] = IF @ = "fresh" THEN "held" ELSE @]]
    <3>1. ASSUME NEW r \in Refreshers
          PROVE  view'[r] \in ViewType
      <4>1. view[r] \in ViewType /\ view[r].seen \in [Gpus -> Use]
        BY <1>0
      <4>2. [view[r].seen EXCEPT ![g] = IF @ = "fresh" THEN "held" ELSE @] \in [Gpus -> Use]
        BY <4>1 DEF Use
      <4>3. view'[r] = [view[r] EXCEPT !.seen = [view[r].seen EXCEPT ![g] = IF @ = "fresh" THEN "held" ELSE @]]
        BY <2>2
      <4> QED
        BY <4>1, <4>2, <4>3
    <3>2. view' \in [Refreshers -> ViewType]
      BY <2>2, <3>1
    <3> QED
      BY <2>1, <3>2 DEF LedgerTypeOK
  <2>3. CASE view' = view
    BY <1>0, <2>1, <2>3 DEF LedgerTypeOK
  <2> QED
    BY <1>5, <2>2, <2>3 DEF Age
<1> QED
  BY <1>1, <1>3, <1>4, <1>5

\* The steps that touch the ledger and the training side alone.
LEMMA LedgerKeeps ==
  ASSUME IInv,
         \/ \E r \in Refreshers : Refresh(r) \/ RefreshFails(r)
         \/ \E g \in Gpus : Tick(g)
         \/ Releasing
         \/ \E p \in Pairs : TrainCheck(p) \/ TrainReserve(p)
  PROVE  IInv'
<1> USE DEF ledgerVars, prepVars
<1> DEFINE TrainType == [at : {"pending", "post", "reserve", "done"}, gpus : SUBSET Gpus]
<1>0. /\ TypeOK /\ LedgerTypeOK /\ Fits /\ train \in [Pairs -> TrainType] /\ releases \subseteq SUBSET Gpus
      /\ ledger \in [Gpus -> Use]
  BY DEF IInv, TypeOK, Fits, LedgerTypeOK
<1>1. ASSUME UNCHANGED <<status, cost, inProgress, cycle, coro, jobs>>, FaultsGrow, LedgerTypeOK',
             releases' \subseteq SUBSET Gpus, train' \in [Pairs -> TrainType],
             \A p \in Pairs : TrainFits(p)'
      PROVE  IInv'
  <2>1. TypeOK'
    BY <1>0, <1>1 DEF TypeOK, FaultsGrow
  <2>2. Fits'
    BY <1>0, <1>1 DEF Fits, JobFits, CoroFits, CycleFits
  <2>3. ASSUME NEW i \in DOMAIN jobs, AllFaults' <= 1, Minded(i)
        PROVE  Minded(i)'
    <3>1. \A k \in Kinds : faults'[k] >= faults[k] /\ faults'[k] \in Nat /\ faults[k] \in Nat
      BY <1>0, <1>1, <2>3 DEF FaultsGrow, TypeOK
    <3>2. faults["lostCall"] + faults["crash"] > 0 => faults'["lostCall"] + faults'["crash"] > 0
      BY <3>1 DEF Kinds
    <3> QED
      BY <1>1, <2>3, <3>2 DEF Minded, On
  <2> QED
    BY <1>1, <2>1, <2>2, <2>3, JobsStay DEF IInv
<1>2. ASSUME NEW r \in Refreshers, Refresh(r)
      PROVE  IInv'
  BY <1>0, <1>1, <1>2, LedgerStepsKeep, FaultsDoGrow DEF Refresh, Fits, TrainFits
<1>3. ASSUME NEW r \in Refreshers, RefreshFails(r)
      PROVE  IInv'
  <2>1. FaultsGrow
    BY <1>0, <1>3, FaultsDoGrow DEF RefreshFails, Kinds
  <2>2. LedgerTypeOK'
    BY <1>0, <1>3, LedgerStepsKeep DEF RefreshFails
  <2> QED
    BY <1>0, <1>1, <1>3, <2>1, <2>2 DEF RefreshFails, Fits, TrainFits
<1>4. ASSUME NEW g \in Gpus, Tick(g)
      PROVE  IInv'
  BY <1>0, <1>1, <1>4, LedgerStepsKeep, FaultsDoGrow DEF Tick, Fits, TrainFits
<1>5. ASSUME NEW S \in releases, Release(S)
      PROVE  IInv'
  <2>1. LedgerTypeOK'
    <3>1. S \in SUBSET Gpus
      BY <1>0, <1>5
    <3> QED
      BY <1>0, <1>5, <3>1, LedgerTyped DEF Release, LedgerTypeOK
  <2> QED
    BY <1>0, <1>1, <1>5, <2>1, FaultsDoGrow DEF Release, Fits, TrainFits
<1>6. ASSUME NEW p \in Pairs, TrainCheck(p)
      PROVE  IInv'
  <2>1. PICK S \in Suitable(Need[p]) : train' = [train EXCEPT ![p] = [at |-> "post", gpus |-> S]]
    BY <1>6 DEF TrainCheck
  <2>2. S \subseteq Gpus /\ S # {}
    BY <1>0, LedgerTyped
  <2>3. train' \in [Pairs -> TrainType] /\ \A q \in Pairs : TrainFits(q)'
    BY <1>0, <2>1, <2>2 DEF Fits, TrainFits
  <2> QED
    BY <1>0, <1>1, <1>6, <2>3, FaultsDoGrow DEF TrainCheck, LedgerTypeOK
<1>7. ASSUME NEW p \in Pairs, TrainReserve(p)
      PROVE  IInv'
  <2>1. train[p] \in TrainType /\ train' = [train EXCEPT ![p].at = "done"] /\ ledger' = Taken(train[p].gpus)
    BY <1>0, <1>7 DEF TrainReserve
  <2>2. train' \in [Pairs -> TrainType] /\ \A q \in Pairs : TrainFits(q)'
    BY <1>0, <2>1 DEF Fits, TrainFits
  <2>3. LedgerTypeOK'
    <3>1. train[p].gpus \in SUBSET Gpus
      BY <2>1
    <3> QED
      BY <1>0, <1>7, <2>1, <3>1, LedgerTyped DEF TrainReserve, LedgerTypeOK
  <2> QED
    BY <1>0, <1>1, <1>7, <2>2, <2>3, FaultsDoGrow DEF TrainReserve
<1> QED
  BY <1>2, <1>3, <1>4, <1>5, <1>6, <1>7 DEF Releasing

\* The restart forgets every coroutine: whatever runs is left to the recovery.
LEMMA CrashKeeps ==
  ASSUME IInv, CrashValidator
  PROVE  IInv'
<1> DEFINE TrainType == [at : {"pending", "post", "reserve", "done"}, gpus : SUBSET Gpus]
<1>0. /\ TypeOK /\ LedgerTypeOK /\ Fits /\ train \in [Pairs -> TrainType] /\ faults \in [Kinds -> Nat]
      /\ jobs \in Seq(JobType)
  BY DEF IInv, TypeOK, Fits, JobType
<1>1. /\ UNCHANGED <<ledger, status, cost, jobs>> /\ Fault("crash") /\ "crash" \in Kinds
      /\ cycle' = Idle /\ inProgress' = {} /\ releases' = {}
      /\ view' = [r \in Refreshers |-> NoView]
      /\ \A t \in Tasks : coro'[t] = NoCoro
  BY DEF CrashValidator, Kinds
<1>2. FaultsGrow
  BY <1>0, <1>1, FaultsDoGrow
<1>3. /\ train' \in [Pairs -> TrainType] /\ \A p \in Pairs : TrainFits(p)'
  <2>1. ASSUME NEW p \in Pairs
        PROVE  train'[p] \in TrainType /\ TrainFits(p)'
    <3>1. train[p] \in TrainType
      BY <1>0
    <3>2. CASE train[p].at = "post"
      BY <3>2 DEF CrashValidator, Waiting, TrainFits
    <3>3. CASE train[p].at = "reserve"
      <4>1. train'[p] = [train[p] EXCEPT !.at = "done"]
        BY <3>3 DEF CrashValidator
      <4> QED
        BY <3>1, <4>1 DEF TrainFits
    <3>4. CASE train[p].at \notin {"post", "reserve"}
      BY <3>1, <3>4 DEF CrashValidator, TrainFits
    <3> QED
      BY <3>2, <3>3, <3>4
  <2>2. train' = [p \in Pairs |-> train'[p]]
    BY DEF CrashValidator
  <2> QED
    BY <2>1, <2>2
<1>4. coro' \in [Tasks -> CoroType]
  BY DEF CrashValidator, NoCoro, CoroType
<1>5. LedgerTypeOK'
  BY <1>0, <1>1 DEF LedgerTypeOK, NoView, Use
<1>6. TypeOK'
  <2>1. cycle' \in CycleType
    BY <1>1 DEF Idle, CycleType
  <2> QED
    BY <1>0, <1>1, <1>2, <1>3, <1>4, <1>5, <2>1 DEF TypeOK, FaultsGrow, CoroType, CycleType
<1>7. Fits'
  <2>1. \A t \in Tasks : CoroFits(t)'
    BY <1>1 DEF CoroFits, NoCoro
  <2>2. CycleFits'
    BY <1>1 DEF CycleFits, Idle
  <2>3. \A i \in DOMAIN jobs' : JobFits(i)'
    BY <1>0, <1>1 DEF Fits, JobFits
  <2> QED
    BY <1>3, <2>1, <2>2, <2>3 DEF Fits
<1>8. ASSUME NEW i \in DOMAIN jobs, AllFaults' <= 1, jobs[i].of \in Tasks
      PROVE  Minded(i)'
  <2>1. faults'["crash"] = faults["crash"] + 1 /\ faults'["lostCall"] \in Nat /\ faults["crash"] \in Nat
    BY <1>0, <1>1, FaultCounts DEF Kinds
  <2> QED
    BY <1>1, <1>8, <2>1 DEF Minded, NoCoro, Idle
<1> QED
  BY <1>1, <1>2, <1>6, <1>7, <1>8, JobsStay DEF IInv

-----------------------------------------------------------------------------
(* The trainers.                                                           *)

\* A job accepted by its trainer shares no GPU with a job that holds its own;
\* the entries that it marks are those of jobs that are over.
LEMMA NewJobKeepsApart ==
  ASSUME IInv, NEW x \in Tasks \cup Pairs, NEW S \in SUBSET Gpus, Accepts(S), jobs' = Started(x, S),
         UNCHANGED faults, AllFaults <= 1,
         \A i \in DOMAIN jobs : jobs[i].of = x /\ x \in Tasks => ~Alive(i)
  PROVE  HoldersApart'
<1> SUFFICES ASSUME faults["late"] = 0
             PROVE  /\ \A i \in DOMAIN jobs' : Alive(i)' => Holding(i)'
                    /\ \A i, j \in DOMAIN jobs' :
                         i # j /\ Holding(i)' /\ Holding(j)' => jobs'[i].gpus \cap jobs'[j].gpus = {}
  BY DEF HoldersApart
<1> DEFINE n == Len(jobs) + 1
<1>0. jobs \in Seq(JobType) /\ HoldersApart
  BY DEF IInv, OneFailure, TypeOK, JobType
<1>1. /\ DOMAIN jobs' = DOMAIN jobs \cup {n} /\ n \notin DOMAIN jobs
      /\ jobs'[n] = [of |-> x, gpus |-> S, entry |-> "TRAINING", box |-> "none", said |-> "nothing"]
      /\ \A j \in DOMAIN jobs :
           /\ jobs'[j].of = jobs[j].of /\ jobs'[j].gpus = jobs[j].gpus
           /\ jobs'[j].box = jobs[j].box /\ jobs'[j].said = jobs[j].said
           /\ \/ jobs'[j].entry = jobs[j].entry
              \/ jobs[j].of = x /\ x \in Tasks /\ jobs[j].entry = "TRAINING" /\ jobs'[j].entry = "FAILURE"
  BY <1>0, StartedAdds
<1> HIDE DEF n
<1>2. \A j \in DOMAIN jobs : Holding(j)' => Holding(j)
  BY <1>1 DEF Holding
<1>3. \A j \in DOMAIN jobs : Holding(j) => jobs[j].gpus \cap S = {}
  BY DEF Accepts, Occupied, Boxed, Holding
<1>4. \A i \in DOMAIN jobs' : Alive(i)' => Holding(i)'
  BY <1>0, <1>1 DEF HoldersApart, Alive, Holding
<1>5. ASSUME NEW i \in DOMAIN jobs', NEW j \in DOMAIN jobs', i # j, Holding(i)', Holding(j)'
      PROVE  jobs'[i].gpus \cap jobs'[j].gpus = {}
  <2>1. CASE i \in DOMAIN jobs /\ j \in DOMAIN jobs
    BY <1>0, <1>1, <1>2, <1>5, <2>1 DEF HoldersApart
  <2>2. CASE i = n
    BY <1>1, <1>2, <1>3, <1>5, <2>2
  <2>3. CASE j = n
    BY <1>1, <1>2, <1>3, <1>5, <2>3
  <2> QED
    BY <1>1, <2>1, <2>2, <2>3
<1> QED
  BY <1>4, <1>5

\* A new job fits.
LEMMA NewJobFits ==
  ASSUME IInv, NEW x \in Tasks \cup Pairs, NEW S \in SUBSET Gpus, S # {}, jobs' = Started(x, S)
  PROVE  jobs' \in Seq(JobType) /\ \A i \in DOMAIN jobs' : JobFits(i)'
<1>0. jobs \in Seq(JobType) /\ \A i \in DOMAIN jobs : JobFits(i)
  BY DEF IInv, TypeOK, JobType, Fits
<1>2. PICK n \in Nat : n = Len(jobs) + 1
  BY <1>0
<1>1. /\ jobs' \in Seq(JobType)
      /\ DOMAIN jobs' = DOMAIN jobs \cup {n}
      /\ jobs'[n] = [of |-> x, gpus |-> S, entry |-> "TRAINING", box |-> "none", said |-> "nothing"]
      /\ \A j \in DOMAIN jobs : /\ jobs'[j].gpus = jobs[j].gpus /\ jobs'[j].box = jobs[j].box
                                /\ jobs'[j].said = jobs[j].said
  BY <1>0, <1>2, StartedAdds
<1>3. JobFits(n)'
  BY <1>1 DEF JobFits
<1>4. \A i \in DOMAIN jobs : JobFits(i)'
  BY <1>0, <1>1 DEF JobFits
<1> QED
  BY <1>1, <1>3, <1>4

\* The trainer accepts a preparation or refuses it.
LEMMA PostPrepKeeps ==
  ASSUME IInv, NEW t \in Tasks, PostPrep(t)
  PROVE  IInv'
<1> USE DEF ledgerVars
<1>0. /\ TypeOK /\ LedgerTypeOK /\ jobs \in Seq(JobType) /\ Fits /\ CycleFits /\ CoroFits(t)
      /\ coro \in [Tasks -> CoroType] /\ coro[t] \in CoroType /\ faults \in [Kinds -> Nat]
  BY DEF IInv, TypeOK, JobType, CoroType, Fits
<1>1. /\ UNCHANGED <<ledgerVars, status, cost, inProgress, cycle, releases, train, faults>>
      /\ coro[t].at = "post" /\ coro[t].gpus # {} /\ coro[t].gpus \in SUBSET Gpus /\ t \in inProgress
  BY <1>0 DEF PostPrep, CoroFits, CoroType
<1>2. FaultsGrow
  BY <1>0, <1>1, FaultsDoGrow
<1>3. CASE coro' = [coro EXCEPT ![t].at = "close"] /\ UNCHANGED jobs
  <2>1. coro'[t] = [coro[t] EXCEPT !.at = "close"]
    BY <1>0, <1>3
  <2>2. coro'[t] \in CoroType /\ coro'[t].at = "close" /\ coro'[t].gpus = coro[t].gpus
    BY <1>0, <2>1 DEF CoroType
  <2>3. coro' \in [Tasks -> CoroType] /\ \A u \in Tasks \ {t} : coro'[u] = coro[u]
    BY <1>0, <1>3, <2>2
  <2>4. CoroFits(t)' /\ CycleFits'
    BY <1>0, <1>1, <2>2 DEF CoroFits, CycleFits
  <2>5. \A i \in DOMAIN jobs : Minded(i) => Minded(i)'
    <3> SUFFICES ASSUME NEW i \in DOMAIN jobs, Minded(i)
                 PROVE  Minded(i)'
      OBVIOUS
    <3>1. CASE jobs[i].of = t
      BY <1>1, <3>1 DEF Minded
    <3>2. CASE jobs[i].of # t
      BY <1>1, <1>3, <3>2 DEF Minded, On
    <3> QED
      BY <3>1, <3>2
  <2> QED
    BY <1>0, <1>1, <1>2, <1>3, <2>3, <2>4, <2>5, CoroMoves DEF TypeOK, LedgerTypeOK, CycleType
<1>4. ASSUME Accepts(coro[t].gpus), jobs' = Started(t, coro[t].gpus),
             coro' = [coro EXCEPT ![t].at = "wait", ![t].job = Len(jobs) + 1]
      PROVE  IInv'
  <2> DEFINE n == Len(jobs) + 1
             S == coro[t].gpus
  <2>1. coro'[t] = [[coro[t] EXCEPT !.at = "wait"] EXCEPT !.job = n] /\ n \in Nat
    BY <1>0, <1>4
  <2>2. /\ coro'[t] \in CoroType /\ coro'[t].at = "wait" /\ coro'[t].gpus = S
        /\ coro'[t].job = n
    BY <1>0, <2>1 DEF CoroType
  <2>3. coro' \in [Tasks -> CoroType] /\ \A u \in Tasks \ {t} : coro'[u] = coro[u]
    BY <1>0, <1>4, <2>2
  <2>4. /\ jobs' \in Seq(JobType)
        /\ DOMAIN jobs' = DOMAIN jobs \cup {n} /\ n \notin DOMAIN jobs
        /\ jobs'[n] = [of |-> t, gpus |-> S, entry |-> "TRAINING", box |-> "none", said |-> "nothing"]
        /\ \A j \in DOMAIN jobs :
             /\ jobs'[j].of = jobs[j].of /\ jobs'[j].gpus = jobs[j].gpus
             /\ jobs'[j].box = jobs[j].box /\ jobs'[j].said = jobs[j].said
             /\ \/ jobs'[j].entry = jobs[j].entry
                \/ jobs[j].of = t /\ t \in Tasks /\ jobs[j].entry = "TRAINING" /\ jobs'[j].entry = "FAILURE"
    BY <1>0, <1>1, <1>4, StartedAdds
  <2>5. \A i \in DOMAIN jobs' : JobFits(i)'
    BY <1>1, <1>4, NewJobFits
  <2> HIDE DEF n
  <2>6. TypeOK'
    BY <1>0, <1>1, <2>3, <2>4 DEF TypeOK, LedgerTypeOK, JobType, CoroType
  <2>7. \A u \in Tasks : CoroFits(u)'
    <3>1. CoroFits(t)'
      BY <1>1, <2>2, <2>4 DEF CoroFits
    <3>2. \A u \in Tasks \ {t} : CoroFits(u)'
      BY <1>0, <1>1, <2>3, <2>4 DEF Fits, CoroFits
    <3> QED
      BY <3>1, <3>2
  <2>8. Fits'
    BY <1>0, <1>1, <2>5, <2>7 DEF Fits, CycleFits, TrainFits
  <2>9. ASSUME AllFaults' <= 1
        PROVE  PrepsMinded' /\ PrepsApart' /\ HoldersApart'
    <3>1. AllFaults <= 1 /\ PrepsMinded /\ PrepsApart /\ HoldersApart
      BY <1>1, <2>9 DEF AllFaults, IInv, OneFailure
    <3>2. \A i \in DOMAIN jobs : jobs[i].of = t => ~Alive(i)
      BY <1>1, <3>1 DEF PrepsMinded, Minded
    <3>3. HoldersApart'
      BY <1>1, <1>4, <3>1, <3>2, NewJobKeepsApart
    <3>4. PrepsApart'
      BY <2>4, <3>1, <3>2 DEF PrepsApart, Alive
    <3>5. ASSUME NEW i \in DOMAIN jobs', jobs'[i].of \in Tasks, Alive(i)'
          PROVE  Minded(i)' /\ (jobs'[i].entry = "TRAINING" \/ faults'["late"] > 0)
      <4>1. CASE i = n
        BY <2>2, <2>4, <4>1 DEF Minded
      <4>2. CASE i # n
        <5>1. i \in DOMAIN jobs /\ jobs[i].of = jobs'[i].of /\ Alive(i) /\ jobs[i].of # t
          BY <2>4, <3>2, <3>5, <4>2 DEF Alive
        <5>2. Minded(i) /\ (jobs[i].entry = "TRAINING" \/ faults["late"] > 0)
          BY <3>1, <3>5, <5>1 DEF PrepsMinded
        <5>3. \A tr \in Trainers : On(i, tr)' <=> On(i, tr)
          BY <2>4, <5>1 DEF On
        <5> QED
          BY <1>1, <2>3, <2>4, <3>5, <5>1, <5>2, <5>3 DEF Minded
      <4> QED
        BY <4>1, <4>2
    <3>6. PrepsMinded'
      BY <3>5 DEF PrepsMinded
    <3> QED
      BY <3>3, <3>4, <3>6
  <2> QED
    BY <2>6, <2>8, <2>9 DEF IInv, OneFailure
<1> QED
  BY <1>3, <1>4 DEF PostPrep

\* The same for a training pair.
LEMMA TrainPostKeeps ==
  ASSUME IInv, NEW p \in Pairs, TrainPost(p)
  PROVE  IInv'
<1> DEFINE TrainType == [at : {"pending", "post", "reserve", "done"}, gpus : SUBSET Gpus]
           S == train[p].gpus
<1> USE DEF ledgerVars
<1>0. /\ TypeOK /\ LedgerTypeOK /\ jobs \in Seq(JobType) /\ Fits
      /\ train \in [Pairs -> TrainType] /\ faults \in [Kinds -> Nat]
  BY DEF IInv, TypeOK, JobType, Fits
<1>1. /\ UNCHANGED <<ledgerVars, status, cost, inProgress, cycle, coro, releases, faults>>
      /\ S # {} /\ S \in SUBSET Gpus
      /\ p \notin Tasks
  <2>1. train[p] \in TrainType /\ train[p].at = "post"
    BY <1>0 DEF TrainPost
  <2> QED
    BY <1>0, <2>1, TasksAssumption DEF TrainPost, Fits, TrainFits
<1>2. FaultsGrow
  BY <1>0, <1>1, FaultsDoGrow
<1>3. train' \in [Pairs -> TrainType] /\ \A q \in Pairs : TrainFits(q)'
  <2>1. CASE train' = [train EXCEPT ![p] = Waiting]
    BY <1>0, <2>1 DEF Fits, TrainFits, Waiting
  <2>2. CASE train' = [train EXCEPT ![p].at = "reserve"]
    BY <1>0, <2>2 DEF Fits, TrainFits
  <2> QED
    BY <2>1, <2>2 DEF TrainPost
<1>4. CASE UNCHANGED jobs
  <2>1. TypeOK' /\ Fits'
    BY <1>0, <1>1, <1>3, <1>4 DEF TypeOK, LedgerTypeOK, Fits, JobFits, CoroFits, CycleFits
  <2>2. \A i \in DOMAIN jobs : Minded(i) => Minded(i)'
    BY <1>1, <1>4 DEF Minded, On
  <2> QED
    BY <1>2, <1>4, <2>1, <2>2, JobsStay DEF IInv
<1>5. ASSUME Accepts(S), jobs' = Started(p, S)
      PROVE  IInv'
  <2> DEFINE n == Len(jobs) + 1
  <2>4. /\ jobs' \in Seq(JobType)
        /\ DOMAIN jobs' = DOMAIN jobs \cup {n} /\ n \notin DOMAIN jobs
        /\ jobs'[n] = [of |-> p, gpus |-> S, entry |-> "TRAINING", box |-> "none", said |-> "nothing"]
        /\ \A j \in DOMAIN jobs :
             /\ jobs'[j].of = jobs[j].of /\ jobs'[j].gpus = jobs[j].gpus
             /\ jobs'[j].box = jobs[j].box /\ jobs'[j].said = jobs[j].said
             /\ jobs'[j].entry = jobs[j].entry
    BY <1>0, <1>1, <1>5, StartedAdds
  <2>5. \A i \in DOMAIN jobs' : JobFits(i)'
    BY <1>1, <1>5, NewJobFits
  <2> HIDE DEF n
  <2>6. TypeOK'
    BY <1>0, <1>1, <1>3, <2>4 DEF TypeOK, LedgerTypeOK, JobType
  <2>7. \A u \in Tasks : CoroFits(u)'
    BY <1>0, <1>1, <2>4 DEF Fits, CoroFits
  <2>8. Fits'
    BY <1>0, <1>1, <1>3, <2>5, <2>7 DEF Fits, CycleFits
  <2>9. ASSUME AllFaults' <= 1
        PROVE  PrepsMinded' /\ PrepsApart' /\ HoldersApart'
    <3>1. AllFaults <= 1 /\ PrepsMinded /\ PrepsApart /\ HoldersApart
      BY <1>1, <2>9 DEF AllFaults, IInv, OneFailure
    <3>3. HoldersApart'
      BY <1>1, <1>5, <3>1, NewJobKeepsApart
    <3>4. PrepsApart'
      BY <1>1, <2>4, <3>1 DEF PrepsApart, Alive
    <3>5. ASSUME NEW i \in DOMAIN jobs', jobs'[i].of \in Tasks, Alive(i)'
          PROVE  Minded(i)' /\ (jobs'[i].entry = "TRAINING" \/ faults'["late"] > 0)
      <4>1. i \in DOMAIN jobs /\ jobs[i].of = jobs'[i].of /\ Alive(i)
        BY <1>1, <2>4, <3>5 DEF Alive
      <4>2. Minded(i) /\ (jobs[i].entry = "TRAINING" \/ faults["late"] > 0)
        BY <3>1, <3>5, <4>1 DEF PrepsMinded
      <4>3. \A tr \in Trainers : On(i, tr)' <=> On(i, tr)
        BY <2>4, <4>1 DEF On
      <4> QED
        BY <1>1, <2>4, <4>1, <4>2, <4>3 DEF Minded
    <3>6. PrepsMinded'
      BY <3>5 DEF PrepsMinded
    <3> QED
      BY <3>3, <3>4, <3>6
  <2> QED
    BY <2>6, <2>8, <2>9 DEF IInv, OneFailure
<1> QED
  BY <1>4, <1>5 DEF TrainPost

\* What the steps of the jobs have in common that have started.
LEMMA JobsEnd ==
  ASSUME IInv, SameJobs, FaultsGrow,
         UNCHANGED <<ledgerVars, status, cost, inProgress, cycle, coro, releases, train>>,
         \A j \in DOMAIN jobs : /\ jobs'[j].said # "nothing" => jobs'[j].box = "gone"
                                /\ jobs[j].box = "up" /\ Alive(j)' => jobs'[j].box = "up"
                                /\ Alive(j)' => Alive(j),
         \A j \in DOMAIN jobs : AllFaults' <= 1 /\ faults'["late"] = 0 =>
            /\ Alive(j)' => jobs'[j].entry = jobs[j].entry
            /\ Holding(j)' => Holding(j)
  PROVE  IInv'
<1> USE DEF ledgerVars
<1>0. TypeOK /\ LedgerTypeOK /\ Fits /\ faults \in [Kinds -> Nat]
  BY DEF IInv, TypeOK
<1>1. TypeOK'
  BY <1>0 DEF TypeOK, LedgerTypeOK, SameJobs, JobType, FaultsGrow
<1>2. Fits'
  BY <1>0 DEF Fits, JobFits, CoroFits, TrainFits, CycleFits, SameJobs
<1>3. ASSUME AllFaults' <= 1
      PROVE  PrepsMinded' /\ PrepsApart' /\ HoldersApart'
  <2>1. /\ PrepsMinded /\ PrepsApart /\ HoldersApart
        /\ \A k \in Kinds : faults'[k] >= faults[k] /\ faults'[k] \in Nat /\ faults[k] \in Nat
    BY <1>0, <1>3 DEF IInv, OneFailure, FaultsGrow
  <2>2. /\ faults'["late"] \in Nat
        /\ faults'["late"] = 0 => faults["late"] = 0
        /\ faults["lostCall"] + faults["crash"] > 0 => faults'["lostCall"] + faults'["crash"] > 0
    BY <2>1 DEF Kinds
  <2>3. ASSUME NEW i \in DOMAIN jobs', jobs'[i].of \in Tasks, Alive(i)'
        PROVE  Minded(i)' /\ (jobs'[i].entry = "TRAINING" \/ faults'["late"] > 0)
    <3>1. /\ i \in DOMAIN jobs /\ jobs[i].of = jobs'[i].of /\ Alive(i)
          /\ \A tr \in Trainers : On(i, tr)' <=> On(i, tr)
      BY <2>3 DEF SameJobs, On
    <3>2. Minded(i) /\ (jobs[i].entry = "TRAINING" \/ faults["late"] > 0)
      BY <2>1, <2>3, <3>1 DEF PrepsMinded
    <3>3. Minded(i)'
      BY <2>2, <3>1, <3>2 DEF Minded
    <3>4. jobs'[i].entry = "TRAINING" \/ faults'["late"] > 0
      <4>1. CASE faults'["late"] = 0
        BY <1>3, <2>2, <2>3, <3>1, <3>2, <4>1
      <4>2. CASE faults'["late"] > 0
        BY <4>2
      <4> QED
        BY <2>2, <4>1, <4>2
    <3> QED
      BY <3>3, <3>4
  <2>4. PrepsMinded'
    BY <2>3 DEF PrepsMinded
  <2>5. PrepsApart'
    BY <2>1 DEF PrepsApart, SameJobs
  <2>6. ASSUME faults'["late"] = 0
        PROVE  /\ \A i \in DOMAIN jobs' : Alive(i)' => Holding(i)'
               /\ \A i, j \in DOMAIN jobs' :
                    i # j /\ Holding(i)' /\ Holding(j)' => jobs'[i].gpus \cap jobs'[j].gpus = {}
    <3>1. /\ \A i \in DOMAIN jobs : Alive(i) => Holding(i)
          /\ \A i, j \in DOMAIN jobs :
               i # j /\ Holding(i) /\ Holding(j) => jobs[i].gpus \cap jobs[j].gpus = {}
      BY <2>1, <2>2, <2>6 DEF HoldersApart
    <3>2. \A j \in DOMAIN jobs : (Alive(j)' => jobs'[j].entry = jobs[j].entry) /\ (Holding(j)' => Holding(j))
      BY <1>3, <2>6
    <3>3. ASSUME NEW i \in DOMAIN jobs', Alive(i)'
          PROVE  Holding(i)'
      <4>1. i \in DOMAIN jobs /\ Holding(i) /\ jobs'[i].entry = jobs[i].entry
        BY <3>1, <3>2, <3>3 DEF SameJobs
      <4> QED
        BY <3>3, <4>1 DEF Holding
    <3>4. ASSUME NEW i \in DOMAIN jobs', NEW j \in DOMAIN jobs', i # j, Holding(i)', Holding(j)'
          PROVE  jobs'[i].gpus \cap jobs'[j].gpus = {}
      BY <3>1, <3>2, <3>4 DEF SameJobs
    <3> QED
      BY <3>3, <3>4
  <2>7. HoldersApart'
    BY <2>6 DEF HoldersApart
  <2> QED
    BY <2>4, <2>5, <2>7
<1> QED
  BY <1>1, <1>2, <1>3 DEF IInv, OneFailure

\* The container starts: the job held its GPUs already.
LEMMA StartBoxKeeps ==
  ASSUME IInv, NEW i \in DOMAIN jobs, StartBox(i)
  PROVE  IInv'
<1>00. TypeOK /\ Fits /\ jobs \in Seq(JobType) /\ JobFits(i)
  BY DEF IInv, TypeOK, JobType, Fits
<1>0. /\ TypeOK /\ Fits /\ jobs \in Seq(JobType) /\ jobs[i] \in JobType /\ JobFits(i)
  BY <1>00
<1>1. /\ UNCHANGED <<ledgerVars, status, cost, inProgress, cycle, coro, releases, train, faults>>
      /\ jobs[i].box = "none" /\ jobs' = [jobs EXCEPT ![i].box = "up"] /\ jobs[i].said = "nothing"
  BY <1>0 DEF StartBox, JobFits
<1>2. jobs'[i] = [jobs[i] EXCEPT !.box = "up"] /\ \A j \in DOMAIN jobs \ {i} : jobs'[j] = jobs[j]
  BY <1>0, <1>1
<1>3. /\ jobs'[i] \in JobType /\ jobs'[i].box = "up" /\ jobs'[i].said = "nothing"
      /\ jobs'[i].of = jobs[i].of /\ jobs'[i].gpus = jobs[i].gpus /\ jobs'[i].entry = jobs[i].entry
  BY <1>0, <1>1, <1>2 DEF JobType
<1>4. SameJobs
  BY <1>0, <1>1, <1>2, <1>3 DEF SameJobs
<1>5. FaultsGrow
  BY <1>0, <1>1, FaultsDoGrow
<1>6. AllFaults' <= 1 /\ faults'["late"] = 0 => Holding(i)
  BY <1>1, <1>5 DEF FaultsGrow, IInv, OneFailure, HoldersApart, Alive
<1>7. \A j \in DOMAIN jobs : /\ jobs'[j].said # "nothing" => jobs'[j].box = "gone"
                             /\ jobs[j].box = "up" /\ Alive(j)' => jobs'[j].box = "up"
                             /\ Alive(j)' => Alive(j)
  BY <1>0, <1>1, <1>2, <1>3 DEF Alive, Fits, JobFits
<1>8. \A j \in DOMAIN jobs : AllFaults' <= 1 /\ faults'["late"] = 0 =>
         /\ Alive(j)' => jobs'[j].entry = jobs[j].entry
         /\ Holding(j)' => Holding(j)
  BY <1>2, <1>3, <1>6 DEF Holding
<1> QED
  BY <1>1, <1>4, <1>5, <1>7, <1>8, JobsEnd

\* A job ends, well or not: the entry that is marked is its own or that of a
\* job that is over, because a task has one preparation at a time.
LEMMA CompletedKeeps ==
  ASSUME IInv, NEW i \in DOMAIN jobs, FinishJob(i) \/ FailJob(i)
  PROVE  IInv'
<1>0. /\ TypeOK /\ Fits /\ jobs \in Seq(JobType) /\ JobFits(i)
  BY DEF IInv, TypeOK, JobType, Fits
<1>1. PICK entry \in Entries \ {"TRAINING"} : jobs' = Completed(i, entry)
  BY DEF FinishJob, FailJob, Entries
<1>2. /\ UNCHANGED <<ledgerVars, status, cost, inProgress, cycle, coro, releases, train>>
      /\ Alive(i) /\ FaultsGrow
  BY <1>0, FaultsDoGrow DEF FinishJob, FailJob, Alive, Kinds
<1>3. /\ SameJobs
      /\ jobs'[i].box = "gone"
      /\ \A j \in DOMAIN jobs \ {i} : jobs'[j].box = jobs[j].box /\ jobs'[j].said = jobs[j].said
      /\ \E told \in DOMAIN jobs : /\ jobs[told].of = jobs[i].of
                                   /\ jobs'[told].entry = entry
                                   /\ jobs[i].of \notin Tasks => told = i
                                   /\ \A j \in DOMAIN jobs \ {told} : jobs'[j].entry = jobs[j].entry
  BY <1>0, <1>1, CompletedEnds DEF JobFits
<1>4. PICK told \in DOMAIN jobs : /\ jobs[told].of = jobs[i].of
                                  /\ jobs'[told].entry = entry
                                  /\ jobs[i].of \notin Tasks => told = i
                                  /\ \A j \in DOMAIN jobs \ {told} : jobs'[j].entry = jobs[j].entry
  BY <1>3
<1>5. \A j \in DOMAIN jobs : /\ jobs'[j].said # "nothing" => jobs'[j].box = "gone"
                             /\ jobs[j].box = "up" /\ Alive(j)' => jobs'[j].box = "up"
                             /\ Alive(j)' => Alive(j)
  BY <1>0, <1>2, <1>3 DEF Alive, Fits, JobFits
<1>6. AllFaults' <= 1 => ~Alive(told)'
  <2>1. AllFaults' <= 1 => PrepsApart
    BY <1>2 DEF FaultsGrow, IInv, OneFailure
  <2>2. AllFaults' <= 1 /\ Alive(told) => told = i
    BY <1>2, <1>4, <2>1 DEF PrepsApart
  <2> QED
    BY <1>3, <1>5, <2>2 DEF Alive
<1>7. \A j \in DOMAIN jobs : AllFaults' <= 1 /\ faults'["late"] = 0 =>
         /\ Alive(j)' => jobs'[j].entry = jobs[j].entry
         /\ Holding(j)' => Holding(j)
  BY <1>1, <1>3, <1>4, <1>6 DEF Holding
<1> QED
  BY <1>2, <1>3, <1>5, <1>7, JobsEnd

\* The cleanup thread marks an entry: from then on it says nothing of the job.
LEMMA MarkLateKeeps ==
  ASSUME IInv, NEW i \in DOMAIN jobs, MarkLate(i)
  PROVE  IInv'
<1>00. TypeOK /\ Fits /\ jobs \in Seq(JobType) /\ faults \in [Kinds -> Nat]
  BY DEF IInv, TypeOK, JobType
<1>0. /\ TypeOK /\ Fits /\ jobs \in Seq(JobType) /\ jobs[i] \in JobType /\ faults \in [Kinds -> Nat]
  BY <1>00
<1>1. /\ UNCHANGED <<ledgerVars, status, cost, inProgress, cycle, coro, releases, train>>
      /\ jobs' = [jobs EXCEPT ![i].entry = "FAILURE"] /\ Fault("late") /\ "late" \in Kinds
  BY DEF MarkLate, Kinds
<1>2. FaultsGrow
  BY <1>0, <1>1, FaultsDoGrow
<1>3. faults'["late"] # 0
  <2>1. faults["late"] \in Nat /\ faults'["late"] = faults["late"] + 1
    BY <1>0, <1>1, FaultCounts
  <2> QED
    BY <2>1
<1>4. jobs'[i] = [jobs[i] EXCEPT !.entry = "FAILURE"] /\ \A j \in DOMAIN jobs \ {i} : jobs'[j] = jobs[j]
  BY <1>0, <1>1
<1>5. /\ jobs'[i] \in JobType /\ jobs'[i].box = jobs[i].box /\ jobs'[i].said = jobs[i].said
      /\ jobs'[i].of = jobs[i].of /\ jobs'[i].gpus = jobs[i].gpus
  BY <1>0, <1>4 DEF JobType, Entries
<1>6. SameJobs
  BY <1>0, <1>1, <1>4, <1>5 DEF SameJobs
<1>7. \A j \in DOMAIN jobs : /\ jobs'[j].said # "nothing" => jobs'[j].box = "gone"
                             /\ jobs[j].box = "up" /\ Alive(j)' => jobs'[j].box = "up"
                             /\ Alive(j)' => Alive(j)
  BY <1>0, <1>4, <1>5 DEF Alive, Fits, JobFits
<1> QED
  BY <1>1, <1>2, <1>3, <1>6, <1>7, JobsEnd

\* A trainer starts again: the jobs it forgets are over.
LEMMA RestartKeeps ==
  ASSUME IInv, NEW tr \in Trainers, RestartTrainer(tr)
  PROVE  IInv'
<1> DEFINE lost(j) == (\E g \in j.gpus : Home[g] = tr) /\ (j.of \in Tasks \/ j.box = "none")
<1>00. TypeOK /\ Fits /\ jobs \in Seq(JobType)
  BY DEF IInv, TypeOK, JobType
<1>0. /\ TypeOK /\ Fits /\ jobs \in Seq(JobType) /\ \A j \in DOMAIN jobs : jobs[j] \in JobType
  BY <1>00
<1>1. /\ UNCHANGED <<ledgerVars, status, cost, inProgress, cycle, coro, releases, train>>
      /\ Fault("restart") /\ "restart" \in Kinds
      /\ jobs' = [i \in DOMAIN jobs |->
                    IF ~lost(jobs[i]) \/ jobs[i].box = "gone" THEN jobs[i]
                    ELSE [jobs[i] EXCEPT !.box = "gone", !.said = "error",
                                         !.entry = IF @ = "TRAINING" THEN "FAILURE" ELSE @]]
  BY DEF RestartTrainer, Kinds
<1>2. FaultsGrow
  BY <1>0, <1>1, FaultsDoGrow
<1>3. ASSUME NEW j \in DOMAIN jobs
      PROVE  /\ jobs'[j] \in JobType /\ jobs'[j].of = jobs[j].of /\ jobs'[j].gpus = jobs[j].gpus
             /\ \/ jobs'[j] = jobs[j]
                \/ jobs'[j].box = "gone" /\ jobs'[j].entry # "TRAINING"
  <2>1. CASE ~lost(jobs[j]) \/ jobs[j].box = "gone"
    BY <1>0, <1>1, <2>1
  <2>2. CASE ~ (~lost(jobs[j]) \/ jobs[j].box = "gone")
    <3> DEFINE e == IF jobs[j].entry = "TRAINING" THEN "FAILURE" ELSE jobs[j].entry
    <3>1. jobs'[j] = [[[jobs[j] EXCEPT !.box = "gone"] EXCEPT !.said = "error"] EXCEPT !.entry = e]
      BY <1>0, <1>1, <2>2 DEF JobType
    <3>2. e \in Entries \ {"TRAINING"}
      BY <1>0 DEF JobType, Entries
    <3> HIDE DEF e
    <3> QED
      BY <1>0, <3>1, <3>2 DEF JobType
  <2> QED
    BY <2>1, <2>2
<1>4. SameJobs
  <2>0. DOMAIN jobs' = DOMAIN jobs
    <3> HIDE DEF lost
    <3> QED
      BY <1>1
  <2>1. DOMAIN jobs' = DOMAIN jobs /\ DOMAIN jobs = 1..Len(jobs) /\ Len(jobs) \in Nat
    BY <1>0, <2>0
  <2>2. jobs' = [j \in 1..Len(jobs) |-> jobs'[j]]
    BY <1>1, <2>1
  <2>3. jobs' \in [1..Len(jobs) -> JobType]
    BY <1>3, <2>1, <2>2
  <2>4. jobs' \in Seq(JobType)
    BY <2>1, <2>3
  <2> QED
    BY <1>3, <2>1, <2>4 DEF SameJobs
<1>5. \A j \in DOMAIN jobs : /\ jobs'[j].said # "nothing" => jobs'[j].box = "gone"
                             /\ jobs[j].box = "up" /\ Alive(j)' => jobs'[j].box = "up"
                             /\ Alive(j)' => Alive(j)
  BY <1>0, <1>3 DEF Alive, Fits, JobFits
<1>6. \A j \in DOMAIN jobs : (Alive(j)' => jobs'[j].entry = jobs[j].entry) /\ (Holding(j)' => Holding(j))
  BY <1>3 DEF Alive, Holding
<1> QED
  BY <1>1, <1>2, <1>4, <1>5, <1>6, JobsEnd

-----------------------------------------------------------------------------
(* The theorems.                                                           *)

\* The invariant holds at the start.
LEMMA InitHolds == Init => IInv
<1> SUFFICES ASSUME Init PROVE IInv
  OBVIOUS
<1>1. LedgerTypeOK
  BY DEF Init, LedgerInit, LedgerTypeOK, Use, NoView
<1>2. TypeOK
  BY <1>1 DEF Init, TypeOK, Idle, NoCoro, Waiting
<1>3. Fits
  BY DEF Init, Fits, CoroFits, TrainFits, CycleFits, NoCoro, Waiting, Idle
<1>4. OneFailure
  BY DEF Init, OneFailure, PrepsMinded, PrepsApart, HoldersApart
<1> QED
  BY <1>2, <1>3, <1>4 DEF IInv

\* So does a step that changes nothing.
LEMMA StutterKeeps == IInv /\ UNCHANGED vars => IInv'
<1> SUFFICES ASSUME IInv, UNCHANGED vars PROVE IInv'
  OBVIOUS
<1>1. TypeOK'
  BY DEF IInv, TypeOK, LedgerTypeOK, vars, prepVars, ledgerVars
<1>2. Fits'
  BY DEF IInv, Fits, JobFits, CoroFits, TrainFits, CycleFits, vars, prepVars, ledgerVars
<1>3. FaultsGrow
  BY FaultsDoGrow DEF IInv, vars, prepVars
<1>4. \A i \in DOMAIN jobs : Minded(i) => Minded(i)'
  BY DEF Minded, On, vars, prepVars
<1> QED
  BY <1>1, <1>2, <1>3, <1>4, JobsStay DEF IInv, vars, prepVars

\* Every step keeps the invariant.
LEMMA NextKeeps == IInv /\ [Next]_vars => IInv'
<1> SUFFICES ASSUME IInv, [Next]_vars PROVE IInv'
  OBVIOUS
<1>1. CASE Loop
  BY <1>1, LoopKeeps, ReserveKeeps DEF Loop
<1>2. ASSUME NEW t \in Tasks, Coroutine(t)
      PROVE  IInv'
  BY <1>2, CoroutineKeeps, PostPrepKeeps DEF Coroutine
<1>3. CASE Releasing
  BY <1>3, LedgerKeeps
<1>4. ASSUME NEW p \in Pairs, Training(p)
      PROVE  IInv'
  BY <1>4, LedgerKeeps, TrainPostKeeps DEF Training
<1>5. ASSUME NEW i \in DOMAIN jobs, Job(i)
      PROVE  IInv'
  BY <1>5, StartBoxKeeps, CompletedKeeps DEF Job
<1>6. ASSUME NEW r \in Refreshers, Refresh(r)
      PROVE  IInv'
  BY <1>6, LedgerKeeps
<1>7. ASSUME NEW g \in Gpus, Tick(g)
      PROVE  IInv'
  BY <1>7, LedgerKeeps
<1>8. CASE Failures
  BY <1>8, CompletedKeeps, MarkLateKeeps, RestartKeeps, AskLostKeeps, CoroutineKeeps, LedgerKeeps, CrashKeeps
     DEF Failures
<1>9. CASE UNCHANGED vars
  BY <1>9, StutterKeeps
<1> QED
  BY <1>1, <1>2, <1>3, <1>4, <1>5, <1>6, <1>7, <1>8, <1>9 DEF Next

\* The inductive invariant holds in every state, whatever the numbers of
\* tasks, pairs, trainers, GPUs, jobs and failures.
THEOREM InvariantHolds == Spec => []IInv
  BY InitHolds, NextKeeps, PTL DEF Spec

\* Every variable of the preparation, of the trainers and of the ledger keeps
\* its type.
THEOREM TypeCorrect == Spec => []TypeOK
<1>1. IInv => TypeOK
  BY DEF IInv
<1> QED
  BY <1>1, InvariantHolds, PTL

\* No single failure makes the trainers prepare one task twice at a time,
\* because the loop asks every trainer before it dispatches
\* (process_awaiting_model_prep_tasks, _recover_model_prep_from_trainer).
THEOREM OnePreparationHolds == Spec => []OnePreparation
<1>1. IInv => OnePreparation
  BY DEF IInv, OneFailure, PrepsApart, OnePreparation
<1> QED
  BY <1>1, InvariantHolds, PTL

\* No two containers share a GPU after at most one failure other than a late
\* mark: the trainer's own check (are_gpus_available) sees to it, whatever the
\* ledger says.
THEOREM GpusStayExclusive == Spec => []GpusExclusive
<1>1. IInv => GpusExclusive
  BY DEF IInv, OneFailure, HoldersApart, Holding, GpusExclusive
<1> QED
  BY <1>1, InvariantHolds, PTL

-----------------------------------------------------------------------------
(* The bill.                                                               *)

\* A restart once counted stays counted.
LEMMA CrashCounted ==
  ASSUME TypeOK, UNCHANGED faults \/ \E k \in Kinds : Fault(k)
  PROVE  faults["crash"] > 0 => faults'["crash"] > 0
<1>1. faults \in [Kinds -> Nat] /\ faults["crash"] \in Nat
  BY DEF TypeOK, Kinds
<1>2. CASE UNCHANGED faults
  BY <1>2
<1>3. ASSUME NEW k \in Kinds, Fault(k)
      PROVE  faults["crash"] > 0 => faults'["crash"] > 0
  <2>1. /\ "crash" \in Kinds
        /\ faults'[k] = faults[k] + 1 /\ \A j \in Kinds \ {k} : faults'[j] = faults[j]
    BY <1>1, <1>3, FaultCounts DEF Kinds
  <2> QED
    BY <1>1, <2>1
<1> QED
  BY <1>2, <1>3

\* The step leaves the bills and the coroutines alone.
LEMMA BillStays ==
  ASSUME IInv, CostFollowsRun, UNCHANGED <<cost, coro>>,
         UNCHANGED faults \/ \E k \in Kinds : Fault(k)
  PROVE  CostFollowsRun'
  BY CrashCounted DEF IInv, CostFollowsRun

\* The step is one of the coroutine of t, which is there before it.
LEMMA BillOfOne ==
  ASSUME IInv, CostFollowsRun, NEW t \in Tasks,
         UNCHANGED faults \/ \E k \in Kinds : Fault(k),
         \A u \in Tasks \ {t} : coro'[u] = coro[u] /\ cost'[u] = cost[u],
         coro'[t].at \in {"post", "wait", "ok"} => cost'[t] = "open",
         cost'[t] = "open" => coro'[t] # NoCoro
  PROVE  CostFollowsRun'
  BY CrashCounted DEF IInv, CostFollowsRun

\* Every step keeps the cost run of a preparation with its coroutine.
LEMMA BillKept ==
  ASSUME IInv, CostFollowsRun, [Next]_vars
  PROVE  CostFollowsRun'
<1> USE DEF ledgerVars, prepVars
<1>0. /\ TypeOK /\ Fits /\ CycleFits /\ coro \in [Tasks -> CoroType]
      /\ cost \in [Tasks -> {"none", "open", "closed"}] /\ cycle \in CycleType
  BY DEF IInv, TypeOK, Fits, CoroType, CycleType
<1>1. ASSUME NEW tr \in Trainers, AskTrainer(tr)
      PROVE  CostFollowsRun'
  <2>1. PICK t \in Tasks : t = cycle.task /\ t \notin inProgress
    BY <1>0, <1>1 DEF AskTrainer, CycleFits
  <2>2. UNCHANGED <<coro, faults>> /\ (cost' = cost \/ cost' = [cost EXCEPT ![t] = "closed"])
    BY <1>1, <2>1 DEF AskTrainer
  <2>3. coro[t] = NoCoro /\ coro[t].at = "none"
    BY <1>0, <2>1 DEF Fits, CoroFits
  <2>4. CASE cost' = cost
    BY <2>2, <2>4, BillStays
  <2>5. CASE cost' = [cost EXCEPT ![t] = "closed"]
    BY <1>0, <2>2, <2>3, <2>5, BillOfOne
  <2> QED
    BY <2>2, <2>4, <2>5
<1>2. CASE CycleList \/ WriteRecovered \/ CheckGpus
  BY <1>2, BillStays DEF CycleList, WriteRecovered, CheckGpus
<1>3. CASE Reserve
  <2>1. PICK t \in Tasks : t = cycle.task
    BY <1>0, <1>3 DEF Reserve, CycleFits
  <2>2. /\ UNCHANGED <<cost, faults>>
        /\ coro' = [coro EXCEPT ![t] = [at |-> "cost", gpus |-> cycle.gpus, job |-> 0]]
    BY <1>3, <2>1 DEF Reserve
  <2>3. coro'[t].at = "cost" /\ \A u \in Tasks \ {t} : coro'[u] = coro[u]
    BY <1>0, <2>2
  <2> QED
    BY <2>2, <2>3, BillOfOne DEF NoCoro
<1>4. ASSUME NEW t \in Tasks, Coroutine(t) \/ LosePost(t)
      PROVE  CostFollowsRun'
  <2>0. coro[t] \in CoroType /\ cost[t] \in {"none", "open", "closed"}
        /\ (coro[t].at \in {"post", "wait", "ok"} => cost[t] = "open")
    BY <1>0 DEF CostFollowsRun
  <2>1. CASE OpenCost(t)
    <3>1. coro'[t] = [coro[t] EXCEPT !.at = "post"] /\ cost'[t] = "open" /\ UNCHANGED faults
      BY <1>0, <2>1 DEF OpenCost
    <3>2. coro'[t].at = "post" /\ coro'[t] # NoCoro
      BY <2>0, <3>1 DEF CoroType, NoCoro
    <3>3. \A u \in Tasks \ {t} : coro'[u] = coro[u] /\ cost'[u] = cost[u]
      BY <1>0, <2>1 DEF OpenCost
    <3> QED
      BY <3>1, <3>2, <3>3, BillOfOne
  <2>2. ASSUME NEW c \in CoroType, c.at \in {"wait", "ok", "close"}, coro' = [coro EXCEPT ![t] = c],
               coro[t].at \in {"post", "wait", "ok"}, UNCHANGED cost,
               UNCHANGED faults \/ \E k \in Kinds : Fault(k)
        PROVE  CostFollowsRun'
    <3>1. coro'[t] = c /\ c # NoCoro /\ \A u \in Tasks \ {t} : coro'[u] = coro[u]
      BY <1>0, <2>2 DEF NoCoro
    <3> QED
      BY <2>0, <2>2, <3>1, BillOfOne
  <2>3. CASE PostPrep(t)
    <3>1. CASE coro' = [coro EXCEPT ![t].at = "close"]
      <4>1. coro' = [coro EXCEPT ![t] = [coro[t] EXCEPT !.at = "close"]]
        BY <1>0, <3>1
      <4>2. [coro[t] EXCEPT !.at = "close"] \in CoroType /\ [coro[t] EXCEPT !.at = "close"].at = "close"
        BY <2>0 DEF CoroType
      <4> QED
        BY <2>2, <2>3, <4>1, <4>2 DEF PostPrep
    <3>2. CASE coro' = [coro EXCEPT ![t].at = "wait", ![t].job = Len(jobs) + 1]
      <4>1. coro' = [coro EXCEPT ![t] = [[coro[t] EXCEPT !.at = "wait"] EXCEPT !.job = Len(jobs) + 1]]
        BY <1>0, <3>2
      <4>2. Len(jobs) + 1 \in Nat
        BY <1>0 DEF TypeOK
      <4>3. [[coro[t] EXCEPT !.at = "wait"] EXCEPT !.job = Len(jobs) + 1] \in CoroType
            /\ [[coro[t] EXCEPT !.at = "wait"] EXCEPT !.job = Len(jobs) + 1].at = "wait"
        BY <2>0, <4>2 DEF CoroType
      <4> QED
        BY <2>2, <2>3, <4>1, <4>3 DEF PostPrep
    <3> QED
      BY <2>3, <3>1, <3>2 DEF PostPrep
  <2>4. CASE HearPrep(t) \/ LosePost(t) \/ WriteResult(t)
    <3>1. PICK a \in {"ok", "close"} : coro' = [coro EXCEPT ![t].at = a]
      BY <2>4 DEF HearPrep, LosePost, WriteResult
    <3>2. coro' = [coro EXCEPT ![t] = [coro[t] EXCEPT !.at = a]]
      BY <1>0, <3>1
    <3>3. [coro[t] EXCEPT !.at = a] \in CoroType /\ [coro[t] EXCEPT !.at = a].at = a
      BY <2>0 DEF CoroType
    <3>4. /\ UNCHANGED cost /\ coro[t].at \in {"post", "wait", "ok"}
          /\ UNCHANGED faults \/ \E k \in Kinds : Fault(k)
      BY <2>4 DEF HearPrep, LosePost, WriteResult, Kinds
    <3> QED
      BY <2>2, <3>2, <3>3, <3>4
  <2>5. CASE CloseCoro(t)
    <3>1. /\ coro'[t] = NoCoro /\ cost'[t] # "open" /\ UNCHANGED faults
          /\ \A u \in Tasks \ {t} : coro'[u] = coro[u] /\ cost'[u] = cost[u]
      BY <1>0, <2>5 DEF CloseCoro
    <3> QED
      BY <3>1, BillOfOne DEF NoCoro
  <2> QED
    BY <1>4, <2>1, <2>3, <2>4, <2>5 DEF Coroutine
<1>5. CASE Releasing
  BY <1>5, BillStays DEF Releasing, Release
<1>6. ASSUME NEW p \in Pairs, Training(p)
      PROVE  CostFollowsRun'
  BY <1>6, BillStays DEF Training, TrainCheck, TrainPost, TrainReserve
<1>7. ASSUME NEW i \in DOMAIN jobs, Job(i) \/ FailJob(i) \/ MarkLate(i)
      PROVE  CostFollowsRun'
  BY <1>7, BillStays DEF Job, StartBox, FinishJob, FailJob, MarkLate, Kinds
<1>8. ASSUME NEW r \in Refreshers, Refresh(r) \/ RefreshFails(r)
      PROVE  CostFollowsRun'
  BY <1>8, BillStays DEF Refresh, RefreshFails, Kinds
<1>9. ASSUME NEW g \in Gpus, Tick(g)
      PROVE  CostFollowsRun'
  BY <1>9, BillStays DEF Tick
<1>10. ASSUME NEW tr \in Trainers, RestartTrainer(tr) \/ AskLost(tr)
       PROVE  CostFollowsRun'
  BY <1>10, BillStays DEF RestartTrainer, AskLost, Kinds
<1>11. CASE CrashValidator
  <2>1. coro' = [t \in Tasks |-> NoCoro] /\ Fault("crash") /\ "crash" \in Kinds
    BY <1>11 DEF CrashValidator, Kinds
  <2>2. faults'["crash"] > 0
    <3>1. faults \in [Kinds -> Nat] /\ faults["crash"] \in Nat
      BY <1>0, <2>1 DEF TypeOK
    <3>2. faults'["crash"] = faults["crash"] + 1
      BY <2>1, <3>1, FaultCounts
    <3> QED
      BY <3>1, <3>2
  <2> QED
    BY <2>1, <2>2 DEF CostFollowsRun, NoCoro
<1>12. CASE UNCHANGED vars
  BY <1>12, BillStays DEF vars
<1> QED
  BY <1>1, <1>2, <1>3, <1>4, <1>5, <1>6, <1>7, <1>8, <1>9, <1>10, <1>11, <1>12 DEF Next, Loop, Failures

\* The cost run of a preparation is open while its coroutine waits, and stays
\* open without one only after the validator was restarted
\* (start_cost_run, close_cost_run in _run_task_prep's finally).
THEOREM TheBillFollowsTheRun == Spec => []CostFollowsRun
<1>1. Init => CostFollowsRun
  BY DEF Init, CostFollowsRun, NoCoro
<1> QED
  BY <1>1, InvariantHolds, BillKept, PTL DEF Spec

-----------------------------------------------------------------------------
(* The choice of GPUs: finite sets of numbers.                             *)

\* Among the subsets of a finite set that have a property one is minimal.
LEMMA MinimalPart ==
  ASSUME NEW S, IsFiniteSet(S), NEW C \in SUBSET (SUBSET S), C # {}
  PROVE  \E X \in C : \A Y \in C : Y \subseteq X => Y = X
<1>1. \A X \in C : IsFiniteSet(X) /\ X \subseteq S
  BY FS_Subset
<1>2. C \subseteq FiniteSubsetsOf(S)
  BY <1>1 DEF FiniteSubsetsOf
<1> QED
  BY <1>2, MinimalSubset

\* A finite set of numbers that is not empty has a greatest one.
LEMMA GreatestNat ==
  ASSUME NEW T \in SUBSET Nat, IsFiniteSet(T), T # {}
  PROVE  \E x \in T : \A y \in T : y <= x
<1> DEFINE C == {U \in SUBSET T : U # {} /\ \A u \in U, v \in T \ U : v < u}
<1>1. C \in SUBSET (SUBSET T) /\ T \in C
  OBVIOUS
<1>2. PICK U \in C : \A V \in C : V \subseteq U => V = U
  <2>1. C \in SUBSET (SUBSET T) /\ C # {}
    BY <1>1
  <2> HIDE DEF C
  <2>2. \A V \in C : IsFiniteSet(V) /\ V \subseteq Nat
    BY <2>1, FS_Subset
  <2>3. C \subseteq FiniteSubsetsOf(Nat) /\ C # {}
    BY <2>1, <2>2 DEF FiniteSubsetsOf
  <2> QED
    BY <2>3, MinimalSubset
<1>3. U \in SUBSET Nat /\ U # {}
  BY <1>2
<1>4. PICK x \in U : \A y \in U : x <= y
  BY <1>3, LeastNat
<1>5. U \ {x} # U
  BY <1>4
<1>6. U \ {x} \notin C
  BY <1>2, <1>5
<1>7. ASSUME U \ {x} # {}
      PROVE  FALSE
  <2>1. ASSUME NEW u \in U \ {x}, NEW v \in T \ (U \ {x})
        PROVE  v < u
    <3>1. CASE v \in U
      BY <3>1, <2>1, <1>3, <1>4
    <3>2. CASE v \notin U
      BY <3>2, <2>1, <1>2
    <3> QED
      BY <3>1, <3>2
  <2>2. U \ {x} \in SUBSET T
    OBVIOUS
  <2> QED
    BY <2>1, <2>2, <1>6, <1>7
<1>8. U = {x}
  BY <1>4, <1>7
<1>9. \A v \in T \ U : v < x
  BY <1>2, <1>4
<1>10. x \in T
  BY <1>4
<1> QED
  BY <1>8, <1>9, <1>10

\* First takes as many as it is asked for, if there are so many.
LEMMA FirstTakes ==
  ASSUME NEW S \in SUBSET Nat, IsFiniteSet(S), NEW n \in Int
  PROVE  /\ First(S, n) \subseteq S /\ IsFiniteSet(First(S, n))
         /\ Cardinality(First(S, n)) =
              IF n <= 0 THEN 0 ELSE IF n < Cardinality(S) THEN n ELSE Cardinality(S)
<1> DEFINE Below(g) == {h \in S : h < g}
           size == Cardinality(S)
           f == [g \in S |-> Cardinality(Below(g))]
           T == First(S, n)
           m == IF n <= 0 THEN 0 ELSE IF n < size THEN n ELSE size
<1>1. size \in Nat
  BY FS_CardinalityType
<1>2. \A g : IsFiniteSet(Below(g)) /\ Cardinality(Below(g)) \in Nat
  <2>1. \A g : Below(g) \in SUBSET S
    OBVIOUS
  <2> HIDE DEF Below
  <2> QED
    BY <2>1, FS_Subset, FS_CardinalityType
<1>3. ASSUME NEW g \in S, NEW U \in SUBSET S, g \notin U, Below(g) \subseteq U
      PROVE  Cardinality(Below(g)) <= Cardinality(U) /\ Cardinality(U) < size
  <2>1. IsFiniteSet(U) /\ Cardinality(U) \in Nat
    BY FS_Subset, FS_CardinalityType
  <2>2. Cardinality(Below(g)) <= Cardinality(U)
    BY <2>1, <1>3, FS_Subset
  <2>3. U \in SUBSET (S \ {g}) /\ IsFiniteSet(S \ {g}) /\ Cardinality(S \ {g}) = size - 1
    BY <1>3, FS_RemoveElement
  <2>4. Cardinality(U) <= size - 1
    BY <2>3, FS_Subset
  <2> QED
    BY <1>1, <2>1, <2>2, <2>4
<1>4. \A g \in S : f[g] \in Nat /\ f[g] < size
  <2>1. ASSUME NEW g \in S
        PROVE  f[g] \in Nat /\ f[g] < size
    <3>1. Below(g) \in SUBSET S /\ g \notin Below(g)
      OBVIOUS
    <3>2. f[g] = Cardinality(Below(g))
      OBVIOUS
    <3> HIDE DEF f, Below, size
    <3> QED
      BY <1>2, <1>3, <3>1, <3>2
  <2> QED
    BY <2>1
<1>5. ASSUME NEW g \in S, NEW k \in S, g < k
      PROVE  f[g] < f[k]
  <2>0. g \in Nat /\ k \in Nat /\ \A h \in S : h \in Nat
    OBVIOUS
  <2>1. /\ Below(g) \in SUBSET Below(k) /\ g \in Below(k) /\ g \notin Below(g)
    <3>1. g < k /\ \A h \in S : h < g => h < k
      BY <1>5, <2>0
    <3>2. ~ (g < g)
      BY <2>0
    <3> QED
      BY <3>1, <3>2
  <2>2. Below(g) \in SUBSET (Below(k) \ {g})
    BY <2>1
  <2>3. f[g] = Cardinality(Below(g)) /\ f[k] = Cardinality(Below(k))
    OBVIOUS
  <2> HIDE DEF f, Below
  <2>4. IsFiniteSet(Below(k) \ {g}) /\ Cardinality(Below(k) \ {g}) = Cardinality(Below(k)) - 1
    BY <1>2, <2>1, FS_RemoveElement
  <2>5. Cardinality(Below(g)) <= Cardinality(Below(k)) - 1
    BY <2>2, <2>4, FS_Subset
  <2> QED
    BY <1>2, <2>3, <2>5
<1>6. \A g, k \in S : f[g] = f[k] => g = k
  <2>1. ASSUME NEW g \in S, NEW k \in S, f[g] = f[k], g # k
        PROVE  FALSE
    <3>1. g < k \/ k < g
      BY <2>1
    <3>2. f[g] < f[k] \/ f[k] < f[g]
      BY <3>1, <1>5
    <3> HIDE DEF f
    <3> QED
      BY <3>2, <2>1, <1>4
  <2> QED
    BY <2>1
<1>7. DOMAIN f = S
  OBVIOUS
<1>71. T = {g \in S : f[g] < n}
  BY DEF First
<1>72. f \in [S -> Nat]
  BY <1>2
<1> HIDE DEF f, Below
<1>8. f \in Injection(S, 0 .. size - 1)
  <2>1. \A g \in S : f[g] \in 0 .. size - 1
    BY <1>1, <1>4
  <2>2. f \in [S -> 0 .. size - 1]
    BY <2>1, <1>72
  <2> QED
    BY <2>2, <1>6 DEF Injection, IsInjective
<1>9. f \in Surjection(S, 0 .. size - 1)
  <2>1. IsFiniteSet(0 .. size - 1) /\ Cardinality(0 .. size - 1) = size
    <3> HIDE DEF size
    <3>1. size - 1 \in Int
      BY <1>1
    <3> QED
      BY <1>1, <3>1, FS_Interval
  <2> QED
    BY <2>1, <1>8, FS_Injection
<1>10. m \in Nat /\ m <= size /\ \A i \in Nat : i < size => (i < n <=> i < m)
  BY <1>1
<1> DEFINE e == [g \in T |-> f[g]]
<1>11. e \in Bijection(T, 0 .. m - 1)
  <2>1. T \subseteq S
    BY <1>71
  <2>2. \A g \in T : f[g] \in 0 .. m - 1
    <3>1. \A g \in T : g \in S /\ f[g] \in Nat /\ f[g] < size /\ f[g] < n
      BY <1>4, <1>71
    <3> HIDE DEF m, T, size
    <3> QED
      BY <3>1, <1>10
  <2>3. \A i \in 0 .. m - 1 : \E g \in T : f[g] = i
    <3>1. ASSUME NEW i \in 0 .. m - 1
          PROVE  \E g \in T : f[g] = i
      <4>1. i \in Nat /\ i < m /\ i < size /\ i \in 0 .. size - 1
        <5> HIDE DEF m, size
        <5> QED
          BY <1>1, <1>10
      <4>2. i < n
        <5> HIDE DEF m, size
        <5> QED
          BY <4>1, <1>10
      <4>3. PICK g \in S : f[g] = i
        BY <4>1, <1>9 DEF Surjection
      <4> QED
        BY <4>2, <4>3, <1>71
    <3> QED
      BY <3>1
  <2> HIDE DEF m, T
  <2>4. e \in [T -> 0 .. m - 1]
    BY <2>2
  <2>5. \A g, k \in T : e[g] = e[k] => g = k
    BY <2>1, <1>6
  <2>6. \A i \in 0 .. m - 1 : \E g \in T : e[g] = i
    BY <2>3
  <2> HIDE DEF e
  <2> QED
    BY <2>4, <2>5, <2>6 DEF Bijection, Injection, Surjection, IsInjective
<1>12. T \in SUBSET S
  BY <1>71
<1>13. IsFiniteSet(T) /\ Cardinality(T) \in Nat
  BY <1>12, FS_Subset, FS_CardinalityType
<1>14. Cardinality(0 .. m - 1) = Cardinality(T)
  <2> HIDE DEF m, T, e
  <2> QED
    BY <1>11, <1>13, FS_Bijection DEF ExistsBijection
<1>15. Cardinality(0 .. m - 1) = m
  <2> HIDE DEF m, T
  <2> QED
    BY <1>10, FS_Interval
<1> QED
  BY <1>12, <1>13, <1>14, <1>15

\* If the least members of S are in G and G is large enough, First takes of G only.
LEMMA FirstOf ==
  ASSUME NEW S \in SUBSET Nat, IsFiniteSet(S), NEW n \in Int, NEW G \in SUBSET S, n <= Cardinality(G),
         \A g \in G, h \in S \ G : g < h
  PROVE  First(S, n) \subseteq G
<1> SUFFICES ASSUME NEW h \in First(S, n), h \notin G
             PROVE  FALSE
  OBVIOUS
<1> DEFINE B == {g \in S : g < h}
<1>1. h \in S /\ Cardinality(B) < n
  BY DEF First
<1>2. B \in SUBSET S /\ G \in SUBSET B
  BY <1>1
<1> HIDE DEF B
<1>3. IsFiniteSet(B) /\ Cardinality(B) \in Nat
  BY <1>2, FS_Subset, FS_CardinalityType
<1>4. IsFiniteSet(G) /\ Cardinality(G) <= Cardinality(B) /\ Cardinality(G) \in Nat
  BY <1>2, <1>3, FS_Subset, FS_CardinalityType
<1> QED
  BY <1>1, <1>3, <1>4

-----------------------------------------------------------------------------
(* The choice of GPUs: groups.                                             *)

\* A division of the GPUs into groups.
Partition(groups, ids) ==
    /\ \A G \in groups : G # {} /\ G \subseteq ids
    /\ \A A, B \in groups : A # B => A \cap B = {}
    /\ ids \subseteq UNION groups

\* GPUs that are linked have the same reach, and others have nothing in common.
LEMMA ReachedApart ==
  ASSUME NEW ids, NEW links, NEW g \in ids, NEW h \in ids,
         Reached(g, ids, links) \cap Reached(h, ids, links) # {}
  PROVE  Reached(g, ids, links) = Reached(h, ids, links)
<1> DEFINE Closed(S) == \A a \in S, b \in ids : {a, b} \in links => b \in S
           R(x) == Reached(x, ids, links)
<1>1. \A x \in ids : R(x) \in SUBSET ids /\ x \in R(x)
  BY DEF Reached
<1>2. \A x \in ids, S \in SUBSET ids : x \in S /\ Closed(S) => R(x) \subseteq S
  BY DEF Reached
<1>3. \A x \in ids : Closed(R(x))
  <2> SUFFICES ASSUME NEW x \in ids, NEW a \in R(x), NEW b \in ids, {a, b} \in links,
                      NEW S \in SUBSET ids, x \in S, Closed(S)
               PROVE  b \in S
    BY DEF Reached
  <2>1. R(x) \subseteq S
    BY <1>2
  <2> QED
    BY <2>1
<1>4. ASSUME NEW x \in ids, NEW y \in R(x)
      PROVE  R(y) = R(x)
  <2>1. R(y) \subseteq R(x)
    BY <1>1, <1>2, <1>3
  <2>2. CASE x \in R(y)
    BY <2>1, <2>2, <1>1, <1>2, <1>3
  <2>3. CASE x \notin R(y)
    <3> DEFINE S == R(x) \ R(y)
    <3>1. S \in SUBSET ids /\ x \in S
      BY <1>1, <2>3
    <3>2. ASSUME NEW a \in S, NEW b \in ids, {a, b} \in links
          PROVE  b \in S
      <4>1. b \in R(x)
        BY <3>2, <1>3
      <4>2. ASSUME b \in R(y)
            PROVE  FALSE
        <5>1. {b, a} \in links
          <6>1. {b, a} = {a, b}
            OBVIOUS
          <6> QED
            BY <6>1, <3>2
        <5>2. a \in ids /\ y \in ids
          BY <1>1
        <5>3. Closed(R(y))
          BY <5>2, <1>3
        <5>4. a \in R(y)
          BY <4>2, <5>1, <5>2, <5>3
        <5> QED
          BY <5>4
      <4> QED
        BY <4>1, <4>2
    <3>3. Closed(S)
      BY <3>2
    <3> HIDE DEF S
    <3>4. R(x) \subseteq S
      BY <3>1, <3>3, <1>2
    <3>5. y \in S
      BY <3>4
    <3> QED
      BY <3>5, <1>1 DEF S
  <2> QED
    BY <2>2, <2>3
<1>5. PICK x : x \in R(g) /\ x \in R(h)
  OBVIOUS
<1> QED
  BY <1>4, <1>5

\* Every GPU is in one group.
LEMMA GroupsDivide ==
  ASSUME NEW ids, NEW links
  PROVE  Partition(NvlinkGroups(ids, links), ids)
<1>1. CASE links = Unknown
  <2> DEFINE P(g) == {h \in ids : h \div 2 = g \div 2}
  <2>1. NvlinkGroups(ids, links) = {P(g) : g \in ids}
    BY <1>1 DEF NvlinkGroups
  <2>2. \A g \in ids : g \in P(g) /\ P(g) \subseteq ids
    OBVIOUS
  <2>3. \A g, h \in ids : P(g) \cap P(h) # {} => P(g) = P(h)
    OBVIOUS
  <2> HIDE DEF P
  <2> QED
    BY <2>1, <2>2, <2>3 DEF Partition
<1>2. CASE links # Unknown
  <2> DEFINE R(g) == Reached(g, ids, links)
  <2>1. NvlinkGroups(ids, links) = {R(g) : g \in ids}
    BY <1>2 DEF NvlinkGroups
  <2>2. \A g \in ids : g \in R(g) /\ R(g) \subseteq ids
    BY DEF Reached
  <2>3. \A g, h \in ids : R(g) \cap R(h) # {} => R(g) = R(h)
    BY ReachedApart
  <2> HIDE DEF R
  <2> QED
    BY <2>1, <2>2, <2>3 DEF Partition
<1> QED
  BY <1>1, <1>2

\* There are finitely many groups, each of finitely many GPUs.
LEMMA GroupsAreFinite ==
  ASSUME NEW ids, IsFiniteSet(ids), NEW groups, Partition(groups, ids)
  PROVE  /\ IsFiniteSet(groups)
         /\ \A G \in groups : IsFiniteSet(G) /\ Cardinality(G) \in Nat \ {0}
<1>1. groups \subseteq SUBSET ids
  BY DEF Partition
<1>2. IsFiniteSet(SUBSET ids)
  BY FS_SUBSET
<1>3. IsFiniteSet(groups)
  BY <1>1, <1>2, FS_Subset
<1>4. \A G \in groups : IsFiniteSet(G) /\ Cardinality(G) \in Nat
  BY <1>1, FS_Subset, FS_CardinalityType
<1>5. \A G \in groups : Cardinality(G) # 0
  BY <1>4, FS_EmptySet DEF Partition
<1> QED
  BY <1>3, <1>4, <1>5

\* When all groups have s GPUs, some of them together have s for each.
Alike(groups, s) == \A G \in groups : Cardinality(G) = s
Adds(Q, s) == /\ IsFiniteSet(UNION Q) /\ Cardinality(Q) \in Nat
              /\ Cardinality(UNION Q) = s * Cardinality(Q)

\* Groups of one size are counted by multiplication.
LEMMA UnionCounts ==
  ASSUME NEW ids, IsFiniteSet(ids), NEW groups, Partition(groups, ids), NEW s \in Nat,
         Alike(groups, s), NEW Q \in SUBSET groups
  PROVE  Adds(Q, s)
<1>0. IsFiniteSet(groups) /\ \A G \in groups : IsFiniteSet(G)
  BY GroupsAreFinite
<1>1. \A P \in SUBSET groups : IsFiniteSet(P) /\ Cardinality(P) \in Nat /\ IsFiniteSet(UNION P)
  <2>1. ASSUME NEW P \in SUBSET groups
        PROVE  IsFiniteSet(P) /\ Cardinality(P) \in Nat /\ IsFiniteSet(UNION P)
    <3>1. IsFiniteSet(P) /\ Cardinality(P) \in Nat
      BY <1>0, FS_Subset, FS_CardinalityType
    <3>2. \A G \in P : IsFiniteSet(G)
      BY <1>0
    <3> QED
      BY <3>1, <3>2, FS_UNION
  <2> QED
    BY <2>1
<1> DEFINE C == {P \in SUBSET groups : Cardinality(UNION P) # s * Cardinality(P)}
<1>2. SUFFICES ASSUME C # {}
               PROVE  FALSE
  <2>1. Q \notin C
    BY <1>2
  <2> QED
    BY <2>1, <1>1 DEF Adds
<1>3. PICK P \in C : \A V \in C : V \subseteq P => V = P
  <2>1. C \in SUBSET (SUBSET groups)
    OBVIOUS
  <2> HIDE DEF C
  <2> QED
    BY <2>1, <1>0, <1>2, MinimalPart
<1>4. P \in SUBSET groups /\ Cardinality(UNION P) # s * Cardinality(P)
  OBVIOUS
<1>5. P # {}
  <2>1. UNION {} = {} /\ Cardinality({}) = 0 /\ s * 0 = 0
    BY FS_EmptySet
  <2> QED
    BY <2>1, <1>4
<1>6. PICK G \in P : TRUE
  BY <1>5
<1> DEFINE R == P \ {G}
<1>7. R \in SUBSET groups /\ R # P /\ R \subseteq P
  BY <1>4
<1>8. Cardinality(UNION R) = s * Cardinality(R)
  <2> HIDE DEF R
  <2>1. R \notin C
    BY <1>3, <1>7
  <2> QED
    BY <2>1, <1>7
<1>9. Cardinality(R) = Cardinality(P) - 1
  BY <1>1, <1>4, FS_RemoveElement
<1>10. UNION P = (UNION R) \cup G /\ (UNION R) \cap G = {}
  <2>1. \A H \in R : H \cap G = {}
    BY <1>4, <1>6 DEF Partition
  <2> QED
    BY <2>1
<1>11. IsFiniteSet(UNION R) /\ IsFiniteSet(G) /\ Cardinality(G) = s
  BY <1>0, <1>1, <1>4, <1>7 DEF Alike
<1>12. Cardinality(UNION P) = Cardinality(UNION R) + s - Cardinality({})
  <2> HIDE DEF R
  <2> QED
    BY <1>10, <1>11, FS_Union
<1>13. Cardinality({}) = 0
  BY FS_EmptySet
<1>14. Cardinality(P) \in Nat /\ Cardinality(R) \in Nat
  BY <1>1, <1>4, <1>7
<1>15. s * (Cardinality(P) - 1) + s = s * Cardinality(P)
  BY <1>14
<1> HIDE DEF R
<1> QED
  BY <1>4, <1>8, <1>9, <1>12, <1>13, <1>14, <1>15

-----------------------------------------------------------------------------
(* The choice of GPUs: the groups that fit.                                *)

\* The function Fitting computes with, from its values at all smaller sets.
With(before, G, count) == IF Cardinality(before) + Cardinality(G) <= count THEN before \cup G ELSE before
IsChosen(S, count, c) ==
    c = [W \in SUBSET S |-> IF W = {} THEN {} ELSE With(c[W \ {LastGroup(W)}], LastGroup(W), count)]

\* Fitting is the recursive function IsChosen speaks of, at the whole set.
LEMMA FittingIs ==
  ASSUME NEW S, NEW count
  PROVE  Fitting(S, count) = (CHOOSE c : IsChosen(S, count, c))[S]
BY DEF Fitting, IsChosen, With

\* Such a function looks at one group after the others.
LEMMA ChosenStep ==
  ASSUME NEW S, NEW count, NEW c, IsChosen(S, count, c)
  PROVE  \A W \in SUBSET S :
           /\ W = {} => c[W] = {}
           /\ W # {} => c[W] = With(c[W \ {LastGroup(W)}], LastGroup(W), count)
<1>1. c = [W \in SUBSET S |-> IF W = {} THEN {} ELSE With(c[W \ {LastGroup(W)}], LastGroup(W), count)]
  BY DEF IsChosen
<1> QED
  BY <1>1

\* The last group is one of them.
LEMMA LastIsIn ==
  ASSUME NEW ids \in SUBSET Nat, IsFiniteSet(ids), NEW groups, Partition(groups, ids),
         NEW W \in SUBSET groups, W # {}
  PROVE  /\ LastGroup(W) \in W /\ W \ {LastGroup(W)} \in SUBSET groups
         /\ W \ {LastGroup(W)} \subseteq W /\ W \ {LastGroup(W)} # W
<1> DEFINE low == [G \in W |-> Min(G)]
           M == {low[G] : G \in W}
<1>1. \A G \in W : low[G] \in Nat
  <2>1. ASSUME NEW G \in W
        PROVE  low[G] \in Nat
    <3>1. G \in SUBSET Nat /\ G # {}
      BY DEF Partition
    <3>2. \E x \in G : \A y \in G : x <= y
      BY <3>1, LeastNat
    <3>3. Min(G) \in G
      BY <3>2 DEF Min
    <3> QED
      BY <3>1, <3>3
  <2> QED
    BY <2>1
<1>2. M \in SUBSET Nat /\ M # {}
  BY <1>1
<1>3. IsFiniteSet(M)
  <2>1. IsFiniteSet(W)
    BY GroupsAreFinite, FS_Subset
  <2>2. low \in Surjection(W, M)
    BY DEF Surjection
  <2> HIDE DEF M, low
  <2> QED
    BY <2>1, <2>2, FS_Surjection
<1>4. PICK x \in M : \A y \in M : y <= x
  <2> HIDE DEF M
  <2> QED
    BY <1>2, <1>3, GreatestNat
<1>5. PICK G \in W : low[G] = x
  OBVIOUS
<1>6. \A H \in W : Min(H) <= Min(G)
  BY <1>4, <1>5
<1>7. LastGroup(W) \in W
  BY <1>6 DEF LastGroup
<1> QED
  BY <1>7

\* Two such functions agree.
LEMMA ChosenAgree ==
  ASSUME NEW ids \in SUBSET Nat, IsFiniteSet(ids), NEW groups, Partition(groups, ids), NEW count,
         NEW A \in SUBSET groups, NEW B \in SUBSET groups, A \subseteq B,
         NEW c, NEW d, IsChosen(A, count, c), IsChosen(B, count, d)
  PROVE  \A W \in SUBSET A : c[W] = d[W]
<1> DEFINE C == {W \in SUBSET A : c[W] # d[W]}
<1> SUFFICES ASSUME C # {} PROVE FALSE
  OBVIOUS
<1>0. IsFiniteSet(A)
  BY GroupsAreFinite, FS_Subset
<1>1. PICK W \in C : \A V \in C : V \subseteq W => V = W
  <2>1. C \in SUBSET (SUBSET A)
    OBVIOUS
  <2> HIDE DEF C
  <2> QED
    BY <2>1, <1>0, MinimalPart
<1>2. W \in SUBSET A /\ W \in SUBSET B /\ W \in SUBSET groups /\ c[W] # d[W]
  OBVIOUS
<1>3. CASE W = {}
  BY <1>2, <1>3, ChosenStep
<1>4. CASE W # {}
  <2> DEFINE V == W \ {LastGroup(W)}
  <2>1. V \subseteq W /\ V # W
    BY <1>2, <1>4, LastIsIn
  <2>2. c[V] = d[V]
    BY <1>1, <1>2, <2>1
  <2>3. c[W] = With(c[V], LastGroup(W), count)
    <3>1. c = [T \in SUBSET A |-> IF T = {} THEN {} ELSE With(c[T \ {LastGroup(T)}], LastGroup(T), count)]
      BY DEF IsChosen
    <3> QED
      BY <3>1, <1>2, <1>4
  <2>4. d[W] = With(d[V], LastGroup(W), count)
    <3>1. d = [T \in SUBSET B |-> IF T = {} THEN {} ELSE With(d[T \ {LastGroup(T)}], LastGroup(T), count)]
      BY DEF IsChosen
    <3> QED
      BY <3>1, <1>2, <1>4
  <2> QED
    BY <1>2, <2>2, <2>3, <2>4
<1> QED
  BY <1>3, <1>4

\* There is such a function.
LEMMA ChosenExists ==
  ASSUME NEW ids \in SUBSET Nat, IsFiniteSet(ids), NEW groups, Partition(groups, ids), NEW count,
         NEW S \in SUBSET groups
  PROVE  \E c : IsChosen(S, count, c)
<1> DEFINE C == {U \in SUBSET groups : ~ \E c : IsChosen(U, count, c)}
<1> SUFFICES ASSUME C # {} PROVE FALSE
  OBVIOUS
<1>0. IsFiniteSet(groups)
  BY GroupsAreFinite
<1>1. PICK U \in C : \A W \in C : W \subseteq U => W = U
  <2>1. C \in SUBSET (SUBSET groups)
    OBVIOUS
  <2> HIDE DEF C
  <2> QED
    BY <2>1, <1>0, MinimalPart
<1> DEFINE h(W) == CHOOSE c : IsChosen(W, count, c)
           g == [T \in SUBSET U |-> IF T = {} THEN {} ELSE
                     With(h(T \ {LastGroup(T)})[T \ {LastGroup(T)}], LastGroup(T), count)]
<1>2. ASSUME NEW W \in SUBSET U, W # U
      PROVE  IsChosen(W, count, h(W))
  <2>1. \E c : IsChosen(W, count, c)
    BY <1>1, <1>2
  <2> QED
    BY <2>1
<1>3. U \in SUBSET groups
  OBVIOUS
<1>4. ASSUME NEW W \in SUBSET U, W # {}
      PROVE  W \ {LastGroup(W)} \in SUBSET U /\ W \ {LastGroup(W)} # U /\ W \ {LastGroup(W)} \subseteq W
             /\ W \ {LastGroup(W)} # W
  <2>1. W \in SUBSET groups
    BY <1>3
  <2>2. LastGroup(W) \in W
    BY <2>1, <1>4, LastIsIn
  <2> QED
    BY <2>2
<1>5. ASSUME NEW W \in SUBSET U, W # U
      PROVE  g[W] = h(W)[W]
  <2>1. IsChosen(W, count, h(W))
    BY <1>2, <1>5
  <2>2. CASE W = {}
    <3>1. h(W)[W] = {}
      BY <2>1, <2>2, ChosenStep
    <3> QED
      BY <3>1, <2>2
  <2>3. CASE W # {}
    <3> DEFINE V == W \ {LastGroup(W)}
    <3>1. V \in SUBSET U /\ V # U /\ V \subseteq W
      BY <1>4, <2>3
    <3> HIDE DEF h
    <3>2. h(W)[W] = With(h(W)[V], LastGroup(W), count)
      BY <2>1, <2>3, ChosenStep
    <3>3. IsChosen(V, count, h(V))
      BY <3>1, <1>2
    <3>4. V \in SUBSET groups /\ W \in SUBSET groups
      BY <3>1, <1>3
    <3>5. h(V)[V] = h(W)[V]
      BY <3>1, <3>3, <3>4, <2>1, ChosenAgree
    <3>6. g[W] = With(h(V)[V], LastGroup(W), count)
      BY <2>3
    <3> QED
      BY <3>2, <3>5, <3>6
  <2> QED
    BY <2>2, <2>3
<1>6. ASSUME NEW T \in SUBSET U, T # {}
      PROVE  g[T] = With(g[T \ {LastGroup(T)}], LastGroup(T), count)
  <2> DEFINE V == T \ {LastGroup(T)}
  <2>1. V \in SUBSET U /\ V # U
    BY <1>4, <1>6
  <2>2. g[V] = h(V)[V]
    BY <2>1, <1>5
  <2> HIDE DEF h
  <2>3. g[T] = With(h(V)[V], LastGroup(T), count)
    BY <1>6
  <2> QED
    BY <2>2, <2>3
<1>7. /\ g = [T \in SUBSET U |-> g[T]]
      /\ {} \in SUBSET U /\ g[{}] = {}
  OBVIOUS
<1> HIDE DEF g
<1>8. IsChosen(U, count, g)
  <2>1. [T \in SUBSET U |-> g[T]] =
          [T \in SUBSET U |-> IF T = {} THEN {} ELSE With(g[T \ {LastGroup(T)}], LastGroup(T), count)]
    BY <1>6, <1>7
  <2> QED
    BY <2>1, <1>7 DEF IsChosen
<1> QED
  BY <1>8

\* What fits: some of the groups, and either all of them or, when they have one
\* size, as many as there is room for.
LEMMA FittingFits ==
  ASSUME NEW ids \in SUBSET Nat, IsFiniteSet(ids), NEW groups, Partition(groups, ids), NEW count \in Nat,
         NEW S \in SUBSET groups
  PROVE  /\ \E Q \in SUBSET S : Fitting(S, count) = UNION Q
         /\ IsFiniteSet(Fitting(S, count)) /\ Cardinality(Fitting(S, count)) <= count
         /\ \A s \in Nat : (\A G \in S : Cardinality(G) = s) =>
              Fitting(S, count) = UNION S \/ Cardinality(Fitting(S, count)) + s > count
<1> DEFINE c == CHOOSE d : IsChosen(S, count, d)
           Good(T) ==
             /\ \E Q \in SUBSET T : c[T] = UNION Q
             /\ Cardinality(c[T]) <= count
             /\ \A s \in Nat : (\A G \in S : Cardinality(G) = s) => c[T] = UNION T \/ Cardinality(c[T]) + s > count
           C == {T \in SUBSET S : ~ Good(T)}
<1>1. IsChosen(S, count, c)
  BY ChosenExists
<1>2. Fitting(S, count) = c[S]
  BY FittingIs
<1> HIDE DEF c
<1>3. /\ IsFiniteSet(S) /\ \A G \in S : IsFiniteSet(G) /\ Cardinality(G) \in Nat
      /\ \A Q \in SUBSET S : IsFiniteSet(UNION Q) /\ Cardinality(UNION Q) \in Nat
  <2>1. IsFiniteSet(S) /\ \A G \in S : IsFiniteSet(G) /\ Cardinality(G) \in Nat
    BY GroupsAreFinite, FS_Subset
  <2>2. ASSUME NEW Q \in SUBSET S
        PROVE  IsFiniteSet(UNION Q) /\ Cardinality(UNION Q) \in Nat
    <3>1. IsFiniteSet(Q)
      BY <2>1, FS_Subset
    <3>2. \A G \in Q : IsFiniteSet(G)
      BY <2>1
    <3>3. IsFiniteSet(UNION Q)
      BY <3>1, <3>2, FS_UNION
    <3> QED
      BY <3>3, FS_CardinalityType
  <2> QED
    BY <2>1, <2>2
<1>4. C = {}
  <2> SUFFICES ASSUME C # {} PROVE FALSE
    OBVIOUS
  <2>1. PICK T \in C : \A V \in C : V \subseteq T => V = T
    <3>1. C \in SUBSET (SUBSET S)
      OBVIOUS
    <3> HIDE DEF C
    <3> QED
      BY <3>1, <1>3, MinimalPart
  <2>2. T \in SUBSET S /\ T \in SUBSET groups /\ ~ Good(T)
    OBVIOUS
  <2>3. CASE T = {}
    <3>1. c[T] = {} /\ UNION T = {} /\ Cardinality({}) = 0
      BY <1>1, <2>2, <2>3, ChosenStep, FS_EmptySet
    <3>2. Good(T)
      BY <3>1
    <3> QED
      BY <2>2, <3>2
  <2>4. CASE T # {}
    <3> DEFINE L == LastGroup(T)
               V == T \ {L}
    <3>1. L \in T /\ V \subseteq T /\ V # T /\ V \in SUBSET S
      BY <2>2, <2>4, LastIsIn
    <3>2. Good(V)
      <4>1. V \notin C
        <5> HIDE DEF C, V
        <5> QED
          BY <2>1, <3>1
      <4> QED
        BY <4>1, <3>1
    <3>3. PICK Q \in SUBSET V : c[V] = UNION Q
      BY <3>2
    <3>4. c[T] = With(c[V], L, count)
      BY <1>1, <2>2, <2>4, ChosenStep
    <3>5. L \in S /\ Q \in SUBSET S
      BY <2>2, <3>1
    <3>6. IsFiniteSet(c[V]) /\ Cardinality(c[V]) \in Nat /\ IsFiniteSet(L) /\ Cardinality(L) \in Nat
      BY <1>3, <3>3, <3>5
    <3>7. c[V] \cap L = {}
      <4>1. \A H \in Q : H \cap L = {}
        BY <2>2, <3>1 DEF Partition
      <4> QED
        BY <4>1, <3>3
    <3>8. Cardinality(c[V] \cup L) = Cardinality(c[V]) + Cardinality(L)
      <4>1. Cardinality(c[V] \cup L) = Cardinality(c[V]) + Cardinality(L) - Cardinality({})
        BY <3>6, <3>7, FS_Union
      <4>2. Cardinality({}) = 0
        BY FS_EmptySet
      <4> HIDE DEF L, V
      <4> QED
        BY <4>1, <4>2, <3>6
    <3>9. CASE Cardinality(c[V]) + Cardinality(L) <= count
      <4>1. c[T] = c[V] \cup L
        BY <3>4, <3>9 DEF With
      <4>2. c[T] = UNION (Q \cup {L}) /\ Q \cup {L} \in SUBSET T
        BY <4>1, <3>1, <3>3
      <4>3. Cardinality(c[T]) <= count
        BY <4>1, <3>8, <3>9
      <4>4. ASSUME NEW s \in Nat, \A G \in S : Cardinality(G) = s
            PROVE  c[T] = UNION T
        <5>1. ~ (Cardinality(c[V]) + s > count)
          <6>1. Cardinality(L) = s
            BY <3>5, <4>4
          <6> HIDE DEF L, V
          <6> QED
            BY <6>1, <3>6, <3>9
        <5>2. c[V] = UNION V
          BY <3>2, <4>4, <5>1
        <5>3. UNION T = (UNION V) \cup L
          BY <3>1
        <5> QED
          BY <4>1, <5>2, <5>3
      <4>5. Good(T)
        BY <4>2, <4>3, <4>4
      <4> QED
        BY <2>2, <4>5
    <3>10. CASE ~ (Cardinality(c[V]) + Cardinality(L) <= count)
      <4>1. c[T] = c[V]
        BY <3>4, <3>10 DEF With
      <4>2. Q \in SUBSET T /\ c[T] = UNION Q
        BY <4>1, <3>1, <3>3
      <4>3. Cardinality(c[T]) <= count
        BY <4>1, <3>2
      <4>4. ASSUME NEW s \in Nat, \A G \in S : Cardinality(G) = s
            PROVE  Cardinality(c[T]) + s > count
        <5>1. Cardinality(L) = s
          BY <3>5, <4>4
        <5> HIDE DEF L, V
        <5> QED
          BY <5>1, <4>1, <3>6, <3>10
      <4>5. Good(T)
        BY <4>2, <4>3, <4>4
      <4> QED
        BY <2>2, <4>5
    <3> QED
      BY <3>9, <3>10
  <2> QED
    BY <2>3, <2>4
<1>5. Good(S)
  BY <1>4
<1>6. IsFiniteSet(c[S])
  BY <1>3, <1>5
<1> QED
  BY <1>2, <1>5, <1>6

-----------------------------------------------------------------------------
(* The choice of GPUs: what is selected.                                   *)

Whole(available, groups) == {G \in groups : G \subseteq available}
Some(available, groups, count) ==
    LET fits == Fitting(Whole(available, groups), count)
    IN  fits \cup First(available \ UNION Whole(available, groups), count - Cardinality(fits))
Trivial(groups) == Cardinality(groups) <= 1 \/ \A G \in groups : Cardinality(G) = 1

\* The three ways Select may go.
LEMMA SelectIs ==
  ASSUME NEW available, NEW groups, NEW count
  PROVE  Select(available, groups, count) =
           IF Cardinality(available) < count THEN {}
           ELSE IF Trivial(groups) THEN First(available, count)
           ELSE Some(available, groups, count) \cup
                First(available \ Some(available, groups, count), count - Cardinality(Some(available, groups, count)))
BY DEF Select, Trivial, Some, Whole

\* What is taken before a free group is broken: the groups that fit, and as many
\* of the orphans as there is room for.
SomeFit(available, groups, count) ==
         LET whole   == Whole(available, groups)
             fits    == Fitting(whole, count)
             orphans == available \ UNION whole
             some    == Some(available, groups, count)
         IN  /\ whole \in SUBSET groups /\ UNION whole \subseteq available
             /\ fits \subseteq UNION whole /\ fits \subseteq some /\ some \subseteq available
             /\ some \ fits \subseteq orphans
             /\ IsFiniteSet(fits) /\ Cardinality(fits) \in Nat /\ Cardinality(fits) <= count
             /\ IsFiniteSet(orphans) /\ Cardinality(orphans) \in Nat
             /\ IsFiniteSet(some) /\ Cardinality(some) \in Nat
             /\ Cardinality(some) = IF Cardinality(orphans) < count - Cardinality(fits)
                                    THEN Cardinality(fits) + Cardinality(orphans) ELSE count
             /\ Cardinality(orphans) < count - Cardinality(fits) => some = fits \cup orphans

\* That is what the code takes first.
LEMMA SomeFits ==
  ASSUME NEW ids \in SUBSET Nat, IsFiniteSet(ids), NEW groups, Partition(groups, ids), NEW count \in Nat,
         NEW available \in SUBSET ids
  PROVE  SomeFit(available, groups, count)
<1> DEFINE whole   == Whole(available, groups)
           fits    == Fitting(whole, count)
           orphans == available \ UNION whole
           some    == Some(available, groups, count)
           n       == count - Cardinality(fits)
<1>1. whole \in SUBSET groups /\ UNION whole \subseteq available
  BY DEF Whole
<1>2. PICK Q \in SUBSET whole : fits = UNION Q
  BY <1>1, FittingFits
<1>3. IsFiniteSet(fits) /\ Cardinality(fits) <= count
  BY <1>1, FittingFits
<1>4. fits \subseteq UNION whole
  BY <1>2
<1>5. Cardinality(fits) \in Nat /\ n \in Nat
  BY <1>3, FS_CardinalityType
<1>6. orphans \in SUBSET Nat /\ orphans \in SUBSET ids
  OBVIOUS
<1>7. some = fits \cup First(orphans, n)
  BY DEF Some
<1> HIDE DEF orphans, some, fits, whole, n
<1>8. IsFiniteSet(orphans) /\ Cardinality(orphans) \in Nat
  BY <1>6, FS_Subset, FS_CardinalityType
<1>9. /\ First(orphans, n) \subseteq orphans /\ IsFiniteSet(First(orphans, n))
      /\ Cardinality(First(orphans, n)) = IF n < Cardinality(orphans) THEN n ELSE Cardinality(orphans)
  <2>1. n \in Int /\ (n <= 0 => n = 0)
    BY <1>5
  <2>2. /\ First(orphans, n) \subseteq orphans /\ IsFiniteSet(First(orphans, n))
        /\ Cardinality(First(orphans, n)) =
             IF n <= 0 THEN 0 ELSE IF n < Cardinality(orphans) THEN n ELSE Cardinality(orphans)
    BY <1>6, <1>8, <2>1, FirstTakes
  <2> QED
    BY <1>5, <1>8, <2>1, <2>2
<1>10. fits \cap First(orphans, n) = {}
  BY <1>4, <1>9 DEF orphans
<1>11. IsFiniteSet(some) /\ Cardinality(some) = Cardinality(fits) + Cardinality(First(orphans, n))
  <2>1. IsFiniteSet(some) /\ Cardinality(some) = Cardinality(fits) + Cardinality(First(orphans, n)) - Cardinality({})
    BY <1>3, <1>7, <1>9, <1>10, FS_Union
  <2>2. Cardinality({}) = 0 /\ Cardinality(First(orphans, n)) \in Nat
    BY <1>9, FS_EmptySet, FS_CardinalityType
  <2> QED
    BY <1>5, <2>1, <2>2
<1>12. Cardinality(some) = IF Cardinality(orphans) < n THEN Cardinality(fits) + Cardinality(orphans) ELSE count
  <2>1. Cardinality(fits) + n = count
    BY <1>5 DEF n
  <2> QED
    BY <1>5, <1>8, <1>9, <1>11, <2>1
<1>13. Cardinality(orphans) < n => some = fits \cup orphans
  <2>1. ASSUME Cardinality(orphans) < n
        PROVE  First(orphans, n) = orphans
    <3>1. Cardinality(First(orphans, n)) = Cardinality(orphans)
      BY <1>5, <1>8, <1>9, <2>1
    <3> QED
      BY <1>8, <1>9, <3>1, FS_Subset
  <2> QED
    BY <1>7, <2>1
<1>14. fits \subseteq some /\ some \subseteq available /\ some \ fits \subseteq orphans
  BY <1>1, <1>4, <1>7, <1>9 DEF orphans
<1> QED
  BY <1>1, <1>3, <1>4, <1>5, <1>8, <1>11, <1>12, <1>13, <1>14, FS_CardinalityType DEF n, orphans, some, fits, whole, SomeFit

\* As many GPUs as asked for, all free.
LEMMA SelectCounts ==
  ASSUME NEW ids \in SUBSET Nat, IsFiniteSet(ids), NEW groups, Partition(groups, ids), NEW count \in Nat,
         NEW available \in SUBSET ids
  PROVE  /\ Select(available, groups, count) \subseteq available
         /\ IsFiniteSet(Select(available, groups, count))
         /\ Cardinality(Select(available, groups, count)) = IF Cardinality(available) < count THEN 0 ELSE count
<1> DEFINE got == Select(available, groups, count)
<1>1. available \in SUBSET Nat /\ IsFiniteSet(available) /\ Cardinality(available) \in Nat
  BY FS_Subset, FS_CardinalityType
<1>2. CASE Cardinality(available) < count
  BY <1>2, SelectIs, FS_EmptySet
<1>3. CASE ~ (Cardinality(available) < count) /\ Trivial(groups)
  <2>1. got = First(available, count)
    BY <1>3, SelectIs
  <2>2. /\ First(available, count) \subseteq available /\ IsFiniteSet(First(available, count))
        /\ Cardinality(First(available, count)) =
             IF count <= 0 THEN 0 ELSE IF count < Cardinality(available) THEN count ELSE Cardinality(available)
    BY <1>1, FirstTakes
  <2> HIDE DEF got
  <2> QED
    BY <1>1, <1>3, <2>1, <2>2 DEF got
<1>4. CASE ~ (Cardinality(available) < count) /\ ~ Trivial(groups)
  <2> DEFINE some == Some(available, groups, count)
             rest == available \ some
             n == count - Cardinality(some)
  <2>1. got = some \cup First(rest, n)
    BY <1>4, SelectIs
  <2>2. some \subseteq available /\ IsFiniteSet(some) /\ Cardinality(some) \in Nat /\ Cardinality(some) <= count
    <3> DEFINE f == Cardinality(Fitting(Whole(available, groups), count))
               o == Cardinality(available \ UNION Whole(available, groups))
    <3>0. SomeFit(available, groups, count)
      BY SomeFits
    <3>1. /\ some \subseteq available /\ IsFiniteSet(some) /\ Cardinality(some) \in Nat
          /\ f \in Nat /\ o \in Nat /\ f <= count
          /\ Cardinality(some) = IF o < count - f THEN f + o ELSE count
      BY <3>0, Zenon DEF SomeFit
    <3> HIDE DEF some, f, o
    <3> QED
      BY <3>1
  <2>3. rest \in SUBSET Nat /\ some \cap rest = {} /\ some \cup rest = available
    BY <2>2
  <2> HIDE DEF rest, some, got
  <2>4. IsFiniteSet(rest) /\ Cardinality(rest) \in Nat /\ Cardinality(available) = Cardinality(some) + Cardinality(rest)
    <3>1. IsFiniteSet(rest)
      BY <1>1, <2>3, FS_Subset
    <3>2. Cardinality(available) = Cardinality(some) + Cardinality(rest) - Cardinality({})
      BY <2>2, <2>3, <3>1, FS_Union
    <3>3. Cardinality(rest) \in Nat /\ Cardinality({}) = 0
      BY <3>1, FS_CardinalityType, FS_EmptySet
    <3> QED
      BY <2>2, <3>1, <3>2, <3>3
  <2>5. n \in Int /\ n >= 0 /\ n <= Cardinality(rest) /\ n + Cardinality(some) = count
    BY <1>1, <1>4, <2>2, <2>4
  <2> HIDE DEF n
  <2>6. First(rest, n) \subseteq rest /\ IsFiniteSet(First(rest, n)) /\ Cardinality(First(rest, n)) = n
    <3>1. /\ First(rest, n) \subseteq rest /\ IsFiniteSet(First(rest, n))
          /\ Cardinality(First(rest, n)) =
               IF n <= 0 THEN 0 ELSE IF n < Cardinality(rest) THEN n ELSE Cardinality(rest)
      BY <2>3, <2>4, <2>5, FirstTakes
    <3> QED
      BY <2>4, <2>5, <3>1
  <2>7. IsFiniteSet(got) /\ Cardinality(got) = Cardinality(some) + n
    <3>1. some \cap First(rest, n) = {}
      BY <2>3, <2>6
    <3>2. IsFiniteSet(got) /\ Cardinality(got) = Cardinality(some) + n - Cardinality({})
      BY <2>1, <2>2, <2>6, <3>1, FS_Union
    <3>3. Cardinality({}) = 0
      BY FS_EmptySet
    <3> QED
      BY <2>2, <2>5, <3>2, <3>3
  <2>8. got \subseteq available
    BY <2>1, <2>3, <2>6
  <2> QED
    BY <1>4, <2>5, <2>7, <2>8, <2>2 DEF got
<1> QED
  BY <1>2, <1>3, <1>4

\* Multiples of s apart by less than s are the same.
LEMMA MultiplesApart ==
  ASSUME NEW s \in Nat, NEW a \in Nat, NEW k \in Nat, NEW r \in Nat, NEW o \in Nat,
         s * a + o = s * k + r, o < r, r < s
  PROVE  FALSE
<1>1. CASE a <= k
  <2>1. PICK d \in Nat : k = a + d
    <3>1. k - a \in Nat /\ k = a + (k - a)
      BY <1>1
    <3> QED
      BY <3>1
  <2>2. s * k = s * a + s * d /\ s * d \in Nat /\ s * a \in Nat
    BY <2>1
  <2> QED
    BY <2>2
<1>2. CASE k < a
  <2>1. PICK d \in Nat : a = k + 1 + d
    <3>1. a - k - 1 \in Nat /\ a = k + 1 + (a - k - 1)
      BY <1>2
    <3> QED
      BY <3>1
  <2>2. s * a = s * k + s + s * d /\ s * d \in Nat /\ s * k \in Nat
    BY <2>1
  <2> QED
    BY <2>2
<1> QED
  BY <1>1, <1>2

\* The free groups that a choice breaks.
Broken(available, groups, S) == {G \in Whole(available, groups) : G \cap S # {} /\ ~ G \subseteq S}

\* The number of them is a number, and none is zero.
LEMMA BrokenCounts ==
  ASSUME NEW ids, IsFiniteSet(ids), NEW groups, Partition(groups, ids), NEW available, NEW S
  PROVE  /\ IsFiniteSet(Broken(available, groups, S)) /\ Cardinality(Broken(available, groups, S)) \in Nat
         /\ Broken(available, groups, S) # {} => Cardinality(Broken(available, groups, S)) >= 1
         /\ Broken(available, groups, S) = {} => Cardinality(Broken(available, groups, S)) = 0
         /\ \A G : Broken(available, groups, S) \subseteq {G} => Cardinality(Broken(available, groups, S)) <= 1
<1> DEFINE B == Broken(available, groups, S)
<1>1. B \subseteq groups
  BY DEF Broken, Whole
<1> HIDE DEF B
<1>2. IsFiniteSet(B) /\ Cardinality(B) \in Nat
  BY <1>1, GroupsAreFinite, FS_Subset, FS_CardinalityType
<1>3. Cardinality(B) = 0 <=> B = {}
  BY <1>2, FS_EmptySet
<1>4. ASSUME NEW G, B \subseteq {G}
      PROVE  Cardinality(B) <= 1
  <2>1. IsFiniteSet({G}) /\ Cardinality({G}) = 1
    BY FS_Singleton
  <2> QED
    BY <2>1, <1>4, FS_Subset
<1> QED
  BY <1>2, <1>3, <1>4 DEF B

\* A choice that breaks no free group takes groups and orphans: as many GPUs as
\* some groups have, and no more than there are orphans.
Adjusted(available, groups, s, S) ==
  \E a, o \in Nat : /\ Cardinality(S) = s * a + o
                    /\ o <= Cardinality(available \ UNION Whole(available, groups))

\* It does so because a group that it touches is taken whole.
LEMMA UnbrokenCounts ==
  ASSUME NEW ids, IsFiniteSet(ids), NEW groups, Partition(groups, ids), NEW s \in Nat,
         Alike(groups, s), NEW available \in SUBSET ids,
         NEW S \in SUBSET available, Broken(available, groups, S) = {}
  PROVE  Adjusted(available, groups, s, S)
<1> DEFINE whole == Whole(available, groups)
           orphans == available \ UNION whole
           Q == {G \in whole : G \cap S # {}}
           P == S \ UNION whole
<1>1. whole \in SUBSET groups
  BY DEF Whole
<1>2. \A G \in Q : G \subseteq S
  BY DEF Broken
<1>3. S = (UNION Q) \cup P /\ (UNION Q) \cap P = {} /\ P \subseteq orphans
  BY <1>2
<1>4. Q \in SUBSET groups
  BY <1>1
<1>5. orphans \in SUBSET ids
  OBVIOUS
<1> HIDE DEF Q, P, orphans, whole
<1>6. IsFiniteSet(UNION Q) /\ Cardinality(Q) \in Nat /\ Cardinality(UNION Q) = s * Cardinality(Q)
  <2>1. Adds(Q, s)
    BY <1>4, UnionCounts
  <2> QED
    BY <2>1 DEF Adds
<1>7. IsFiniteSet(orphans)
  BY <1>5, FS_Subset
<1>8. IsFiniteSet(P) /\ Cardinality(P) <= Cardinality(orphans) /\ Cardinality(P) \in Nat
  BY <1>3, <1>7, FS_Subset, FS_CardinalityType
<1>9. Cardinality(S) = Cardinality(UNION Q) + Cardinality(P) - Cardinality({})
  BY <1>3, <1>6, <1>8, FS_Union
<1>10. Cardinality({}) = 0 /\ s * Cardinality(Q) \in Nat
  BY <1>6, FS_EmptySet
<1>11. Cardinality(S) = s * Cardinality(Q) + Cardinality(P)
  BY <1>6, <1>8, <1>9, <1>10
<1> QED
  BY <1>6, <1>8, <1>11 DEF orphans, whole, Adjusted

\* The only group is broken only if any choice of as many GPUs breaks it.
LEMMA OnlyGroup ==
  ASSUME NEW ids, IsFiniteSet(ids), NEW groups, Partition(groups, ids), Cardinality(groups) <= 1,
         NEW available \in SUBSET ids, NEW S \in SUBSET available, NEW T \in SUBSET available,
         Cardinality(S) = Cardinality(T)
  PROVE  Cardinality(Broken(available, groups, T)) <= Cardinality(Broken(available, groups, S))
<1>1. SUFFICES ASSUME Broken(available, groups, T) # {}
               PROVE  /\ Broken(available, groups, S) # {}
                      /\ \E G : Broken(available, groups, T) \subseteq {G}
  BY BrokenCounts
<1>2. PICK G \in Broken(available, groups, T) : TRUE
  BY <1>1
<1>3. G \in groups /\ G \subseteq available /\ G \cap T # {} /\ ~ G \subseteq T
  BY <1>2 DEF Broken, Whole
<1>4. groups = {G}
  <2>1. IsFiniteSet(groups) /\ Cardinality(groups) \in Nat /\ Cardinality(groups) # 0
    BY <1>3, GroupsAreFinite, FS_CardinalityType, FS_EmptySet
  <2>2. Cardinality(groups) = 1
    BY <2>1
  <2>3. \E x : groups = {x}
    BY <2>1, <2>2, FS_Singleton
  <2> QED
    BY <2>3, <1>3
<1>5. available = G
  BY <1>3, <1>4 DEF Partition
<1>6. IsFiniteSet(available) /\ IsFiniteSet(S) /\ IsFiniteSet(T)
  BY FS_Subset
<1>7. S # {}
  <2>1. Cardinality(T) # 0
    BY <1>3, <1>6, FS_EmptySet
  <2> QED
    BY <2>1, <1>6, FS_EmptySet
<1>8. S # G
  <2>1. ASSUME S = G
        PROVE  FALSE
    <3>1. Cardinality(T) = Cardinality(available)
      BY <2>1, <1>5
    <3>2. T = available
      BY <3>1, <1>6, FS_Subset
    <3> QED
      BY <3>2, <1>3, <1>5
  <2> QED
    BY <2>1
<1>9. G \in Broken(available, groups, S)
  BY <1>3, <1>5, <1>7, <1>8 DEF Broken, Whole
<1>10. Broken(available, groups, T) \subseteq {G}
  BY <1>4 DEF Broken, Whole
<1> QED
  BY <1>9, <1>10

\* What is left to take once all orphans are taken is taken from one group.
LEMMA RestFromOne ==
  ASSUME NEW ids \in SUBSET Nat, IsFiniteSet(ids), NEW groups, Partition(groups, ids), Regular(groups),
         NEW available \in SUBSET ids, NEW Q \in SUBSET Whole(available, groups),
         NEW rest, rest = (UNION Whole(available, groups)) \ UNION Q, rest # {},
         NEW s \in Nat, Alike(groups, s), NEW q \in Nat, 1 <= q, q < s
  PROVE  \E G \in Whole(available, groups) : First(rest, q) \subseteq G
<1> DEFINE whole == Whole(available, groups)
<1>0. \A x : x \in rest <=> x \in UNION whole /\ x \notin UNION Q
  OBVIOUS
<1>1. whole \subseteq groups
  BY DEF Whole
<1>2. rest \in SUBSET Nat /\ IsFiniteSet(rest)
  <2>1. rest \in SUBSET ids
    BY <1>1 DEF Partition
  <2>2. IsFiniteSet(rest)
    BY <2>1, FS_Subset
  <2> QED
    BY <2>1, <2>2
<1>3. PICK m \in rest : \A x \in rest : m <= x
  BY <1>2, LeastNat
<1>4. PICK G \in whole : m \in G
  OBVIOUS
<1>5. ASSUME NEW H \in whole, NEW x \in H, x \in rest
      PROVE  H \subseteq rest
  <2>0. x \notin UNION Q
    BY <1>0, <1>5
  <2>1. \A K \in Q : H # K /\ K \in groups /\ H \in groups
    BY <2>0, <1>1, <1>5
  <2>2. \A K \in Q : H \cap K = {}
    BY <2>1 DEF Partition
  <2>3. H \subseteq UNION whole
    OBVIOUS
  <2>4. H \cap UNION Q = {}
    BY <2>2
  <2> QED
    BY <1>0, <2>3, <2>4
<1>6. G \in SUBSET rest
  BY <1>4, <1>5
<1>7. G \in groups /\ Cardinality(G) = s
  BY <1>1, <1>4 DEF Alike
<1>8. q \in Int
  OBVIOUS
<1>9. CASE s <= 2
  <2>1. {m} \in SUBSET rest /\ Cardinality({m}) = 1 /\ q = 1
    BY <1>9, FS_Singleton
  <2>2. \A g \in {m}, h \in rest \ {m} : g < h
    BY <1>2, <1>3
  <2>3. First(rest, q) \subseteq {m}
    BY <1>2, <1>8, <2>1, <2>2, FirstOf
  <2> QED
    BY <2>3, <1>4
<1>10. CASE s > 2
  <2>1. ASSUME NEW g \in G, NEW h \in rest \ G
        PROVE  g < h
    <3>1. PICK H \in whole : h \in H
      OBVIOUS
    <3>2. H \in groups /\ G # H /\ Cardinality(G) > 2
      BY <1>1, <1>7, <1>10, <3>1
    <3>3. (\A a \in G, b \in H : a < b) \/ (\A a \in G, b \in H : b < a)
      BY <1>7, <3>2 DEF Regular
    <3>4. ~ (h < m)
      BY <1>2, <1>3, <2>1
    <3> QED
      BY <3>1, <3>3, <3>4, <1>4
  <2>2. q <= Cardinality(G)
    BY <1>7
  <2>3. First(rest, q) \subseteq G
    BY <1>2, <1>6, <1>8, <2>1, <2>2, FirstOf
  <2> QED
    BY <2>3
<1>11. s <= 2 \/ s > 2
  OBVIOUS
<1> QED
  BY <1>9, <1>10, <1>11

\* No choice of as many GPUs breaks fewer free groups.
LEMMA SelectSpares ==
  ASSUME NEW ids \in SUBSET Nat, IsFiniteSet(ids), NEW groups, Partition(groups, ids), Regular(groups),
         NEW count \in Nat, NEW available \in SUBSET ids, ~ (Cardinality(available) < count),
         NEW S \in SUBSET available, Cardinality(S) = count
  PROVE  Cardinality(Broken(available, groups, Select(available, groups, count)))
           <= Cardinality(Broken(available, groups, S))
<1> DEFINE got     == Select(available, groups, count)
           whole   == Whole(available, groups)
           fits    == Fitting(whole, count)
           orphans == available \ UNION whole
           some    == Some(available, groups, count)
           rest    == available \ some
           r       == count - Cardinality(fits)
           n       == count - Cardinality(some)
           Less(T) == Cardinality(Broken(available, groups, T)) <= Cardinality(Broken(available, groups, S))
<1>0. SUFFICES Less(got)
  OBVIOUS
<1>1. got \subseteq available /\ Cardinality(got) = count
  BY SelectCounts
<1>2. Broken(available, groups, got) = {} => Less(got)
  <2>1. /\ Cardinality(Broken(available, groups, S)) \in Nat
        /\ Broken(available, groups, got) = {} => Cardinality(Broken(available, groups, got)) = 0
    BY BrokenCounts
  <2> QED
    BY <2>1
<1>3. CASE Cardinality(groups) <= 1
  <2> HIDE DEF got
  <2>1. got \in SUBSET available /\ Cardinality(S) = Cardinality(got)
    BY <1>1
  <2> QED
    BY <2>1, <1>3, OnlyGroup
<1>4. CASE \A G \in groups : Cardinality(G) = 1
  <2>1. ASSUME NEW G \in Broken(available, groups, got)
        PROVE  FALSE
    <3>1. G \in groups /\ G \cap got # {} /\ ~ G \subseteq got
      BY <2>1 DEF Broken, Whole
    <3>2. IsFiniteSet(G) /\ Cardinality(G) = 1
      BY <1>4, <3>1, GroupsAreFinite
    <3>3. \E x : G = {x}
      BY <3>2, FS_Singleton
    <3> QED
      BY <3>1, <3>3
  <2> QED
    BY <1>2, <2>1
<1>5. CASE ~ Trivial(groups)
  <2>1. PICK s \in Nat : Alike(groups, s)
    <3>1. groups # {}
      <4>1. Cardinality({}) = 0
        BY FS_EmptySet
      <4> QED
        BY <4>1, <1>5 DEF Trivial
    <3>2. PICK G \in groups : TRUE
      BY <3>1
    <3>3. Cardinality(G) \in Nat
      BY GroupsAreFinite
    <3> QED
      BY <3>3 DEF Regular, Alike
  <2>2. SomeFit(available, groups, count)
    BY SomeFits
  <2>3. /\ whole \in SUBSET groups /\ UNION whole \subseteq available
        /\ fits \subseteq UNION whole /\ fits \subseteq some /\ some \subseteq available
        /\ some \ fits \subseteq orphans
        /\ IsFiniteSet(fits) /\ Cardinality(fits) \in Nat /\ Cardinality(fits) <= count
        /\ IsFiniteSet(orphans) /\ Cardinality(orphans) \in Nat
        /\ IsFiniteSet(some) /\ Cardinality(some) \in Nat
        /\ Cardinality(some) = IF Cardinality(orphans) < r THEN Cardinality(fits) + Cardinality(orphans) ELSE count
        /\ Cardinality(orphans) < r => some = fits \cup orphans
    BY <2>2, Zenon DEF SomeFit
  <2>4. PICK Q \in SUBSET whole : fits = UNION Q
    BY <2>3, FittingFits
  <2>5. fits = UNION whole \/ Cardinality(fits) + s > count
    <3>1. \A G \in whole : Cardinality(G) = s
      BY <2>1, <2>3 DEF Alike
    <3> QED
      BY <2>3, <3>1, FittingFits
  <2>6. got = some \cup First(rest, n)
    BY <1>5, SelectIs
  <2>7. \A G \in whole : G \cap fits # {} => G \subseteq fits
    <3>1. ASSUME NEW G \in whole, NEW x \in G \cap fits
          PROVE  G \subseteq fits
      <4>1. PICK H \in Q : x \in H
        BY <2>4, <3>1
      <4>2. G = H
        BY <2>3, <3>1, <4>1 DEF Partition
      <4> QED
        BY <2>4, <4>1, <4>2
    <3> QED
      BY <3>1
  <2>8. Broken(available, groups, got) = {G \in whole : G \cap got # {} /\ ~ G \subseteq got}
    BY DEF Broken
  <2> HIDE DEF got, whole, fits, some
  <2>9. CASE fits = UNION whole
    <3>1. \A G \in whole : G \subseteq got
      BY <2>3, <2>6, <2>9
    <3>2. Broken(available, groups, got) = {}
      BY <2>8, <3>1
    <3> QED
      BY <1>2, <3>2
  <2>10. CASE ~ (Cardinality(orphans) < r)
    <3>1. n = 0
      BY <2>3, <2>10
    <3>2. First(rest, n) = {}
      <4>1. rest \in SUBSET Nat /\ IsFiniteSet(rest)
        <5>1. rest \in SUBSET ids
          OBVIOUS
        <5> QED
          BY <5>1, FS_Subset
      <4>2. n \in Int /\ n <= 0
        BY <3>1
      <4> HIDE DEF rest, n
      <4>3. IsFiniteSet(First(rest, n)) /\ Cardinality(First(rest, n)) = 0
        BY <4>1, <4>2, FirstTakes
      <4> QED
        BY <4>3, FS_EmptySet
    <3>3. ASSUME NEW G \in whole, G \cap got # {}
          PROVE  G \subseteq got
      <4>1. got = some
        BY <2>6, <3>2
      <4>2. G \cap fits # {}
        BY <2>3, <3>3, <4>1
      <4> QED
        BY <2>3, <2>7, <4>1, <4>2
    <3>4. Broken(available, groups, got) = {}
      BY <2>8, <3>3
    <3> QED
      BY <1>2, <3>4
  <2>11. CASE Cardinality(orphans) < r /\ Cardinality(fits) + s > count
    <3>1. some = fits \cup orphans /\ Cardinality(some) = Cardinality(fits) + Cardinality(orphans)
      BY <2>3, <2>11
    <3>2. n \in Nat /\ 1 <= n /\ n < s /\ r \in Nat /\ r < s
      BY <2>3, <2>11, <3>1
    <3>3. rest = (UNION whole) \ UNION Q
      <4>1. rest = (UNION whole) \ fits
        BY <2>3, <3>1
      <4> QED
        BY <4>1, <2>4
    <3>4. rest # {}
      <4>1. ASSUME rest = {}
            PROVE  FALSE
        <5>1. available = some
          BY <2>3, <4>1
        <5>2. Cardinality(some) < count
          BY <2>3, <2>11, <3>1
        <5> QED
          BY <5>1, <5>2
      <4> QED
        BY <4>1
    <3>5. PICK G \in whole : First(rest, n) \subseteq G
      <4> HIDE DEF rest, n
      <4> QED
        BY <2>1, <2>4, <3>2, <3>3, <3>4, RestFromOne DEF whole
    <3>6. Broken(available, groups, got) \subseteq {G}
      <4>1. ASSUME NEW H \in whole, NEW x \in H, x \in got, ~ H \subseteq got
            PROVE  H = G
        <5>1. x \notin orphans
          BY <4>1
        <5>2. x \notin fits
          BY <2>3, <2>6, <2>7, <4>1
        <5>3. x \in G
          BY <2>6, <3>1, <3>5, <4>1, <5>1, <5>2
        <5> QED
          BY <2>3, <4>1, <5>3 DEF Partition
      <4> QED
        BY <2>8, <4>1
    <3>7. Broken(available, groups, S) # {}
      <4>1. ASSUME Broken(available, groups, S) = {}
            PROVE  FALSE
        <5>0. Adjusted(available, groups, s, S)
          BY <2>1, <4>1, UnbrokenCounts
        <5>1. PICK a \in Nat, o \in Nat : count = s * a + o /\ o <= Cardinality(orphans)
          BY <5>0 DEF Adjusted, whole
        <5>2. Adds(Q, s)
          <6>1. Q \in SUBSET groups
            BY <2>3, <2>4
          <6> QED
            BY <2>1, <6>1, UnionCounts
        <5>3. Cardinality(Q) \in Nat /\ Cardinality(fits) = s * Cardinality(Q)
          BY <2>4, <5>2 DEF Adds
        <5>4. s * a + o = s * Cardinality(Q) + r
          <6>1. count = Cardinality(fits) + r
            BY <2>3
          <6> HIDE DEF r
          <6> QED
            BY <5>1, <5>3, <6>1
        <5>5. o < r
          BY <2>3, <2>11, <3>2, <5>1
        <5> HIDE DEF r
        <5> QED
          BY <3>2, <5>3, <5>4, <5>5, MultiplesApart
      <4> QED
        BY <4>1
    <3>8. /\ Cardinality(Broken(available, groups, S)) \in Nat /\ Cardinality(Broken(available, groups, S)) >= 1
          /\ Cardinality(Broken(available, groups, got)) \in Nat /\ Cardinality(Broken(available, groups, got)) <= 1
      BY <3>6, <3>7, BrokenCounts
    <3> QED
      BY <3>8
  <2> QED
    BY <2>5, <2>9, <2>10, <2>11
<1> QED
  BY <1>3, <1>4, <1>5 DEF Trivial

-----------------------------------------------------------------------------
(* The choice of GPUs: the theorem.                                        *)

\* The last choice was made for what was read last.
Chosen == /\ host \in Hosts \cup {NoHost}
          /\ given = SufficientGpus(host.ids, host.free, host.links, host.count)

\* The loop keeps it so.
LEMMA SelectInvariant == SelectSpec => []Chosen
<1>1. SelectInit => Chosen
  <2> SUFFICES ASSUME SelectInit
               PROVE  Chosen
    OBVIOUS
  <2>1. host = NoHost /\ host.free = {} /\ host.count = 1 /\ given = {}
    BY DEF SelectInit, NoHost
  <2>2. Cardinality({}) < 1
    BY FS_EmptySet
  <2> QED
    BY <2>1, <2>2 DEF Chosen, SufficientGpus, Select
<1>2. Chosen /\ [SelectNext]_<<host, given>> => Chosen'
  BY DEF Chosen, SelectNext, CheckTrainer
<1> QED
  BY <1>1, <1>2, PTL DEF SelectSpec

\* Whatever the GPUs of a trainer and their links, a job gets
\* the number of GPUs it asks for when so many are free, and where the groups
\* are regular no other choice breaks fewer free groups.
THEOREM SelectionKeeps == SelectSpec => []SelectionKeepsGroups
<1>1. Chosen => SelectionKeepsGroups
  <2> SUFFICES ASSUME Chosen
               PROVE  SelectionKeepsGroups
    OBVIOUS
  <2> DEFINE groups == NvlinkGroups(host.ids, host.links)
  <2>1. /\ host.ids \in SUBSET Nat /\ IsFiniteSet(host.ids) /\ host.free \in SUBSET host.ids /\ host.count \in Nat
    <3>1. CASE host = NoHost
      BY <3>1, FS_EmptySet DEF NoHost
    <3>2. CASE host \in Hosts
      BY <3>2 DEF Hosts
    <3> QED
      BY <3>1, <3>2 DEF Chosen
  <2>2. Partition(groups, host.ids)
    BY GroupsDivide
  <2>3. given = Select(host.free, groups, host.count)
    BY DEF Chosen, SufficientGpus
  <2>4. \A T : Split(host, T) = Cardinality(Broken(host.free, groups, T))
    <3>1. ASSUME NEW T
          PROVE  {G \in groups : G \subseteq host.free /\ G \cap T # {} /\ ~ G \subseteq T} = Broken(host.free, groups, T)
      BY DEF Broken, Whole
    <3> QED
      BY <3>1 DEF Split
  <2> HIDE DEF groups
  <2>5. /\ given \subseteq host.free
        /\ Cardinality(given) = IF Cardinality(host.free) < host.count THEN 0 ELSE host.count
    BY <2>1, <2>2, <2>3, SelectCounts
  <2>6. ASSUME given # {}, Regular(groups), NEW S \in kSubset(host.count, host.free)
        PROVE  Split(host, given) <= Split(host, S)
    <3>1. S \in SUBSET host.free /\ Cardinality(S) = host.count
      BY <2>6 DEF kSubset
    <3>2. ~ (Cardinality(host.free) < host.count)
      BY <2>3, <2>6 DEF Select
    <3> QED
      BY <2>1, <2>2, <2>3, <2>4, <2>6, <3>1, <3>2, SelectSpares
  <2> QED
    BY <2>5, <2>6 DEF SelectionKeepsGroups, groups
<1> QED
  BY <1>1, SelectInvariant, PTL
=============================================================================
