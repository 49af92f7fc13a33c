---------------------------- MODULE OrganicTasks ----------------------------
(***************************************************************************)
(* Tasks of customers (organic tasks) with the backend "runpod", from      *)
(* PENDING to their end.  The lifecycle process prepares a task and        *)
(* assigns the burn hotkey to it; the dstack orchestrator gives it a row   *)
(* of the training table, submits runs to a cloud and watches them; the    *)
(* lifecycle process then seeds and evaluates it, which TaskEvaluation     *)
(* shows in detail.  The two processes share the database and nothing      *)
(* else; in each, every await lets the other coroutines run.  A request or *)
(* statement may fail, and a process may die, MaxFaults times in all.      *)
(***************************************************************************)
EXTENDS Naturals, Sequences, FiniteSets

CONSTANTS
  Tasks,
  MaxPreps,     (* MAX_CONCURRENT_TASK_PREPS                               *)
  MaxAssigns,   (* MAX_CONCURRENT_MINER_ASSIGNMENTS                        *)
  MaxDelays,    (* MAX_DELAY_TIMES                                         *)
  MaxAttempts,  (* DSTACK_MAX_RETRIES + 1                                  *)
  MaxFaults     (* bound: failed requests, failed statements, restarts     *)

ASSUME OrganicAssumption ==
  /\ IsFiniteSet(Tasks)
  /\ MaxPreps \in Nat \ {0} /\ MaxAssigns \in Nat \ {0}
  /\ MaxDelays \in Nat /\ MaxAttempts \in Nat /\ MaxFaults \in Nat

VARIABLES
  status,    (* tasks.status                                               *)
  delays,    (* times_delayed                                              *)
  row,       (* the row of the training table: status, attempts, runname   *)
  runs,      (* the runs the cloud has had for each task, in order; the    *)
             (* name of a run is its number                                *)
  phase,     (* process_pending_tasks: where its cycle is ...              *)
  work,      (* ... and the coroutine of each task of the present gather   *)
  fetch,     (* fetch_organic_tasks_ready_to_train, with its list          *)
  queue,     (* schedule_organic_tasks_for_dstack: the rows it has read    *)
  hand,      (* the row it is submitting                                   *)
  watch,     (* monitor_dstack_tasks: the rows it has read, the one in     *)
             (* hand and what dstack said of its run                       *)
  faults

lifecycle  == <<phase, work>>
dstack     == <<fetch, queue, hand, watch>>
organicVars == <<status, delays, row, runs, lifecycle, dstack, faults>>

Live      == {"provisioning", "running"}
RunStates == Live \cup {"done", "failed", "no offers"}
Decided   == {"success", "failure"}
PastTraining == {"preevaluation", "evaluating", "success", "failure"}
Ended     == {"success", "failure", "prep failure", "no nodes"}

NoTraining == [status |-> "none", attempts |-> 0, name |-> 0]
Idle    == [at |-> "idle", list |-> {}]
Free    == [at |-> "free", entry |-> <<>>]
Unwatched == [at |-> "ask", list |-> {}, entry |-> <<>>, says |-> "none"]

\* A row as get_tournament_training_tasks returns it: its task and the
\* attempts it has had.
Entry(t) == <<t, row[t].attempts>>
RowsIn(s) == {Entry(t) : t \in {t \in Tasks : row[t].status = s}}

TasksIn(s) == {t \in Tasks : status[t] = s}
Fault == faults < MaxFaults /\ faults' = faults + 1

\* The processes start with tasks that are new, ready, or long ended, and
\* some of the failures may be spent.
OrganicInit ==
  /\ status \in [Tasks -> {"pending", "ready", "prep failure"}] /\ delays = [t \in Tasks |-> 0]
  /\ row = [t \in Tasks |-> NoTraining] /\ runs = [t \in Tasks |-> <<>>]
  /\ phase = "prepare" /\ work = [t \in Tasks |-> "idle"]
  /\ fetch = Idle /\ queue = {} /\ hand = Free /\ watch = Unwatched
  /\ faults \in 0 .. MaxFaults

-----------------------------------------------------------------------------
(* process_pending_tasks: prepare, assign, take up again what was delayed. *)
(* Each part reads its tasks, starts a coroutine for at most so many of    *)
(* them, in no order, and waits for all.                                   *)

Gathered == \A t \in Tasks : work[t] = "idle"
Gather(S, step) == work' = [t \in Tasks |-> IF t \in S THEN step ELSE "idle"]
SomeOf(S, n) == {T \in SUBSET S : Cardinality(T) <= n /\ (T # S => Cardinality(T) = n)}

BeginPrepare ==
  /\ phase = "prepare" /\ Gathered
  /\ \E S \in SomeOf(TasksIn("pending"), MaxPreps) : Gather(S, "mark")
  /\ phase' = "assign"
  /\ UNCHANGED <<status, delays, row, runs, dstack, faults>>

BeginAssign ==
  /\ phase = "assign" /\ Gathered
  /\ \E S \in SomeOf(TasksIn("looking"), MaxAssigns) : Gather(S, "assign")
  /\ phase' = "resume"
  /\ UNCHANGED <<status, delays, row, runs, dstack, faults>>

\* The tasks whose next_delay_at has passed: any of those delayed.
BeginResume ==
  /\ phase = "resume" /\ Gathered
  /\ \E S \in SUBSET TasksIn("delayed") : Gather(S, "resume")
  /\ phase' = "prepare"
  /\ UNCHANGED <<status, delays, row, runs, dstack, faults>>

\* One coroutine writes the status and goes on, or is done.
Write(t, s, next) ==
  /\ status' = [status EXCEPT ![t] = s]
  /\ work' = [work EXCEPT ![t] = next]
  /\ UNCHANGED <<row, runs, phase, dstack, faults>>

\* _prep_task.  An organic task never waits for model preparation.
MarkPreparing(t) == work[t] = "mark" /\ Write(t, "preparing", "prepare") /\ UNCHANGED delays
StorePrepared(t) == work[t] = "prepare" /\ Write(t, "looking", "idle") /\ UNCHANGED delays
PrepFails(t) == work[t] \in {"mark", "prepare"} /\ Write(t, "prep failure", "idle") /\ UNCHANGED delays

\* _find_and_select_miners_for_task: the burn hotkey is assigned and named,
\* unless something raises.
StoreAssigned(t) == work[t] = "assign" /\ Write(t, "ready", "idle") /\ UNCHANGED delays

\* _attempt_delay_task
AssignFails(t) ==
  /\ work[t] = "assign"
  /\ IF delays[t] >= MaxDelays
       THEN Write(t, "no nodes", "idle") /\ UNCHANGED delays
       ELSE Write(t, "delayed", "idle") /\ delays' = [delays EXCEPT ![t] = @ + 1]

Resume(t) == work[t] = "resume" /\ Write(t, "looking", "idle") /\ UNCHANGED delays

LifecycleNext ==
  \/ BeginPrepare \/ BeginAssign \/ BeginResume
  \/ \E t \in Tasks : \/ MarkPreparing(t) \/ StorePrepared(t) \/ PrepFails(t)
                      \/ StoreAssigned(t) \/ AssignFails(t) \/ Resume(t)

\* Mutant: what was in preparation is forgotten.
LifecycleForgets ==
  /\ Fault
  /\ phase' = "prepare" /\ work' = [t \in Tasks |-> "idle"]
  /\ UNCHANGED <<status, delays, row, runs, dstack>>

\* A new process first moves what was in preparation back to PENDING.
LifecycleRestarts ==
  /\ Fault
  /\ phase' = "prepare" /\ work' = [t \in Tasks |-> "idle"]
  /\ status' = [t \in Tasks |-> IF status[t] = "preparing" THEN "pending" ELSE status[t]]
  /\ UNCHANGED <<delays, row, runs, dstack>>

-----------------------------------------------------------------------------
(* fetch_organic_tasks_ready_to_train: rows for all, then each status.     *)

FetchReady ==
  /\ fetch = Idle /\ TasksIn("ready") # {}
  /\ fetch' = [at |-> "rows", list |-> TasksIn("ready")]
  /\ UNCHANGED <<status, delays, row, runs, lifecycle, queue, hand, watch, faults>>

InsertRows ==
  /\ fetch.at = "rows"
  /\ row' = [t \in Tasks |-> IF t \in fetch.list /\ row[t].status = "none"
                             THEN [row[t] EXCEPT !.status = "pending"] ELSE row[t]]
  /\ fetch' = [fetch EXCEPT !.at = "status"]
  /\ UNCHANGED <<status, delays, runs, lifecycle, queue, hand, watch, faults>>

MarkTraining(t) ==
  /\ fetch.at = "status" /\ t \in fetch.list
  /\ status' = [status EXCEPT ![t] = "training"]
  /\ fetch' = IF fetch.list = {t} THEN Idle ELSE [fetch EXCEPT !.list = @ \ {t}]
  /\ UNCHANGED <<delays, row, runs, lifecycle, queue, hand, watch, faults>>

\* A statement raises: the rest of the list waits for the next cycle.
FetchFails ==
  /\ fetch # Idle
  /\ Fault
  /\ fetch' = Idle
  /\ UNCHANGED <<status, delays, row, runs, lifecycle, queue, hand, watch>>

FetchNext == FetchReady \/ InsertRows \/ FetchFails \/ \E t \in Tasks : MarkTraining(t)

-----------------------------------------------------------------------------
(* process_pending_organic_tasks works off the rows it has read before it  *)
(* reads again.  A row that failed less than half an hour ago, or whose    *)
(* submission raises, goes to the other end of the list: the model leaves  *)
(* the order open, and nothing else happens to such a row.                 *)

FetchPending ==
  /\ queue = {} /\ RowsIn("pending") # {}
  /\ queue' = RowsIn("pending")
  /\ UNCHANGED <<status, delays, row, runs, lifecycle, fetch, hand, watch, faults>>

GiveUp(e) ==
  /\ hand = Free /\ e \in queue /\ e[2] >= MaxAttempts
  /\ row' = [row EXCEPT ![e[1]].status = "failure"]
  /\ queue' = queue \ {e}
  /\ UNCHANGED <<status, delays, runs, lifecycle, fetch, hand, watch, faults>>

Submitted(t) == runs' = [runs EXCEPT ![t] = Append(@, "provisioning")]

Submit(e) ==
  /\ hand = Free /\ e \in queue /\ e[2] < MaxAttempts
  /\ Submitted(e[1])
  /\ hand' = [at |-> "submitted", entry |-> e]
  /\ UNCHANGED <<status, delays, row, lifecycle, fetch, queue, watch, faults>>

\* dstack has the run, but its answer is lost.
SubmitAnswerLost(e) ==
  /\ hand = Free /\ e \in queue /\ e[2] < MaxAttempts
  /\ Fault
  /\ Submitted(e[1])
  /\ UNCHANGED <<status, delays, row, lifecycle, fetch, queue, hand, watch>>

RecordName ==
  /\ hand.at = "submitted"
  /\ row' = [row EXCEPT ![hand.entry[1]].name = Len(runs[hand.entry[1]])]
  /\ hand' = [hand EXCEPT !.at = "named"]
  /\ UNCHANGED <<status, delays, runs, lifecycle, fetch, queue, watch, faults>>

\* Mutant: the attempt is not counted.
RecordStartUncounted ==
  /\ hand.at = "named"
  /\ row' = [row EXCEPT ![hand.entry[1]].status = "training"]
  /\ queue' = queue \ {hand.entry} /\ hand' = Free
  /\ UNCHANGED <<status, delays, runs, lifecycle, fetch, watch, faults>>

RecordStart ==
  /\ hand.at = "named"
  /\ row' = [row EXCEPT ![hand.entry[1]] = [status |-> "training", attempts |-> @.attempts + 1, name |-> @.name]]
  /\ queue' = queue \ {hand.entry} /\ hand' = Free
  /\ UNCHANGED <<status, delays, runs, lifecycle, fetch, watch, faults>>

\* One of the two statements raises: the row stays in the list, and the run
\* it belongs to is submitted once more.
RecordFails ==
  /\ hand # Free
  /\ Fault
  /\ hand' = Free
  /\ UNCHANGED <<status, delays, row, runs, lifecycle, fetch, queue, watch>>

ScheduleNext ==
  \/ FetchPending \/ RecordName \/ RecordStart \/ RecordFails
  \/ \E e \in queue : GiveUp(e) \/ Submit(e) \/ SubmitAnswerLost(e)

-----------------------------------------------------------------------------
(* monitor_dstack_tasks: one row after the other; the row first, then the  *)
(* status of its task.                                                     *)

FetchWatched ==
  /\ watch = Unwatched /\ RowsIn("training") # {}
  /\ watch' = [watch EXCEPT !.list = RowsIn("training")]
  /\ UNCHANGED <<status, delays, row, runs, lifecycle, fetch, queue, hand, faults>>

\* A run that is still live is left alone.
Ask(e) ==
  /\ watch.at = "ask" /\ e \in watch.list
  /\ LET says == runs[e[1]][row[e[1]].name]
     IN  watch' = IF says \in Live THEN [watch EXCEPT !.list = @ \ {e}]
                  ELSE [at |-> "row", list |-> watch.list \ {e}, entry |-> e, says |-> says]
  /\ UNCHANGED <<status, delays, row, runs, lifecycle, fetch, queue, hand, faults>>

AskFails(e) ==
  /\ watch.at = "ask" /\ e \in watch.list
  /\ Fault
  /\ watch' = [watch EXCEPT !.list = @ \ {e}]
  /\ UNCHANGED <<status, delays, row, runs, lifecycle, fetch, queue, hand>>

NextWatched == watch' = [Unwatched EXCEPT !.list = watch.list]

Outcome(says, attempts) ==
  IF says = "done" THEN "success"
  ELSE IF attempts >= MaxAttempts /\ says # "no offers" THEN "failure" ELSE "pending"

WriteRow ==
  /\ watch.at = "row"
  /\ LET t == watch.entry[1]
         s == Outcome(watch.says, watch.entry[2])
     IN  /\ row' = [row EXCEPT ![t].status = s]
         /\ IF s = "pending" THEN NextWatched ELSE watch' = [watch EXCEPT !.at = "task"]
  /\ UNCHANGED <<status, delays, runs, lifecycle, fetch, queue, hand, faults>>

WriteTask ==
  /\ watch.at = "task"
  /\ status' = [status EXCEPT ![watch.entry[1]] = IF watch.says = "done" THEN "preevaluation" ELSE "failure"]
  /\ NextWatched
  /\ UNCHANGED <<delays, row, runs, lifecycle, fetch, queue, hand, faults>>

\* One of the two statements raises.
WriteFails ==
  /\ watch.at \in {"row", "task"}
  /\ Fault
  /\ NextWatched
  /\ UNCHANGED <<status, delays, row, runs, lifecycle, fetch, queue, hand>>

MonitorNext == FetchWatched \/ WriteRow \/ WriteTask \/ WriteFails \/ \E e \in watch.list : Ask(e) \/ AskFails(e)

DstackRestarts ==
  /\ Fault
  /\ fetch' = Idle /\ queue' = {} /\ hand' = Free /\ watch' = Unwatched
  /\ UNCHANGED <<status, delays, row, runs, lifecycle>>

-----------------------------------------------------------------------------
(* The cloud, and the evaluation                                           *)

Turns(t, from, to) ==
  \E i \in DOMAIN runs[t] :
    /\ runs[t][i] = from
    /\ \E s \in to : runs' = [runs EXCEPT ![t][i] = s]
    /\ UNCHANGED <<status, delays, row, lifecycle, dstack, faults>>

RunStarts(t) == Turns(t, "provisioning", {"running", "no offers"})
RunEnds(t) == Turns(t, "running", {"done", "failed"})

\* Mutant: an organic task in TRAINING is seeded whatever its row says.
SeedableEarly(t) == status[t] \in {"preevaluation", "training"}

Seedable(t) ==
  \/ status[t] = "preevaluation"
  \/ status[t] = "training" /\ row[t].status \notin {"pending", "training"}

Seed(t) ==
  /\ Seedable(t)
  /\ status' = [status EXCEPT ![t] = "evaluating"]
  /\ UNCHANGED <<delays, row, runs, lifecycle, dstack, faults>>

\* The verdict of TaskEvaluation: a task that was not trained has failed.
Finish(t) ==
  /\ status[t] = "evaluating" /\ row[t].status \in Decided
  /\ \E s \in IF row[t].status = "success" THEN Decided ELSE {"failure"} : status' = [status EXCEPT ![t] = s]
  /\ UNCHANGED <<delays, row, runs, lifecycle, dstack, faults>>

OrganicNext ==
  \/ LifecycleNext \/ LifecycleRestarts
  \/ FetchNext \/ ScheduleNext \/ MonitorNext \/ DstackRestarts
  \/ \E t \in Tasks : RunStarts(t) \/ RunEnds(t) \/ Seed(t) \/ Finish(t)

(***************************************************************************)
(* The loops of both processes go round for ever and every run ends        *)
(* (max_duration).  Strong fairness where a turn may be missed: a delayed  *)
(* task is taken up once its delay is over, and the list of rows rotates   *)
(* until the half hour of a row is over or dstack takes it.                *)
(***************************************************************************)
OrganicFairness ==
  /\ WF_organicVars(BeginPrepare) /\ WF_organicVars(BeginAssign) /\ WF_organicVars(BeginResume)
  /\ \A t \in Tasks :
       /\ WF_organicVars(MarkPreparing(t)) /\ WF_organicVars(StorePrepared(t) \/ PrepFails(t))
       /\ WF_organicVars(StoreAssigned(t) \/ AssignFails(t)) /\ WF_organicVars(Resume(t))
       /\ SF_organicVars(BeginResume /\ work'[t] = "resume")
       /\ WF_organicVars(MarkTraining(t))
       /\ SF_organicVars(\E e \in queue : e[1] = t /\ (GiveUp(e) \/ Submit(e)))
       /\ WF_organicVars(RunStarts(t)) /\ WF_organicVars(RunEnds(t))
       /\ WF_organicVars(Seed(t)) /\ WF_organicVars(Finish(t))
  /\ WF_organicVars(FetchReady) /\ WF_organicVars(InsertRows)
  /\ WF_organicVars(FetchPending) /\ WF_organicVars(RecordName) /\ WF_organicVars(RecordStart)
  /\ WF_organicVars(FetchWatched) /\ WF_organicVars(\E e \in watch.list : Ask(e))
  /\ WF_organicVars(WriteRow) /\ WF_organicVars(WriteTask)

OrganicSpec == OrganicInit /\ [][OrganicNext]_organicVars /\ OrganicFairness

-----------------------------------------------------------------------------
(* Properties                                                              *)

Entries == Tasks \X Nat

Statuses == {"pending", "preparing", "looking", "delayed", "ready", "training"} \cup PastTraining \cup Ended
TrainingRows == [status : {"none", "pending", "training"} \cup Decided, attempts : Nat, name : Nat]

OrganicTypeOK ==
  /\ status \in [Tasks -> Statuses]
  /\ delays \in [Tasks -> Nat]
  /\ row \in [Tasks -> TrainingRows]
  /\ runs \in [Tasks -> Seq(RunStates)]
  /\ phase \in {"prepare", "assign", "resume"}
  /\ work \in [Tasks -> {"idle", "mark", "prepare", "assign", "resume"}]
  /\ fetch \in [at : {"idle", "rows", "status"}, list : SUBSET Tasks]
  /\ queue \in SUBSET Entries
  /\ hand = Free \/ hand \in [at : {"submitted", "named"}, entry : Entries]
  /\ \/ watch \in [at : {"ask"}, list : SUBSET Entries, entry : {<<>>}, says : {"none"}]
     \/ watch \in [at : {"row", "task"}, list : SUBSET Entries, entry : Entries, says : {"done", "failed", "no offers"}]
  /\ faults \in Nat

LiveRuns(t) == {i \in DOMAIN runs[t] : runs[t][i] \in Live}

\* However the two processes, the cloud and the failures interleave, a task
\* never costs more runs than its attempts and one more for each failure, and
\* so many of them at most run at once: a run whose submission, name or start
\* was lost is the only one nobody watches.
RunsAreAccounted ==
  \A t \in Tasks : /\ Len(runs[t]) <= MaxAttempts + faults
                   /\ Cardinality(LiveRuns(t)) <= 1 + faults

\* A task is evaluated only when its row is decided, it succeeds only when it
\* was trained, and it counts as trained only when the very run its row names
\* is done: no verdict of an earlier run is ever written for a later one.
VerdictsHaveRuns ==
  \A t \in Tasks :
    /\ status[t] \in PastTraining => row[t].status \in Decided
    /\ status[t] = "success" => row[t].status = "success"
    /\ row[t].status = "success" => runs[t][row[t].name] = "done"

\* Every task comes to an end and stays there, whichever process died with it
\* in hand and however often the cloud had no machine.
EventuallyFinished == \A t \in Tasks : <>[](status[t] \in Ended)
=============================================================================
