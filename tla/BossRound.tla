----------------------------- MODULE BossRound -----------------------------
(***************************************************************************)
(* The final round of a text tournament: one challenger against the        *)
(* defending champion (the boss), from the first creation of its tasks to  *)
(* the winner on the tournament row (tournament/tournament_manager.py,     *)
(* task_creator.py, round_results.py).                                     *)
(*                                                                         *)
(* One process runs both loops that touch a round: process_pending_rounds  *)
(* takes it while it is PENDING (create what is missing, assign nodes),    *)
(* process_active_tournaments while it is ACTIVE or COMPLETED (replace     *)
(* what failed in preparation, then judge).  The status keeps the loops    *)
(* apart, so one "runner" stands for both.  Each of its steps ends at an   *)
(* await after a commit; the process may die between any two of them, and  *)
(* tasks are prepared, trained and scored by other processes meanwhile.    *)
(*                                                                         *)
(* A task that separates the two models by nothing is a draw.  Draws are   *)
(* left out of the tally and earn the round one batch of decider tasks.    *)
(***************************************************************************)
EXTENDS Naturals, FiniteSets

CONSTANTS
  Types,            (* ordinary task types of the round                    *)
  Lineages,         (* continuous-SFT lineages, one task each              *)
  Target,           (* tasks of each kind that the round is built with     *)
  Paired,           (* types judged example by example, which can draw     *)
  Instruct,         (* the type that stands in for a drawn lineage         *)
  MaxPrepFailures,  (* bound: tasks that fail in preparation               *)
  MaxFailures,      (* bound: tasks that fail after it                     *)
  MaxSkips,         (* bound: creations that fail                          *)
  MaxCrashes        (* bound: deaths of the process                        *)

Kinds == Types \cup Lineages

\* FINAL_ROUND_TEXT_TASKS: one slot per task that the round is built with.
Slots    == UNION {{k} \X (1..Target[k]) : k \in Kinds}
Expected == Cardinality(Slots)

ASSUME BossAssumption ==
  /\ IsFiniteSet(Kinds) /\ Types \cap Lineages = {}
  /\ Paired \subseteq Types /\ Instruct \in Paired
  /\ Target \in [Kinds -> Nat] /\ \A l \in Lineages : Target[l] = 1
  /\ MaxPrepFailures \in Nat /\ MaxFailures \in Nat
  /\ MaxSkips \in Nat /\ MaxCrashes \in Nat

VARIABLES
  status,      (* of the round: pending, active, completed                 *)
  tasks,       (* the round's rows in tournament_tasks, by order of birth  *)
  made,        (* tasks created so far; the last one's number              *)
  runner,      (* what the process has in memory                           *)
  eliminated,  (* participants with eliminated_in_round_id                 *)
  winner,      (* winner_hotkey of the tournament                          *)
  marked,      (* lineages whose last_source_round_id is this round        *)
  advances,    (* history: how often train_index of a lineage advanced     *)
  batches,     (* history: decider batches added                           *)
  faults       (* how many of each bounded fault have happened             *)

chain == <<marked, advances>>
vars  == <<status, tasks, made, runner, eliminated, winner, chain, batches, faults>>

Sides    == {"boss", "challenger"}
Verdicts == {"boss", "challenger", "draw"}
Task     == [kind : Kinds, nodes : BOOLEAN,
             state : Verdicts \cup {"open", "prepfailed", "failed"}]
Fault    == {"prep", "failure", "skip", "crash"}
Nothing  == [k \in Kinds |-> 0]

\* left: what is still to be created; ids: the tasks of the current batch,
\* or those still to be carried forward.
Idle == [at |-> "idle", left |-> Nothing, ids |-> {}, of |-> 0, name |-> "none"]

Rows        == DOMAIN tasks
OfKind(k)   == {i \in Rows : tasks[i].kind = k}
InState(s)  == {i \in Rows : tasks[i].state = s}
Unassigned  == {i \in Rows : ~tasks[i].nodes}
Size        == Cardinality(Rows)

Register(k) == tasks' = [i \in Rows \cup {made + 1} |->
                 IF i \in Rows THEN tasks[i]
                               ELSE [kind |-> k, nodes |-> FALSE, state |-> "open"]]
Drop(S)     == tasks' = [i \in Rows \ S |-> tasks[i]]
Hit(f)      == faults' = [faults EXCEPT ![f] = @ + 1]

Init ==
  /\ status = "pending" /\ tasks = [i \in {} |-> 0] /\ made = 0
  /\ runner = Idle /\ eliminated = {} /\ winner = "none"
  /\ marked = {} /\ advances = [l \in Lineages |-> 0]
  /\ batches = 0 /\ faults = [f \in Fault |-> 0]

-----------------------------------------------------------------------------
(* process_pending_rounds                                                  *)

\* What a pass creates: nothing when the round already holds as many tasks
\* as it is built with; otherwise what is short of each kind.
Missing ==
  [k \in Kinds |-> LET has == Cardinality(OfKind(k))
                   IN  IF Size >= Expected \/ has >= Target[k] THEN 0 ELSE Target[k] - has]

BeginPass ==
  /\ status = "pending" /\ runner.at = "idle"
  /\ runner' = [Idle EXCEPT !.at = "create", !.left = Missing]
  /\ UNCHANGED <<status, tasks, made, eliminated, winner, chain, batches, faults>>

\* Ordinary types come first, the lineages last.
Due(k) == runner.left[k] > 0 /\ (k \in Lineages => \A t \in Types : runner.left[t] = 0)
Less(k) == [runner.left EXCEPT ![k] = @ - 1]

CreateTask(k) ==
  /\ runner.at = "create" /\ Due(k)
  /\ Register(k) /\ made' = made + 1
  /\ runner' = [runner EXCEPT !.left = Less(k)]
  /\ UNCHANGED <<status, eliminated, winner, chain, batches, faults>>

\* Mutant: a lineage's failed creation is swallowed too.
SkippableAny(k) == k \in Kinds

\* _create_single_new_text_task swallows its errors: the task is skipped.
Skippable(k) == k \in Types

\* A lineage's creation raises: the pass ends and the round stays PENDING.
CreationFails(k) ==
  /\ runner.at = "create" /\ Due(k) /\ faults["skip"] < MaxSkips
  /\ runner' = IF Skippable(k) THEN [runner EXCEPT !.left = Less(k)] ELSE Idle
  /\ Hit("skip")
  /\ UNCHANGED <<status, tasks, made, eliminated, winner, chain, batches>>

\* Both sides get their node and repository name, task after task.
AssignNodes(i) ==
  /\ runner.at = "create" /\ runner.left = Nothing /\ i \in Unassigned
  /\ tasks' = [tasks EXCEPT ![i].nodes = TRUE]
  /\ UNCHANGED <<status, made, runner, eliminated, winner, chain, batches, faults>>

FinishPass ==
  /\ runner.at = "create" /\ runner.left = Nothing /\ Unassigned = {}
  /\ status' = IF Rows = {} THEN "pending" ELSE "active"
  /\ runner' = Idle
  /\ UNCHANGED <<tasks, made, eliminated, winner, chain, batches, faults>>

-----------------------------------------------------------------------------
(* The other processes: preparation, training, evaluation                  *)

\* The verdicts a finished task can get, given the sides with a usable
\* score: without the challenger's score the boss holds the task; only a
\* paired comparison can be a draw.
Judge(k, scored) ==
  IF "challenger" \notin scored THEN {"boss"}
  ELSE IF "boss" \notin scored  THEN {"challenger"}
  ELSE IF k \in Paired \cup Lineages THEN Verdicts ELSE Sides

Ongoing(i) == tasks[i].state = "open"

\* A task without nodes is never trained.
TaskEnds(i) ==
  /\ Ongoing(i) /\ tasks[i].nodes
  /\ \E scored \in SUBSET Sides : \E v \in Judge(tasks[i].kind, scored) :
       tasks' = [tasks EXCEPT ![i].state = v]
  /\ UNCHANGED <<status, made, runner, eliminated, winner, chain, batches, faults>>

PrepFails(i) ==
  /\ Ongoing(i) /\ faults["prep"] < MaxPrepFailures
  /\ tasks' = [tasks EXCEPT ![i].state = "prepfailed"]
  /\ Hit("prep")
  /\ UNCHANGED <<status, made, runner, eliminated, winner, chain, batches>>

\* No training succeeded: the round waits for an operator.
TaskFails(i) ==
  /\ Ongoing(i) /\ tasks[i].nodes /\ faults["failure"] < MaxFailures
  /\ tasks' = [tasks EXCEPT ![i].state = "failed"]
  /\ Hit("failure")
  /\ UNCHANGED <<status, made, runner, eliminated, winner, chain, batches>>

-----------------------------------------------------------------------------
(* process_active_tournaments, round ACTIVE                                *)

\* replace_tournament_task: register the stand-in, copy the nodes, detach.
RegisterReplacement(i) ==
  /\ status = "active" /\ runner.at = "idle" /\ tasks[i].state = "prepfailed"
  /\ Register(tasks[i].kind) /\ made' = made + 1
  /\ runner' = [Idle EXCEPT !.at = "copy", !.of = i, !.ids = {made + 1}]
  /\ UNCHANGED <<status, eliminated, winner, chain, batches, faults>>

CopyNodes ==
  /\ runner.at = "copy"
  /\ tasks' = [i \in Rows |-> IF i \in runner.ids
                 THEN [tasks[i] EXCEPT !.nodes = tasks[runner.of].nodes] ELSE tasks[i]]
  /\ runner' = [runner EXCEPT !.at = "detach"]
  /\ UNCHANGED <<status, made, eliminated, winner, chain, batches, faults>>

Detach ==
  /\ runner.at = "detach"
  /\ Drop({runner.of})
  /\ runner' = Idle
  /\ UNCHANGED <<status, made, eliminated, winner, chain, batches, faults>>

CheckCompleted ==
  /\ status = "active" /\ runner.at = "idle"
  /\ Rows # {} /\ \A i \in Rows : tasks[i].state \in Verdicts
  /\ status' = "completed"
  /\ UNCHANGED <<tasks, made, runner, eliminated, winner, chain, batches, faults>>

-----------------------------------------------------------------------------
(* process_active_tournaments, round COMPLETED: advance_tournament         *)

Judging == status = "completed" /\ runner.at = "idle" /\ winner = "none"

\* Mutant: the check for assigned nodes comes after the one for draws.
ReturnUnassignedLate ==
  /\ Judging /\ Unassigned # {} /\ InState("draw") = {}
  /\ status' = "pending"
  /\ UNCHANGED <<tasks, made, runner, eliminated, winner, chain, batches, faults>>

\* A task nobody was assigned to cannot have run.
ReturnUnassigned ==
  /\ Judging /\ Unassigned # {}
  /\ status' = "pending"
  /\ UNCHANGED <<tasks, made, runner, eliminated, winner, chain, batches, faults>>

Drawn == InState("draw")

\* Mutant: the cap on deciders is forgotten.
AlreadyAddedNever == FALSE

\* A round with more tasks than it was built with has had its deciders.
AlreadyAdded == Size > Expected

\* A drawn lineage is stood in for by a plain instruct task.
DeciderKind(i) == IF tasks[i].kind \in Lineages THEN Instruct ELSE tasks[i].kind

BeginDeciders ==
  /\ Judging /\ Unassigned = {} /\ Drawn # {} /\ ~AlreadyAdded
  /\ runner' = [Idle EXCEPT !.at = "decide",
                  !.left = [k \in Kinds |-> Cardinality({i \in Drawn : DeciderKind(i) = k})]]
  /\ UNCHANGED <<status, tasks, made, eliminated, winner, chain, batches, faults>>

CreateDecider(k) ==
  /\ runner.at = "decide" /\ runner.left[k] > 0
  /\ Register(k) /\ made' = made + 1
  /\ runner' = [runner EXCEPT !.left = Less(k), !.ids = @ \cup {made + 1}]
  /\ UNCHANGED <<status, eliminated, winner, chain, batches, faults>>

\* All or nothing: the part of the batch that exists is deleted.
DeciderFails ==
  /\ runner.at = "decide" /\ runner.left # Nothing /\ faults["skip"] < MaxSkips
  /\ Drop(runner.ids)
  /\ runner' = Idle
  /\ Hit("skip")
  /\ UNCHANGED <<status, made, eliminated, winner, chain, batches>>

\* Mutant: deciders replace the tasks that drew.
FinishDecidersReplacing ==
  /\ runner.at = "decide" /\ runner.left = Nothing
  /\ status' = "pending" /\ batches' = batches + 1
  /\ Drop(Drawn)
  /\ runner' = Idle
  /\ UNCHANGED <<made, eliminated, winner, chain, faults>>

FinishDeciders ==
  /\ runner.at = "decide" /\ runner.left = Nothing
  /\ status' = "pending" /\ batches' = batches + 1
  /\ runner' = Idle
  /\ UNCHANGED <<tasks, made, eliminated, winner, chain, faults>>

Wins == Cardinality(InState("challenger"))
Held == Cardinality(InState("boss"))

\* Mutant: the bar is not clamped to the tasks that were decided.
RequiredUnclamped ==
  LET decided == Wins + Held
      size    == IF Drawn # {} /\ Expected > decided THEN Expected ELSE decided
  IN  IF size > 2 THEN size - 1 ELSE 1

\* The challenger may lose one task.  Draws do not lower the bar below the
\* size the round was built with, unless no challenger could reach it then.
Required ==
  LET decided == Wins + Held
      size    == IF Drawn # {} /\ Expected > decided THEN Expected ELSE decided
      bar     == IF size > 2 THEN size - 1 ELSE 1
  IN  IF bar < decided THEN bar ELSE decided

\* A lineage of the round is satisfied by a draw, or by winning its task;
\* of several tasks the last one names the lineage's winner.
Satisfied(l) ==
  \/ \E i \in OfKind(l) : tasks[i].state = "draw"
  \/ \E i \in OfKind(l) : /\ tasks[i].state = "challenger"
                          /\ \A j \in OfKind(l) : j <= i

RoundWinner ==
  IF Wins > 0 /\ Wins >= Required /\ \A l \in Lineages : OfKind(l) # {} => Satisfied(l)
  THEN "challenger" ELSE "boss"

\* The loser is eliminated before anything else is written.
Resolve ==
  /\ Judging /\ Unassigned = {} /\ (Drawn = {} \/ AlreadyAdded)
  /\ eliminated' = eliminated \cup (Sides \ {RoundWinner})
  /\ runner' = [Idle EXCEPT !.at = "carry", !.name = RoundWinner,
                            !.ids = UNION {OfKind(l) : l \in Lineages}]
  /\ UNCHANGED <<status, tasks, made, winner, chain, batches, faults>>

\* Mutant: the advance does not look at its source round.
FreshAlways(l) == l \in Lineages

\* advance_continuous_sft_state: once per round and lineage.
Fresh(l) == l \notin marked

CarryForward(i) ==
  /\ runner.at = "carry" /\ i \in runner.ids /\ \A j \in runner.ids : i <= j
  /\ LET l == tasks[i].kind
     IN  /\ marked' = marked \cup {l}
         /\ advances' = IF Fresh(l) THEN [advances EXCEPT ![l] = @ + 1] ELSE advances
  /\ runner' = [runner EXCEPT !.ids = @ \ {i}]
  /\ UNCHANGED <<status, tasks, made, eliminated, winner, batches, faults>>

\* winner_hotkey is written last: it is what stops a second pass.
Crown ==
  /\ runner.at = "carry" /\ runner.ids = {}
  /\ winner' = runner.name
  /\ runner' = Idle
  /\ UNCHANGED <<status, tasks, made, eliminated, chain, batches, faults>>

Restart ==
  /\ runner.at # "idle" /\ faults["crash"] < MaxCrashes
  /\ runner' = Idle
  /\ Hit("crash")
  /\ UNCHANGED <<status, tasks, made, eliminated, winner, chain, batches>>

-----------------------------------------------------------------------------
RunnerStep ==
  \/ BeginPass \/ FinishPass
  \/ \E k \in Kinds : CreateTask(k)
  \/ \E i \in Rows : AssignNodes(i) \/ RegisterReplacement(i) \/ CarryForward(i)
  \/ CopyNodes \/ Detach \/ CheckCompleted
  \/ ReturnUnassigned \/ BeginDeciders \/ FinishDeciders
  \/ \E k \in Kinds : CreateDecider(k)
  \/ Resolve \/ Crown

TaskStep == \E i \in Rows : TaskEnds(i)

FaultStep ==
  \/ \E k \in Kinds : CreationFails(k)
  \/ DeciderFails \/ Restart
  \/ \E i \in Rows : PrepFails(i) \/ TaskFails(i)

Next == RunnerStep \/ TaskStep \/ FaultStep

Spec == Init /\ [][Next]_vars

\* Both loops run for ever and sleep between two passes; a task with nodes
\* ends, because trainings and evaluations have deadlines.
Fairness == WF_vars(RunnerStep) /\ WF_vars(TaskStep)

FairSpec == Spec /\ Fairness
-----------------------------------------------------------------------------
(* Properties                                                              *)

TypeOK ==
  /\ status \in {"pending", "active", "completed"}
  /\ made \in Nat /\ Rows \subseteq 1..made /\ tasks \in [Rows -> Task]
  /\ runner \in [at : {"idle", "create", "copy", "detach", "decide", "carry"},
                  left : [Kinds -> Nat], ids : SUBSET (1..made), of : 0..made,
                  name : Sides \cup {"none"}]
  /\ eliminated \subseteq Sides /\ winner \in Sides \cup {"none"}
  /\ marked \subseteq Lineages /\ advances \in [Lineages -> Nat]
  /\ batches \in Nat /\ faults \in [Fault -> Nat]

\* The crown changes hands only if the challenger won some task, lost at most
\* one, lost none of the lineages in the round, and, when draws were left out,
\* lost one only if as many tasks were decided as the round is built with.
\* (determine_boss_round_winner over every mix of wins, losses and draws.)
Deserved ==
  /\ Wins > 0 /\ Held <= 1
  /\ Held = 1 /\ Drawn # {} => Wins + Held >= Expected
  /\ \A l \in Lineages : OfKind(l) # {} => Satisfied(l)

CrownIsDeserved == winner # "none" => (winner = "challenger" <=> Deserved)

\* Nobody takes the crown past a lineage: whatever creations failed, tasks
\* were replaced or processes died, a challenger who is crowned has beaten or
\* drawn the boss on a task of every lineage there is.
EveryLineageHeld ==
  winner = "challenger" =>
    \A l \in Lineages : \E i \in OfKind(l) : tasks[i].state \in {"challenger", "draw"}

\* Draws are answered by one batch of deciders, apart from rounds that a
\* failed creation left short (_resolve_boss_round_draws, by task count).
DecidersBounded == batches <= 1 + faults["skip"]

\* A winner on the row means that every lineage's train_index has moved, by
\* exactly one, however often the round was processed before.
CarriedOnce ==
  /\ \A l \in Lineages : advances[l] <= 1
  /\ winner # "none" => \A l \in Lineages : advances[l] = 1

\* The losing side is eliminated before the winner is written, and a process
\* that dies in between judges the round again: it must not then eliminate
\* the other side as well, or crown the one it has eliminated.
OneLoser == Cardinality(eliminated) <= 1 /\ winner \notin eliminated

\* Every task is judged once, and none is taken out of a round after its
\* verdict: results that decided a round stay with it.
VerdictsStand ==
  [][\A i \in Rows : tasks[i].state \in Verdicts =>
       i \in DOMAIN tasks' /\ tasks'[i].state = tasks[i].state]_vars

\* The round is decided in the end, unless it waits for an operator: a task
\* has failed, or a process died between registering a replacement and
\* giving it its nodes.
AwaitsOperator ==
  /\ runner.at = "idle"
  /\ \/ InState("failed") # {}
     \/ status = "active" /\ Unassigned # {}

EventuallyCrowned == <>(winner # "none" \/ AwaitsOperator)

=============================================================================
