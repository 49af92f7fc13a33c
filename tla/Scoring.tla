------------------------------ MODULE Scoring ------------------------------
(***************************************************************************)
(* One task's evaluation results on their way to scores: an evaluation     *)
(* persists raw losses, finalizing rebuilds results from the rows, ranks   *)
(* them and writes losses, scores and reasons back to the same rows, and a *)
(* task may be finalized again after one hotkey was evaluated again.       *)
(* A result is a record of loss (NoLoss for NaN), finetune and reason; a   *)
(* row has loss, reason and score.  Losses are numbers, lower is better    *)
(* unless HigherIsBetter (GRPO); reasons are the texts' kinds.             *)
(***************************************************************************)
EXTENDS Integers, FiniteSets, Sequences, SequencesExt, FiniteSetsExt

CONSTANTS
  Miners,       (* the hotkeys of the task, numbers in the order of its rows *)
  IdealPool,    (* MIN_IDEAL_NUM_MINERS_IN_POOL                              *)
  Losses,       (* losses an evaluation may return                           *)
  NoLoss        (* NaN, or NULL in the table                                 *)

ASSUME MinersAssumption ==
  /\ Miners \subseteq Nat /\ IsFiniteSet(Miners)
  /\ Losses \subseteq Int /\ NoLoss \notin Losses

VARIABLES
  higher,     (* the task's metric is better when higher                     *)
  rows,       (* its rows of task_nodes                                      *)
  outcome,    (* what each hotkey's last evaluation returned (history)       *)
  finalized   (* nothing was evaluated since the last finalizing (history)   *)

scoringVars == <<higher, rows, outcome, finalized>>

FirstPlace == 3
Penalty    == -1
Derived    == {"ranked first", "ranked below", "bottom quarter"}
Excluding  == {"evaluation failed", "not finetuned", "invalid loss"}
NoReason   == "none"

-----------------------------------------------------------------------------
(* Results and rows                                                        *)

\* What process_miners_pool makes of an evaluation; a failed one has no loss.
Evaluated(loss, finetune) ==
    IF loss = NoLoss THEN [loss |-> NoLoss, finetune |-> FALSE, reason |-> "evaluation failed"]
    ELSE [loss |-> loss, finetune |-> finetune, reason |-> NoReason]

\* An evaluator may also return a NaN loss for a finetune.
Outcomes == {Evaluated(l, f) : l \in Losses \cup {NoLoss}, f \in BOOLEAN}
            \cup {[loss |-> NoLoss, finetune |-> TRUE, reason |-> NoReason]}

\* _persist_raw_task_results, set_task_node_losses: the score stays as it was.
Persisted(node, result) == [node EXCEPT !.loss = result.loss, !.reason = result.reason]

NoRow == [loss |-> NoLoss, reason |-> NoReason, score |-> 0]

\* Mutant: reasons of an earlier ranking are kept.
RebuiltWithReasons(node) ==
    IF node.loss = NoLoss
    THEN [loss |-> NoLoss, finetune |-> FALSE, reason |-> IF node.reason = NoReason THEN "evaluation failed" ELSE node.reason]
    ELSE [loss |-> node.loss, finetune |-> TRUE, reason |-> node.reason]

\* _result_from_persisted_row
Rebuilt(node) ==
    IF node.loss = NoLoss
    THEN [loss |-> NoLoss, finetune |-> FALSE, reason |-> IF node.reason = NoReason THEN "evaluation failed" ELSE node.reason]
    ELSE [loss |-> node.loss, finetune |-> TRUE, reason |-> IF node.reason \in Derived THEN NoReason ELSE node.reason]

-----------------------------------------------------------------------------
(* Ranking                                                                 *)

\* The submissions that are ranked.
Valid(results) == {h \in Miners : results[h].reason = NoReason /\ results[h].finetune /\ results[h].loss # NoLoss}

\* Rows sort stably: equal losses keep the order of the rows.
Better(results, higherIsBetter, g, h) ==
    \/ IF higherIsBetter THEN results[g].loss > results[h].loss ELSE results[g].loss < results[h].loss
    \/ results[g].loss = results[h].loss /\ g < h

PlaceOf(results, higherIsBetter, h) ==
    1 + Cardinality({g \in Valid(results) : Better(results, higherIsBetter, g, h)})

\* How many of the ranked are punished: a quarter, in a pool that is not small.
Bottom(size) == IF size > IdealPool THEN Max({1, size \div 4}) ELSE 0

\* The reason a result keeps or gets, by its place among the valid ones.
Verdict(results, higherIsBetter, h) ==
    LET place == PlaceOf(results, higherIsBetter, h)
        size  == Cardinality(Valid(results))
    IN  IF h \in Valid(results)
        THEN IF place = 1 THEN "ranked first" ELSE IF place > size - Bottom(size) THEN "bottom quarter" ELSE "ranked below"
        ELSE IF results[h].reason # NoReason THEN results[h].reason
        ELSE IF results[h].finetune THEN "invalid loss" ELSE "not finetuned"

\* A failed submission is punished as soon as one is valid.
Points(results, higherIsBetter, h) ==
    LET verdict == Verdict(results, higherIsBetter, h)
        failed  == ~ results[h].finetune \/ results[h].loss = NoLoss
    IN  IF h \in Valid(results) /\ verdict = "ranked first" THEN FirstPlace
        ELSE IF h \in Valid(results) /\ verdict = "bottom quarter" THEN Penalty
        ELSE IF failed /\ Valid(results) # {} THEN Penalty ELSE 0

\* calculate_miner_ranking_and_scores of a function from Miners to results.
Ranked(results, higherIsBetter) ==
    [h \in Miners |-> [loss   |-> results[h].loss,
                       reason |-> Verdict(results, higherIsBetter, h),
                       score  |-> Points(results, higherIsBetter, h)]]

\* What finalizing makes of the rows.
Finalized(table, higherIsBetter) == Ranked([h \in Miners |-> Rebuilt(table[h])], higherIsBetter)

-----------------------------------------------------------------------------
(* The task.  A hotkey whose evaluation failed for good may have no row, so *)
(* finalizing needs none; its own guard is TaskEvaluation's.                *)

ScoringInit ==
    /\ higher \in BOOLEAN
    /\ rows = [h \in Miners |-> NoRow]
    /\ outcome = [h \in Miners |-> Evaluated(NoLoss, FALSE)]
    /\ finalized = FALSE

\* evaluate_and_score_hotkeys for one hotkey, first or again.
EvaluateHotkey(h, result) ==
    /\ rows' = [rows EXCEPT ![h] = Persisted(@, result)]
    /\ outcome' = [outcome EXCEPT ![h] = result]
    /\ finalized' = FALSE
    /\ UNCHANGED higher

\* finalize_task_scores_from_raw_losses with _update_scores.
FinalizeTask ==
    /\ rows' = Finalized(rows, higher)
    /\ finalized' = TRUE
    /\ UNCHANGED <<outcome, higher>>

ScoringNext ==
    \/ \E h \in Miners, result \in Outcomes : EvaluateHotkey(h, result)
    \/ FinalizeTask

ScoringSpec == ScoringInit /\ [][ScoringNext]_scoringVars

-----------------------------------------------------------------------------
(* Properties                                                              *)

ScoringTypeOK ==
    /\ higher \in BOOLEAN /\ finalized \in BOOLEAN
    /\ outcome \in [Miners -> Outcomes]
    /\ rows \in [Miners -> [loss : Losses \cup {NoLoss}, reason : Derived \cup Excluding \cup {NoReason},
                            score : {FirstPlace, 0, Penalty}]]

\* However often hotkeys were evaluated and the task finalized, finalizing gives
\* every hotkey the score and reason it would have if the last evaluations had
\* been the only ones: nothing of an earlier ranking survives in the rows.
RefinalizeIsFresh ==
    finalized => rows = Finalized([h \in Miners |-> Persisted(NoRow, outcome[h])], higher)

\* A submission that is not a finetune is never ranked first.
UntrainedIsUnranked ==
    finalized => \A h \in Miners : ~ outcome[h].finetune => rows[h].score # FirstPlace
=============================================================================
