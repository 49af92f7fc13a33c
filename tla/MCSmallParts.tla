---------------------------- MODULE MCSmallParts ----------------------------
(***************************************************************************)
(* Parts that share nothing, explored side by side: the choice of GPUs and *)
(* the weights, over bounded inputs; the scoring of one task; and the      *)
(* tasks of customers.  The case says which part a behaviour is about:     *)
(* "gpus" has a look at one trainer, "weights" one round of the loop,      *)
(* "task" the steps of Scoring, "organic" those of OrganicTasks.           *)
(***************************************************************************)
EXTENDS Integers, Sequences, FiniteSets, FiniteSetsExt, GpuSelection, Weights, Scoring, OrganicTasks

VARIABLE case

CONSTANTS
  Gpus,        \* GPU ids of a host
  t1,          \* one of the tasks of customers
  Champions    \* hotkeys a tournament may have as its champion

-----------------------------------------------------------------------------
(* Inputs                                                                  *)

\* A host with any links, any of its GPUs free, and a job.
HostCases == [ids : SUBSET Gpus \ {{}}, free : SUBSET Gpus, links : {Unknown} \cup SUBSET kSubset(2, Gpus),
              count : 1 .. Cardinality(Gpus)]
GpuCases == {h \in HostCases : h.free \subseteq h.ids /\ UNION h.links \subseteq h.ids /\ h.count <= Cardinality(h.ids)}

\* A completed tournament: the boss kept the title or lost it, the bracket's
\* loser known or not, its positions written or (older, or ended early) not.
Tournament(champion, challenger, third, won, stored) ==
    LET winner == IF won THEN challenger ELSE Burn
        other  == IF won THEN Burn ELSE challenger
    IN  [winner |-> winner, base |-> champion, first |-> FALSE, computed |-> 15, stored |-> stored,
         places |-> Places(Earners, winner, other, third), finalists |-> <<>>]
Unplaced(t, seen) == [t EXCEPT !.places = <<>>, !.finalists = seen]

Played == {Tournament(b, h, t, w, s) : b \in Champions \cup {Nobody}, h \in Earners \ {Burn},
               t \in (Earners \ {Burn}) \cup {Nobody}, w \in BOOLEAN, s \in {Nobody, 30}}
Texts == {Nobody} \cup {t \in Played : Cardinality(DOMAIN t.places) >= 2}
         \cup {Unplaced(t, seen) : t \in Played, seen \in {<<>>} \cup {<<Burn, h>> : h \in Earners \ {Burn}}}
Images == {Nobody} \cup {t \in Played : DOMAIN t.places # {} /\ t.winner = Burn /\ Cardinality(DOMAIN t.places) = 2}

WeightCases == [text : Texts, image : Images, base : {50, 62},
                registered : {Earners} \cup {Earners \ {h} : h \in Earners}, participants : {{}, Champions, Earners \ {Burn}}]

\* One new task beside one that ended long ago; or two tasks that are ready,
\* when nothing fails any more.
OrganicCases ==
    \/ faults = 0 /\ status = [t \in Tasks |-> IF t = t1 THEN "pending" ELSE "prep failure"]
    \/ faults = MaxFaults /\ status = [t \in Tasks |-> "ready"]

Init ==
    /\ SelectInit /\ ScoringInit /\ OrganicInit /\ WeightsInit
    /\ case \in {"gpus", "weights", "task", "organic"}
    /\ case # "task" => ~ higher
    /\ IF case = "organic" THEN OrganicCases
       ELSE faults = 0 /\ status = [t \in Tasks |-> "prep failure"]

GpusStep ==
    /\ case = "gpus" /\ host = NoHost
    /\ \E h \in GpuCases : CheckTrainer(h)
    /\ UNCHANGED <<case, audit, weights, scoringVars, organicVars>>
WeightsStep ==
    /\ case = "weights" /\ audit = Nobody
    /\ \E c \in WeightCases : ComputeWeights(c)
    /\ UNCHANGED <<case, host, given, scoringVars, organicVars>>
ScoringStep == case = "task" /\ ScoringNext /\ UNCHANGED <<case, host, given, audit, weights, organicVars>>
OrganicStep == case = "organic" /\ OrganicNext /\ UNCHANGED <<case, host, given, audit, weights, scoringVars>>

\* The fairness is that of OrganicTasks; the other parts promise safety only.
Spec ==
    /\ Init
    /\ [][GpusStep \/ WeightsStep \/ ScoringStep \/ OrganicStep]_<<case, host, given, audit, weights, scoringVars, organicVars>>
    /\ OrganicFairness
=============================================================================
