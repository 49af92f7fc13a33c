-------------------------- MODULE TournamentRounds --------------------------
(***************************************************************************)
(* One text or image tournament from its participants to its winner: the   *)
(* group round, the integrity gates before round 2, the knockout and the   *)
(* final round (tournament/tournament_manager.py, dedup_gate.py,           *)
(* challenger_code_review.py, round_results.py).                           *)
(*                                                                         *)
(* One process runs two loops.  process_active_tournaments ("job") creates *)
(* round 1, closes a round whose tasks are done and advances the           *)
(* tournament; every minute it takes a closed round up again that it could *)
(* not advance.  process_pending_rounds ("seen") gives a round its tasks   *)
(* and nodes.  A step ends at each commit or read that another party can   *)
(* come in after; the process may die after any of them.  Operators answer *)
(* the gates straight in the database, and the metagraph refresh drops     *)
(* miners that have left.  How a final round is judged is BossRound's.     *)
(***************************************************************************)
EXTENDS Naturals, Sequences, FiniteSets

CONSTANTS
  Miners,       (* hotkeys of the enrolled participants                    *)
  Burn,         (* EMISSION_BURN_HOTKEY: stands for the champion           *)
  Advance,      (* SMALL_TOURNAMENT_ADVANCE; at most 8, who play in pairs  *)
  None,         (* no value                                                *)
  MaxCrashes,   (* bound: deaths of the process                            *)
  MaxErrors,    (* bound: checks of a gate that raise                      *)
  MaxLost       (* bound: miners that leave the metagraph                  *)

ASSUME TournamentAssumption ==
  /\ IsFiniteSet(Miners) /\ Burn \notin Miners
  /\ None \notin Miners \cup {Burn}
  /\ Advance \in 1..8
  /\ MaxCrashes \in Nat /\ MaxErrors \in Nat /\ MaxLost \in Nat

VARIABLES
  rounds,    (* the rows of tournament_rounds, with their pairs or group   *)
  rank,      (* cumulative standing of the miners scored in round 1        *)
  out,       (* eliminated_in_round_id, as a round number; 0: still in     *)
  review,    (* code_review of each participant                            *)
  waves,     (* tournament_dedup_reviews of the gate, oldest first         *)
  failed,    (* _GATE_FAILED, in memory: wave numbers and their fields     *)
  champion,  (* winner_hotkey                                              *)
  nodes,     (* hotkeys in the nodes table                                 *)
  job,       (* process_active_tournaments: where it is and what it holds  *)
  seen,      (* process_pending_rounds: the structure it has read          *)
  faults     (* how many of each bounded fault have happened               *)

gates == <<review, waves, failed>>
vars  == <<rounds, rank, out, gates, champion, nodes, job, seen, faults>>

Hotkeys  == Miners \cup {Burn}
Allowed  == {"clean", "rejected"}
Held     == {"pending", "error", "needs_review"}
Statuses == {"none", "accepted"} \cup Allowed \cup Held
Fault    == {"crash", "error", "lost"}
Contest  == SUBSET Hotkeys

\* contests: the group of round 1 or the pairs; assigned: who has tasks;
\* done: the tasks are finished; won: whom they let through.
Round == [state : {"pending", "active", "completed"}, final : BOOLEAN,
          contests : SUBSET Contest, assigned : Contest, done : BOOLEAN, won : Contest]

\* bypass (history): the field an operator's skip row was inserted for.
Wave == [status : {"pending_review", "approved", "skipped"}, cohort : SUBSET Miners,
         elim : SUBSET Miners, resolved : BOOLEAN, bypass : SUBSET Miners]

\* elim, field: "eliminated" and "field" of the gate loop; todo, drop, halt:
\* its pass over the entrants' reviews; plan: the structure of a round whose
\* row is already inserted.
Idle == [at |-> "idle", elim |-> {}, field |-> {},
         todo |-> {}, drop |-> {}, halt |-> FALSE, plan |-> {}]

Number     == Len(rounds)
Current    == rounds[Number]
Members(i) == UNION rounds[i].contests
Latest     == waves[Len(waves)]
Hit(f)     == faults' = [faults EXCEPT ![f] = @ + 1]
Goto(l)    == job' = [job EXCEPT !.at = l]

NewRound(final) == [state |-> "pending", final |-> final, contests |-> {},
                    assigned |-> {}, done |-> FALSE, won |-> {}]
SetCurrent(r)   == rounds' = [rounds EXCEPT ![Number] = r]
NewWave(status, cohort, elim, bypass) ==
  Append(waves, [status |-> status, cohort |-> cohort, elim |-> elim,
                 resolved |-> FALSE, bypass |-> bypass])

Init ==
  /\ rounds = <<>> /\ rank = [m \in {} |-> 0]
  /\ out = [h \in Hotkeys |-> 0] /\ review = [m \in Miners |-> "none"]
  /\ waves = <<>> /\ failed = {} /\ champion = None /\ nodes = Hotkeys
  /\ job = Idle /\ seen = None /\ faults = [f \in Fault |-> 0]

-----------------------------------------------------------------------------
(* Round 1                                                                 *)

\* Participants with a node, without those whose repository is an exact
\* copy: they are left out now and eliminated once there is a round row.
CreateFirstRound(copies) ==
  /\ job.at = "idle" /\ rounds = <<>>
  /\ LET entrants == (Miners \cap nodes) \ copies
     IN  /\ entrants # {}
         /\ job' = [Idle EXCEPT !.at = "insert", !.plan = {entrants}, !.drop = copies]
  /\ rounds' = <<NewRound(FALSE)>>
  /\ UNCHANGED <<rank, out, gates, champion, nodes, seen, faults>>

\* The groups or the pairs go in after the row, in a transaction of their own.
InsertStructure ==
  /\ job.at = "insert"
  /\ SetCurrent([Current EXCEPT !.contests = job.plan])
  /\ IF Number = 1 THEN Goto("copies") ELSE job' = Idle
  /\ UNCHANGED <<rank, out, gates, champion, nodes, seen, faults>>

\* eliminate_tournament_participants: only where eliminated_in_round_id is NULL.
Eliminate(S) == out' = [h \in Hotkeys |-> IF h \in S /\ out[h] = 0 THEN Number ELSE out[h]]

EliminateCopies ==
  /\ job.at = "copies"
  /\ Eliminate(job.drop) /\ job' = Idle
  /\ UNCHANGED <<rounds, rank, gates, champion, nodes, seen, faults>>

-----------------------------------------------------------------------------
(* A round gets its tasks and nodes, and its results                       *)

ReadPending ==
  /\ seen = None /\ rounds # <<>> /\ Current.state = "pending"
  /\ seen' = [contests |-> Current.contests]
  /\ UNCHANGED <<rounds, rank, out, gates, champion, nodes, job, faults>>

\* Assignment looks every hotkey up in the nodes table; a final round takes
\* the boss as well.
Assignable(final) == nodes \cup (IF final THEN {Burn} ELSE {})

\* The round becomes ACTIVE when it has tasks and each has somebody assigned.
FinishPending ==
  /\ seen # None
  /\ LET assigned == Current.assigned \cup ((UNION seen.contests) \cap Assignable(Current.final))
         ready    == seen.contests # {} /\ \A c \in seen.contests : c \cap assigned # {}
     IN  SetCurrent([Current EXCEPT !.assigned = assigned,
                                    !.state = IF ready THEN "active" ELSE "pending"])
  /\ seen' = None
  /\ UNCHANGED <<rank, out, gates, champion, nodes, job, faults>>

Rankings(S) == UNION {{f \in [T -> 1..Cardinality(T)] :
                         \A a, b \in T : f[a] = f[b] => a = b} : T \in SUBSET S}

\* A knockout task has at most one winner; the final round always has one.
Results == IF Current.final THEN {{h} : h \in Current.assigned \cup {Burn}}
           ELSE {W \in SUBSET Current.assigned :
                   \A c \in Current.contests : Cardinality(W \cap c) <= 1}

\* Training and evaluation of all the tasks of the round.
RunTasks ==
  /\ rounds # <<>> /\ Current.state = "active" /\ ~Current.done
  /\ IF Number = 1
       THEN /\ rank' \in Rankings(Current.assigned \ {Burn})
            /\ SetCurrent([Current EXCEPT !.done = TRUE])
       ELSE /\ \E W \in Results : SetCurrent([Current EXCEPT !.done = TRUE, !.won = W])
            /\ UNCHANGED rank
  /\ UNCHANGED <<out, gates, champion, nodes, job, seen, faults>>

\* An operator restores the scores of a round 1 that has none.
FixScores ==
  /\ Number = 1 /\ Current.done /\ DOMAIN rank = {}
  /\ rank' \in Rankings(Current.assigned \ {Burn}) /\ DOMAIN rank' # {}
  /\ UNCHANGED <<rounds, out, gates, champion, nodes, job, seen, faults>>

-----------------------------------------------------------------------------
(* advance_tournament                                                      *)

CompleteRound ==
  /\ job.at = "idle" /\ rounds # <<>> /\ Current.state = "active" /\ Current.done
  /\ SetCurrent([Current EXCEPT !.state = "completed"]) /\ job' = [Idle EXCEPT !.at = "advance"]
  /\ UNCHANGED <<rank, out, gates, champion, nodes, seen, faults>>

\* The next cycles take the completed round up again.
Readvance ==
  /\ job.at = "idle" /\ rounds # <<>> /\ Current.state = "completed" /\ champion = None
  /\ job' = [Idle EXCEPT !.at = "advance"]
  /\ UNCHANGED <<rounds, rank, out, gates, champion, nodes, seen, faults>>

\* The first in the standing that are not excluded (take_standings_slots).
StandingsSlots(S) ==
  {m \in DOMAIN rank \ S : Cardinality({k \in DOMAIN rank \ S : rank[k] < rank[m]}) < Advance}

Winners == IF Number = 1 THEN StandingsSlots({}) ELSE Current.won

\* A group without a single score is not advanced: its data are missing.
RefuseEmpty ==
  /\ job.at = "advance" /\ Number = 1 /\ DOMAIN rank = {}
  /\ job' = Idle
  /\ UNCHANGED <<rounds, rank, out, gates, champion, nodes, seen, faults>>

\* The losers go first, in their own transaction.
EliminateLosers ==
  /\ job.at = "advance" /\ ~(Number = 1 /\ DOMAIN rank = {})
  /\ Eliminate({h \in Hotkeys \ Winners : h = Burn => Current.final})
  /\ job' = CASE Winners = {}  -> [Idle EXCEPT !.at = "retain"]
              [] Current.final -> [Idle EXCEPT !.at = "crown"]
              [] Number = 1    -> [Idle EXCEPT !.at = "gate"]
              [] OTHER         -> [Idle EXCEPT !.at = "next", !.field = Winners]
  /\ UNCHANGED <<rounds, rank, gates, champion, nodes, seen, faults>>

\* Nobody got through: the defending champion stays.
Retain ==
  /\ job.at = "retain"
  /\ champion' = Burn /\ job' = Idle
  /\ UNCHANGED <<rounds, rank, out, gates, nodes, seen, faults>>

Crown ==
  /\ job.at = "crown"
  /\ champion' \in Current.won /\ job' = Idle
  /\ UNCHANGED <<rounds, rank, out, gates, nodes, seen, faults>>

-----------------------------------------------------------------------------
(* The integrity gates before round 2                                      *)

ApprovedOut == UNION {waves[i].elim : i \in {j \in DOMAIN waves : waves[j].status = "approved"}}
Accepted    == {m \in Miners : review[m] = "accepted"}

\* Mutant: only the accepted code reviews are excluded.
ReadGateReviewsOnly ==
  /\ job.at = "gate"
  /\ job' = [job EXCEPT !.at = "reactivate", !.elim = Accepted, !.field = StandingsSlots(Accepted)]
  /\ UNCHANGED <<rounds, rank, out, gates, champion, nodes, seen, faults>>

\* Who is already confirmed out, and the field without them.
ReadGate ==
  /\ job.at = "gate"
  /\ LET gone == ApprovedOut \cup Accepted
     IN  job' = [job EXCEPT !.at = "reactivate", !.elim = gone, !.field = StandingsSlots(gone)]
  /\ UNCHANGED <<rounds, rank, out, gates, champion, nodes, seen, faults>>

\* Mutant: replacements are not made active again.
ReactivateNobody ==
  /\ job.at = "reactivate"
  /\ Goto("dedup")
  /\ UNCHANGED <<rounds, rank, out, gates, champion, nodes, seen, faults>>

\* Replacements from the bench were eliminated as losers: active again.
Reactivate ==
  /\ job.at = "reactivate"
  /\ out' = [h \in Hotkeys |-> IF h \in job.field THEN 0 ELSE out[h]]
  /\ Goto("dedup")
  /\ UNCHANGED <<rounds, rank, gates, champion, nodes, seen, faults>>

\* Mutant: one answered wave is enough, whoever has joined the field since.
NewMembersFirst == IF waves = <<>> THEN job.field ELSE {}

\* Mutant: a wave that an operator or the judge skipped does not count.
AnsweredApproved == waves # <<>> /\ Latest.status = "approved" /\ Latest.resolved

Evaluated  == UNION {waves[i].cohort : i \in DOMAIN waves}
NewMembers == job.field \ Evaluated
Answered   == waves # <<>> /\ ( \/ Latest.status = "skipped"
                                \/ Latest.status = "approved" /\ Latest.resolved)

HoldForReview ==
  /\ job.at = "dedup" /\ waves # <<>> /\ Latest.status = "pending_review"
  /\ job' = Idle
  /\ UNCHANGED <<rounds, rank, out, gates, champion, nodes, seen, faults>>

\* The approved duplicates are published and eliminated, ...
ApplyApproved ==
  /\ job.at = "dedup" /\ waves # <<>> /\ Latest.status = "approved" /\ ~Latest.resolved
  /\ Eliminate(Latest.elim) /\ Goto("resolve")
  /\ UNCHANGED <<rounds, rank, gates, champion, nodes, seen, faults>>

\* ... and only then is the wave marked; what follows reads the same rows.
ResolveWave ==
  /\ job.at = "resolve"
  /\ waves' = [waves EXCEPT ![Len(waves)].resolved = TRUE] /\ Goto("dedup")
  /\ UNCHANGED <<rounds, rank, out, review, failed, champion, nodes, seen, faults>>

\* Every entrant was in a wave that has been answered.
PassDedup ==
  /\ job.at = "dedup" /\ Answered /\ NewMembers = {}
  /\ job' = [job EXCEPT !.at = "reviews", !.elim = @ \cup ApprovedOut]
  /\ UNCHANGED <<rounds, rank, out, gates, champion, nodes, seen, faults>>

\* A first wave, or another one for replacements that were in none.
NeedsWave == waves = <<>> \/ (Answered /\ NewMembers # {})

\* A check that raised before in this process is not run again.
HoldFailed ==
  /\ job.at = "dedup" /\ NeedsWave /\ \E f \in failed : f.wave = Len(waves) + 1
  /\ job' = Idle
  /\ UNCHANGED <<rounds, rank, out, gates, champion, nodes, seen, faults>>

StartWave ==
  /\ job.at = "dedup" /\ NeedsWave /\ \A f \in failed : f.wave # Len(waves) + 1
  /\ Goto("judge")
  /\ UNCHANGED <<rounds, rank, out, gates, champion, nodes, seen, faults>>

JudgeFails ==
  /\ job.at = "judge" /\ Cardinality(job.field) >= 2 /\ faults["error"] < MaxErrors
  /\ failed' = failed \cup {[wave |-> Len(waves) + 1, field |-> job.field]}
  /\ job' = Idle /\ Hit("error")
  /\ UNCHANGED <<rounds, rank, out, review, waves, champion, nodes, seen>>

\* With fewer than two repositories there is nothing to compare, and no row.
JudgeFew ==
  /\ job.at = "judge" /\ Cardinality(job.field) < 2
  /\ Goto("reviews")
  /\ UNCHANGED <<rounds, rank, out, gates, champion, nodes, seen, faults>>

JudgeClean ==
  /\ job.at = "judge" /\ Cardinality(job.field) >= 2
  /\ waves' = NewWave("skipped", job.field, {}, {}) /\ Goto("reviews")
  /\ UNCHANGED <<rounds, rank, out, review, failed, champion, nodes, seen, faults>>

\* Duplicates, or (elim empty) pairs the judge gave no verdict for.
JudgeFlags(elim) ==
  /\ job.at = "judge" /\ Cardinality(job.field) >= 2 /\ elim \subseteq job.field
  /\ waves' = NewWave("pending_review", job.field, elim, {}) /\ job' = Idle
  /\ UNCHANGED <<rounds, rank, out, review, failed, champion, nodes, seen, faults>>

\* The statuses that hold the tournament, as the reviewer reads them.
StartReviews ==
  /\ job.at = "reviews"
  /\ job' = [job EXCEPT !.at   = "reviewing",
                        !.todo = {m \in job.field : review[m] = "none"},
                        !.drop = job.field \cap Accepted,
                        !.halt = \E m \in job.field : review[m] \in Held]
  /\ UNCHANGED <<rounds, rank, out, gates, champion, nodes, seen, faults>>

\* Mutant: an inconclusive review does not hold the tournament.
HoldsFlaggedOnly(verdict) == verdict \in {"pending", "error"}

\* Which verdicts hold the tournament when they come in.
Holds(verdict) == verdict # "clean"

\* One entrant is reviewed and the verdict stored, before the next one.
ReviewEntrant(m, verdict) ==
  /\ job.at = "reviewing" /\ m \in job.todo
  /\ review' = [review EXCEPT ![m] = verdict]
  /\ job' = [job EXCEPT !.todo = @ \ {m}, !.halt = @ \/ Holds(verdict)]
  /\ IF verdict = "error" THEN faults["error"] < MaxErrors /\ Hit("error") ELSE UNCHANGED faults
  /\ UNCHANGED <<rounds, rank, out, waves, failed, champion, nodes, seen>>

\* The pass over the entrants ends: hold, look at the field again, or go on.
FinishReviews ==
  /\ job.at = "reviewing" /\ job.todo = {}
  /\ Eliminate(job.drop)
  /\ LET gone == job.elim \cup job.drop
         same == StandingsSlots(gone) = job.field
     IN  job' = CASE job.halt       -> Idle
                  [] ~same          -> [Idle EXCEPT !.at = "gate"]
                  [] job.field = {} -> [Idle EXCEPT !.at = "retain"]
                  [] OTHER          -> [Idle EXCEPT !.at = "next", !.field = job.field]
  /\ UNCHANGED <<rounds, rank, gates, champion, nodes, seen, faults>>

-----------------------------------------------------------------------------
(* create_next_round                                                       *)

\* One winner meets the boss: that is the final round.
NextIsFinal(W) == Cardinality(W) = 1 \/ (Cardinality(W) = 2 /\ Burn \in W)

Odd(S)  == Cardinality(S) % 2 = 1
Even(S) == IF Odd(S) THEN (S \ {Burn}) \cup ({Burn} \ S) ELSE S

\* Two steps in the code, with the winners that have no node dropped between.
Invited(W) == IF W = {Burn} THEN W ELSE Even(W)
Present(W) == Invited(W) \cap nodes

Pairings(S) ==
  {P \in SUBSET {e \in SUBSET S : Cardinality(e) = 2} :
     \A h \in S : Cardinality({e \in P : h \in e}) = 1}

\* The row of the next round; its pairs follow.
CreateNextRound ==
  /\ job.at = "next" /\ Present(job.field) # {}
  /\ rounds' = Append(rounds, NewRound(NextIsFinal(job.field)))
  /\ \E pairs \in Pairings(Even(Present(job.field))) :
       job' = [Idle EXCEPT !.at = "insert", !.plan = pairs]
  /\ UNCHANGED <<rank, out, gates, champion, nodes, seen, faults>>

NobodyPresent ==
  /\ job.at = "next" /\ Present(job.field) = {}
  /\ job' = Idle
  /\ UNCHANGED <<rounds, rank, out, gates, champion, nodes, seen, faults>>

-----------------------------------------------------------------------------
(* Operators, the metagraph and the process                                *)

\* Discord's "approve", after an edit of approved_eliminations or without.
ApproveWave(elim) ==
  /\ waves # <<>> /\ Latest.status = "pending_review" /\ elim \subseteq Latest.cohort
  /\ waves' = [waves EXCEPT ![Len(waves)].status = "approved", ![Len(waves)].elim = elim]
  /\ UNCHANGED <<rounds, rank, out, review, failed, champion, nodes, job, seen, faults>>

SkipWave ==
  /\ waves # <<>> /\ Latest.status = "pending_review"
  /\ waves' = [waves EXCEPT ![Len(waves)].status = "skipped"]
  /\ UNCHANGED <<rounds, rank, out, review, failed, champion, nodes, job, seen, faults>>

\* The skip row that Discord proposes for a check that raised; its cohort is
\* the column's default, the empty list.
InsertSkipRow(f) ==
  /\ f \in failed /\ f.wave = Len(waves) + 1
  /\ waves' = NewWave("skipped", {}, {}, f.field)
  /\ UNCHANGED <<rounds, rank, out, review, failed, champion, nodes, job, seen, faults>>

\* ops/tools/tournament/code_review.py: agree and skip.
AnswerReview(m, answer) ==
  /\ review[m] \in IF answer = "accepted" THEN Held \ {"error"} ELSE Held
  /\ review' = [review EXCEPT ![m] = answer]
  /\ UNCHANGED <<rounds, rank, out, waves, failed, champion, nodes, job, seen, faults>>

\* The refresh rebuilds the nodes table from the metagraph.
Deregister(m) ==
  /\ m \in nodes /\ faults["lost"] < MaxLost
  /\ nodes' = nodes \ {m} /\ Hit("lost")
  /\ UNCHANGED <<rounds, rank, out, gates, champion, job, seen>>

\* The memory of both loops is lost, the database stays.
Restart ==
  /\ faults["crash"] < MaxCrashes /\ Hit("crash")
  /\ job' = Idle /\ seen' = None /\ failed' = {}
  /\ UNCHANGED <<rounds, rank, out, review, waves, champion, nodes>>

-----------------------------------------------------------------------------
Gate ==
  \/ ReadGate \/ Reactivate \/ HoldForReview \/ ApplyApproved \/ ResolveWave
  \/ PassDedup \/ HoldFailed \/ StartWave \/ JudgeFails \/ JudgeFew \/ JudgeClean
  \/ \E E \in SUBSET Miners : JudgeFlags(E)
  \/ StartReviews \/ FinishReviews
  \/ \E m \in Miners, v \in {"clean"} \cup Held : ReviewEntrant(m, v)

ActiveLoop ==
  \/ \E copies \in SUBSET Miners : CreateFirstRound(copies)
  \/ InsertStructure \/ EliminateCopies
  \/ CompleteRound \/ Readvance \/ RefuseEmpty \/ EliminateLosers \/ Retain \/ Crown
  \/ Gate
  \/ CreateNextRound \/ NobodyPresent

PendingLoop == ReadPending \/ FinishPending

Operator ==
  \/ FixScores \/ SkipWave
  \/ \E E \in SUBSET Miners : ApproveWave(E)
  \/ \E f \in failed : InsertSkipRow(f)
  \/ \E m \in Miners, a \in {"accepted", "rejected"} : AnswerReview(m, a)

Next ==
  \/ ActiveLoop \/ PendingLoop \/ RunTasks \/ Operator
  \/ \E m \in Miners : Deregister(m)
  \/ Restart

Spec == Init /\ [][Next]_vars

\* Both loops run every minute, and started tasks come to an end.  Nothing is
\* assumed of operators.
FairSpec == Spec /\ WF_vars(ActiveLoop) /\ WF_vars(PendingLoop) /\ WF_vars(RunTasks)

-----------------------------------------------------------------------------
(* Properties                                                              *)

Steps == {"idle", "insert", "copies", "advance", "retain", "crown", "gate", "reactivate",
          "dedup", "resolve", "judge", "reviews", "reviewing", "next"}
JobType == [at : Steps, elim : SUBSET Miners, field : Contest,
            todo : SUBSET Miners, drop : SUBSET Miners, halt : BOOLEAN, plan : SUBSET Contest]

\* Every variable has its type; the standing is one of round 1's members.
TypeOK ==
  /\ rounds \in Seq(Round)
  /\ DOMAIN rank \subseteq Miners /\ rank \in [DOMAIN rank -> Nat]
  /\ out \in [Hotkeys -> 0..Number] /\ review \in [Miners -> Statuses]
  /\ waves \in Seq(Wave) /\ failed \subseteq [wave : Nat \ {0}, field : SUBSET Miners]
  /\ champion \in Hotkeys \cup {None} /\ nodes \subseteq Hotkeys
  /\ job \in JobType
  /\ seen \in {None} \cup [contests : SUBSET Contest]
  /\ faults \in [Fault -> Nat]

\* Nobody plays after round 1 whose code review has not come out clean or
\* been waved through by an operator: replacements from the bench, operators
\* who answer in the middle of a pass and restarts included.
EntrantsReviewed ==
  \A i \in 2..Number : \A m \in Members(i) \ {Burn} : review[m] \in Allowed

\* Any two miners of round 2 were compared in one and the same wave, which
\* has been answered: checking each replacement is not enough.
EntrantsCompared ==
  Number >= 2 => \A a, b \in Members(2) \ {Burn} : a # b =>
    \E i \in DOMAIN waves : {a, b} \subseteq waves[i].cohort /\ waves[i].status # "pending_review"

\* Whoever is to play a round that is not over is in the tournament: losers
\* are eliminated on every pass of a held tournament, and the replacements
\* among them reactivated.  The exception: a wave approved between ReadGate
\* and the gate's own read is not in "eliminated" when a wave for new members
\* follows it, and a duplicate it names may play round 2, eliminated.
EntrantsActive ==
  Number >= 2 /\ Current.state # "completed" =>
    \A m \in Members(Number) \ (ApprovedOut \cup {Burn}) : out[m] = 0

\* A duplicate whose wave is resolved (its repository published) is out of
\* the tournament and stays out, whatever the bench is needed for.
ResolvedAreOut ==
  \A i \in DOMAIN waves : waves[i].resolved => \A m \in waves[i].elim : out[m] # 0

\* A round is played only by members of the one before it, and the boss.
BracketShrinks == \A i \in 2..Number : Members(i) \subseteq Members(i - 1) \cup {Burn}

AwaitsOperator ==
  \/ Number = 1 /\ Current.done /\ DOMAIN rank = {}
  \/ waves # <<>> /\ Latest.status = "pending_review"
  \/ \E f \in failed : f.wave = Len(waves) + 1
  \/ \E m \in StandingsSlots(ApprovedOut \cup Accepted) : review[m] \in Held

\* No loop gets such a tournament going again: no participant has a node, the
\* process died between the row of a round and its structure, a round was
\* made of the boss alone or of winners without a node, or nobody could be
\* assigned to a task.
Stranded ==
  \/ rounds = <<>> /\ Miners \cap nodes = {}
  \/ /\ Number > 0 /\ job.at # "insert" /\ Current.state = "pending"
     /\ \/ Current.contests = {}
        \/ \E c \in Current.contests : c \cap (Current.assigned \cup nodes) = {}
  \/ Number > 0 /\ Current.state = "completed"
     /\ Present(IF Number = 1 THEN StandingsSlots(ApprovedOut \cup Accepted) ELSE Current.won) = {}

\* The tournament comes to a winner for good, unless an operator has to act
\* or it is stranded.
Settles == <>[](champion # None \/ AwaitsOperator \/ Stranded)

=============================================================================
