----------------------- MODULE TournamentRoundsProofs -----------------------
(***************************************************************************)
(* The safety properties of TournamentRounds for any set of miners, any    *)
(* number of places and any bounds.  The inductive invariant has one part  *)
(* for each question: what the loops hold in memory, who is ranked, who is *)
(* reviewed, who is active, who was compared with whom.  Each part has a   *)
(* lemma that says every step keeps it.                                    *)
(***************************************************************************)
EXTENDS TournamentRounds, FiniteSetTheorems, TLAPS

-----------------------------------------------------------------------------
(* The inductive invariant, part by part.                                  *)

\* Steps of the gate loop, those that hold a field, and those that are taken
\* only from a round that is over.
Fielded == {"reactivate", "dedup", "resolve", "judge", "reviews", "reviewing"}
Gated   == Fielded \cup {"gate"}
Closed  == Gated \cup {"advance", "retain", "crown", "next"}

\* What the two loops hold in memory fits the rounds in the table.
LoopsFit ==
  /\ job.at \in Closed => Number >= 1 /\ Current.state = "completed"
  /\ job.at \in Gated \cup {"copies"} => Number = 1
  /\ job.at \in Fielded => job.field \subseteq Miners
  /\ job.at = "insert" => Number >= 1 /\ Current.state = "pending" /\ Current.contests = {}
  /\ seen # None => /\ Number >= 1 /\ Current.state = "pending"
                    /\ seen.contests \subseteq Current.contests

\* Only members are assigned, let through and ranked.
MembersOnly ==
  /\ \A i \in 1..Number : /\ rounds[i].assigned \subseteq Members(i) \cup {Burn}
                          /\ rounds[i].won \subseteq Members(i) \cup {Burn}
  /\ DOMAIN rank # {} => Number >= 1 /\ rounds[1].done /\ DOMAIN rank \subseteq Members(1)

Vetted(S) == \A m \in S \ {Burn} : review[m] \in Allowed

Reviewed ==
  /\ \A i \in 2..Number : Vetted(Members(i))
  /\ job.at = "next" => Vetted(job.field)
  /\ job.at = "insert" /\ Number >= 2 => Vetted(UNION job.plan)
  /\ job.at = "reviewing" => /\ job.halt \/ Vetted(job.field \ (job.todo \cup job.drop))
                             /\ \A m \in job.todo : review[m] = "none"

Shrinks ==
  /\ \A i \in 2..Number : Members(i) \subseteq Members(i - 1) \cup {Burn}
  /\ job.at = "next" => job.field \subseteq Members(Number) \cup {Burn}
  /\ job.at = "insert" /\ Number >= 2 => UNION job.plan \subseteq Members(Number - 1) \cup {Burn}

\* Waves are answered one after the other, and a failed check is that of the
\* next wave or of one that was bypassed.
WavesInOrder ==
  /\ \A i \in DOMAIN waves : /\ i < Len(waves) => waves[i].status # "pending_review"
                             /\ waves[i].resolved => waves[i].status = "approved"
  /\ \A f \in failed : /\ f.wave <= Len(waves) + 1
                       /\ f.wave = Len(waves) + 1 => waves = <<>> \/ Answered
  /\ job.at = "judge" => waves = <<>> \/ Answered
  /\ job.at = "resolve" => waves # <<>> /\ Latest.status = "approved" /\ ~Latest.resolved

Resolved ==
  /\ \A i \in DOMAIN waves : waves[i].resolved => \A m \in waves[i].elim : out[m] # 0
  /\ job.at = "resolve" => \A m \in Latest.elim : out[m] # 0
  /\ job.at = "reactivate" => \A i \in DOMAIN waves : waves[i].resolved => waves[i].elim \cap job.field = {}

Active(S) == \A m \in S \ (ApprovedOut \cup {Burn}) : out[m] = 0

Actives ==
  /\ Number >= 2 => Active(IF Current.state = "completed" THEN Current.won ELSE Members(Number))
  /\ job.at \in Fielded \ {"reactivate"} => Active(job.field)
  /\ job.at = "next" => Active(job.field)
  /\ job.at = "insert" /\ Number >= 2 => Active(UNION job.plan)

Gone == ApprovedOut \cup Accepted

\* Whoever was in a wave and is not out is still among the first, and is in
\* every later wave.
Cohorts ==
  /\ \A i \in DOMAIN waves : waves[i].cohort \ Gone \subseteq StandingsSlots(Gone)
  /\ \A i, j \in DOMAIN waves :
       i < j /\ waves[j].cohort # {} => waves[i].cohort \ Gone \subseteq waves[j].cohort
  /\ job.at \in Fielded =>
       /\ job.field \ Gone \subseteq StandingsSlots(Gone)
       /\ \A i \in DOMAIN waves : waves[i].cohort \ Gone \subseteq job.field

Compared(S) ==
  \A a, b \in S \ {Burn} : a # b =>
    \E i \in DOMAIN waves : {a, b} \subseteq waves[i].cohort /\ waves[i].status # "pending_review"

Compares ==
  /\ Number >= 2 => Compared(Members(2))
  /\ job.at = "next" /\ Number = 1 => Compared(job.field)
  /\ job.at = "insert" /\ Number = 2 => Compared(UNION job.plan)
  /\ job.at = "reviews" => Compared(job.field \ (job.elim \cup Accepted))
  /\ job.at = "reviewing" => Compared(job.field \ (job.elim \cup job.drop))

IInv == /\ TypeOK /\ LoopsFit /\ MembersOnly /\ Reviewed /\ Shrinks /\ WavesInOrder
        /\ Resolved /\ Actives /\ Cohorts /\ Compares

\* process_active_tournaments finds a tournament without rounds.
FirstRound == \E copies \in SUBSET Miners : CreateFirstRound(copies)

-----------------------------------------------------------------------------
(* Rows are replaced or appended one at a time.                            *)

\* Writing the current row changes no other row.
LEMMA RoundReplaced ==
  ASSUME TypeOK, Number >= 1, NEW r \in Round, SetCurrent(r)
  PROVE  /\ rounds' \in Seq(Round) /\ Number' = Number /\ Current' = r
         /\ \A i \in 1..Number : rounds'[i] = IF i = Number THEN r ELSE rounds[i]
BY DEF TypeOK, SetCurrent, Number, Current

\* A new row becomes the current one.
LEMMA RoundAppended ==
  ASSUME TypeOK, NEW r \in Round, rounds' = Append(rounds, r)
  PROVE  /\ rounds' \in Seq(Round) /\ Number' = Number + 1 /\ Current' = r
         /\ \A i \in 1..Number : rounds'[i] = rounds[i]
BY DEF TypeOK, Number, Current

\* The current round is a row of the table.
LEMMA CurrentIsRound ==
  ASSUME TypeOK, Number >= 1
  PROVE  Current \in Round /\ Number \in 1..Number /\ Number \in Nat
BY DEF TypeOK, Number, Current

\* The latest wave is a row of the table.
LEMMA LatestIsWave ==
  ASSUME TypeOK, waves # <<>>
  PROVE  Latest \in Wave /\ Len(waves) \in DOMAIN waves /\ Len(waves) \in Nat \ {0}
BY DEF TypeOK, Latest

\* Writing the latest wave changes no other wave.
LEMMA WaveReplaced ==
  ASSUME TypeOK, waves # <<>>, NEW w \in Wave, waves' = [waves EXCEPT ![Len(waves)] = w]
  PROVE  /\ waves' \in Seq(Wave) /\ DOMAIN waves' = DOMAIN waves /\ Len(waves') = Len(waves)
         /\ waves' # <<>> /\ Latest' = w
         /\ \A i \in DOMAIN waves : waves'[i] = IF i = Len(waves) THEN w ELSE waves[i]
BY DEF TypeOK, Latest

\* A new wave becomes the latest one.
LEMMA WaveAppended ==
  ASSUME TypeOK, NEW w \in Wave, waves' = Append(waves, w)
  PROVE  /\ waves' \in Seq(Wave) /\ Len(waves') = Len(waves) + 1 /\ Len(waves) \in Nat
         /\ DOMAIN waves' = DOMAIN waves \cup {Len(waves')} /\ Len(waves') \notin DOMAIN waves
         /\ DOMAIN waves = 1..Len(waves)
         /\ waves' # <<>> /\ Latest' = w
         /\ \A i \in DOMAIN waves : waves'[i] = waves[i]
BY DEF TypeOK, Latest

\* The steps that write a wave, by what they write.
LEMMA WavesWritten ==
  ASSUME TypeOK, LoopsFit
  PROVE  /\ ResolveWave /\ waves # <<>> => waves' = [waves EXCEPT ![Len(waves)] = [Latest EXCEPT !.resolved = TRUE]]
         /\ SkipWave => waves' = [waves EXCEPT ![Len(waves)] = [Latest EXCEPT !.status = "skipped"]]
         /\ \A E : ApproveWave(E) =>
              waves' = [waves EXCEPT ![Len(waves)] = [Latest EXCEPT !.status = "approved", !.elim = E]]
BY DEF TypeOK, ResolveWave, SkipWave, ApproveWave, Latest, Wave


-----------------------------------------------------------------------------
(* Which steps change what.                                                *)

\* Each variable is written by the steps named here alone.
LEMMA WhoWrites ==
  ASSUME Next
  PROVE  /\ \/ UNCHANGED rounds \/ FirstRound
            \/ InsertStructure \/ FinishPending \/ RunTasks \/ CompleteRound \/ CreateNextRound
         /\ UNCHANGED rank \/ RunTasks \/ FixScores
         /\ \/ UNCHANGED out \/ EliminateCopies \/ EliminateLosers \/ Reactivate
            \/ ApplyApproved \/ FinishReviews
         /\ \/ UNCHANGED review
            \/ \E m \in Miners, v \in {"clean"} \cup Held : ReviewEntrant(m, v)
            \/ \E m \in Miners, a \in Allowed \cup {"accepted"} : AnswerReview(m, a)
         /\ \/ UNCHANGED waves \/ ResolveWave \/ JudgeClean \/ SkipWave
            \/ \E E \in SUBSET Miners : JudgeFlags(E) \/ ApproveWave(E)
            \/ \E f \in failed : InsertSkipRow(f)
         /\ UNCHANGED failed \/ JudgeFails \/ failed' = {}
         /\ UNCHANGED seen \/ ReadPending \/ seen' = None
         /\ UNCHANGED champion \/ Retain \/ Crown
         /\ UNCHANGED nodes \/ \E m \in Miners : nodes' = nodes \ {m}
         /\ UNCHANGED faults \/ \E f \in Fault : Hit(f)
<1>1. CASE ActiveLoop
  <2>1. CASE Gate
    BY <2>1 DEF Gate, ReadGate, Reactivate, HoldForReview, ApplyApproved, ResolveWave, PassDedup,
       HoldFailed, StartWave, JudgeFails, JudgeFew, JudgeClean, JudgeFlags, StartReviews,
       FinishReviews, ReviewEntrant, gates, Fault
  <2>2. CASE ~Gate
    BY <1>1, <2>2 DEF ActiveLoop, FirstRound, CreateFirstRound, InsertStructure, EliminateCopies,
       CompleteRound, Readvance, RefuseEmpty, EliminateLosers, Retain, Crown, CreateNextRound,
       NobodyPresent, gates
  <2> QED
    BY <2>1, <2>2
<1>2. CASE PendingLoop \/ RunTasks
  BY <1>2 DEF PendingLoop, ReadPending, FinishPending, RunTasks, gates
<1>3. CASE Operator
  BY <1>3 DEF Operator, FixScores, SkipWave, ApproveWave, InsertSkipRow, AnswerReview, Allowed, gates
<1>4. CASE Restart \/ \E m \in Miners : Deregister(m)
  BY <1>4 DEF Restart, Deregister, Fault, gates
<1> QED
  BY <1>1, <1>2, <1>3, <1>4 DEF Next

\* How process_active_tournaments comes to each of its steps.
LEMMA Arrivals ==
  ASSUME TypeOK, Next, job' # job
  PROVE  /\ job'.at = "insert" =>
              CreateNextRound \/ FirstRound
         /\ job'.at = "copies"     => InsertStructure
         /\ job'.at = "advance"    => CompleteRound \/ Readvance
         /\ job'.at = "retain"     => EliminateLosers \/ FinishReviews
         /\ job'.at = "crown"      => EliminateLosers
         /\ job'.at = "gate"       => EliminateLosers \/ FinishReviews
         /\ job'.at = "reactivate" => ReadGate
         /\ job'.at = "dedup"      => Reactivate \/ ResolveWave
         /\ job'.at = "resolve"    => ApplyApproved
         /\ job'.at = "judge"      => StartWave
         /\ job'.at = "reviews"    => PassDedup \/ JudgeFew \/ JudgeClean
         /\ job'.at = "reviewing"  =>
              StartReviews \/ \E m \in Miners, v \in {"clean"} \cup Held : ReviewEntrant(m, v)
         /\ job'.at = "next"       => EliminateLosers \/ FinishReviews
<1> USE DEF TypeOK, JobType, Idle, Goto
<1>1. CASE \/ HoldForReview \/ HoldFailed \/ JudgeFails \/ \E E \in SUBSET Miners : JudgeFlags(E)
           \/ EliminateCopies \/ RefuseEmpty \/ Retain \/ Crown \/ NobodyPresent \/ Restart
  <2>1. job'.at = "idle"
    BY <1>1 DEF HoldForReview, HoldFailed, JudgeFails, JudgeFlags, EliminateCopies, RefuseEmpty,
       Retain, Crown, NobodyPresent, Restart
  <2> QED
    BY <2>1
<1>2. CASE ReadGate \/ Reactivate \/ ApplyApproved \/ ResolveWave \/ StartWave
  BY <1>2 DEF ReadGate, Reactivate, ApplyApproved, ResolveWave, StartWave
<1>3. CASE PassDedup \/ JudgeFew \/ JudgeClean \/ StartReviews
  BY <1>3 DEF PassDedup, JudgeFew, JudgeClean, StartReviews
<1>4. CASE \E m \in Miners, v \in {"clean"} \cup Held : ReviewEntrant(m, v)
  BY <1>4 DEF ReviewEntrant
<1>5. CASE FinishReviews
  <2>1. job'.at \in {"idle", "gate", "retain", "next"}
    BY <1>5 DEF FinishReviews
  <2> QED
    BY <1>5, <2>1
<1>6. CASE EliminateLosers
  <2>1. job'.at \in {"retain", "crown", "gate", "next"}
    BY <1>6 DEF EliminateLosers
  <2> QED
    BY <1>6, <2>1
<1>7. CASE CompleteRound \/ Readvance
  BY <1>7 DEF CompleteRound, Readvance
<1>8. CASE CreateNextRound \/ FirstRound
  <2>1. job'.at = "insert"
    BY <1>8 DEF CreateNextRound, FirstRound, CreateFirstRound
  <2> QED
    BY <1>8, <2>1
<1>9. CASE InsertStructure
  <2>1. job'.at \in {"copies", "idle"}
    BY <1>9 DEF InsertStructure
  <2> QED
    BY <1>9, <2>1
<1>10. CASE \/ PendingLoop \/ RunTasks \/ Operator \/ \E m \in Miners : Deregister(m)
  BY <1>10 DEF PendingLoop, ReadPending, FinishPending, RunTasks, Operator, FixScores, SkipWave,
     ApproveWave, InsertSkipRow, AnswerReview, Deregister
<1> QED
  BY <1>1, <1>2, <1>3, <1>4, <1>5, <1>6, <1>7, <1>8, <1>9, <1>10 DEF Next, ActiveLoop, Gate, FirstRound
-----------------------------------------------------------------------------
(* Types                                                                   *)

\* A tournament without rounds satisfies every part.
LEMMA InitHolds == Init => IInv
<1> SUFFICES ASSUME Init PROVE IInv
  OBVIOUS
<1> USE DEF Init, Idle, Number
<1>1. TypeOK
  BY TournamentAssumption DEF TypeOK, JobType, Steps, Hotkeys, Statuses, Contest
<1>2. LoopsFit /\ MembersOnly
  BY DEF LoopsFit, MembersOnly, Closed, Gated, Fielded
<1>3. Reviewed /\ Shrinks /\ WavesInOrder /\ Resolved
  BY DEF Reviewed, Shrinks, WavesInOrder, Resolved
<1>4. Actives /\ Cohorts /\ Compares
  BY DEF Actives, Cohorts, Compares, Fielded
<1> QED
  BY <1>1, <1>2, <1>3, <1>4 DEF IInv

\* Places in the standing go to ranked miners that are not left out.
LEMMA SlotsAreRanked ==
  ASSUME TypeOK, NEW S
  PROVE  StandingsSlots(S) \subseteq DOMAIN rank \ S /\ StandingsSlots(S) \subseteq Miners
BY DEF TypeOK, StandingsSlots

\* Those who get through are hotkeys of the tournament.
LEMMA WinnersAreHotkeys ==
  ASSUME TypeOK, Number >= 1
  PROVE  Winners \subseteq Hotkeys
BY CurrentIsRound, SlotsAreRanked DEF Winners, Round, Contest, Hotkeys

\* An elimination stores the number of a round that exists.
LEMMA EliminateType ==
  ASSUME TypeOK, NEW S, Eliminate(S), Number' = Number
  PROVE  out' \in [Hotkeys -> 0..Number']
BY DEF TypeOK, Eliminate, Number

\* A standing ranks miners that were assigned, and nobody else.
LEMMA RankingType ==
  ASSUME TypeOK, Number >= 1, NEW r \in Rankings(Current.assigned \ {Burn})
  PROVE  /\ DOMAIN r \subseteq Miners /\ r \in [DOMAIN r -> Nat]
         /\ DOMAIN r \subseteq Current.assigned \ {Burn}
<1>1. Current.assigned \ {Burn} \subseteq Miners
  BY CurrentIsRound DEF Round, Contest, Hotkeys
<1>2. PICK T \in SUBSET (Current.assigned \ {Burn}) : r \in [T -> 1..Cardinality(T)]
  BY DEF Rankings
<1>3. IsFiniteSet(T)
  BY <1>1, TournamentAssumption, FS_Subset
<1>4. Cardinality(T) \in Nat
  BY <1>3, FS_CardinalityType
<1> QED
  BY <1>1, <1>2, <1>4

\* The row that each step on the current round writes.
LEMMA RowWritten ==
  ASSUME IInv, Next
  PROVE  /\ InsertStructure => /\ Number >= 1 /\ [Current EXCEPT !.contests = job.plan] \in Round
                               /\ SetCurrent([Current EXCEPT !.contests = job.plan])
         /\ FinishPending => /\ Number >= 1
                             /\ \E A, s : /\ A = Current.assigned \cup ((UNION seen.contests) \cap Assignable(Current.final))
                                          /\ s \in {"pending", "active"}
                                          /\ s = "active" => seen.contests # {}
                                          /\ [Current EXCEPT !.assigned = A, !.state = s] \in Round
                                          /\ SetCurrent([Current EXCEPT !.assigned = A, !.state = s])
         /\ RunTasks => /\ Number >= 1
                        /\ \E W : /\ W \subseteq Current.assigned \cup Current.won \cup {Burn}
                                  /\ [Current EXCEPT !.done = TRUE, !.won = W] \in Round
                                  /\ SetCurrent([Current EXCEPT !.done = TRUE, !.won = W])
         /\ CompleteRound => /\ Number >= 1 /\ [Current EXCEPT !.state = "completed"] \in Round
                             /\ SetCurrent([Current EXCEPT !.state = "completed"])
<1> USE DEF IInv
<1>1. ASSUME InsertStructure
      PROVE  /\ Number >= 1 /\ [Current EXCEPT !.contests = job.plan] \in Round
             /\ SetCurrent([Current EXCEPT !.contests = job.plan])
  <2>1. Number >= 1 /\ Current \in Round
    BY <1>1, CurrentIsRound DEF InsertStructure, LoopsFit
  <2> QED
    BY <1>1, <2>1 DEF InsertStructure, TypeOK, JobType, Round
<1>2. ASSUME FinishPending
      PROVE  /\ Number >= 1
             /\ \E A, s : /\ A = Current.assigned \cup ((UNION seen.contests) \cap Assignable(Current.final))
                          /\ s \in {"pending", "active"}
                          /\ s = "active" => seen.contests # {}
                          /\ [Current EXCEPT !.assigned = A, !.state = s] \in Round
                          /\ SetCurrent([Current EXCEPT !.assigned = A, !.state = s])
  <2>1. Number >= 1 /\ Current \in Round /\ seen.contests \in SUBSET Contest
    BY <1>2, CurrentIsRound DEF FinishPending, LoopsFit, Round
  <2>2. PICK A, s : /\ A = Current.assigned \cup ((UNION seen.contests) \cap Assignable(Current.final))
                    /\ s \in {"pending", "active"}
                    /\ s = "active" => seen.contests # {}
                    /\ SetCurrent([Current EXCEPT !.assigned = A, !.state = s])
    BY <1>2 DEF FinishPending
  <2>3. [Current EXCEPT !.assigned = A, !.state = s] \in Round
    BY <2>1, <2>2 DEF Contest, Round
  <2> QED
    BY <2>1, <2>2, <2>3
<1>3. ASSUME RunTasks
      PROVE  /\ Number >= 1
             /\ \E W : /\ W \subseteq Current.assigned \cup Current.won \cup {Burn}
                       /\ [Current EXCEPT !.done = TRUE, !.won = W] \in Round
                       /\ SetCurrent([Current EXCEPT !.done = TRUE, !.won = W])
  <2>1. Number >= 1
    <3>1. rounds # <<>>
      BY <1>3 DEF RunTasks
    <3> QED
      BY <3>1 DEF TypeOK, Number
  <2>2. Current \in Round
    BY <2>1, CurrentIsRound
  <2>3. CASE Number = 1
    <3>1. [Current EXCEPT !.done = TRUE] = [Current EXCEPT !.done = TRUE, !.won = Current.won]
      BY <2>2 DEF Round
    <3> QED
      BY <1>3, <2>1, <2>2, <2>3, <3>1 DEF RunTasks, Round
  <2>4. CASE Number # 1
    <3>1. PICK W \in Results : SetCurrent([Current EXCEPT !.done = TRUE, !.won = W])
      BY <1>3, <2>4 DEF RunTasks
    <3>2. W \in Contest /\ W \subseteq Current.assigned \cup {Burn}
      BY <2>2, <3>1 DEF Results, Round, Contest, Hotkeys
    <3> QED
      BY <2>1, <2>2, <3>1, <3>2 DEF Round
  <2> QED
    BY <2>3, <2>4
<1>4. ASSUME CompleteRound
      PROVE  /\ Number >= 1 /\ [Current EXCEPT !.state = "completed"] \in Round
             /\ SetCurrent([Current EXCEPT !.state = "completed"])
  <2>1. Number >= 1 /\ Current \in Round
    BY <1>4, CurrentIsRound DEF CompleteRound, TypeOK, Number
  <2> QED
    BY <1>4, <2>1 DEF CompleteRound, Round
<1> QED
  BY <1>1, <1>2, <1>3, <1>4

\* Every step leaves rows of rounds in the table.
LEMMA RoundsType ==
  ASSUME IInv, Next
  PROVE  rounds' \in Seq(Round)
<1> USE DEF IInv
<1>1. CASE FirstRound
  <2>1. NewRound(FALSE) \in Round
    BY DEF NewRound, Round, Contest
  <2>2. \A r \in Round : <<r>> \in Seq(Round)
    OBVIOUS
  <2> QED
    BY <1>1, <2>1, <2>2 DEF FirstRound, CreateFirstRound
<1>2. CASE InsertStructure \/ FinishPending \/ RunTasks \/ CompleteRound
  <2>1. Number >= 1 /\ \E r \in Round : SetCurrent(r)
    BY <1>2, RowWritten
  <2> QED
    BY <2>1, RoundReplaced
<1>3. CASE CreateNextRound
  <2>1. NewRound(NextIsFinal(job.field)) \in Round
    BY DEF NewRound, NextIsFinal, Round, Contest
  <2> QED
    BY <1>3, <2>1 DEF CreateNextRound, TypeOK
<1> QED
  BY <1>1, <1>2, <1>3, WhoWrites DEF TypeOK

\* The number of rounds never falls.
LEMMA NumberGrows ==
  ASSUME IInv, Next
  PROVE  /\ Number \in Nat /\ Number' \in Nat /\ Number' \in {Number, Number + 1}
         /\ Number' # Number =>
              CreateNextRound \/ FirstRound
<1>1. Number \in Nat
  BY DEF IInv, TypeOK, Number
<1>2. CASE FirstRound \/ CreateNextRound
  <2>1. Number' = Number + 1
    <3>1. CASE CreateNextRound
      BY <3>1 DEF CreateNextRound, IInv, TypeOK, Number
    <3>2. CASE FirstRound
      <4>1. Len(<<NewRound(FALSE)>>) = 1 /\ Len(rounds) = 0
        BY <3>2 DEF FirstRound, CreateFirstRound
      <4> QED
        BY <3>2, <4>1 DEF FirstRound, CreateFirstRound, Number
    <3> QED
      BY <1>2, <3>1, <3>2
  <2> QED
    BY <1>1, <1>2, <2>1
<1>3. CASE InsertStructure \/ FinishPending \/ RunTasks \/ CompleteRound
  <2>1. \E r : SetCurrent(r)
    BY <1>3 DEF InsertStructure, FinishPending, RunTasks, CompleteRound
  <2>2. Number' = Number
    BY <2>1 DEF SetCurrent, IInv, TypeOK, Number
  <2> QED
    BY <1>1, <2>2
<1> QED
  BY <1>1, <1>2, <1>3, WhoWrites DEF Number

\* Every step leaves a round number for each hotkey.
LEMMA OutType ==
  ASSUME IInv, Next
  PROVE  out' \in [Hotkeys -> 0..Number']
<1> USE DEF IInv
<1>1. CASE UNCHANGED out
  BY <1>1, NumberGrows DEF TypeOK
<1>2. CASE Reactivate
  BY <1>2 DEF TypeOK, Reactivate, Number
<1>3. CASE EliminateCopies \/ EliminateLosers \/ ApplyApproved \/ FinishReviews
  <2>1. Number' = Number
    BY <1>3 DEF EliminateCopies, EliminateLosers, ApplyApproved, FinishReviews, Number
  <2> QED
    BY <1>3, <2>1, EliminateType
       DEF EliminateCopies, EliminateLosers, ApplyApproved, FinishReviews
<1> QED
  BY <1>1, <1>2, <1>3, WhoWrites

\* Every step leaves a standing of miners.
LEMMA RankType ==
  ASSUME IInv, Next
  PROVE  DOMAIN rank' \subseteq Miners /\ rank' \in [DOMAIN rank' -> Nat]
<1> USE DEF IInv
<1>1. CASE (RunTasks /\ Number = 1) \/ FixScores
  <2>1. Number >= 1
    BY <1>1 DEF FixScores
  <2>2. rank' \in Rankings(Current.assigned \ {Burn})
    BY <1>1 DEF RunTasks, FixScores
  <2> QED
    BY <2>1, <2>2, RankingType
<1>2. CASE ~((RunTasks /\ Number = 1) \/ FixScores)
  <2>1. UNCHANGED rank
    BY <1>2, WhoWrites DEF RunTasks
  <2> QED
    BY <2>1 DEF TypeOK
<1> QED
  BY <1>1, <1>2

\* Every step leaves rows of waves, and failed checks with their fields.
LEMMA WavesType ==
  ASSUME IInv, Next
  PROVE  waves' \in Seq(Wave) /\ failed' \subseteq [wave : Nat \ {0}, field : SUBSET Miners]
<1> USE DEF IInv
<1>1. waves' \in Seq(Wave)
  <2>1. CASE ResolveWave \/ SkipWave \/ \E E \in SUBSET Miners : ApproveWave(E)
    <3>1. waves # <<>>
      BY <2>1 DEF WavesInOrder, ResolveWave, SkipWave, ApproveWave
    <3>2. Latest \in Wave
      BY <3>1, LatestIsWave
    <3>3. \E w \in Wave : waves' = [waves EXCEPT ![Len(waves)] = w]
      <4>1. [Latest EXCEPT !.resolved = TRUE] \in Wave /\ [Latest EXCEPT !.status = "skipped"] \in Wave
        BY <3>2 DEF Wave
      <4>2. \A E \in SUBSET Miners : [Latest EXCEPT !.status = "approved", !.elim = E] \in Wave
        BY <3>2 DEF Wave
      <4> QED
        BY <2>1, <3>1, <4>1, <4>2, WavesWritten
    <3> QED
      BY <3>1, <3>3, WaveReplaced
  <2>2. CASE JudgeClean \/ \E E \in SUBSET Miners : JudgeFlags(E)
    <3>1. job.field \in SUBSET Miners
      BY <2>2 DEF JudgeClean, JudgeFlags, LoopsFit, Fielded
    <3>2. \A s \in {"skipped", "pending_review"}, E \in SUBSET Miners :
            NewWave(s, job.field, E, {}) \in Seq(Wave)
      BY <3>1 DEF NewWave, TypeOK, Wave
    <3> QED
      BY <2>2, <3>2 DEF JudgeClean, JudgeFlags
  <2>3. CASE \E f \in failed : InsertSkipRow(f)
    BY <2>3 DEF InsertSkipRow, NewWave, TypeOK, Wave
  <2> QED
    BY <2>1, <2>2, <2>3, WhoWrites DEF TypeOK
<1>2. failed' \subseteq [wave : Nat \ {0}, field : SUBSET Miners]
  BY WhoWrites DEF JudgeFails, TypeOK, LoopsFit, Fielded
<1> QED
  BY <1>1, <1>2

\* Only miners are put out by the gates.
LEMMA GoneAreMiners ==
  ASSUME TypeOK
  PROVE  ApprovedOut \subseteq Miners /\ Gone \subseteq Miners
<1>1. \A i \in DOMAIN waves : waves[i] \in Wave
  BY DEF TypeOK
<1> QED
  BY <1>1 DEF ApprovedOut, Gone, Accepted, Wave

\* What process_active_tournaments may hold.
LEMMA JobBuilt ==
  ASSUME TypeOK
  PROVE  /\ Idle \in JobType /\ \A j \in JobType, s \in Steps : [j EXCEPT !.at = s] \in JobType
         /\ \A j \in JobType, s \in Steps, E \in SUBSET Miners, F \in Contest :
              [j EXCEPT !.at = s, !.elim = E, !.field = F] \in JobType
         /\ \A j \in JobType, s \in Steps, F \in Contest : [j EXCEPT !.at = s, !.field = F] \in JobType
         /\ \A j \in JobType, s \in Steps, E \in SUBSET Miners : [j EXCEPT !.at = s, !.elim = E] \in JobType
         /\ \A j \in JobType, s \in Steps, P \in SUBSET Contest : [j EXCEPT !.at = s, !.plan = P] \in JobType
         /\ \A j \in JobType, s \in Steps, P \in SUBSET Contest, D \in SUBSET Miners :
              [j EXCEPT !.at = s, !.plan = P, !.drop = D] \in JobType
         /\ \A j \in JobType, s \in Steps, T, D \in SUBSET Miners, b \in BOOLEAN :
              [j EXCEPT !.at = s, !.todo = T, !.drop = D, !.halt = b] \in JobType
<1> USE DEF JobType
<1>1. Idle \in JobType
  BY DEF Idle, Steps, Contest
<1>2. \A j \in JobType, s \in Steps : [j EXCEPT !.at = s] \in JobType
  OBVIOUS
<1>3. \A j \in JobType, s \in Steps, E \in SUBSET Miners, F \in Contest :
        [j EXCEPT !.at = s, !.elim = E, !.field = F] \in JobType
  OBVIOUS
<1>4. \A j \in JobType, s \in Steps, F \in Contest : [j EXCEPT !.at = s, !.field = F] \in JobType
  OBVIOUS
<1>5. \A j \in JobType, s \in Steps, E \in SUBSET Miners : [j EXCEPT !.at = s, !.elim = E] \in JobType
  OBVIOUS
<1>6. \A j \in JobType, s \in Steps, P \in SUBSET Contest : [j EXCEPT !.at = s, !.plan = P] \in JobType
  OBVIOUS
<1>7. \A j \in JobType, s \in Steps, P \in SUBSET Contest, D \in SUBSET Miners :
        [j EXCEPT !.at = s, !.plan = P, !.drop = D] \in JobType
  OBVIOUS
<1>8. \A j \in JobType, s \in Steps, T, D \in SUBSET Miners, b \in BOOLEAN :
        [j EXCEPT !.at = s, !.todo = T, !.drop = D, !.halt = b] \in JobType
  OBVIOUS
<1> QED
  BY <1>1, <1>2, <1>3, <1>4, <1>5, <1>6, <1>7, <1>8

\* Every step leaves the loop with something it may hold.
LEMMA JobTyped ==
  ASSUME IInv, Next
  PROVE  job' \in JobType
<1> USE DEF IInv
<1>1. /\ job \in JobType /\ job.field \in Contest /\ job.elim \in SUBSET Miners
      /\ job.todo \in SUBSET Miners /\ job.halt \in BOOLEAN
  BY DEF TypeOK, JobType
<1>2. CASE \/ HoldForReview \/ HoldFailed \/ JudgeFails \/ \E E \in SUBSET Miners : JudgeFlags(E)
           \/ EliminateCopies \/ RefuseEmpty \/ Retain \/ Crown \/ NobodyPresent \/ Restart
  <2>1. job' = Idle
    BY <1>2 DEF HoldForReview, HoldFailed, JudgeFails, JudgeFlags, EliminateCopies, RefuseEmpty,
       Retain, Crown, NobodyPresent, Restart
  <2> QED
    BY <2>1, JobBuilt
<1>3. CASE FirstRound
  <2>1. PICK copies \in SUBSET Miners : CreateFirstRound(copies)
    BY <1>3 DEF FirstRound
  <2>2. {(Miners \cap nodes) \ copies} \in SUBSET Contest
    BY DEF Contest, Hotkeys
  <2> QED
    BY <2>1, <2>2, JobBuilt DEF FirstRound, CreateFirstRound, Steps
<1>4. CASE \/ InsertStructure \/ CompleteRound \/ Readvance
           \/ Reactivate \/ ApplyApproved \/ ResolveWave \/ StartWave \/ JudgeFew \/ JudgeClean
  <2>1. job' = Idle \/ \E s \in Steps : job' = [job EXCEPT !.at = s] \/ job' = [Idle EXCEPT !.at = s]
    BY <1>4 DEF InsertStructure, CompleteRound, Readvance, Reactivate, ApplyApproved, ResolveWave,
       StartWave, JudgeFew, JudgeClean, Goto, Steps
  <2> QED
    BY <1>1, <2>1, JobBuilt
<1>5. CASE EliminateLosers \/ FinishReviews
  <2> DEFINE To(s) == [Idle EXCEPT !.at = s]
             Next_(F) == [Idle EXCEPT !.at = "next", !.field = F]
  <2>0. \A s \in Steps, F \in Contest : To(s) \in JobType /\ Next_(F) \in JobType
    BY JobBuilt DEF Steps
  <2> HIDE DEF To, Next_
  <2>1. CASE EliminateLosers
    <3>1. Winners \in Contest
      BY <2>1, WinnersAreHotkeys DEF EliminateLosers, LoopsFit, Closed, Contest
    <3>2. job' \in {To("retain"), To("crown"), To("gate"), Next_(Winners)}
      BY <2>1 DEF EliminateLosers, To, Next_
    <3> QED
      BY <2>0, <3>1, <3>2 DEF Steps
  <2>2. CASE FinishReviews
    <3>1. job' \in {Idle, To("gate"), To("retain"), Next_(job.field)}
      BY <2>2 DEF FinishReviews, To, Next_
    <3>2. Idle \in JobType
      BY JobBuilt
    <3> QED
      BY <1>1, <2>0, <3>1, <3>2 DEF Steps
  <2> QED
    BY <1>5, <2>1, <2>2
<1>6. CASE ReadGate
  <2>1. PICK G : /\ G = ApprovedOut \cup Accepted
                 /\ job' = [job EXCEPT !.at = "reactivate", !.elim = G, !.field = StandingsSlots(G)]
    BY <1>6 DEF ReadGate
  <2>2. G \in SUBSET Miners /\ StandingsSlots(G) \in Contest
    BY <2>1, GoneAreMiners, SlotsAreRanked DEF Gone, Contest, Hotkeys
  <2> QED
    BY <1>1, <2>1, <2>2, JobBuilt DEF Steps
<1>7. CASE PassDedup
  <2>1. job.elim \cup ApprovedOut \in SUBSET Miners
    BY <1>1, GoneAreMiners
  <2> QED
    BY <1>1, <1>7, <2>1, JobBuilt DEF PassDedup, Steps
<1>8. CASE StartReviews
  <2>1. {m \in job.field : review[m] = "none"} \in SUBSET Miners /\ job.field \cap Accepted \in SUBSET Miners
    BY <1>8 DEF StartReviews, LoopsFit, Fielded, Accepted
  <2>2. (\E m \in job.field : review[m] \in Held) \in BOOLEAN
    OBVIOUS
  <2> QED
    BY <1>1, <1>8, <2>1, <2>2, JobBuilt DEF StartReviews, Steps
<1>9. CASE \E m \in Miners, v \in {"clean"} \cup Held : ReviewEntrant(m, v)
  <2>1. PICK m \in Miners, v \in {"clean"} \cup Held : ReviewEntrant(m, v)
    BY <1>9
  <2>2. (job.halt \/ Holds(v)) \in BOOLEAN
    OBVIOUS
  <2>3. \A b \in BOOLEAN : [job EXCEPT !.todo = job.todo \ {m}, !.halt = b] \in JobType
    BY DEF TypeOK, JobType
  <2> QED
    BY <2>1, <2>2, <2>3 DEF ReviewEntrant
<1>10. CASE CreateNextRound
  <2>1. Even(Present(job.field)) \subseteq Hotkeys
    BY DEF TypeOK, Even, Present, Hotkeys
  <2>2. \A P \in Pairings(Even(Present(job.field))) : P \in SUBSET Contest
    BY <2>1 DEF Pairings, Contest
  <2>3. PICK P \in Pairings(Even(Present(job.field))) : job' = [Idle EXCEPT !.at = "insert", !.plan = P]
    BY <1>10 DEF CreateNextRound
  <2> QED
    BY <2>2, <2>3, JobBuilt DEF Steps
<1>11. CASE PendingLoop \/ RunTasks \/ Operator \/ \E m \in Miners : Deregister(m)
  <2>1. job' = job
    BY <1>11 DEF PendingLoop, ReadPending, FinishPending, RunTasks, Operator, FixScores, SkipWave,
       ApproveWave, InsertSkipRow, AnswerReview, Deregister
  <2> QED
    BY <1>1, <2>1
<1> QED
  BY <1>2, <1>3, <1>4, <1>5, <1>6, <1>7, <1>8, <1>9, <1>10, <1>11 DEF Next, ActiveLoop, Gate, FirstRound

\* Every step keeps the types.
LEMMA TypeStep ==
  ASSUME IInv, Next
  PROVE  TypeOK'
<1> USE DEF IInv
<1>1. review' \in [Miners -> Statuses]
  BY WhoWrites DEF TypeOK, ReviewEntrant, AnswerReview, Statuses, Allowed, Held
<1>2. champion' \in Hotkeys \cup {None}
  <2>1. CASE Crown
    <3>1. Current.won \subseteq Hotkeys
      BY <2>1, CurrentIsRound DEF Crown, LoopsFit, Closed, Round, Contest
    <3> QED
      BY <2>1, <3>1 DEF Crown
  <2> QED
    BY <2>1, WhoWrites DEF TypeOK, Retain, Hotkeys
<1>3. nodes' \subseteq Hotkeys
  BY WhoWrites DEF TypeOK
<1>4. seen' \in {None} \cup [contests : SUBSET Contest]
  <2>1. CASE ReadPending
    <3>1. Number >= 1
      BY <2>1 DEF ReadPending, TypeOK, Number
    <3> QED
      BY <2>1, <3>1, CurrentIsRound DEF ReadPending, Round
  <2> QED
    BY <2>1, WhoWrites DEF TypeOK
<1>5. faults' \in [Fault -> Nat]
  <2>1. \A f \in Fault : [faults EXCEPT ![f] = @ + 1] \in [Fault -> Nat]
    BY DEF TypeOK
  <2> QED
    BY <2>1, WhoWrites DEF TypeOK, Hit
<1> QED
  BY <1>1, <1>2, <1>3, <1>4, <1>5, RoundsType, OutType, RankType, WavesType, JobTyped DEF TypeOK


-----------------------------------------------------------------------------
(* What the steps leave as it is.                                          *)

\* The steps that write the rounds, out or the waves and belong to the gate
\* loop all move it on.
LEMMA JobMoves ==
  ASSUME TypeOK,
         \/ FirstRound
         \/ InsertStructure \/ CompleteRound \/ CreateNextRound
         \/ EliminateCopies \/ EliminateLosers \/ Reactivate \/ ApplyApproved \/ FinishReviews
         \/ ResolveWave \/ JudgeClean \/ \E E \in SUBSET Miners : JudgeFlags(E)
  PROVE  job' # job
<1> USE DEF TypeOK, JobType, Idle, Goto
<1>1. CASE \/ FirstRound
           \/ CompleteRound \/ CreateNextRound
  BY <1>1 DEF FirstRound, CreateFirstRound, CompleteRound, CreateNextRound
<1>2. CASE \/ InsertStructure \/ EliminateCopies \/ Reactivate \/ ApplyApproved \/ ResolveWave
           \/ JudgeClean \/ \E E \in SUBSET Miners : JudgeFlags(E)
  BY <1>2 DEF InsertStructure, EliminateCopies, Reactivate, ApplyApproved, ResolveWave, JudgeClean, JudgeFlags
<1>3. CASE EliminateLosers
  <2>1. job'.at \in {"retain", "crown", "gate", "next"} /\ job.at = "advance"
    BY <1>3 DEF EliminateLosers
  <2> QED
    BY <2>1
<1>4. CASE FinishReviews
  <2>1. job'.at \in {"idle", "gate", "retain", "next"} /\ job.at = "reviewing"
    BY <1>4 DEF FinishReviews
  <2> QED
    BY <2>1
<1> QED
  BY <1>1, <1>2, <1>3, <1>4

\* While the loop stands still, nobody is eliminated or reactivated.
LEMMA JobStays ==
  ASSUME IInv, Next, job' = job
  PROVE  UNCHANGED out /\ (UNCHANGED rounds \/ FinishPending \/ RunTasks)
BY JobMoves, WhoWrites DEF IInv

\* The row of the next round has no pairs yet.
LEMMA NextRoundWritten ==
  ASSUME IInv, CreateNextRound
  PROVE  /\ Number' = Number + 1 /\ Current' = NewRound(NextIsFinal(job.field))
         /\ Current'.contests = {} /\ Current'.assigned = {} /\ Current'.won = {} /\ Current'.state = "pending"
         /\ \A i \in 1..Number : rounds'[i] = rounds[i]
<1>1. NewRound(NextIsFinal(job.field)) \in Round
  BY DEF NewRound, NextIsFinal, Round, Contest
<1>2. rounds' = Append(rounds, NewRound(NextIsFinal(job.field)))
  BY DEF CreateNextRound
<1>3. Current' = NewRound(NextIsFinal(job.field)) /\ Number' = Number + 1 /\ \A i \in 1..Number : rounds'[i] = rounds[i]
  BY <1>1, <1>2, RoundAppended DEF IInv
<1> QED
  BY <1>3 DEF NewRound

\* Nor has the row of the first round its group.
LEMMA FirstRoundWritten ==
  ASSUME IInv, FirstRound
  PROVE  /\ Number = 0 /\ Number' = 1
         /\ Current'.contests = {} /\ Current'.assigned = {} /\ Current'.won = {} /\ Current'.state = "pending"
<1>1. Len(<<NewRound(FALSE)>>) = 1 /\ Len(rounds) = 0 /\ <<NewRound(FALSE)>>[1] = NewRound(FALSE)
  BY DEF FirstRound, CreateFirstRound
<1>2. Number = 0 /\ Number' = 1 /\ Current' = NewRound(FALSE)
  BY <1>1 DEF FirstRound, CreateFirstRound, Number, Current
<1> QED
  BY <1>2 DEF NewRound

\* Only InsertStructure gives a round its contests.
LEMMA RowsKept ==
  ASSUME IInv, Next
  PROVE  /\ \A i \in 1..Number : /\ i # Number => rounds'[i] = rounds[i]
                                 /\ ~InsertStructure => rounds'[i].contests = rounds[i].contests
         /\ InsertStructure => Number' = Number /\ rounds'[Number].contests = job.plan
<1> USE DEF IInv
<1>1. Number \in Nat
  BY NumberGrows
<1>2. CASE InsertStructure
  <2>1. Current \in Round
    BY <1>2, RowWritten, CurrentIsRound
  <2>2. [Current EXCEPT !.contests = job.plan].contests = job.plan
    BY <2>1 DEF Round
  <2>3. /\ Number' = Number /\ rounds'[Number].contests = job.plan
        /\ \A i \in 1..Number : i # Number => rounds'[i] = rounds[i]
    <3>1. PICK r \in Round : Number >= 1 /\ r.contests = job.plan /\ SetCurrent(r)
      BY <1>2, <2>2, RowWritten
    <3>2. /\ Number' = Number
          /\ \A i \in 1..Number : rounds'[i] = IF i = Number THEN r ELSE rounds[i]
      BY <3>1, RoundReplaced
    <3> QED
      BY <1>1, <3>1, <3>2
  <2> QED
    BY <1>2, <2>3
<1>3. CASE FinishPending \/ RunTasks \/ CompleteRound
  <2>1. Number >= 1 /\ \E r \in Round : SetCurrent(r) /\ r.contests = Current.contests
    <3>1. Number >= 1
      BY <1>3, RowWritten
    <3>2. Current \in Round
      BY <3>1, CurrentIsRound
    <3> QED
      BY <1>3, <3>1, <3>2, RowWritten DEF Round
  <2>2. ~InsertStructure
    BY <1>3 DEF InsertStructure, FinishPending, RunTasks, CompleteRound, LoopsFit
  <2> QED
    BY <1>1, <2>1, <2>2, RoundReplaced DEF Current
<1>4. CASE CreateNextRound
  BY <1>1, <1>4, NextRoundWritten DEF CreateNextRound, InsertStructure
<1>5. CASE FirstRound
  <2>1. Number = 0 /\ ~InsertStructure
    BY <1>5, FirstRoundWritten DEF FirstRound, CreateFirstRound, InsertStructure
  <2> QED
    BY <2>1
<1>6. CASE UNCHANGED rounds /\ ~InsertStructure
  BY <1>1, <1>6
<1> QED
  BY <1>2, <1>3, <1>4, <1>5, <1>6, WhoWrites

-----------------------------------------------------------------------------
(* The loops and the rounds in the table                                   *)

\* Every step keeps LoopsFit.
LEMMA LoopsFitStep ==
  ASSUME IInv, Next
  PROVE  LoopsFit'
<1> USE DEF IInv
<1>1. Number \in Nat
  BY NumberGrows
\* A round that is over is left as it is, but for its successor's row.
<1>2. job'.at \in Closed => Number' >= 1 /\ Current'.state = "completed"
  <2>1. SUFFICES ASSUME job'.at \in Closed PROVE Number' >= 1 /\ Current'.state = "completed"
    OBVIOUS
  <2>2. CASE CompleteRound
    <3>1. Number >= 1 /\ Current \in Round
      BY <2>2, RowWritten, CurrentIsRound
    <3>2. PICK r \in Round : r.state = "completed" /\ SetCurrent(r)
      BY <2>2, <3>1, RowWritten DEF Round
    <3> QED
      BY <3>1, <3>2, RoundReplaced
  <2>3. CASE ~CompleteRound
    <3>1. job.at \in Closed \/ Readvance
      BY <2>1, <2>3, Arrivals DEF Closed, Gated, Fielded, EliminateLosers, FinishReviews, ReadGate, Reactivate,
         ResolveWave, ApplyApproved, StartWave, PassDedup, JudgeFew, JudgeClean, StartReviews, ReviewEntrant
    <3>2. Number >= 1 /\ Current.state = "completed"
      BY <1>1, <3>1 DEF LoopsFit, Readvance, Number, TypeOK
    <3>3. ~(FinishPending \/ RunTasks)
      BY <3>2 DEF LoopsFit, FinishPending, RunTasks
    <3>4. ~(InsertStructure \/ CreateNextRound \/ FirstRound)
      <4>1. CreateNextRound \/ FirstRound => job'.at = "insert"
        BY DEF CreateNextRound, FirstRound, CreateFirstRound, Idle
      <4>2. ~InsertStructure
        BY <3>2 DEF InsertStructure, LoopsFit
      <4> QED
        BY <2>1, <4>1, <4>2 DEF Closed, Gated, Fielded
    <3>5. UNCHANGED rounds
      BY <2>3, <3>3, <3>4, WhoWrites
    <3> QED
      BY <3>2, <3>5 DEF Number, Current
  <2> QED
    BY <2>2, <2>3
<1>3. job'.at \in Gated \cup {"copies"} => Number' = 1
  <2>1. SUFFICES ASSUME job'.at \in Gated \cup {"copies"} PROVE Number' = 1
    OBVIOUS
  <2>2. Number' = Number
    <3>1. CreateNextRound \/ FirstRound => job'.at = "insert"
      BY DEF CreateNextRound, FirstRound, CreateFirstRound, Idle
    <3> QED
      BY <2>1, <3>1, NumberGrows DEF Gated, Fielded
  <2>3. Number = 1
    <3>1. CASE InsertStructure
      BY <2>1, <3>1 DEF InsertStructure, Idle, Gated, Fielded
    <3>2. CASE EliminateLosers
      BY <2>1, <3>2 DEF EliminateLosers, Idle, Gated, Fielded
    <3>3. CASE ~(InsertStructure \/ EliminateLosers)
      <4>1. job.at \in Gated \cup {"copies"}
        BY <2>1, <3>3, Arrivals DEF Gated, Fielded, FinishReviews, ReadGate, Reactivate,
           ResolveWave, ApplyApproved, StartWave, PassDedup, JudgeFew, JudgeClean, StartReviews, ReviewEntrant
      <4> QED
        BY <4>1 DEF LoopsFit
    <3> QED
      BY <3>1, <3>2, <3>3
  <2> QED
    BY <2>2, <2>3
<1>4. job'.at \in Fielded => job'.field \subseteq Miners
  <2>1. CASE ReadGate
    BY <2>1, SlotsAreRanked DEF ReadGate, TypeOK, JobType
  <2>2. CASE ~ReadGate /\ job'.at \in Fielded
    <3>1. job.at \in Fielded /\ job'.field = job.field
      BY <2>2, Arrivals DEF Fielded, Reactivate, ResolveWave, ApplyApproved, StartWave, PassDedup, JudgeFew,
         JudgeClean, StartReviews, ReviewEntrant, Goto, TypeOK, JobType
    <3> QED
      BY <3>1 DEF LoopsFit
  <2> QED
    BY <2>1, <2>2
<1>5. job'.at = "insert" => Number' >= 1 /\ Current'.state = "pending" /\ Current'.contests = {}
  <2>1. CASE CreateNextRound \/ FirstRound
    <3>1. CASE CreateNextRound
      BY <1>1, <3>1, NextRoundWritten
    <3>2. CASE FirstRound
      BY <3>2, FirstRoundWritten
    <3> QED
      BY <2>1, <3>1, <3>2
  <2>2. CASE job'.at = "insert" /\ ~(CreateNextRound \/ FirstRound)
    <3>1. job' = job
      BY <2>2, Arrivals
    <3>2. Number >= 1 /\ Current.state = "pending" /\ Current.contests = {} /\ Current \in Round
      BY <2>2, <3>1, CurrentIsRound DEF LoopsFit
    <3>3. CASE FinishPending
      <4>1. seen.contests = {}
        BY <3>2, <3>3 DEF FinishPending, LoopsFit
      <4>2. PICK r \in Round : r.state = "pending" /\ r.contests = {} /\ SetCurrent(r)
        BY <3>2, <3>3, <4>1, RowWritten DEF Round
      <4> QED
        BY <3>2, <4>2, RoundReplaced
    <3>4. CASE UNCHANGED rounds
      BY <3>2, <3>4 DEF Number, Current
    <3> QED
      BY <3>1, <3>2, <3>3, <3>4, JobStays DEF RunTasks
  <2> QED
    BY <2>1, <2>2
\* While process_pending_rounds holds what it has read, only it or
\* InsertStructure writes the round, and what it has read is then empty.
<1>6. seen' # None => /\ Number' >= 1 /\ Current'.state = "pending"
                      /\ seen'.contests \subseteq Current'.contests
  <2>1. SUFFICES ASSUME seen' # None
                 PROVE  Number' >= 1 /\ Current'.state = "pending" /\ seen'.contests \subseteq Current'.contests
    OBVIOUS
  <2>2. CASE ReadPending
    <3>1. UNCHANGED rounds /\ Number >= 1
      BY <2>2 DEF ReadPending, TypeOK, Number
    <3> QED
      BY <2>2, <3>1 DEF ReadPending, Number, Current
  <2>3. CASE ~ReadPending
    <3>1. UNCHANGED seen
      BY <2>1, <2>3, WhoWrites
    <3>2. /\ Number >= 1 /\ Current.state = "pending" /\ seen.contests \subseteq Current.contests
          /\ Current \in Round
      BY <2>1, <3>1, CurrentIsRound DEF LoopsFit
    <3>3. CASE InsertStructure
      <4>1. seen.contests = {}
        BY <3>2, <3>3 DEF InsertStructure, LoopsFit
      <4>2. PICK r \in Round : r.state = "pending" /\ SetCurrent(r)
        BY <3>2, <3>3, RowWritten DEF Round
      <4> QED
        BY <3>1, <3>2, <4>1, <4>2, RoundReplaced
    <3>4. ~(FinishPending \/ RunTasks \/ CompleteRound)
      BY <2>1, <3>2 DEF FinishPending, RunTasks, CompleteRound
    <3>5. ~(CreateNextRound \/ FirstRound)
      <4>1. ~CreateNextRound
        BY <3>2 DEF CreateNextRound, LoopsFit, Closed
      <4>2. Number # 0
        BY <1>1, <3>2
      <4> QED
        BY <4>1, <4>2, FirstRoundWritten
    <3> QED
      BY <3>1, <3>2, <3>3, <3>4, <3>5, WhoWrites DEF Number, Current
  <2> QED
    BY <2>2, <2>3
<1> QED
  BY <1>2, <1>3, <1>4, <1>5, <1>6 DEF LoopsFit

\* Members are assigned, let through and ranked.
LEMMA MembersOnlyStep ==
  ASSUME IInv, Next
  PROVE  MembersOnly'
<1> USE DEF IInv
<1>1. Number \in Nat
  BY NumberGrows
<1>2. ASSUME NEW i \in 1..Number'
      PROVE  /\ rounds'[i].assigned \subseteq Members(i)' \cup {Burn}
             /\ rounds'[i].won \subseteq Members(i)' \cup {Burn}
  <2>1. CASE Number' # Number
    <3>1. \/ i = Number' /\ Current'.assigned = {} /\ Current'.won = {}
          \/ i \in 1..Number /\ CreateNextRound
      <4>1. CASE CreateNextRound
        BY <1>1, <4>1, NextRoundWritten
      <4>2. CASE FirstRound
        BY <4>2, FirstRoundWritten
      <4> QED
        BY <2>1, <4>1, <4>2, NumberGrows
    <3> QED
      BY <3>1, NextRoundWritten DEF Current, Members, MembersOnly
  <2>2. CASE Number' = Number /\ i # Number
    BY <2>2, RowsKept DEF Members, MembersOnly
  <2>3. CASE Number' = Number /\ i = Number
    <3>1. /\ Number >= 1 /\ Current \in Round
          /\ Current.assigned \subseteq (UNION Current.contests) \cup {Burn}
          /\ Current.won \subseteq (UNION Current.contests) \cup {Burn}
      <4>1. Number >= 1 /\ Members(Number) = UNION Current.contests /\ rounds[Number] = Current
        BY <1>1, <2>3 DEF Members, Current
      <4> QED
        <5>1. Number \in 1..Number /\ Current \in Round
          BY <4>1, CurrentIsRound
        <5>2. /\ rounds[Number].assigned \subseteq Members(Number) \cup {Burn}
              /\ rounds[Number].won \subseteq Members(Number) \cup {Burn}
          BY <5>1 DEF MembersOnly
        <5> QED
          BY <4>1, <5>1, <5>2
    <3>2. \/ UNCHANGED rounds
          \/ \E r \in Round : /\ SetCurrent(r)
                              /\ r.assigned \subseteq (UNION r.contests) \cup {Burn}
                              /\ r.won \subseteq (UNION r.contests) \cup {Burn}
      <4>1. CASE InsertStructure
        <5>1. Current.contests = {}
          BY <4>1 DEF InsertStructure, LoopsFit
        <5> QED
          BY <3>1, <4>1, <5>1, RowWritten DEF Round
      <4>2. CASE FinishPending
        <5>1. UNION seen.contests \subseteq UNION Current.contests
          BY <4>2 DEF FinishPending, LoopsFit
        <5> QED
          BY <3>1, <4>2, <5>1, RowWritten DEF Round
      <4>3. CASE RunTasks
        <5>1. PICK W : /\ W \subseteq Current.assigned \cup Current.won \cup {Burn}
                       /\ SetCurrent([Current EXCEPT !.done = TRUE, !.won = W])
                       /\ [Current EXCEPT !.done = TRUE, !.won = W] \in Round
          BY <4>3, RowWritten
        <5>2. W \subseteq (UNION Current.contests) \cup {Burn}
          <6>1. W \subseteq Current.assigned \cup Current.won \cup {Burn}
            BY <5>1
          <6> QED
            BY <3>1, <6>1
        <5> QED
          BY <3>1, <5>1, <5>2 DEF Round
      <4>4. CASE CompleteRound
        BY <3>1, <4>4, RowWritten DEF Round
      <4>5. ~CreateNextRound /\ ~FirstRound
        BY <1>1, <2>3, NextRoundWritten, FirstRoundWritten, NumberGrows
      <4> QED
        BY <4>1, <4>2, <4>3, <4>4, <4>5, WhoWrites
    <3>3. /\ Current'.assigned \subseteq (UNION Current'.contests) \cup {Burn}
          /\ Current'.won \subseteq (UNION Current'.contests) \cup {Burn}
      <4>1. CASE UNCHANGED rounds
        BY <3>1, <4>1 DEF Current, Number
      <4> QED
        BY <3>1, <3>2, <4>1, RoundReplaced
    <3> QED
      <4>1. rounds'[i] = Current'
        BY <2>3 DEF Current
      <4>2. Members(i)' = UNION Current'.contests
        BY <4>1 DEF Members
      <4> QED
        BY <3>3, <4>1, <4>2
  <2> QED
    BY <2>1, <2>2, <2>3
<1>3. DOMAIN rank' # {} => Number' >= 1 /\ rounds'[1].done /\ DOMAIN rank' \subseteq Members(1)'
  <2>1. CASE (RunTasks /\ Number = 1) \/ FixScores
    <3>1. Number = 1 /\ Number >= 1 /\ Current \in Round
      BY <2>1, CurrentIsRound DEF FixScores
    <3>2. rank' \in Rankings(Current.assigned \ {Burn})
      BY <2>1 DEF RunTasks, FixScores
    <3>3. DOMAIN rank' \subseteq Members(1)
      <4>1. DOMAIN rank' \subseteq Current.assigned \ {Burn}
        BY <3>1, <3>2, RankingType
      <4>2. Current.assigned \subseteq Members(1) \cup {Burn}
        BY <3>1 DEF MembersOnly, Current
      <4> QED
        BY <4>1, <4>2
    <3>4. Members(1)' = Members(1) /\ Number' = 1
      <4>1. ~InsertStructure /\ ~CreateNextRound
        BY <2>1 DEF RunTasks, FixScores, InsertStructure, LoopsFit, CreateNextRound, Closed
      <4>2. ~FirstRound
        BY <3>1, FirstRoundWritten
      <4> QED
        <5>1. rounds'[1].contests = rounds[1].contests
          BY <3>1, <4>1, RowsKept
        <5>2. Number' = 1
          BY <3>1, <4>1, <4>2, NumberGrows
        <5> QED
          BY <5>1, <5>2 DEF Members
    <3>5. rounds'[1].done
      <4>1. CASE RunTasks
        <5>1. PICK r \in Round : r.done /\ SetCurrent(r)
          BY <3>1, <4>1, RowWritten DEF Round
        <5> QED
          BY <3>1, <5>1, RoundReplaced
      <4>2. CASE FixScores
        BY <3>1, <4>2 DEF FixScores, Current
      <4> QED
        BY <2>1, <4>1, <4>2
    <3> QED
      BY <3>3, <3>4, <3>5
  <2>2. CASE UNCHANGED rank
    <3>1. SUFFICES ASSUME DOMAIN rank # {}
                   PROVE  Number' >= 1 /\ rounds'[1].done /\ DOMAIN rank \subseteq Members(1)'
      BY <2>2
    <3>2. Number >= 1 /\ rounds[1].done /\ DOMAIN rank \subseteq Members(1)
      BY <3>1 DEF MembersOnly
    <3>3. rounds'[1].done
      <4>1. CASE Number = 1
        <5>1. Current \in Round /\ Current.done /\ Current = rounds[1]
          BY <3>2, <4>1, CurrentIsRound DEF Current
        <5>2. CASE InsertStructure \/ FinishPending \/ RunTasks \/ CompleteRound
          <6>1. PICK r \in Round : r.done /\ SetCurrent(r)
            BY <5>1, <5>2, RowWritten DEF Round
          <6> QED
            BY <4>1, <6>1, RoundReplaced
        <5>3. CASE CreateNextRound
          BY <4>1, <5>1, <5>3, NextRoundWritten
        <5>4. ~FirstRound
          BY <4>1, FirstRoundWritten
        <5> QED
          BY <3>2, <5>1, <5>2, <5>3, <5>4, WhoWrites
      <4>2. CASE Number # 1
        BY <1>1, <3>2, <4>2, RowsKept
      <4> QED
        BY <4>1, <4>2
    <3>4. DOMAIN rank \subseteq Members(1)'
      <4>1. ~(InsertStructure /\ Number = 1)
        BY <3>1, <3>2 DEF InsertStructure, LoopsFit, Members, Current
      <4>2. rounds'[1].contests = rounds[1].contests
        BY <1>1, <3>2, <4>1, RowsKept
      <4> QED
        BY <3>2, <4>2 DEF Members
    <3> QED
      BY <1>1, <3>2, <3>3, <3>4, NumberGrows
  <2> QED
    BY <2>1, <2>2, WhoWrites DEF RunTasks
<1> QED
  BY <1>2, <1>3 DEF MembersOnly

-----------------------------------------------------------------------------
(* The reviews and the bracket                                             *)

\* An answered or clean review is never written again.
LEMMA ReviewsSettle ==
  ASSUME IInv, Next, NEW m \in Miners
  PROVE  /\ review[m] \in Allowed \cup {"accepted"} => review'[m] = review[m]
         /\ review'[m] # review[m] => \/ review[m] = "none" /\ job.at = "reviewing"
                                      \/ review[m] \in Held
<1>1. CASE \E x \in Miners, v \in {"clean"} \cup Held : ReviewEntrant(x, v)
  <2>1. PICK x \in Miners, v \in {"clean"} \cup Held : ReviewEntrant(x, v)
    BY <1>1
  <2>2. review[x] = "none" /\ job.at = "reviewing" /\ review' = [review EXCEPT ![x] = v]
    BY <2>1 DEF ReviewEntrant, IInv, Reviewed
  <2> QED
    BY <2>2 DEF IInv, TypeOK, Allowed
<1>2. CASE \E x \in Miners, a \in Allowed \cup {"accepted"} : AnswerReview(x, a)
  <2>1. PICK x \in Miners, a \in Allowed \cup {"accepted"} : AnswerReview(x, a)
    BY <1>2
  <2>2. review[x] \in Held /\ review' = [review EXCEPT ![x] = a]
    BY <2>1 DEF AnswerReview
  <2> QED
    BY <2>2 DEF IInv, TypeOK, Allowed, Held
<1> QED
  BY <1>1, <1>2, WhoWrites

\* Whoever is allowed to play stays allowed.
LEMMA VettedStays ==
  ASSUME IInv, Next, NEW S \in SUBSET Hotkeys, Vetted(S)
  PROVE  Vetted(S)'
BY ReviewsSettle DEF Vetted, Hotkeys

\* The members of a round are hotkeys of the tournament.
LEMMA MembersAreHotkeys ==
  ASSUME IInv, NEW i \in 1..Number
  PROVE  Members(i) \subseteq Hotkeys
<1>1. rounds[i] \in Round
  BY DEF IInv, TypeOK, Number
<1> QED
  BY <1>1 DEF Members, Round, Contest

\* So are the members of a round to come.
LEMMA PlanIsHotkeys ==
  ASSUME IInv
  PROVE  UNION job.plan \subseteq Hotkeys /\ job.field \subseteq Hotkeys
BY DEF IInv, TypeOK, JobType, Contest

\* The pairs of the next round are made of the winners and the boss.
LEMMA NextRoundPlan ==
  ASSUME IInv, CreateNextRound
  PROVE  UNION job'.plan \subseteq job.field \cup {Burn}
<1>1. PICK P \in Pairings(Even(Present(job.field))) : job' = [Idle EXCEPT !.at = "insert", !.plan = P]
  BY DEF CreateNextRound
<1>2. Even(Present(job.field)) \subseteq job.field \cup {Burn}
  BY DEF Even, Present, Invited
<1>3. UNION P \subseteq job.field \cup {Burn}
  BY <1>2 DEF Pairings
<1>4. job'.plan = P
  BY <1>1 DEF Idle
<1> QED
  BY <1>3, <1>4

\* Who is named when the loop comes to create the next round.
LEMMA NextField ==
  ASSUME IInv, Next, job'.at = "next"
  PROVE  \/ job' = job
         \/ /\ EliminateLosers /\ Number >= 2 /\ Current.state = "completed"
            /\ job'.field = Current.won /\ Winners = Current.won
         \/ /\ FinishReviews /\ Number = 1 /\ job.at = "reviewing" /\ ~job.halt /\ job.todo = {}
            /\ job'.field = job.field /\ job.field = StandingsSlots(job.elim \cup job.drop)
            /\ job.field \cap (job.elim \cup job.drop) = {}
            /\ job.field \subseteq DOMAIN rank
<1> USE DEF IInv
<1>1. CASE EliminateLosers
  <2>1. job'.field = Winners /\ Number # 1 /\ job.at = "advance"
    BY <1>1 DEF EliminateLosers, Idle
  <2>2. Number >= 1 /\ Current.state = "completed" /\ Number \in Nat
    BY <2>1, NumberGrows DEF LoopsFit, Closed
  <2> QED
    BY <1>1, <2>1, <2>2 DEF Winners
<1>2. CASE FinishReviews
  <2>1. /\ job.at = "reviewing" /\ ~job.halt /\ job.todo = {} /\ job'.field = job.field
        /\ job.field = StandingsSlots(job.elim \cup job.drop)
    BY <1>2 DEF FinishReviews, Idle
  <2>2. Number = 1
    BY <2>1 DEF LoopsFit, Gated, Fielded
  <2>3. StandingsSlots(job.elim \cup job.drop) \subseteq DOMAIN rank \ (job.elim \cup job.drop)
    BY SlotsAreRanked
  <2> QED
    BY <1>2, <2>1, <2>2, <2>3
<1> QED
  BY <1>1, <1>2, Arrivals

\* Every step keeps Reviewed.
LEMMA ReviewedStep ==
  ASSUME IInv, Next
  PROVE  Reviewed'
<1> USE DEF IInv
<1>0. Number \in Nat
  BY NumberGrows
<1>1. ASSUME NEW i \in 2..Number'
      PROVE  Vetted(Members(i))'
  <2>1. CASE Number' # Number /\ i = Number'
    <3>1. Current'.contests = {}
      BY <1>0, <2>1, NumberGrows, NextRoundWritten, FirstRoundWritten
    <3> QED
      BY <2>1, <3>1 DEF Vetted, Members, Current
  <2>2. CASE i \in 1..Number /\ ~(InsertStructure /\ i = Number)
    <3>1. rounds'[i].contests = rounds[i].contests
      BY <2>2, RowsKept
    <3>2. Vetted(Members(i)) /\ Members(i) \in SUBSET Hotkeys
      BY <2>2, MembersAreHotkeys DEF Reviewed
    <3>3. \A m \in Members(i) \ {Burn} : review'[m] \in Allowed
      BY <3>2, VettedStays DEF Vetted
    <3> QED
      BY <3>1, <3>3 DEF Vetted, Members
  <2>3. CASE InsertStructure /\ i = Number
    <3>1. Vetted(UNION job.plan) /\ UNCHANGED review
      BY <2>3 DEF InsertStructure, Reviewed, gates
    <3>2. rounds'[i].contests = job.plan
      BY <2>3, RowsKept
    <3> QED
      BY <3>1, <3>2 DEF Vetted, Members
  <2> QED
    BY <1>0, <2>1, <2>2, <2>3, NumberGrows
<1>2. job'.at = "next" => Vetted(job.field)'
  <2>1. SUFFICES ASSUME job'.at = "next" PROVE \A m \in job'.field \ {Burn} : review'[m] \in Allowed
    BY DEF Vetted
  <2>2. CASE job' = job
    BY <2>1, <2>2, VettedStays, PlanIsHotkeys DEF Vetted, Reviewed
  <2>3. CASE /\ EliminateLosers /\ Number >= 2 /\ job'.field = Current.won
    <3>1. Current.won \subseteq Members(Number) \cup {Burn} /\ Vetted(Members(Number))
      BY <1>0, <2>3 DEF MembersOnly, Current, Reviewed
    <3>2. UNCHANGED review
      BY <2>3 DEF EliminateLosers, gates
    <3> QED
      BY <2>3, <3>1, <3>2 DEF Vetted
  <2>4. CASE /\ FinishReviews /\ job.at = "reviewing" /\ ~job.halt /\ job.todo = {}
             /\ job'.field = job.field /\ job.field \cap (job.elim \cup job.drop) = {}
    <3>1. Vetted(job.field)
      BY <2>4 DEF Reviewed, Vetted
    <3>2. UNCHANGED review
      BY <2>4 DEF FinishReviews, gates
    <3> QED
      BY <2>4, <3>1, <3>2 DEF Vetted
  <2> QED
    BY <2>1, <2>2, <2>3, <2>4, NextField
<1>3. job'.at = "insert" /\ Number' >= 2 => Vetted(UNION job.plan)'
  <2>1. SUFFICES ASSUME job'.at = "insert", Number' >= 2
                 PROVE  \A m \in (UNION job'.plan) \ {Burn} : review'[m] \in Allowed
    BY DEF Vetted
  <2>2. CASE CreateNextRound
    <3>1. Vetted(job.field) /\ UNCHANGED review
      BY <2>2 DEF CreateNextRound, Reviewed, gates
    <3> QED
      BY <2>2, <3>1, NextRoundPlan DEF Vetted
  <2>3. CASE job' = job
    <3>1. Number' = Number
      BY <2>3, NumberGrows, JobMoves
    <3>2. Vetted(UNION job.plan)
      BY <2>1, <2>3, <3>1 DEF Reviewed
    <3> QED
      BY <2>3, <3>2, VettedStays, PlanIsHotkeys DEF Vetted
  <2> QED
    BY <2>1, <2>2, <2>3, Arrivals, FirstRoundWritten
<1>4. job'.at = "reviewing" => /\ job'.halt \/ Vetted(job.field \ (job.todo \cup job.drop))'
                               /\ \A m \in job'.todo : review'[m] = "none"
  <2>1. SUFFICES ASSUME job'.at = "reviewing"
                 PROVE  /\ job'.halt \/ \A m \in job'.field \ (job'.todo \cup job'.drop \cup {Burn}) : review'[m] \in Allowed
                        /\ \A m \in job'.todo : review'[m] = "none"
    BY DEF Vetted
  <2>2. CASE StartReviews
    <3>1. /\ job'.field = job.field /\ job'.todo = {m \in job.field : review[m] = "none"}
          /\ job'.drop = job.field \cap Accepted
          /\ job'.halt = \E m \in job.field : review[m] \in Held
          /\ UNCHANGED review /\ job.field \subseteq Miners
      BY <2>2 DEF StartReviews, TypeOK, JobType, gates, LoopsFit, Fielded
    <3>2. ASSUME NEW m \in job.field, review[m] # "none", review[m] # "accepted", review[m] \notin Held
          PROVE  review[m] \in Allowed
      BY <3>1, <3>2 DEF TypeOK, Statuses
    <3> QED
      BY <3>1, <3>2 DEF Accepted
  <2>3. CASE \E m \in Miners, v \in {"clean"} \cup Held : ReviewEntrant(m, v)
    <3>1. PICK m \in Miners, v \in {"clean"} \cup Held : ReviewEntrant(m, v)
      BY <2>3
    <3>2. /\ job'.field = job.field /\ job'.todo = job.todo \ {m} /\ job'.drop = job.drop
          /\ job'.halt = (job.halt \/ Holds(v)) /\ review' = [review EXCEPT ![m] = v]
          /\ job.at = "reviewing" /\ job.field \subseteq Miners /\ job.todo \subseteq Miners
      BY <3>1 DEF ReviewEntrant, TypeOK, JobType, LoopsFit, Fielded
    <3>3. /\ job.halt \/ Vetted(job.field \ (job.todo \cup job.drop))
          /\ \A x \in job.todo : review[x] = "none"
      BY <3>2 DEF Reviewed
    <3>4. \A x \in Miners : review'[x] = IF x = m THEN v ELSE review[x]
      BY <3>2 DEF TypeOK
    <3>5. v = "clean" \/ Holds(v)
      BY DEF Holds
    <3> QED
      BY <3>2, <3>3, <3>4, <3>5 DEF Vetted, Allowed
  <2>4. CASE job' = job /\ ~\E m \in Miners, v \in {"clean"} \cup Held : ReviewEntrant(m, v)
    <3>1. /\ job.halt \/ Vetted(job.field \ (job.todo \cup job.drop))
          /\ \A x \in job.todo : review[x] = "none" /\ x \in Miners
      BY <2>1, <2>4 DEF Reviewed, TypeOK, JobType
    <3>2. \A x \in job.todo : review'[x] = "none"
      <4>1. CASE \E m \in Miners, a \in Allowed \cup {"accepted"} : AnswerReview(m, a)
        <5>1. PICK m \in Miners, a \in Allowed \cup {"accepted"} : AnswerReview(m, a)
          BY <4>1
        <5>2. review[m] \in Held /\ review' = [review EXCEPT ![m] = a]
          BY <5>1 DEF AnswerReview
        <5> QED
          BY <3>1, <5>2 DEF Held, TypeOK
      <4> QED
        BY <2>4, <3>1, <4>1, WhoWrites
    <3>3. job.field \ (job.todo \cup job.drop) \in SUBSET Hotkeys
      BY PlanIsHotkeys
    <3> QED
      BY <2>4, <3>1, <3>2, <3>3, VettedStays DEF Vetted
  <2> QED
    BY <2>1, <2>2, <2>3, <2>4, Arrivals
<1> QED
  BY <1>1, <1>2, <1>3, <1>4 DEF Reviewed

\* Every step keeps Shrinks.
LEMMA ShrinksStep ==
  ASSUME IInv, Next
  PROVE  Shrinks'
<1> USE DEF IInv
<1>0. Number \in Nat
  BY NumberGrows
<1>1. ASSUME NEW i \in 2..Number'
      PROVE  (UNION rounds'[i].contests) \subseteq (UNION rounds'[i - 1].contests) \cup {Burn}
  <2>1. CASE Number' # Number /\ i = Number'
    <3>1. Current'.contests = {}
      BY <1>0, <2>1, NumberGrows, NextRoundWritten, FirstRoundWritten
    <3> QED
      BY <2>1, <3>1 DEF Current
  <2>2. CASE i \in 1..Number
    <3>1. rounds'[i - 1].contests = rounds[i - 1].contests
      BY <1>0, <2>2, RowsKept
    <3>2. CASE InsertStructure /\ i = Number
      <4>1. UNION job.plan \subseteq Members(Number - 1) \cup {Burn}
        BY <1>0, <2>2, <3>2 DEF InsertStructure, Shrinks
      <4>2. rounds'[i].contests = job.plan
        BY <3>2, RowsKept
      <4> QED
        BY <3>1, <3>2, <4>1, <4>2 DEF Members
    <3>3. CASE ~(InsertStructure /\ i = Number)
      <4>1. rounds'[i].contests = rounds[i].contests
        BY <2>2, <3>3, RowsKept
      <4>2. Members(i) \subseteq Members(i - 1) \cup {Burn}
        BY <1>0, <2>2 DEF Shrinks
      <4> QED
        BY <3>1, <4>1, <4>2 DEF Members
    <3> QED
      BY <3>2, <3>3
  <2> QED
    BY <1>0, <2>1, <2>2, NumberGrows
<1>2. job'.at = "next" => job'.field \subseteq (UNION rounds'[Number'].contests) \cup {Burn}
  <2>1. SUFFICES ASSUME job'.at = "next" PROVE job'.field \subseteq (UNION rounds'[Number'].contests) \cup {Burn}
    OBVIOUS
  <2>2. job'.field \subseteq Members(Number) \cup {Burn}
    <3>1. CASE job' = job
      BY <2>1, <3>1 DEF Shrinks
    <3>2. CASE Number >= 2 /\ job'.field = Current.won
      BY <1>0, <3>2 DEF MembersOnly, Current
    <3>3. CASE Number = 1 /\ job'.field = job.field /\ job.field \subseteq DOMAIN rank
      BY <3>3 DEF MembersOnly
    <3> QED
      BY <2>1, <3>1, <3>2, <3>3, NextField
  <2>3. Number' = Number /\ ~InsertStructure /\ Number >= 1
    <3>1. CreateNextRound \/ FirstRound => job'.at = "insert"
      BY DEF CreateNextRound, FirstRound, CreateFirstRound, Idle
    <3>2. InsertStructure => job'.at \in {"copies", "idle"}
      BY DEF InsertStructure, Goto, TypeOK, JobType, Idle
    <3>3. Number' >= 1
      BY <2>1, LoopsFitStep DEF LoopsFit, Closed
    <3> QED
      BY <2>1, <3>1, <3>2, <3>3, NumberGrows
  <2>4. rounds'[Number].contests = rounds[Number].contests
    BY <1>0, <2>3, RowsKept
  <2> QED
    BY <2>2, <2>3, <2>4 DEF Members
<1>3. job'.at = "insert" /\ Number' >= 2 =>
        UNION job'.plan \subseteq (UNION rounds'[Number' - 1].contests) \cup {Burn}
  <2>1. SUFFICES ASSUME job'.at = "insert", Number' >= 2
                 PROVE  UNION job'.plan \subseteq (UNION rounds'[Number' - 1].contests) \cup {Burn}
    OBVIOUS
  <2>2. CASE CreateNextRound
    <3>1. job.field \subseteq Members(Number) \cup {Burn}
      BY <2>2 DEF CreateNextRound, Shrinks
    <3>2. Number' = Number + 1 /\ rounds'[Number] = rounds[Number]
      BY <1>0, <2>1, <2>2, NextRoundWritten
    <3>3. rounds'[Number' - 1] = rounds[Number]
      BY <1>0, <3>2
    <3> QED
      BY <2>2, <3>1, <3>3, NextRoundPlan DEF Members
  <2>3. CASE job' = job
    <3>1. Number' = Number
      BY <2>3, NumberGrows, JobMoves
    <3>2. UNION job.plan \subseteq Members(Number - 1) \cup {Burn}
      BY <2>1, <2>3, <3>1 DEF Shrinks
    <3>3. rounds'[Number - 1] = rounds[Number - 1]
      BY <1>0, <2>1, <3>1, RowsKept
    <3> QED
      BY <2>3, <3>1, <3>2, <3>3 DEF Members
  <2> QED
    BY <2>1, <2>2, <2>3, Arrivals, FirstRoundWritten
<1> QED
  BY <1>1, <1>2, <1>3 DEF Shrinks, Members

-----------------------------------------------------------------------------
(* The waves of the gate                                                   *)

\* A step answers or resolves the latest wave, ...
Rewritten(w) ==
  /\ waves # <<>> /\ waves' = [waves EXCEPT ![Len(waves)] = w] /\ w.cohort = Latest.cohort
  /\ ~Latest.resolved
  /\ \/ /\ job.at = "resolve" /\ job'.at = "dedup" /\ UNCHANGED failed
        /\ Latest.status = "approved" /\ w.status = "approved" /\ w.resolved /\ w.elim = Latest.elim
     \/ /\ job' = job /\ UNCHANGED failed
        /\ Latest.status = "pending_review" /\ w.status \in {"approved", "skipped"} /\ ~w.resolved

\* ... or adds one when there is none that waits for an answer.
Added(w) ==
  /\ waves' = Append(waves, w) /\ ~w.resolved /\ (waves = <<>> \/ Answered)
  /\ w.status \in {"skipped", "pending_review"} /\ UNCHANGED failed
  /\ \/ job' = job /\ w.status = "skipped" /\ w.cohort = {}
     \/ job.at = "judge" /\ job'.at = "reviews" /\ w.status = "skipped" /\ w.cohort = job.field
     \/ job.at = "judge" /\ job'.at = "idle" /\ w.cohort = job.field

\* Every step answers, resolves or adds one wave, or leaves them all.
LEMMA WaveWritten ==
  ASSUME IInv, Next
  PROVE  UNCHANGED waves \/ \E w \in Wave : Rewritten(w) \/ Added(w)
<1> USE DEF IInv
<1>1. CASE ResolveWave
  <2>1. waves # <<>> /\ Latest.status = "approved" /\ ~Latest.resolved /\ job.at = "resolve"
    BY <1>1 DEF ResolveWave, WavesInOrder
  <2>2. Latest \in Wave /\ waves' = [waves EXCEPT ![Len(waves)] = [Latest EXCEPT !.resolved = TRUE]]
    BY <1>1, <2>1, LatestIsWave, WavesWritten
  <2>3. job'.at = "dedup" /\ UNCHANGED failed
    BY <1>1 DEF ResolveWave, Goto, TypeOK, JobType
  <2> DEFINE w == [Latest EXCEPT !.resolved = TRUE]
  <2>4. /\ w \in Wave /\ w.cohort = Latest.cohort
        /\ w.status = "approved" /\ w.resolved /\ w.elim = Latest.elim
    BY <2>1, <2>2 DEF Wave
  <2>5. Rewritten(w)
    BY <2>1, <2>2, <2>3, <2>4 DEF Rewritten
  <2> QED
    BY <2>4, <2>5
<1>2. CASE SkipWave \/ \E E \in SUBSET Miners : ApproveWave(E)
  <2>1. /\ waves # <<>> /\ Latest.status = "pending_review" /\ job' = job /\ UNCHANGED failed
    BY <1>2 DEF SkipWave, ApproveWave
  <2>2. Latest \in Wave /\ ~Latest.resolved
    BY <2>1, LatestIsWave DEF WavesInOrder, Latest
  <2>3. CASE SkipWave
    <3> DEFINE w == [Latest EXCEPT !.status = "skipped"]
    <3>1. w \in Wave /\ w.cohort = Latest.cohort /\ w.status = "skipped" /\ ~w.resolved
      BY <2>2 DEF Wave
    <3>2. waves' = [waves EXCEPT ![Len(waves)] = w]
      BY <2>3, <3>1, WavesWritten
    <3>3. Rewritten(w)
      BY <2>1, <2>2, <3>1, <3>2 DEF Rewritten
    <3> QED
      BY <3>1, <3>3
  <2>4. CASE \E E \in SUBSET Miners : ApproveWave(E)
    <3>1. PICK E \in SUBSET Miners : ApproveWave(E)
      BY <2>4
    <3> DEFINE w == [Latest EXCEPT !.status = "approved", !.elim = E]
    <3>2. w \in Wave /\ w.cohort = Latest.cohort /\ w.status = "approved" /\ ~w.resolved
      BY <2>2 DEF Wave
    <3>3. waves' = [waves EXCEPT ![Len(waves)] = w]
      BY <3>1, <3>2, WavesWritten
    <3>4. Rewritten(w)
      BY <2>1, <2>2, <3>2, <3>3 DEF Rewritten
    <3> QED
      BY <3>2, <3>4
  <2> QED
    BY <1>2, <2>3, <2>4
<1>3. CASE JudgeClean \/ \E E \in SUBSET Miners : JudgeFlags(E)
  <2>1. /\ job.at = "judge" /\ job.field \in SUBSET Miners /\ (waves = <<>> \/ Answered) /\ UNCHANGED failed
    BY <1>3 DEF JudgeClean, JudgeFlags, LoopsFit, Fielded, WavesInOrder
  <2>2. CASE JudgeClean
    <3> DEFINE w == [status |-> "skipped", cohort |-> job.field, elim |-> {},
                     resolved |-> FALSE, bypass |-> {}]
    <3>1. w \in Wave /\ w.status = "skipped" /\ w.cohort = job.field /\ ~w.resolved
      BY <2>1 DEF Wave
    <3>2. waves' = Append(waves, w) /\ job'.at = "reviews"
      BY <2>2, <3>1 DEF JudgeClean, NewWave, Goto, TypeOK, JobType
    <3>3. Added(w)
      BY <2>1, <3>1, <3>2 DEF Added
    <3> QED
      BY <3>1, <3>3
  <2>3. CASE \E E \in SUBSET Miners : JudgeFlags(E)
    <3>1. PICK E \in SUBSET Miners : JudgeFlags(E)
      BY <2>3
    <3> DEFINE w == [status |-> "pending_review", cohort |-> job.field, elim |-> E,
                     resolved |-> FALSE, bypass |-> {}]
    <3>2. w \in Wave /\ w.status = "pending_review" /\ w.cohort = job.field /\ ~w.resolved
      BY <2>1 DEF Wave
    <3>3. waves' = Append(waves, w) /\ job'.at = "idle"
      BY <3>1, <3>2 DEF JudgeFlags, NewWave, Idle
    <3>4. Added(w)
      BY <2>1, <3>2, <3>3 DEF Added
    <3> QED
      BY <3>2, <3>4
  <2> QED
    BY <1>3, <2>2, <2>3
<1>4. CASE \E f \in failed : InsertSkipRow(f)
  <2>1. PICK f \in failed : InsertSkipRow(f)
    BY <1>4
  <2> DEFINE w == [status |-> "skipped", cohort |-> {}, elim |-> {},
                   resolved |-> FALSE, bypass |-> f.field]
  <2>2. w \in Wave /\ w.status = "skipped" /\ w.cohort = {} /\ ~w.resolved
    BY DEF Wave, TypeOK
  <2>3. waves' = Append(waves, w) /\ job' = job /\ UNCHANGED failed /\ (waves = <<>> \/ Answered)
    BY <2>1, <2>2 DEF InsertSkipRow, NewWave, WavesInOrder
  <2>4. Added(w)
    BY <2>2, <2>3 DEF Added
  <2> QED
    BY <2>2, <2>4
<1> QED
  BY <1>1, <1>2, <1>3, <1>4, WhoWrites

\* What is kept of a wave, and what a new one is.
LEMMA WavesKept ==
  ASSUME IInv, Next
  PROVE  /\ Len(waves) \in Nat /\ Len(waves)' \in Nat /\ Len(waves)' \in {Len(waves), Len(waves) + 1}
         /\ DOMAIN waves = 1..Len(waves) /\ DOMAIN waves' = 1..Len(waves)' /\ DOMAIN waves \subseteq DOMAIN waves'
         /\ \A i \in DOMAIN waves : /\ waves'[i].cohort = waves[i].cohort
                                    /\ waves[i].status # "pending_review" => waves'[i].status = waves[i].status
                                    /\ waves[i].status = "approved" => waves'[i].elim = waves[i].elim
                                    /\ waves'[i].status = "pending_review" => waves[i].status = "pending_review"
         /\ \A j \in DOMAIN waves' \ DOMAIN waves :
              /\ j = Len(waves)' /\ ~waves'[j].resolved
              /\ waves'[j].status \in {"skipped", "pending_review"}
              /\ waves'[j].cohort \in {{}, job.field}
              /\ waves'[j].cohort # {} => job.at = "judge"
<1> USE DEF IInv
<1>0. Len(waves) \in Nat /\ DOMAIN waves = 1..Len(waves)
  BY DEF TypeOK
<1>1. CASE UNCHANGED waves
  BY <1>0, <1>1
<1>2. ASSUME NEW w \in Wave, Rewritten(w)
      PROVE  /\ Len(waves)' = Len(waves) /\ DOMAIN waves' = DOMAIN waves
             /\ \A i \in DOMAIN waves : /\ waves'[i].cohort = waves[i].cohort
                                        /\ waves[i].status # "pending_review" => waves'[i].status = waves[i].status
                                        /\ waves[i].status = "approved" => waves'[i].elim = waves[i].elim
                                        /\ waves'[i].status = "pending_review" => waves[i].status = "pending_review"
  <2>1. /\ DOMAIN waves' = DOMAIN waves /\ Len(waves') = Len(waves)
        /\ \A i \in DOMAIN waves : waves'[i] = IF i = Len(waves) THEN w ELSE waves[i]
    BY <1>2, WaveReplaced DEF Rewritten
  <2> QED
    BY <1>2, <2>1 DEF Rewritten, Latest
<1>3. ASSUME NEW w \in Wave, Added(w)
      PROVE  /\ Len(waves)' = Len(waves) + 1 /\ DOMAIN waves' = DOMAIN waves \cup {Len(waves)'}
             /\ \A i \in DOMAIN waves : waves'[i] = waves[i]
             /\ waves'[Len(waves)'] = w /\ ~w.resolved
             /\ w.status \in {"skipped", "pending_review"} /\ w.cohort \in {{}, job.field}
             /\ w.cohort # {} => job.at = "judge"
  <2>1. /\ Len(waves') = Len(waves) + 1 /\ Latest' = w
        /\ DOMAIN waves' = DOMAIN waves \cup {Len(waves')}
        /\ \A i \in DOMAIN waves : waves'[i] = waves[i]
    BY <1>3, WaveAppended DEF Added
  <2> QED
    BY <1>3, <2>1 DEF Added, Latest
<1>4. Len(waves)' \in Nat /\ DOMAIN waves' = 1..Len(waves)'
  BY WavesType
<1>5. CASE \E w \in Wave : Rewritten(w)
  BY <1>0, <1>2, <1>4, <1>5
<1>6. CASE \E w \in Wave : Added(w)
  <2>1. PICK w \in Wave : Added(w)
    BY <1>6
  <2>2. \A j \in DOMAIN waves' \ DOMAIN waves : j = Len(waves)' /\ waves'[j] = w
    BY <1>3, <2>1
  <2> QED
    BY <1>0, <1>3, <1>4, <2>1, <2>2
<1> QED
  BY <1>1, <1>5, <1>6, WaveWritten

\* Every step keeps WavesInOrder.
LEMMA WavesInOrderStep ==
  ASSUME IInv, Next
  PROVE  WavesInOrder'
<1> USE DEF IInv
<1>1. UNCHANGED waves \/ (\E w \in Wave : Rewritten(w)) \/ (\E w \in Wave : Added(w))
  BY WaveWritten
<1>2. CASE UNCHANGED waves
  <2>1. Latest' = Latest /\ Answered' = Answered
    BY <1>2 DEF Latest, Answered
  <2>2. \A f \in failed' : f \in failed \/ (f.wave = Len(waves) + 1 /\ (waves = <<>> \/ Answered))
    BY WhoWrites DEF JudgeFails, WavesInOrder
  <2>3. \A f \in failed' : /\ f.wave <= Len(waves) + 1
                           /\ f.wave = Len(waves) + 1 => waves = <<>> \/ Answered
    BY <2>2 DEF WavesInOrder, TypeOK
  <2>4. job'.at = "judge" => waves = <<>> \/ Answered
    BY Arrivals DEF StartWave, NeedsWave, WavesInOrder
  <2>5. job'.at = "resolve" => waves # <<>> /\ Latest.status = "approved" /\ ~Latest.resolved
    BY Arrivals DEF ApplyApproved, WavesInOrder
  <2> QED
    BY <1>2, <2>1, <2>3, <2>4, <2>5 DEF WavesInOrder
<1>3. CASE \E w \in Wave : Rewritten(w)
  <2>1. PICK w \in Wave : Rewritten(w)
    BY <1>3
  <2>2. /\ DOMAIN waves' = DOMAIN waves /\ Len(waves') = Len(waves) /\ Latest' = w /\ waves' # <<>>
        /\ \A i \in DOMAIN waves : waves'[i] = IF i = Len(waves) THEN w ELSE waves[i]
    BY <2>1, WaveReplaced DEF Rewritten
  <2>3. \A i \in DOMAIN waves' : /\ i < Len(waves') => waves'[i].status # "pending_review"
                                 /\ waves'[i].resolved => waves'[i].status = "approved"
    BY <2>1, <2>2 DEF Rewritten, WavesInOrder
  <2>4. ~Answered /\ waves # <<>> /\ UNCHANGED failed
    BY <2>1 DEF Rewritten, Answered
  <2>5. \A f \in failed' : f.wave <= Len(waves') + 1 /\ f.wave # Len(waves') + 1
    BY <2>2, <2>4 DEF WavesInOrder
  <2>6. job'.at # "judge"
    BY <2>1, <2>4 DEF Rewritten, WavesInOrder
  <2>7. job'.at # "resolve"
    BY <2>1 DEF Rewritten, WavesInOrder
  <2> QED
    BY <2>3, <2>5, <2>6, <2>7 DEF WavesInOrder
<1>4. CASE \E w \in Wave : Added(w)
  <2>1. PICK w \in Wave : Added(w)
    BY <1>4
  <2>2. /\ Len(waves') = Len(waves) + 1 /\ Len(waves) \in Nat /\ Latest' = w /\ waves' # <<>>
        /\ DOMAIN waves' = DOMAIN waves \cup {Len(waves')} /\ DOMAIN waves = 1..Len(waves)
        /\ \A i \in DOMAIN waves : waves'[i] = waves[i]
    BY <2>1, WaveAppended DEF Added
  <2>3. waves # <<>> => Latest.status # "pending_review"
    BY <2>1 DEF Added, Answered
  <2>4. waves'[Len(waves')] = w
    BY <2>2 DEF Latest
  <2>5. \A i \in DOMAIN waves : i <= Len(waves) /\ (i = Len(waves) => waves[i].status # "pending_review")
    BY <2>2, <2>3 DEF Latest
  <2>6. \A i \in DOMAIN waves' : /\ i < Len(waves') => waves'[i].status # "pending_review"
                                 /\ waves'[i].resolved => waves'[i].status = "approved"
    BY <2>1, <2>2, <2>4, <2>5 DEF Added, WavesInOrder
  <2>7. \A f \in failed' : f.wave <= Len(waves') + 1 /\ f.wave # Len(waves') + 1
    BY <2>1, <2>2 DEF Added, WavesInOrder, TypeOK
  <2>8. job'.at = "judge" => Answered'
    BY <2>1, <2>2 DEF Added, Answered
  <2>9. job'.at # "resolve"
    <3>1. job.at = "resolve" => waves # <<>> /\ Latest.status = "approved" /\ ~Latest.resolved
      BY DEF WavesInOrder
    <3> QED
      BY <2>1, <3>1 DEF Added, Answered
  <2> QED
    BY <2>6, <2>7, <2>8, <2>9 DEF WavesInOrder
<1> QED
  BY <1>1, <1>2, <1>3, <1>4

\* Whoever is out by the gate stays out of it.
LEMMA GoneGrows ==
  ASSUME IInv, Next
  PROVE  ApprovedOut \subseteq ApprovedOut' /\ Gone \subseteq Gone'
<1>1. ApprovedOut \subseteq ApprovedOut'
  <2>1. ASSUME NEW i \in DOMAIN waves, waves[i].status = "approved"
        PROVE  i \in DOMAIN waves' /\ waves'[i].status = "approved" /\ waves'[i].elim = waves[i].elim
    BY <2>1, WavesKept
  <2> QED
    BY <2>1 DEF ApprovedOut
<1>2. Accepted \subseteq Accepted'
  BY ReviewsSettle DEF Accepted
<1> QED
  BY <1>1, <1>2 DEF Gone

\* An elimination puts its hotkeys out and lets nobody in.
LEMMA EliminatedAreOut ==
  ASSUME IInv, NEW S, Eliminate(S), Number >= 1
  PROVE  /\ \A h \in S \cap Hotkeys : out'[h] # 0
         /\ \A h \in Hotkeys : out[h] # 0 => out'[h] # 0
         /\ \A h \in Hotkeys \ S : out'[h] = out[h]
BY DEF Eliminate, IInv, TypeOK

\* Every step keeps Resolved.
LEMMA ResolvedStep ==
  ASSUME IInv, Next
  PROVE  Resolved'
<1> USE DEF IInv
<1>1. \A i \in DOMAIN waves : waves[i].elim \subseteq Miners
  <2>1. \A i \in DOMAIN waves : waves[i] \in Wave
    BY DEF TypeOK
  <2> QED
    BY <2>1 DEF Wave
\* Only Reactivate makes anyone active again, and not the resolved.
<1>2. ASSUME NEW m \in Miners, out[m] # 0, \/ ~Reactivate
                                           \/ \E i \in DOMAIN waves : waves[i].resolved /\ m \in waves[i].elim
      PROVE  out'[m] # 0
  <2>1. CASE EliminateCopies \/ EliminateLosers \/ ApplyApproved \/ FinishReviews
    <3>1. Number >= 1 /\ \E S : Eliminate(S)
      BY <2>1 DEF EliminateCopies, EliminateLosers, ApplyApproved, FinishReviews, LoopsFit, Closed, Gated, Fielded
    <3> QED
      BY <1>2, <3>1, EliminatedAreOut DEF Hotkeys
  <2>2. CASE Reactivate
    <3>1. m \notin job.field
      BY <1>2, <2>2 DEF Reactivate, Resolved
    <3> QED
      BY <1>2, <2>2, <3>1 DEF Reactivate, Hotkeys
  <2> QED
    BY <1>2, <2>1, <2>2, WhoWrites
<1>3. job'.at = "resolve" => waves' = waves /\ \A m \in Latest.elim : out'[m] # 0
  <2>1. SUFFICES ASSUME job'.at = "resolve" PROVE waves' = waves /\ \A m \in Latest.elim : out'[m] # 0
    OBVIOUS
  <2>2. CASE ApplyApproved
    <3>1. Eliminate(Latest.elim) /\ Number >= 1 /\ UNCHANGED waves /\ waves # <<>>
      BY <2>2 DEF ApplyApproved, LoopsFit, Closed, Gated, Fielded, gates
    <3>2. Latest.elim \subseteq Hotkeys
      BY <3>1, LatestIsWave DEF Wave, Hotkeys
    <3> QED
      BY <3>1, <3>2, EliminatedAreOut
  <2>3. CASE job' = job
    <3>1. UNCHANGED out /\ waves # <<>> /\ Latest.status = "approved" /\ ~Latest.resolved
      BY <2>1, <2>3, JobStays DEF WavesInOrder
    <3>2. UNCHANGED waves
      BY <2>1, <2>3, <3>1, WaveWritten DEF Rewritten, Added, Answered
    <3> QED
      BY <2>1, <2>3, <3>1, <3>2 DEF Resolved
  <2> QED
    BY <2>1, <2>2, <2>3, Arrivals
<1>4. ASSUME NEW i \in DOMAIN waves', waves'[i].resolved, NEW m \in waves'[i].elim
      PROVE  out'[m] # 0
  <2>1. CASE i \in DOMAIN waves /\ waves[i].resolved
    <3>1. waves'[i].elim = waves[i].elim
      BY <2>1, WavesKept DEF WavesInOrder
    <3> QED
      BY <1>1, <1>2, <1>4, <2>1, <3>1 DEF Resolved
  <2>2. CASE ~(i \in DOMAIN waves /\ waves[i].resolved)
    <3>1. i \in DOMAIN waves
      BY <1>4, WavesKept
    <3>2. PICK w \in Wave : Rewritten(w)
      <4>1. ASSUME NEW w \in Wave, Added(w) PROVE waves'[i] = waves[i]
        BY <3>1, <4>1, WaveAppended DEF Added
      <4> QED
        BY <1>4, <2>2, <3>1, <4>1, WaveWritten
    <3>3. \A k \in DOMAIN waves : waves'[k] = IF k = Len(waves) THEN w ELSE waves[k]
      BY <3>2, WaveReplaced DEF Rewritten
    <3>4. i = Len(waves) /\ w.resolved
      BY <1>4, <2>2, <3>1, <3>3
    <3>5. job.at = "resolve" /\ w.elim = Latest.elim /\ job' # job
      BY <3>2, <3>4 DEF Rewritten
    <3>6. m \in Latest.elim /\ out[m] # 0 /\ m \in Miners
      <4>1. m \in Latest.elim
        BY <1>4, <3>1, <3>3, <3>4, <3>5
      <4> QED
        BY <1>1, <3>1, <3>4, <3>5, <4>1 DEF Resolved, Latest
    <3>7. ~Reactivate
      BY <3>5 DEF Reactivate
    <3> QED
      BY <1>2, <3>6, <3>7
  <2> QED
    BY <2>1, <2>2
<1>5. ASSUME job'.at = "reactivate", NEW i \in DOMAIN waves', waves'[i].resolved
      PROVE  waves'[i].elim \cap job'.field = {}
  <2>1. CASE ReadGate
    <3>1. UNCHANGED waves /\ job'.field = StandingsSlots(Gone)
      BY <2>1 DEF ReadGate, gates, Gone, TypeOK, JobType
    <3>2. waves[i].elim \subseteq Gone
      BY <1>5, <3>1 DEF WavesInOrder, Gone, ApprovedOut
    <3> QED
      BY <3>1, <3>2, SlotsAreRanked
  <2>2. CASE job' = job
    <3>1. i \in DOMAIN waves /\ waves[i].resolved /\ waves'[i].elim = waves[i].elim
      <4>1. i \in DOMAIN waves
        BY <1>5, WavesKept
      <4>2. waves[i].resolved
        <5>1. ASSUME NEW w \in Wave, Rewritten(w) PROVE waves'[i].resolved => waves[i].resolved
          <6>1. \A k \in DOMAIN waves : waves'[k] = IF k = Len(waves) THEN w ELSE waves[k]
            BY <5>1, WaveReplaced DEF Rewritten
          <6> QED
            BY <1>5, <2>2, <4>1, <5>1, <6>1 DEF Rewritten
        <5>2. ASSUME NEW w \in Wave, Added(w) PROVE waves'[i] = waves[i]
          BY <4>1, <5>2, WaveAppended DEF Added
        <5> QED
          BY <1>5, <4>1, <5>1, <5>2, WaveWritten
      <4> QED
        BY <4>1, <4>2, WavesKept DEF WavesInOrder
    <3> QED
      BY <1>5, <2>2, <3>1 DEF Resolved
  <2> QED
    BY <1>5, <2>1, <2>2, Arrivals
<1> QED
  BY <1>3, <1>4, <1>5 DEF Resolved, Latest

-----------------------------------------------------------------------------
(* Who is active                                                           *)

\* The field is read from the standing and kept until the gate is left.
LEMMA FieldKept ==
  ASSUME IInv, Next, job'.at \in Fielded
  PROVE  \/ /\ ReadGate /\ job'.at = "reactivate" /\ job'.field = StandingsSlots(Gone)
            /\ UNCHANGED <<rounds, rank, out, review, waves>>
         \/ /\ ~ReadGate /\ job.at \in Fielded /\ job'.field = job.field /\ Number = 1
<1>1. CASE ReadGate
  BY <1>1 DEF ReadGate, Gone, gates, IInv, TypeOK, JobType
<1>2. CASE ~ReadGate
  <2>1. job.at \in Fielded /\ job'.field = job.field
    BY <1>2, Arrivals DEF Fielded, Reactivate, ResolveWave, ApplyApproved, StartWave, PassDedup, JudgeFew,
       JudgeClean, StartReviews, ReviewEntrant, Goto, IInv, TypeOK, JobType
  <2> QED
    BY <1>2, <2>1 DEF IInv, LoopsFit, Gated
<1> QED
  BY <1>1, <1>2

\* From round 2 on only the losers of a round are eliminated.
LEMMA OutWritten ==
  ASSUME IInv, Next, Number >= 2
  PROVE  \/ UNCHANGED out
         \/ /\ EliminateLosers /\ Current.state = "completed" /\ UNCHANGED rounds
            /\ \A m \in Miners \cap Current.won : out'[m] = out[m]
<1> USE DEF IInv
<1>1. CASE EliminateLosers
  <2>1. Current.state = "completed" /\ Winners = Current.won
    BY <1>1 DEF EliminateLosers, LoopsFit, Closed, Winners
  <2>2. PICK S : Eliminate(S) /\ S \cap Winners = {}
    BY <1>1 DEF EliminateLosers
  <2>3. \A m \in Miners \cap Current.won : out'[m] = out[m]
    <3>1. Number >= 1 /\ \A m \in Miners \cap Current.won : m \in Hotkeys \ S
      BY <2>1, <2>2, NumberGrows DEF Hotkeys
    <3> QED
      BY <2>2, <3>1, EliminatedAreOut
  <2> QED
    BY <1>1, <2>1, <2>3 DEF EliminateLosers
<1>2. CASE EliminateCopies \/ Reactivate \/ ApplyApproved \/ FinishReviews
  <2>1. job.at \in Gated \cup {"copies"}
    BY <1>2 DEF EliminateCopies, Reactivate, ApplyApproved, FinishReviews, Gated, Fielded
  <2> QED
    BY <2>1 DEF LoopsFit
<1> QED
  BY <1>1, <1>2, WhoWrites

\* Who plays the current round, or got through it once it is over.
Playing == IF Current.state = "completed" THEN Current.won ELSE UNION Current.contests

\* Every step keeps the players of the current round active.
LEMMA PlayingStep ==
  ASSUME IInv, Next, Number' >= 2
  PROVE  \A m \in Playing' \ (ApprovedOut' \cup {Burn}) : out'[m] = 0
<1> USE DEF IInv
<1>0. Number \in Nat /\ ApprovedOut \subseteq ApprovedOut'
  BY NumberGrows, GoneGrows
<1>1. CASE Number' # Number
  <2>1. Playing' = {}
    BY <1>0, <1>1, NumberGrows, NextRoundWritten, FirstRoundWritten DEF Playing
  <2> QED
    BY <2>1
<1>2. CASE Number' = Number
  <2>1. /\ Number >= 2 /\ Current \in Round /\ Current.won \subseteq (UNION Current.contests) \cup {Burn}
        /\ \A m \in Playing \ (ApprovedOut \cup {Burn}) : out[m] = 0
        /\ Playing \subseteq Hotkeys
    <3>1. Number >= 2 /\ Current \in Round
      BY <1>0, <1>2, CurrentIsRound
    <3>2. Members(Number) = UNION Current.contests /\ Current = rounds[Number] /\ Number \in 1..Number
      BY <1>0, <3>1 DEF Members, Current
    <3>3. Current.won \subseteq (UNION Current.contests) \cup {Burn}
      BY <3>2 DEF MembersOnly
    <3>4. \A m \in Playing \ (ApprovedOut \cup {Burn}) : out[m] = 0
      BY <3>1, <3>2 DEF Actives, Active, Playing
    <3>5. Playing \subseteq Hotkeys
      BY <3>1 DEF Round, Contest, Playing
    <3> QED
      BY <3>1, <3>3, <3>4, <3>5
  <2>2. CASE EliminateLosers
    <3>1. Current.state = "completed" /\ UNCHANGED rounds
      BY <2>1, <2>2 DEF EliminateLosers, LoopsFit, Closed
    <3>2. \A m \in Miners \cap Current.won : out'[m] = out[m]
      BY <2>1, <2>2, OutWritten
    <3>3. Playing' = Current.won /\ Playing = Current.won
      BY <3>1 DEF Playing, Current, Number
    <3> QED
      BY <1>0, <2>1, <3>2, <3>3 DEF Hotkeys
  <2>3. CASE ~EliminateLosers
    <3>1. UNCHANGED out
      BY <2>1, <2>3, OutWritten
    <3>2. CASE InsertStructure
      <4>1. \A m \in (UNION job.plan) \ (ApprovedOut \cup {Burn}) : out[m] = 0
        BY <2>1, <3>2 DEF InsertStructure, Actives, Active
      <4>2. PICK r \in Round : r.contests = job.plan /\ r.state = "pending" /\ SetCurrent(r)
        BY <2>1, <3>2, RowWritten DEF Round, InsertStructure, LoopsFit
      <4>3. Playing' = UNION job.plan
        <5>1. Current' = r
          BY <1>0, <2>1, <4>2, RoundReplaced
        <5> QED
          BY <4>2, <5>1 DEF Playing
      <4> QED
        BY <1>0, <3>1, <4>1, <4>3
    <3>3. CASE FinishPending \/ RunTasks
      <4>1. PICK r \in Round : r.contests = Current.contests /\ r.state # "completed" /\ SetCurrent(r)
        BY <2>1, <3>3, RowWritten DEF Round, RunTasks
      <4>2. Current.state # "completed"
        BY <3>3 DEF FinishPending, LoopsFit, RunTasks
      <4>3. Playing' = Playing
        <5>1. Current' = r
          BY <1>0, <2>1, <4>1, RoundReplaced
        <5> QED
          BY <4>1, <4>2, <5>1 DEF Playing
      <4> QED
        BY <1>0, <2>1, <3>1, <4>3
    <3>4. CASE CompleteRound
      <4>1. PICK r \in Round : r.won = Current.won /\ r.state = "completed" /\ SetCurrent(r)
        BY <2>1, <3>4, RowWritten DEF Round
      <4>2. Playing' = Current.won
        <5>1. Current' = r
          BY <1>0, <2>1, <4>1, RoundReplaced
        <5> QED
          BY <4>1, <5>1 DEF Playing
      <4>3. Playing = UNION Current.contests
        BY <3>4 DEF CompleteRound, Playing
      <4> QED
        BY <1>0, <2>1, <3>1, <4>2, <4>3
    <3>5. CASE UNCHANGED rounds
      BY <1>0, <2>1, <3>1, <3>5 DEF Playing, Current, Number
    <3>6. ~CreateNextRound /\ ~FirstRound
      BY <1>0, <1>2, NextRoundWritten, FirstRoundWritten
    <3> QED
      BY <3>2, <3>3, <3>4, <3>5, <3>6, WhoWrites
  <2> QED
    BY <2>2, <2>3
<1> QED
  BY <1>1, <1>2

\* Every step keeps Actives.
LEMMA ActivesStep ==
  ASSUME IInv, Next
  PROVE  Actives'
<1> USE DEF IInv
<1>0. Number \in Nat /\ ApprovedOut \subseteq ApprovedOut'
  BY NumberGrows, GoneGrows
<1>1. Number' >= 2 => Active(IF Current.state = "completed" THEN Current.won ELSE Members(Number))'
  BY PlayingStep DEF Active, Playing, Members, Current
<1>2. job'.at \in Fielded \ {"reactivate"} =>
        \A m \in job'.field \ (ApprovedOut' \cup {Burn}) : out'[m] = 0
  <2>1. SUFFICES ASSUME job'.at \in Fielded \ {"reactivate"}
                 PROVE  \A m \in job'.field \ (ApprovedOut' \cup {Burn}) : out'[m] = 0
    OBVIOUS
  <2>2. job.at \in Fielded /\ job'.field = job.field /\ job.field \subseteq Miners /\ Number = 1
    BY <2>1, FieldKept DEF LoopsFit
  <2>3. CASE Reactivate
    BY <2>2, <2>3 DEF Reactivate, Hotkeys
  <2>4. CASE ~Reactivate
    <3>1. job.at \in Fielded \ {"reactivate"}
      BY <2>1, <2>2, <2>4, Arrivals DEF Fielded, ResolveWave, ApplyApproved, StartWave, PassDedup, JudgeFew,
         JudgeClean, StartReviews, ReviewEntrant
    <3>2. \A m \in job.field \ (ApprovedOut \cup {Burn}) : out[m] = 0
      BY <3>1 DEF Actives, Active
    <3>3. CASE ApplyApproved
      <4>1. Eliminate(Latest.elim) /\ waves # <<>> /\ Latest.status = "approved"
        BY <3>3 DEF ApplyApproved
      <4>2. Latest.elim \subseteq ApprovedOut
        BY <4>1, LatestIsWave DEF ApprovedOut, Latest
      <4>3. \A m \in Miners \ Latest.elim : out'[m] = out[m]
        BY <2>2, <4>1, EliminatedAreOut DEF Hotkeys
      <4> QED
        BY <1>0, <2>2, <3>2, <4>2, <4>3
    <3>4. CASE ~ApplyApproved
      <4>1. UNCHANGED out
        <5>1. EliminateCopies \/ EliminateLosers => job.at \in {"copies", "advance"}
          BY DEF EliminateCopies, EliminateLosers
        <5>2. FinishReviews => job'.at \in {"idle", "gate", "retain", "next"}
          BY DEF FinishReviews, Idle
        <5> QED
          BY <2>1, <2>2, <2>4, <3>4, <5>1, <5>2, WhoWrites DEF Fielded
      <4> QED
        BY <1>0, <2>2, <3>2, <4>1
    <3> QED
      BY <3>3, <3>4
  <2> QED
    BY <2>3, <2>4
<1>3. job'.at = "next" => \A m \in job'.field \ (ApprovedOut' \cup {Burn}) : out'[m] = 0
  <2>1. SUFFICES ASSUME job'.at = "next"
                 PROVE  \A m \in job'.field \ (ApprovedOut' \cup {Burn}) : out'[m] = 0
    OBVIOUS
  <2>2. CASE job' = job
    BY <1>0, <2>1, <2>2, JobStays DEF Actives, Active
  <2>3. CASE EliminateLosers /\ Number >= 2 /\ Current.state = "completed" /\ job'.field = Current.won
    <3>1. \A m \in Current.won \ (ApprovedOut \cup {Burn}) : out[m] = 0
      BY <2>3 DEF Actives, Active
    <3>2. Current.won \subseteq Hotkeys
      <4>1. Number >= 1
        BY <1>0, <2>3
      <4> QED
        BY <4>1, CurrentIsRound DEF Round, Contest
    <3>3. \A m \in Miners \cap Current.won : out'[m] = out[m]
      BY <2>3, OutWritten
    <3> QED
      BY <1>0, <2>3, <3>1, <3>2, <3>3 DEF Hotkeys
  <2>4. CASE /\ FinishReviews /\ job.at = "reviewing" /\ job'.field = job.field /\ Number = 1
             /\ job.field \cap (job.elim \cup job.drop) = {}
    <3>1. Eliminate(job.drop)
      BY <2>4 DEF FinishReviews
    <3>2. job.field \subseteq Miners /\ \A m \in job.field \ (ApprovedOut \cup {Burn}) : out[m] = 0
      BY <2>4 DEF LoopsFit, Fielded, Actives, Active
    <3>3. \A m \in Miners \ job.drop : out'[m] = out[m]
      BY <2>4, <3>1, EliminatedAreOut DEF Hotkeys
    <3> QED
      BY <1>0, <2>4, <3>2, <3>3
  <2> QED
    BY <2>1, <2>2, <2>3, <2>4, NextField
<1>4. job'.at = "insert" /\ Number' >= 2 =>
        \A m \in (UNION job'.plan) \ (ApprovedOut' \cup {Burn}) : out'[m] = 0
  <2>1. SUFFICES ASSUME job'.at = "insert", Number' >= 2
                 PROVE  \A m \in (UNION job'.plan) \ (ApprovedOut' \cup {Burn}) : out'[m] = 0
    OBVIOUS
  <2>2. CASE CreateNextRound
    <3>1. \A m \in job.field \ (ApprovedOut \cup {Burn}) : out[m] = 0
      BY <2>2 DEF CreateNextRound, Actives, Active
    <3>2. UNCHANGED out
      BY <2>2 DEF CreateNextRound
    <3> QED
      BY <1>0, <2>2, <3>1, <3>2, NextRoundPlan
  <2>3. CASE job' = job
    <3>1. Number' = Number /\ UNCHANGED out
      BY <2>3, NumberGrows, JobMoves, JobStays
    <3> QED
      BY <1>0, <2>1, <2>3, <3>1 DEF Actives, Active
  <2> QED
    BY <2>1, <2>2, <2>3, Arrivals, FirstRoundWritten
<1> QED
  BY <1>1, <1>2, <1>3, <1>4 DEF Actives, Active

-----------------------------------------------------------------------------
(* Who was compared with whom                                              *)

\* Leaving out more moves nobody further down.
LEMMA SlotsGrow ==
  ASSUME TypeOK, NEW S, NEW T, S \subseteq T
  PROVE  StandingsSlots(S) \ T \subseteq StandingsSlots(T)
<1> SUFFICES ASSUME NEW m \in StandingsSlots(S) \ T
             PROVE  m \in StandingsSlots(T)
  OBVIOUS
<1> DEFINE Better(U) == {k \in DOMAIN rank \ U : rank[k] < rank[m]}
<1>1. Better(T) \subseteq Better(S) /\ IsFiniteSet(Better(S))
  <2>1. Better(S) \subseteq Miners
    BY DEF TypeOK
  <2> QED
    BY <2>1, TournamentAssumption, FS_Subset
<1>2. Cardinality(Better(T)) <= Cardinality(Better(S)) /\ Cardinality(Better(T)) \in Nat
  BY <1>1, FS_Subset, FS_CardinalityType
<1>3. Cardinality(Better(S)) \in Nat
  BY <1>1, FS_CardinalityType
<1>4. Cardinality(Better(S)) < Advance /\ m \in DOMAIN rank \ T
  BY DEF StandingsSlots
<1>5. Advance \in Nat
  BY TournamentAssumption
<1>6. Cardinality(Better(T)) < Advance
  <2> HIDE DEF Better
  <2> QED
    BY <1>2, <1>3, <1>4, <1>5
<1> QED
  BY <1>4, <1>6 DEF StandingsSlots

\* The standing is written while it is empty.
LEMMA RankKept ==
  ASSUME IInv, Next, DOMAIN rank # {}
  PROVE  UNCHANGED rank
<1>1. RunTasks => Number # 1 \/ ~rounds[1].done
  BY DEF RunTasks, Current
<1>2. Number >= 1 /\ rounds[1].done
  BY DEF IInv, MembersOnly
<1>3. RunTasks /\ Number # 1 => UNCHANGED rank
  BY DEF RunTasks
<1> QED
  BY <1>1, <1>2, <1>3, WhoWrites DEF FixScores

\* Who has a place and is not out keeps it.
LEMMA SlotsKept ==
  ASSUME IInv, Next
  PROVE  StandingsSlots(Gone) \ Gone' \subseteq StandingsSlots(Gone)'
<1>1. SUFFICES ASSUME NEW m \in StandingsSlots(Gone), m \notin Gone' PROVE m \in StandingsSlots(Gone)'
  OBVIOUS
<1>2. DOMAIN rank # {}
  BY <1>1, SlotsAreRanked DEF IInv
<1>3. UNCHANGED rank
  BY <1>2, RankKept
<1>4. m \in StandingsSlots(Gone')
  BY <1>1, GoneGrows, SlotsGrow DEF IInv
<1> QED
  BY <1>3, <1>4 DEF StandingsSlots

\* Every step keeps Cohorts.
LEMMA CohortsStep ==
  ASSUME IInv, Next
  PROVE  Cohorts'
<1> USE DEF IInv
<1>0. Gone \subseteq Gone' /\ StandingsSlots(Gone) \ Gone' \subseteq StandingsSlots(Gone)'
  BY GoneGrows, SlotsKept
<1>1. job.at = "judge" => /\ job.field \ Gone \subseteq StandingsSlots(Gone)
                          /\ \A i \in DOMAIN waves : waves[i].cohort \ Gone \subseteq job.field
  BY DEF Cohorts, Fielded
<1>2. ASSUME NEW i \in DOMAIN waves'
      PROVE  waves'[i].cohort \ Gone' \subseteq StandingsSlots(Gone)'
  <2>1. CASE i \in DOMAIN waves
    BY <1>0, <2>1, WavesKept DEF Cohorts
  <2>2. CASE i \notin DOMAIN waves
    <3>1. waves'[i].cohort = {} \/ (waves'[i].cohort = job.field /\ job.at = "judge")
      BY <2>2, WavesKept
    <3> QED
      BY <1>0, <1>1, <3>1
  <2> QED
    BY <2>1, <2>2
<1>3. ASSUME NEW i \in DOMAIN waves', NEW j \in DOMAIN waves', i < j, waves'[j].cohort # {}
      PROVE  waves'[i].cohort \ Gone' \subseteq waves'[j].cohort
  <2>1. i \in DOMAIN waves /\ waves'[i].cohort = waves[i].cohort
    <3>1. Len(waves)' \in Nat /\ DOMAIN waves' = 1..Len(waves)'
      BY WavesKept
    <3>2. i # Len(waves)'
      BY <1>3, <3>1
    <3>3. i \in DOMAIN waves
      BY <3>2, WavesKept
    <3> QED
      BY <3>3, WavesKept
  <2>2. CASE j \in DOMAIN waves
    BY <1>0, <1>3, <2>1, <2>2, WavesKept DEF Cohorts
  <2>3. CASE j \notin DOMAIN waves
    <3>1. waves'[j].cohort = job.field /\ job.at = "judge"
      BY <1>3, <2>3, WavesKept
    <3> QED
      BY <1>0, <1>1, <2>1, <3>1
  <2> QED
    BY <2>2, <2>3
<1>4. ASSUME job'.at \in Fielded
      PROVE  /\ job'.field \ Gone' \subseteq StandingsSlots(Gone)'
             /\ \A i \in DOMAIN waves' : waves'[i].cohort \ Gone' \subseteq job'.field
  <2>1. CASE ReadGate
    <3>1. job'.field = StandingsSlots(Gone) /\ UNCHANGED <<waves, rank, review>>
      BY <1>4, <2>1, FieldKept
    <3>2. Gone' = Gone
      BY <3>1 DEF Gone, ApprovedOut, Accepted
    <3>3. \A i \in DOMAIN waves : waves[i].cohort \ Gone \subseteq StandingsSlots(Gone)
      BY DEF Cohorts
    <3> QED
      BY <1>0, <3>1, <3>2, <3>3
  <2>2. CASE ~ReadGate
    <3>1. job.at \in Fielded /\ job'.field = job.field
      BY <1>4, <2>2, FieldKept
    <3>2. /\ job.field \ Gone \subseteq StandingsSlots(Gone)
          /\ \A i \in DOMAIN waves : waves[i].cohort \ Gone \subseteq job.field
      BY <3>1 DEF Cohorts
    <3>3. ASSUME NEW i \in DOMAIN waves' PROVE waves'[i].cohort \ Gone' \subseteq job.field
      <4>1. CASE i \in DOMAIN waves
        BY <1>0, <3>2, <4>1, WavesKept
      <4>2. CASE i \notin DOMAIN waves
        BY <4>2, WavesKept
      <4> QED
        BY <4>1, <4>2
    <3> QED
      BY <1>0, <3>1, <3>2, <3>3
  <2> QED
    BY <2>1, <2>2
<1> QED
  BY <1>2, <1>3, <1>4 DEF Cohorts

\* Two miners that were in waves and are not out were in the later of the two.
LEMMA EvaluatedAreCompared ==
  ASSUME IInv, waves = <<>> \/ Answered
  PROVE  Compared(Evaluated \ Gone)
<1> USE DEF IInv
<1>0. Len(waves) \in Nat /\ DOMAIN waves = 1..Len(waves)
  BY DEF TypeOK
<1>1. SUFFICES ASSUME NEW a \in Evaluated \ Gone, NEW b \in Evaluated \ Gone
               PROVE  \E i \in DOMAIN waves : {a, b} \subseteq waves[i].cohort /\ waves[i].status # "pending_review"
  BY DEF Compared
<1>2. PICK i \in DOMAIN waves : a \in waves[i].cohort
  BY DEF Evaluated
<1>3. PICK j \in DOMAIN waves : b \in waves[j].cohort
  BY DEF Evaluated
<1>4. \A k \in DOMAIN waves : waves[k].status # "pending_review"
  <2>1. waves # <<>> => Latest.status # "pending_review"
    BY DEF Answered
  <2>2. \A k \in DOMAIN waves : k = Len(waves) \/ k < Len(waves)
    BY <1>0
  <2> QED
    BY <1>2, <2>1, <2>2 DEF WavesInOrder, Latest
<1>5. CASE i < j
  BY <1>1, <1>2, <1>3, <1>4, <1>5 DEF Cohorts
<1>6. CASE j < i
  BY <1>1, <1>2, <1>3, <1>4, <1>6 DEF Cohorts
<1>7. CASE i = j
  BY <1>2, <1>3, <1>4, <1>7
<1> QED
  BY <1>0, <1>5, <1>6, <1>7

\* Whoever was compared stays compared.
LEMMA ComparedStays ==
  ASSUME IInv, Next, NEW S, Compared(S)
  PROVE  \A a, b \in S \ {Burn} : a # b =>
           \E i \in DOMAIN waves' : {a, b} \subseteq waves'[i].cohort /\ waves'[i].status # "pending_review"
<1>1. SUFFICES ASSUME NEW a \in S \ {Burn}, NEW b \in S \ {Burn}, a # b
               PROVE  \E i \in DOMAIN waves' : {a, b} \subseteq waves'[i].cohort /\ waves'[i].status # "pending_review"
  OBVIOUS
<1>2. PICK i \in DOMAIN waves : {a, b} \subseteq waves[i].cohort /\ waves[i].status # "pending_review"
  BY <1>1 DEF Compared
<1> QED
  BY <1>2, WavesKept

\* Every step keeps Compares.
LEMMA ComparesStep ==
  ASSUME IInv, Next
  PROVE  Compares'
<1> USE DEF IInv
<1>0. Number \in Nat
  BY NumberGrows
<1>1. Number' >= 2 =>
        \A a, b \in (UNION rounds'[2].contests) \ {Burn} : a # b =>
          \E i \in DOMAIN waves' : {a, b} \subseteq waves'[i].cohort /\ waves'[i].status # "pending_review"
  <2>1. CASE Number' >= 2 /\ Number' # Number
    <3>1. CASE Number' = 2
      <4>1. Current'.contests = {} /\ Current' = rounds'[2]
        BY <1>0, <2>1, <3>1, NumberGrows, NextRoundWritten, FirstRoundWritten DEF Current
      <4> QED
        BY <4>1
    <3>2. CASE Number' # 2
      <4>1. Number >= 2 /\ CreateNextRound
        BY <1>0, <2>1, <3>2, NumberGrows, FirstRoundWritten
      <4>2. rounds'[2] = rounds[2] /\ Compared(Members(2))
        BY <1>0, <4>1, NextRoundWritten DEF Compares
      <4> QED
        BY <4>2, ComparedStays DEF Members
    <3> QED
      BY <3>1, <3>2
  <2>2. CASE Number >= 2 /\ Number' = Number /\ ~(InsertStructure /\ Number = 2)
    <3>1. rounds'[2].contests = rounds[2].contests
      BY <1>0, <2>2, RowsKept
    <3>2. Compared(Members(2))
      BY <2>2 DEF Compares
    <3> QED
      BY <3>1, <3>2, ComparedStays DEF Members
  <2>3. CASE InsertStructure /\ Number = 2
    <3>1. rounds'[2].contests = job.plan
      BY <2>3, RowsKept
    <3>2. Compared(UNION job.plan)
      BY <2>3 DEF InsertStructure, Compares
    <3> QED
      BY <3>1, <3>2, ComparedStays
  <2> QED
    BY <1>0, <2>1, <2>2, <2>3
<1>2. job'.at = "next" /\ Number' = 1 =>
        \A a, b \in job'.field \ {Burn} : a # b =>
          \E i \in DOMAIN waves' : {a, b} \subseteq waves'[i].cohort /\ waves'[i].status # "pending_review"
  <2>1. SUFFICES ASSUME job'.at = "next", Number' = 1
                 PROVE  \A a, b \in job'.field \ {Burn} : a # b =>
                          \E i \in DOMAIN waves' : {a, b} \subseteq waves'[i].cohort /\ waves'[i].status # "pending_review"
    OBVIOUS
  <2>2. Compared(job'.field)
    <3>1. CASE job' = job
      <4>1. Number = 1
        BY <2>1, <3>1, NumberGrows, JobMoves
      <4> QED
        BY <2>1, <3>1, <4>1 DEF Compares
    <3>2. CASE job.at = "reviewing" /\ job'.field = job.field /\ job.field \cap (job.elim \cup job.drop) = {}
      <4>1. Compared(job.field \ (job.elim \cup job.drop))
        BY <3>2 DEF Compares
      <4>2. job.field \ (job.elim \cup job.drop) = job.field
        BY <3>2
      <4> QED
        BY <3>2, <4>1, <4>2
    <3>3. ~(EliminateLosers /\ Number >= 2)
      BY <1>0, <2>1, NumberGrows
    <3> QED
      BY <2>1, <3>1, <3>2, <3>3, NextField
  <2> QED
    BY <2>2, ComparedStays
<1>3. job'.at = "insert" /\ Number' = 2 =>
        \A a, b \in (UNION job'.plan) \ {Burn} : a # b =>
          \E i \in DOMAIN waves' : {a, b} \subseteq waves'[i].cohort /\ waves'[i].status # "pending_review"
  <2>1. SUFFICES ASSUME job'.at = "insert", Number' = 2
                 PROVE  \A a, b \in (UNION job'.plan) \ {Burn} : a # b =>
                          \E i \in DOMAIN waves' : {a, b} \subseteq waves'[i].cohort /\ waves'[i].status # "pending_review"
    OBVIOUS
  <2>2. Compared(UNION job'.plan)
    <3>1. CASE CreateNextRound
      <4>1. Number = 1
        BY <1>0, <2>1, <3>1, NextRoundWritten
      <4>2. Compared(job.field)
        BY <3>1, <4>1 DEF CreateNextRound, Compares
      <4> QED
        BY <3>1, <4>2, NextRoundPlan DEF Compared
    <3>2. CASE job' = job
      <4>1. Number = 2
        BY <2>1, <3>2, NumberGrows, JobMoves
      <4> QED
        BY <2>1, <3>2, <4>1 DEF Compares
    <3> QED
      BY <2>1, <3>1, <3>2, Arrivals, FirstRoundWritten
  <2> QED
    BY <2>2, ComparedStays
<1>4. Accepted \subseteq Accepted'
  BY ReviewsSettle DEF Accepted
<1>5. job'.at = "reviews" =>
        \A a, b \in (job'.field \ (job'.elim \cup Accepted')) \ {Burn} : a # b =>
          \E i \in DOMAIN waves' : {a, b} \subseteq waves'[i].cohort /\ waves'[i].status # "pending_review"
  <2>1. CASE PassDedup
    <3>1. /\ Answered /\ job.field \subseteq Evaluated /\ UNCHANGED <<waves, review>>
          /\ job'.field = job.field /\ job'.elim = job.elim \cup ApprovedOut
      BY <2>1 DEF PassDedup, NewMembers, gates, TypeOK, JobType
    <3>2. job'.field \ (job'.elim \cup Accepted') \subseteq Evaluated \ Gone
      BY <1>4, <3>1 DEF Gone
    <3>3. Compared(Evaluated \ Gone)
      BY <3>1, EvaluatedAreCompared
    <3> QED
      BY <3>2, <3>3, ComparedStays
  <2>2. CASE JudgeFew
    <3>1. Cardinality(job.field) < 2 /\ job'.field = job.field /\ IsFiniteSet(job.field)
      BY <2>2, TournamentAssumption, FS_Subset DEF JudgeFew, Goto, TypeOK, JobType, LoopsFit, Fielded
    <3>2. ASSUME NEW a \in job.field, NEW b \in job.field, a # b PROVE FALSE
      <4>1. Cardinality({a, b}) = 2
        <5>1. IsFiniteSet({a}) /\ Cardinality({a}) = 1 /\ {a, b} = {a} \cup {b} /\ b \notin {a}
          BY <3>2, FS_Singleton
        <5>2. Cardinality({a} \cup {b}) = Cardinality({a}) + 1
          BY <5>1, FS_AddElement
        <5> QED
          BY <5>1, <5>2
      <4>2. {a, b} \subseteq job.field
        BY <3>2
      <4>3. Cardinality({a, b}) <= Cardinality(job.field) /\ Cardinality(job.field) \in Nat
        BY <3>1, <4>2, FS_Subset, FS_CardinalityType
      <4> QED
        BY <3>1, <4>1, <4>3
    <3> QED
      BY <3>1, <3>2
  <2>3. CASE JudgeClean
    <3>1. PICK w \in Wave : waves' = Append(waves, w) /\ w.status = "skipped" /\ w.cohort = job.field
      <4>1. UNCHANGED waves => FALSE
        BY <2>3 DEF JudgeClean, NewWave, TypeOK
      <4>2. job.at = "judge" /\ job'.at = "reviews"
        BY <2>3 DEF JudgeClean, Goto, TypeOK, JobType
      <4> QED
        BY <4>1, <4>2, WaveWritten DEF Rewritten, Added
    <3>2. waves'[Len(waves')] = w /\ Len(waves') \in DOMAIN waves'
      BY <3>1, WaveAppended DEF Latest
    <3>3. job'.field = job.field
      BY <2>3 DEF JudgeClean, Goto, TypeOK, JobType
    <3> QED
      BY <3>1, <3>2, <3>3
  <2>4. CASE job' = job /\ job'.at = "reviews"
    <3>1. Compared(job.field \ (job.elim \cup Accepted))
      BY <2>4 DEF Compares
    <3>2. Compared(job'.field \ (job'.elim \cup Accepted'))
      BY <1>4, <2>4, <3>1 DEF Compared
    <3> QED
      BY <3>2, ComparedStays
  <2> QED
    BY <2>1, <2>2, <2>3, <2>4, Arrivals
<1>6. job'.at = "reviewing" =>
        \A a, b \in (job'.field \ (job'.elim \cup job'.drop)) \ {Burn} : a # b =>
          \E i \in DOMAIN waves' : {a, b} \subseteq waves'[i].cohort /\ waves'[i].status # "pending_review"
  <2>1. CASE StartReviews
    <3>1. /\ job'.field = job.field /\ job'.elim = job.elim /\ job'.drop = job.field \cap Accepted
          /\ Compared(job.field \ (job.elim \cup Accepted))
      BY <2>1 DEF StartReviews, TypeOK, JobType, Compares
    <3>2. job'.field \ (job'.elim \cup job'.drop) = job.field \ (job.elim \cup Accepted)
      BY <3>1
    <3> QED
      BY <3>1, <3>2, ComparedStays
  <2>2. CASE job.at = "reviewing" /\ job'.field = job.field /\ job'.elim = job.elim /\ job'.drop = job.drop
    BY <2>2, ComparedStays DEF Compares
  <2>3. ASSUME NEW m \in Miners, NEW v \in {"clean"} \cup Held, ReviewEntrant(m, v)
        PROVE  job.at = "reviewing" /\ job'.field = job.field /\ job'.elim = job.elim /\ job'.drop = job.drop
    BY <2>3 DEF ReviewEntrant, TypeOK, JobType
  <2> QED
    BY <2>1, <2>2, <2>3, Arrivals
<1> QED
  BY <1>1, <1>2, <1>3, <1>5, <1>6 DEF Compares, Compared, Members

-----------------------------------------------------------------------------
(* The theorems                                                            *)

\* The invariant is inductive.
LEMMA Invariance == Spec => []IInv
<1>1. IInv /\ [Next]_vars => IInv'
  <2>1. SUFFICES ASSUME IInv, [Next]_vars PROVE IInv'
    OBVIOUS
  <2>2. CASE Next
    BY <2>1, <2>2, TypeStep, LoopsFitStep, MembersOnlyStep, ReviewedStep, ShrinksStep,
       WavesInOrderStep, ResolvedStep, ActivesStep, CohortsStep, ComparesStep DEF IInv
  <2>3. CASE UNCHANGED vars
    <3>1. TypeOK' /\ LoopsFit' /\ MembersOnly'
      BY <2>1, <2>3 DEF IInv, vars, gates, TypeOK, LoopsFit, MembersOnly, Number, Current, Members
    <3>2. Reviewed' /\ Shrinks'
      BY <2>1, <2>3 DEF IInv, vars, gates, Reviewed, Shrinks, Vetted, Number, Members
    <3>3. WavesInOrder' /\ Resolved'
      BY <2>1, <2>3 DEF IInv, vars, gates, WavesInOrder, Resolved, Latest, Answered
    <3>4. Actives'
      BY <2>1, <2>3 DEF IInv, vars, gates, Actives, Active, ApprovedOut, Number, Current, Members
    <3>5. Cohorts'
      BY <2>1, <2>3 DEF IInv, vars, gates, Cohorts, Gone, ApprovedOut, Accepted, StandingsSlots
    <3>6. Compares'
      <4>1. UNCHANGED <<job, waves, Number, Accepted>> /\ Members(2)' = Members(2)
        BY <2>3 DEF vars, gates, Accepted, Number, Members
      <4>2. Compares
        BY <2>1 DEF IInv
      <4> QED
        BY <4>1, <4>2 DEF Compares, Compared
    <3> QED
      BY <3>1, <3>2, <3>3, <3>4, <3>5, <3>6 DEF IInv
  <2> QED
    BY <2>1, <2>2, <2>3
<1> QED
  BY <1>1, InitHolds, PTL DEF Spec

\* Every variable has its type in every tournament.
THEOREM TypeCorrect == Spec => []TypeOK
<1>1. IInv => TypeOK
  BY DEF IInv
<1> QED
  BY <1>1, Invariance, PTL

\* Whoever plays round 2 or later was reviewed and let through, whichever
\* replacements join, operators answer and processes die on the way.
THEOREM ReviewedEntrants == Spec => []EntrantsReviewed
<1>1. IInv => EntrantsReviewed
  BY DEF IInv, Reviewed, Vetted, EntrantsReviewed
<1> QED
  BY <1>1, Invariance, PTL

\* Two miners of round 2 were compared in one answered wave, however many
\* waves of replacements it took: places are only ever filled up, so that
\* who was in a wave and is not out is in all that follow.
THEOREM ComparedEntrants == Spec => []EntrantsCompared
<1>1. IInv => EntrantsCompared
  BY DEF IInv, Compares, Compared, EntrantsCompared
<1> QED
  BY <1>1, Invariance, PTL

\* Whoever is to play a round that is not over is active, but for approved
\* duplicates.
THEOREM ActiveEntrants == Spec => []EntrantsActive
<1>1. IInv => EntrantsActive
  BY DEF IInv, Actives, Active, EntrantsActive
<1> QED
  BY <1>1, Invariance, PTL

\* A published duplicate never comes back.
THEOREM ResolvedStayOut == Spec => []ResolvedAreOut
<1>1. IInv => ResolvedAreOut
  BY DEF IInv, Resolved, ResolvedAreOut
<1> QED
  BY <1>1, Invariance, PTL

\* Nobody joins a tournament after its first round but the boss.
THEOREM ShrinkingBracket == Spec => []BracketShrinks
<1>1. IInv => BracketShrinks
  BY DEF IInv, Shrinks, BracketShrinks
<1> QED
  BY <1>1, Invariance, PTL
=============================================================================
