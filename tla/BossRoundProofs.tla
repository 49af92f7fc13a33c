-------------------------- MODULE BossRoundProofs --------------------------
(***************************************************************************)
(* Proofs about BossRound for every value of its constants.                *)
(*                                                                         *)
(* First what counting tasks gives: the bar of the code is the intended    *)
(* one (WinnerIsDeserved), and a round that lacks a lineage is not full    *)
(* (ShortWithoutLineage).  Then IInv, one lemma per action, the theorems.  *)
(* Last the batches of deciders: each is paid for by a creation that       *)
(* failed, or by the room there is until the round has more tasks than it  *)
(* is built with (BatchesPaid).                                            *)
(***************************************************************************)
EXTENDS BossRound, FiniteSetTheorems, TLAPS

-----------------------------------------------------------------------------
\* Counting

\* Any set of the round's tasks is finite.
LEMMA TasksAreFinite ==
  ASSUME TypeOK, NEW S \in SUBSET Rows
  PROVE  IsFiniteSet(S) /\ Cardinality(S) \in Nat
<1>1. IsFiniteSet(1..made)
  BY FS_Interval DEF TypeOK
<1>2. S \subseteq 1..made
  BY DEF TypeOK
<1> QED
  BY <1>1, <1>2, FS_Subset, FS_CardinalityType

\* The round is built to a finite size.
LEMMA SlotsAreFinite == IsFiniteSet(Slots) /\ Expected \in Nat
<1> DEFINE Of == [k \in Kinds |-> {k} \X (1..Target[k])]
           All == {{k} \X (1..Target[k]) : k \in Kinds}
<1>1. Of \in Surjection(Kinds, All)
  BY DEF Surjection
<1>2. IsFiniteSet(All)
  BY <1>1, FS_Surjection, BossAssumption
<1>3. ASSUME NEW T \in All
      PROVE  IsFiniteSet(T)
  <2>1. PICK k \in Kinds : T = {k} \X (1..Target[k])
    OBVIOUS
  <2>2. Target[k] \in Int
    BY BossAssumption
  <2>3. IsFiniteSet({k})
    BY FS_Singleton
  <2>4. IsFiniteSet(1..Target[k])
    BY <2>2, FS_Interval
  <2> QED
    BY <2>1, <2>3, <2>4, FS_Product
<1>4. IsFiniteSet(Slots)
  BY <1>2, <1>3, FS_UNION DEF Slots
<1> QED
  BY <1>4, FS_CardinalityType DEF Expected

\* A round that keeps to its mix and lacks a lineage has fewer tasks than it
\* is built with: its tasks can be numbered within their kinds, and no task
\* takes the lineage's slot.
LEMMA ShortWithoutLineage ==
  ASSUME TypeOK, \A k \in Kinds : Cardinality(OfKind(k)) <= Target[k],
         NEW l \in Lineages, OfKind(l) = {}
  PROVE  Size < Expected
<1> DEFINE Upto(i) == {j \in OfKind(tasks[i].kind) : j <= i}
           Number == [i \in Rows |-> <<tasks[i].kind, Cardinality(Upto(i))>>]
           Others == Slots \ {<<l, 1>>}
<1>1. ASSUME NEW i \in Rows
      PROVE  /\ tasks[i].kind \in Kinds /\ tasks[i].kind # l
             /\ Upto(i) \in SUBSET OfKind(tasks[i].kind) /\ i \in Upto(i)
             /\ OfKind(tasks[i].kind) \in SUBSET Rows /\ Rows \subseteq Nat
  BY DEF TypeOK, Task, OfKind
<1>2. ASSUME NEW i \in Rows
      PROVE  Cardinality(Upto(i)) \in 1..Target[tasks[i].kind]
  <2> DEFINE k == tasks[i].kind
  <2>1. IsFiniteSet(OfKind(k)) /\ Cardinality(OfKind(k)) \in Nat
    BY <1>1, TasksAreFinite
  <2>2. /\ IsFiniteSet(Upto(i)) /\ Cardinality(Upto(i)) \in Nat
        /\ Cardinality(Upto(i)) <= Cardinality(OfKind(k))
    BY <1>1, <2>1, FS_Subset, FS_CardinalityType
  <2>3. Cardinality(Upto(i)) # 0
    BY <1>1, <2>2, FS_EmptySet
  <2>4. Target[k] \in Nat /\ Cardinality(OfKind(k)) <= Target[k]
    BY <1>1, BossAssumption
  <2> QED
    BY <2>1, <2>2, <2>3, <2>4
<1>3. Number \in [Rows -> Others]
  <2> SUFFICES ASSUME NEW i \in Rows PROVE Number[i] \in Others
    OBVIOUS
  <2>1. Number[i] \in {tasks[i].kind} \X (1..Target[tasks[i].kind])
    BY <1>2
  <2>2. Number[i] \in Slots
    BY <2>1, <1>1 DEF Slots
  <2> QED
    BY <2>2, <1>1
<1>4. ASSUME NEW i \in Rows, NEW j \in Rows, Number[i] = Number[j], i # j
      PROVE  FALSE
  <2>1. tasks[i].kind = tasks[j].kind /\ Cardinality(Upto(i)) = Cardinality(Upto(j))
    BY <1>4
  <2>2. ASSUME NEW a \in Rows, NEW b \in Rows, a < b, tasks[a].kind = tasks[b].kind
        PROVE  Cardinality(Upto(a)) # Cardinality(Upto(b))
    <3>1. Upto(a) \in SUBSET Upto(b) /\ b \notin Upto(a) /\ b \in Upto(b)
      BY <2>2, <1>1
    <3>2. IsFiniteSet(Upto(b))
      <4>1. Upto(b) \in SUBSET Rows
        BY <1>1
      <4> QED
        BY <4>1, TasksAreFinite
    <3> QED
      BY <3>1, <3>2, FS_Subset
  <2>3. i < j \/ j < i
    BY <1>1, <1>4
  <2> QED
    BY <2>1, <2>2, <2>3
<1>5. Number \in Injection(Rows, Others)
  <2>1. \A i, j \in Rows : Number[i] = Number[j] => i = j
    BY <1>4
  <2> HIDE DEF Number
  <2> QED
    BY <1>3, <2>1 DEF Injection, IsInjective
<1>6. <<l, 1>> \in Slots
  <2>1. l \in Kinds /\ <<l, 1>> \in {l} \X (1..Target[l])
    BY BossAssumption DEF Kinds
  <2> QED
    BY <2>1 DEF Slots
<1>7. /\ IsFiniteSet(Others) /\ Cardinality(Others) = Expected - 1
  BY <1>6, SlotsAreFinite, FS_RemoveElement DEF Expected
<1>8. Size <= Cardinality(Others)
  BY <1>5, <1>7, FS_Injection DEF Size
<1>9. Size \in Nat
  BY TasksAreFinite DEF Size
<1> QED
  BY <1>7, <1>8, <1>9, SlotsAreFinite

\* The clamped bar of determine_boss_round_winner is the rule it stands for.
LEMMA WinnerIsDeserved ==
  ASSUME TypeOK
  PROVE  RoundWinner = "challenger" <=> Deserved
<1>1. Wins \in Nat /\ Held \in Nat
  BY TasksAreFinite DEF Wins, Held, InState
<1>2. Expected \in Nat
  BY SlotsAreFinite
<1>3. Wins > 0 =>
        (Wins >= Required <=> /\ Held <= 1
                              /\ Held = 1 /\ Drawn # {} => Wins + Held >= Expected)
  <2> DEFINE drawn == Drawn # {}
  <2> HIDE DEF drawn
  <2>1. CASE drawn
    BY <1>1, <1>2, <2>1 DEF Required, drawn
  <2>2. CASE ~drawn
    BY <1>1, <1>2, <2>2 DEF Required, drawn
  <2> QED
    BY <2>1, <2>2
<1> QED
  BY <1>3 DEF RoundWinner, Deserved

-----------------------------------------------------------------------------
(* The inductive invariant                                                 *)

\* What the process has in memory fits the status and the rows.
RunnerShape ==
  /\ runner.at = "create" => status = "pending"
  /\ runner.at \in {"copy", "detach"} =>
       /\ status = "active" /\ runner.of \in Rows /\ made \in Rows /\ runner.of # made
       /\ tasks[runner.of].state = "prepfailed"
       /\ tasks[made].kind = tasks[runner.of].kind /\ runner.ids = {made}
  /\ runner.at = "copy" => ~tasks[made].nodes
  /\ runner.at = "decide" =>
       /\ status = "completed" /\ eliminated = {}
       /\ runner.ids \subseteq Rows
       /\ \A i \in runner.ids : ~tasks[i].nodes /\ tasks[i].kind \in Types
       /\ \A l \in Lineages : runner.left[l] = 0
  /\ runner.at = "carry" =>
       /\ status = "completed" /\ winner = "none" /\ eliminated # {}
       /\ runner.name = RoundWinner
       /\ \A i \in runner.ids : i \in Rows /\ tasks[i].kind \in Lineages
       /\ \A l \in Lineages : \A i \in OfKind(l) : i \in runner.ids \/ l \in marked

\* Only what was assigned is judged, and a round is completed on judged tasks.
JudgedShape ==
  /\ \A i \in Rows : tasks[i].state \in Verdicts => tasks[i].nodes
  /\ status = "completed" =>
       \A i \in Rows : tasks[i].nodes => tasks[i].state \in Verdicts

\* The tally is final.
Settled ==
  /\ status = "completed" /\ Unassigned = {}
  /\ \A i \in Rows : tasks[i].state \in Verdicts
  /\ Drawn = {} \/ AlreadyAdded

\* Whatever advance_tournament has written follows from the tally, and the
\* tally cannot change any more: this is what makes a second pass harmless.
DecisionStands ==
  /\ eliminated # {} => /\ Settled /\ eliminated = Sides \ {RoundWinner}
                        /\ runner.at \in {"idle", "carry"}
  /\ winner # "none" => /\ eliminated # {} /\ winner = RoundWinner
                        /\ runner.at = "idle"
                        /\ \A l \in Lineages : OfKind(l) # {} => l \in marked
  /\ \A l \in Lineages : advances[l] = IF l \in marked THEN 1 ELSE 0

\* A lineage is missing only while the round is first built, and then some
\* slot of the mix is open.
LineagesPresent ==
  /\ \/ \A l \in Lineages : OfKind(l) # {}
     \/ /\ status = "pending"
        /\ \A k \in Kinds :
             Cardinality(OfKind(k)) + (IF runner.at = "create" THEN runner.left[k] ELSE 0)
               <= Target[k]
  /\ runner.at = "create" => \A l \in Lineages : OfKind(l) # {} \/ runner.left[l] > 0

IInv == TypeOK /\ RunnerShape /\ JudgedShape /\ DecisionStands /\ LineagesPresent

-----------------------------------------------------------------------------
\* The tally depends on the round's rows only.
LEMMA SameTally ==
  ASSUME tasks' = tasks
  PROVE  /\ Rows' = Rows /\ Unassigned' = Unassigned /\ Drawn' = Drawn
         /\ AlreadyAdded' = AlreadyAdded /\ RoundWinner' = RoundWinner
         /\ \A k : OfKind(k)' = OfKind(k)
BY DEF Rows, Unassigned, Drawn, AlreadyAdded, Size, RoundWinner, Wins, Held, InState,
       Required, Satisfied, OfKind

\* Before the tally is final nothing has been decided.
LEMMA Undecided ==
  ASSUME IInv, ~Settled
  PROVE  eliminated = {} /\ winner = "none"
BY DEF IInv, DecisionStands

\* What is counted is a number.
LEMMA Numbers ==
  ASSUME TypeOK
  PROVE  \A k \in Kinds : Cardinality(OfKind(k)) \in Nat /\ Target[k] \in Nat
                          /\ runner.left[k] \in Nat
BY TasksAreFinite, BossAssumption DEF TypeOK, OfKind

\* A round without tasks has no lineages yet.
LEMMA InitHolds ==
  ASSUME Init
  PROVE  IInv
<1> USE DEF Init, Idle, Nothing
<1>1. TypeOK
  BY DEF TypeOK, Rows
<1>2. RunnerShape /\ JudgedShape /\ DecisionStands
  BY DEF RunnerShape, JudgedShape, DecisionStands, Rows
<1>3. LineagesPresent
  <2>1. \A k \in Kinds : OfKind(k) = {}
    BY DEF OfKind, Rows
  <2>2. \A k \in Kinds : Cardinality(OfKind(k)) = 0 /\ Target[k] \in Nat
    BY <2>1, FS_EmptySet, BossAssumption
  <2> QED
    BY <2>2 DEF LineagesPresent
<1> QED
  BY <1>1, <1>2, <1>3 DEF IInv

-----------------------------------------------------------------------------
\* Steps that leave the round's rows alone

\* FinishPass: every task has its nodes, and nothing is missing.
LEMMA FinishPassKeeps ==
  ASSUME IInv, FinishPass
  PROVE  IInv'
<1> USE DEF IInv, FinishPass
<1>1. /\ Rows' = Rows /\ Unassigned' = Unassigned /\ Drawn' = Drawn
      /\ AlreadyAdded' = AlreadyAdded /\ RoundWinner' = RoundWinner
      /\ \A k : OfKind(k)' = OfKind(k)
  BY SameTally
<1>2. TypeOK'
  BY <1>1 DEF TypeOK, Rows, Idle, Nothing, chain, Hit, Fault
<1>3. RunnerShape'
  BY <1>1 DEF RunnerShape, Idle
<1>4. JudgedShape'
  BY <1>1 DEF JudgedShape
<1>5. DecisionStands'
  BY <1>1 DEF DecisionStands, Settled, chain
<1>6. LineagesPresent'
  BY <1>1 DEF LineagesPresent, Idle, Nothing, Kinds
<1> QED
  BY <1>2, <1>3, <1>4, <1>5, <1>6

\* CheckCompleted: all tasks are judged.
LEMMA CheckCompletedKeeps ==
  ASSUME IInv, CheckCompleted
  PROVE  IInv'
<1> USE DEF IInv, CheckCompleted
<1>1. /\ Rows' = Rows /\ Unassigned' = Unassigned /\ Drawn' = Drawn
      /\ AlreadyAdded' = AlreadyAdded /\ RoundWinner' = RoundWinner
      /\ \A k : OfKind(k)' = OfKind(k)
  BY SameTally
<1>2. TypeOK'
  BY <1>1 DEF TypeOK, Rows, Idle, Nothing, chain, Hit, Fault
<1>3. RunnerShape'
  BY <1>1 DEF RunnerShape, Idle
<1>4. JudgedShape'
  BY <1>1 DEF JudgedShape
<1>5. DecisionStands'
  BY <1>1 DEF DecisionStands, Settled, chain
<1>6. LineagesPresent'
  BY <1>1 DEF LineagesPresent, Idle
<1> QED
  BY <1>2, <1>3, <1>4, <1>5, <1>6

\* ReturnUnassigned: a round with a task that never ran is not decided.
LEMMA ReturnUnassignedKeeps ==
  ASSUME IInv, ReturnUnassigned
  PROVE  IInv'
<1> USE DEF IInv, ReturnUnassigned, Judging
<1>1. /\ Rows' = Rows /\ Unassigned' = Unassigned /\ Drawn' = Drawn
      /\ AlreadyAdded' = AlreadyAdded /\ RoundWinner' = RoundWinner
      /\ \A k : OfKind(k)' = OfKind(k)
  BY SameTally
<1>2. TypeOK'
  BY <1>1 DEF TypeOK, Rows, Idle, Nothing, chain, Hit, Fault
<1>3. RunnerShape'
  BY <1>1 DEF RunnerShape, Idle
<1>4. JudgedShape'
  BY <1>1 DEF JudgedShape
<1>5. DecisionStands'
  BY <1>1 DEF DecisionStands, Settled, chain
<1>6. LineagesPresent'
  BY <1>1 DEF LineagesPresent, Idle
<1> QED
  BY <1>2, <1>3, <1>4, <1>5, <1>6

\* FinishDeciders: the round goes back to its nodes.
LEMMA FinishDecidersKeeps ==
  ASSUME IInv, FinishDeciders
  PROVE  IInv'
<1> USE DEF IInv, FinishDeciders
<1>1. /\ Rows' = Rows /\ Unassigned' = Unassigned /\ Drawn' = Drawn
      /\ AlreadyAdded' = AlreadyAdded /\ RoundWinner' = RoundWinner
      /\ \A k : OfKind(k)' = OfKind(k)
  BY SameTally
<1>2. TypeOK'
  BY <1>1 DEF TypeOK, Rows, Idle, Nothing, chain, Hit, Fault
<1>3. RunnerShape'
  BY <1>1 DEF RunnerShape, Idle
<1>4. JudgedShape'
  BY <1>1 DEF JudgedShape
<1>5. DecisionStands'
  BY <1>1 DEF DecisionStands, Settled, chain
<1>6. LineagesPresent'
  BY <1>1 DEF LineagesPresent, Idle
<1> QED
  BY <1>2, <1>3, <1>4, <1>5, <1>6

\* Crown: every lineage has been carried forward.
LEMMA CrownKeeps ==
  ASSUME IInv, Crown
  PROVE  IInv'
<1> USE DEF IInv, Crown
<1>1. /\ Rows' = Rows /\ Unassigned' = Unassigned /\ Drawn' = Drawn
      /\ AlreadyAdded' = AlreadyAdded /\ RoundWinner' = RoundWinner
      /\ \A k : OfKind(k)' = OfKind(k)
  BY SameTally
<1>2. TypeOK'
  BY <1>1 DEF TypeOK, Rows, Idle, Nothing, chain, Hit, Fault
<1>3. RunnerShape'
  BY <1>1 DEF RunnerShape, Idle, TypeOK
<1>4. JudgedShape'
  BY <1>1 DEF JudgedShape
<1>5. DecisionStands'
  <2>1. Settled' <=> Settled
    BY <1>1 DEF Settled
  <2> QED
    BY <1>1, <2>1 DEF DecisionStands, RunnerShape, Idle, chain
<1>6. LineagesPresent'
  BY <1>1 DEF LineagesPresent, Idle
<1> QED
  BY <1>2, <1>3, <1>4, <1>5, <1>6

\* Restart: the memory is lost, the rows stay.
LEMMA RestartKeeps ==
  ASSUME IInv, Restart
  PROVE  IInv'
<1> USE DEF IInv, Restart
<1>1. /\ Rows' = Rows /\ Unassigned' = Unassigned /\ Drawn' = Drawn
      /\ AlreadyAdded' = AlreadyAdded /\ RoundWinner' = RoundWinner
      /\ \A k : OfKind(k)' = OfKind(k)
  BY SameTally
<1>2. TypeOK'
  BY <1>1 DEF TypeOK, Rows, Idle, Nothing, chain, Hit, Fault
<1>3. RunnerShape'
  BY <1>1 DEF RunnerShape, Idle
<1>4. JudgedShape'
  BY <1>1 DEF JudgedShape
<1>5. DecisionStands'
  <2>1. Settled' <=> Settled
    BY <1>1 DEF Settled
  <2> QED
    BY <1>1, <2>1 DEF DecisionStands, Idle, chain
<1>6. LineagesPresent'
  <2>1. \A k \in Kinds : Cardinality(OfKind(k)) \in Nat /\ Target[k] \in Nat /\ runner.left[k] \in Nat
    BY Numbers
  <2> QED
    BY <1>1, <2>1 DEF LineagesPresent, Idle
<1> QED
  BY <1>2, <1>3, <1>4, <1>5, <1>6

\* CreationFails: a type is skipped, a lineage never.
LEMMA CreationFailsKeeps ==
  ASSUME NEW k \in Kinds, IInv, CreationFails(k)
  PROVE  IInv'
<1> USE DEF IInv, CreationFails, Due, Less, Skippable
<1>1. /\ Rows' = Rows /\ Unassigned' = Unassigned /\ Drawn' = Drawn
      /\ AlreadyAdded' = AlreadyAdded /\ RoundWinner' = RoundWinner
      /\ \A j : OfKind(j)' = OfKind(j)
  BY SameTally
<1>2. TypeOK'
  BY <1>1 DEF TypeOK, Rows, Idle, Nothing, chain, Hit, Fault
<1>3. RunnerShape'
  BY <1>1 DEF RunnerShape, Idle
<1>4. JudgedShape'
  BY <1>1 DEF JudgedShape
<1>5. DecisionStands'
  BY <1>1 DEF DecisionStands, Settled, chain
<1>6. LineagesPresent'
  <2>1. \A j \in Kinds : Cardinality(OfKind(j)) \in Nat /\ Target[j] \in Nat /\ runner.left[j] \in Nat
    BY Numbers
  <2>2. CASE k \in Types
    <3>1. \A l \in Lineages : l \in Kinds /\ l # k
      BY <2>2, BossAssumption DEF Kinds
    <3>2. /\ runner'.at = "create" /\ runner.at = "create" /\ status' = status
          /\ runner'.left = [runner.left EXCEPT ![k] = @ - 1] /\ runner.left \in [Kinds -> Nat]
          /\ runner.left[k] > 0
      BY <2>2 DEF TypeOK
    <3>3. \A j \in Kinds : runner'.left[j] <= runner.left[j] /\ runner'.left[j] \in Nat
      BY <3>2, <2>1
    <3>4. \A l \in Lineages : runner'.left[l] = runner.left[l]
      BY <3>1, <3>2
    <3> HIDE DEF CreationFails
    <3> QED
      BY <1>1, <2>1, <3>2, <3>3, <3>4 DEF LineagesPresent
  <2>3. CASE k \notin Types
    BY <1>1, <2>1, <2>3 DEF LineagesPresent, Idle
  <2> QED
    BY <2>2, <2>3
<1> QED
  BY <1>2, <1>3, <1>4, <1>5, <1>6

\* BeginDeciders: a draw is followed by ordinary tasks only.
LEMMA BeginDecidersKeeps ==
  ASSUME IInv, BeginDeciders
  PROVE  IInv'
<1> USE DEF IInv, BeginDeciders, Judging
<1>1. /\ Rows' = Rows /\ Unassigned' = Unassigned /\ Drawn' = Drawn
      /\ AlreadyAdded' = AlreadyAdded /\ RoundWinner' = RoundWinner
      /\ \A k : OfKind(k)' = OfKind(k)
  BY SameTally
<1>2. TypeOK'
  <2>1. \A k \in Kinds : Cardinality({i \in Drawn : DeciderKind(i) = k}) \in Nat
    BY TasksAreFinite DEF Drawn, InState
  <2>2. runner' = [at |-> "decide", ids |-> {}, of |-> 0, name |-> "none",
                   left |-> [k \in Kinds |-> Cardinality({i \in Drawn : DeciderKind(i) = k})]]
    BY DEF Idle
  <2>3. runner'.left \in [Kinds -> Nat]
    BY <2>1, <2>2
  <2>4. runner' = [at |-> "decide", ids |-> {}, of |-> 0, name |-> "none", left |-> runner'.left]
    BY <2>2
  <2>5. UNCHANGED <<status, tasks, made, eliminated, winner, marked, advances, batches, faults>>
    BY DEF chain
  <2> HIDE DEF BeginDeciders
  <2> QED
    BY <1>1, <2>3, <2>4, <2>5 DEF TypeOK, Rows
<1>3. RunnerShape'
  <2>1. ASSUME NEW l \in Lineages
        PROVE  l \in Kinds /\ {i \in Drawn : DeciderKind(i) = l} = {}
    BY BossAssumption DEF Drawn, InState, DeciderKind, Kinds, TypeOK, Task
  <2>2. \A l \in Lineages : runner'.left[l] = 0
    BY <2>1, FS_EmptySet DEF Idle
  <2>3. eliminated = {}
    BY DEF DecisionStands, Settled
  <2> QED
    BY <1>1, <2>2, <2>3 DEF RunnerShape, Idle
<1>4. JudgedShape'
  BY <1>1 DEF JudgedShape
<1>5. DecisionStands'
  BY <1>1 DEF DecisionStands, Settled, chain
<1>6. LineagesPresent'
  BY <1>1 DEF LineagesPresent, Idle
<1> QED
  BY <1>2, <1>3, <1>4, <1>5, <1>6

\* Resolve: the tally is final.
LEMMA ResolveKeeps ==
  ASSUME IInv, Resolve
  PROVE  IInv'
<1> USE DEF IInv, Resolve, Judging
<1>1. /\ Rows' = Rows /\ Unassigned' = Unassigned /\ Drawn' = Drawn
      /\ AlreadyAdded' = AlreadyAdded /\ RoundWinner' = RoundWinner
      /\ \A k : OfKind(k)' = OfKind(k)
  BY SameTally
<1>2. TypeOK'
  <2>1. RoundWinner \in Sides
    BY DEF RoundWinner, Sides
  <2>2. UNION {OfKind(l) : l \in Lineages} \subseteq 1..made
    BY DEF OfKind, TypeOK
  <2>3. eliminated' \subseteq Sides
    BY DEF TypeOK
  <2>4. runner' = [at |-> "carry", left |-> Nothing, of |-> 0, name |-> RoundWinner,
                   ids |-> UNION {OfKind(l) : l \in Lineages}]
    BY DEF Idle
  <2>5. /\ runner' = [at |-> "carry", left |-> Nothing, of |-> 0, name |-> runner'.name,
                      ids |-> runner'.ids]
        /\ Nothing \in [Kinds -> Nat]
        /\ runner'.ids \subseteq 1..made /\ runner'.name \in Sides
    BY <2>1, <2>2, <2>4 DEF Nothing
  <2>6. UNCHANGED <<status, tasks, made, winner, marked, advances, batches, faults>>
    BY DEF chain
  <2> HIDE DEF Resolve
  <2> QED
    BY <1>1, <2>3, <2>5, <2>6 DEF TypeOK, Rows
<1>3. RunnerShape'
  <2>1. RoundWinner \in Sides /\ eliminated' # {}
    BY DEF RoundWinner, Sides
  <2>2. /\ \A i \in runner'.ids : i \in Rows /\ tasks[i].kind \in Lineages
        /\ \A l \in Lineages : \A i \in OfKind(l) : i \in runner'.ids
    BY DEF OfKind, Idle
  <2> QED
    BY <1>1, <2>1, <2>2 DEF RunnerShape, Idle
<1>4. JudgedShape'
  BY <1>1 DEF JudgedShape
<1>5. DecisionStands'
  <2>1. Settled /\ Settled'
    BY <1>1 DEF Settled, JudgedShape, Unassigned
  <2>2. eliminated' = Sides \ {RoundWinner}
    BY DEF DecisionStands
  <2> QED
    BY <1>1, <2>1, <2>2 DEF DecisionStands, Idle, chain
<1>6. LineagesPresent'
  BY <1>1 DEF LineagesPresent, Idle
<1> QED
  BY <1>2, <1>3, <1>4, <1>5, <1>6

\* CarryForward: the lineage is marked, and advanced if it was not.
LEMMA CarryForwardKeeps ==
  ASSUME NEW i \in Rows, IInv, CarryForward(i)
  PROVE  IInv'
<1> USE DEF IInv, CarryForward, Fresh
<1>1. /\ Rows' = Rows /\ Unassigned' = Unassigned /\ Drawn' = Drawn
      /\ AlreadyAdded' = AlreadyAdded /\ RoundWinner' = RoundWinner
      /\ \A k : OfKind(k)' = OfKind(k)
  BY SameTally
<1>2. TypeOK'
  <2>1. tasks[i].kind \in Lineages
    BY DEF RunnerShape
  <2>2. advances' \in [Lineages -> Nat] /\ marked' \subseteq Lineages
    BY <2>1 DEF TypeOK
  <2> QED
    BY <1>1, <2>2 DEF TypeOK, Rows
<1>3. RunnerShape'
  <2>1. \A l \in Lineages : \A j \in OfKind(l) : j \in runner'.ids \/ l \in marked'
    BY DEF RunnerShape, OfKind, TypeOK
  <2>2. /\ runner'.at = "carry" /\ runner'.name = runner.name
        /\ runner'.ids = runner.ids \ {i}
    BY DEF TypeOK
  <2> HIDE DEF CarryForward
  <2>3. /\ status' = status /\ eliminated' = eliminated /\ winner' = winner /\ tasks' = tasks
        /\ runner.at = "carry"
    BY DEF CarryForward
  <2> QED
    BY <1>1, <2>1, <2>2, <2>3 DEF RunnerShape
<1>4. JudgedShape'
  BY <1>1 DEF JudgedShape
<1>5. DecisionStands'
  <2>1. Settled' <=> Settled
    BY <1>1 DEF Settled
  <2>2. tasks[i].kind \in Lineages /\ winner = "none"
    BY DEF RunnerShape
  <2>3. \A l \in Lineages : advances'[l] = IF l \in marked' THEN 1 ELSE 0
    BY <2>2 DEF DecisionStands, TypeOK
  <2>4. runner'.at = "carry"
    BY DEF TypeOK
  <2> QED
    BY <1>1, <2>1, <2>2, <2>3, <2>4 DEF DecisionStands
<1>6. LineagesPresent'
  BY <1>1 DEF LineagesPresent, Idle
<1> QED
  BY <1>2, <1>3, <1>4, <1>5, <1>6

\* BeginPass: a lineage that is missing gets its slot.
LEMMA BeginPassKeeps ==
  ASSUME IInv, BeginPass
  PROVE  IInv'
<1> USE DEF IInv, BeginPass
<1>1. /\ Rows' = Rows /\ Unassigned' = Unassigned /\ Drawn' = Drawn
      /\ AlreadyAdded' = AlreadyAdded /\ RoundWinner' = RoundWinner
      /\ \A k : OfKind(k)' = OfKind(k)
  BY SameTally
<1>2. TypeOK'
  <2>1. Missing \in [Kinds -> Nat]
    BY Numbers DEF Missing
  <2>2. runner' = [at |-> "create", left |-> Missing, ids |-> {}, of |-> 0, name |-> "none"]
    BY DEF Idle
  <2> QED
    BY <1>1, <2>1, <2>2 DEF TypeOK, Rows, chain
<1>3. RunnerShape'
  BY <1>1 DEF RunnerShape, Idle
<1>4. JudgedShape'
  BY <1>1 DEF JudgedShape
<1>5. DecisionStands'
  BY <1>1 DEF DecisionStands, Settled, chain
<1>6. LineagesPresent'
  <2>1. \A k \in Kinds : Cardinality(OfKind(k)) \in Nat /\ Target[k] \in Nat /\ runner.left[k] \in Nat
    BY Numbers
  <2>2. runner' = [Idle EXCEPT !.at = "create", !.left = Missing]
    OBVIOUS
  <2>3. runner'.at = "create" /\ runner'.left = Missing
    BY <2>2 DEF Idle
  <2>4. CASE \A l \in Lineages : OfKind(l) # {}
    BY <1>1, <2>4 DEF LineagesPresent
  <2>5. CASE ~\A l \in Lineages : OfKind(l) # {}
    <3>1. \A k \in Kinds : Cardinality(OfKind(k)) <= Target[k]
      BY <2>1, <2>5 DEF LineagesPresent
    <3>2. Size < Expected
      BY <2>5, <3>1, ShortWithoutLineage
    <3>3. \A k \in Kinds : Cardinality(OfKind(k)) + Missing[k] <= Target[k]
      <4>1. Size \in Nat /\ Expected \in Nat
        BY TasksAreFinite, SlotsAreFinite DEF Size
      <4> QED
        BY <2>1, <3>1, <3>2, <4>1 DEF Missing
    <3>4. ASSUME NEW l \in Lineages, OfKind(l) = {}
          PROVE  Missing[l] > 0
      <4>1. Size \in Nat /\ Expected \in Nat
        BY TasksAreFinite, SlotsAreFinite DEF Size
      <4>2. l \in Kinds /\ Target[l] = 1 /\ Cardinality(OfKind(l)) = 0
        BY <3>4, FS_EmptySet, BossAssumption DEF Kinds
      <4> QED
        BY <3>2, <4>1, <4>2 DEF Missing
    <3> QED
      BY <1>1, <2>3, <3>3, <3>4 DEF LineagesPresent
  <2> QED
    BY <2>4, <2>5
<1> QED
  BY <1>2, <1>3, <1>4, <1>5, <1>6

-----------------------------------------------------------------------------
\* Steps that change the round's rows: none of them is taken on a final tally

\* A new task is one more of its kind, unassigned and open.
LEMMA Registered ==
  ASSUME TypeOK, NEW k \in Kinds, Register(k), made' = made + 1
  PROVE  /\ Rows' = Rows \cup {made + 1} /\ made + 1 \notin Rows
         /\ tasks' \in [Rows' -> Task] /\ Rows' \subseteq 1..made' /\ made' \in Nat
         /\ \A i \in Rows : tasks'[i] = tasks[i]
         /\ tasks'[made + 1] = [kind |-> k, nodes |-> FALSE, state |-> "open"]
         /\ \A j \in Kinds \ {k} : OfKind(j)' = OfKind(j)
         /\ OfKind(k)' = OfKind(k) \cup {made + 1}
         /\ Cardinality(OfKind(k)') = Cardinality(OfKind(k)) + 1
<1> USE DEF Rows
<1>1. Rows' = Rows \cup {made + 1} /\ made + 1 \notin Rows /\ made + 1 \in 1..made' /\ made' \in Nat
  BY DEF Register, TypeOK
<1>2. /\ \A i \in Rows : tasks'[i] = tasks[i]
      /\ tasks'[made + 1] = [kind |-> k, nodes |-> FALSE, state |-> "open"]
  BY <1>1 DEF Register
<1>3. tasks' \in [Rows' -> Task]
  <2>1. [kind |-> k, nodes |-> FALSE, state |-> "open"] \in Task
    BY DEF Task
  <2>2. tasks' = [i \in Rows \cup {made + 1} |-> tasks'[i]]
    BY <1>1 DEF Register
  <2> QED
    BY <1>1, <1>2, <2>1, <2>2 DEF TypeOK
<1>4. \A j \in Kinds \ {k} : OfKind(j)' = OfKind(j)
  BY <1>1, <1>2 DEF OfKind
<1>5. OfKind(k)' = OfKind(k) \cup {made + 1} /\ made + 1 \notin OfKind(k)
  BY <1>1, <1>2 DEF OfKind
<1>6. Cardinality(OfKind(k) \cup {made + 1}) = Cardinality(OfKind(k)) + 1
  <2>1. IsFiniteSet(OfKind(k))
    BY TasksAreFinite DEF OfKind
  <2> QED
    BY <1>5, <2>1, FS_AddElement
<1>7. Rows' \subseteq 1..made'
  BY <1>1 DEF TypeOK
<1> QED
  BY <1>1, <1>2, <1>3, <1>4, <1>5, <1>6, <1>7

\* A row that is rewritten keeps its kind.
LEMMA Rewritten ==
  ASSUME TypeOK, Rows' = Rows, \A i \in Rows : tasks'[i].kind = tasks[i].kind
  PROVE  \A k : OfKind(k)' = OfKind(k)
BY DEF OfKind

\* CreateTask: the open slot is taken.
LEMMA CreateTaskKeeps ==
  ASSUME NEW k \in Kinds, IInv, CreateTask(k)
  PROVE  IInv'
<1> USE DEF IInv, CreateTask, Due, Less
<1>1. /\ Rows' = Rows \cup {made + 1} /\ made + 1 \notin Rows
      /\ tasks' \in [Rows' -> Task] /\ Rows' \subseteq 1..made' /\ made' \in Nat
      /\ \A i \in Rows : tasks'[i] = tasks[i]
      /\ tasks'[made + 1] = [kind |-> k, nodes |-> FALSE, state |-> "open"]
      /\ \A j \in Kinds \ {k} : OfKind(j)' = OfKind(j)
      /\ OfKind(k)' = OfKind(k) \cup {made + 1}
      /\ Cardinality(OfKind(k)') = Cardinality(OfKind(k)) + 1
  BY Registered
<1>2. status = "pending" /\ eliminated = {} /\ winner = "none"
  BY Undecided DEF RunnerShape, Settled
<1>3. /\ runner'.left = [runner.left EXCEPT ![k] = @ - 1] /\ runner'.at = "create"
      /\ runner'.left \in [Kinds -> Nat]
      /\ runner' = [runner EXCEPT !.left = runner'.left]
  BY DEF TypeOK
<1>4. TypeOK'
  <2>1. runner.ids \subseteq 1..made' /\ runner.of \in 0..made'
    BY DEF TypeOK
  <2> QED
    BY <1>1, <1>3, <2>1 DEF TypeOK, chain
<1>5. RunnerShape' /\ JudgedShape'
  BY <1>1, <1>2, <1>3 DEF RunnerShape, JudgedShape, Verdicts
<1>6. DecisionStands'
  BY <1>2 DEF DecisionStands, chain
<1>7. LineagesPresent'
  <2>1. \A j \in Kinds : Cardinality(OfKind(j)) \in Nat /\ Target[j] \in Nat /\ runner.left[j] \in Nat
    BY Numbers
  <2>2. \A j \in Kinds : Cardinality(OfKind(j)') + runner'.left[j]
                           = Cardinality(OfKind(j)) + runner.left[j]
    <3>1. ASSUME NEW j \in Kinds, j # k
          PROVE  Cardinality(OfKind(j)') + runner'.left[j]
                   = Cardinality(OfKind(j)) + runner.left[j]
      <4>1. runner'.left[j] = runner.left[j] /\ OfKind(j)' = OfKind(j)
        BY <1>1, <1>3, <3>1 DEF TypeOK
      <4> QED
        BY <4>1
    <3>2. Cardinality(OfKind(k)') + runner'.left[k] = Cardinality(OfKind(k)) + runner.left[k]
      <4>1. runner'.left[k] = runner.left[k] - 1
        BY <1>3 DEF TypeOK
      <4> HIDE DEF CreateTask, Due, Less
      <4> QED
        BY <1>1, <2>1, <4>1
    <3> QED
      BY <3>1, <3>2
  <2>3. \A j \in Kinds : OfKind(j) # {} => OfKind(j)' # {}
    BY <1>1
  <2>4. \A l \in Lineages : l \in Kinds /\ (OfKind(l)' # {} \/ runner'.left[l] = runner.left[l])
    BY <1>1, <1>3 DEF Kinds, TypeOK
  <2> HIDE DEF CreateTask, Due, Less
  <2>5. runner.at = "create" /\ status' = status
    BY DEF CreateTask
  <2> QED
    BY <1>2, <1>3, <2>2, <2>3, <2>4, <2>5 DEF LineagesPresent
<1> QED
  BY <1>4, <1>5, <1>6, <1>7

\* AssignNodes: a task of a PENDING round gets its nodes.
LEMMA AssignNodesKeeps ==
  ASSUME NEW i \in Rows, IInv, AssignNodes(i)
  PROVE  IInv'
<1> USE DEF IInv, AssignNodes, Unassigned
<1>1. ~Settled
  BY DEF RunnerShape, Settled
<1>2. eliminated = {} /\ winner = "none" /\ runner.at # "carry"
  BY <1>1, Undecided DEF RunnerShape
<1>3. Rows' = Rows /\ tasks' \in [Rows -> Task] /\ \A j \in Rows : tasks'[j].kind = tasks[j].kind
  BY DEF Rows, TypeOK, Task
<1>4. \A k : OfKind(k)' = OfKind(k)
  BY <1>3, Rewritten
<1>5. TypeOK'
  BY <1>3 DEF TypeOK, chain, Hit, Fault
<1>6. RunnerShape'
  BY <1>2, <1>3 DEF RunnerShape, TypeOK
<1>7. JudgedShape'
  BY <1>2, <1>3 DEF JudgedShape, RunnerShape, Verdicts, TypeOK
<1>8. DecisionStands' /\ LineagesPresent'
  BY <1>2, <1>4 DEF DecisionStands, LineagesPresent, chain
<1> QED
  BY <1>5, <1>6, <1>7, <1>8

\* TaskEnds: a task with nodes gets its verdict.
LEMMA TaskEndsKeeps ==
  ASSUME NEW i \in Rows, IInv, TaskEnds(i)
  PROVE  IInv'
<1> USE DEF IInv, TaskEnds, Ongoing
<1>1. ~Settled
  BY DEF Settled, Verdicts
<1>2. eliminated = {} /\ winner = "none" /\ runner.at # "carry"
  BY <1>1, Undecided DEF RunnerShape
<1>3. Rows' = Rows /\ tasks' \in [Rows -> Task] /\ \A j \in Rows : tasks'[j].kind = tasks[j].kind
  BY DEF Rows, TypeOK, Task, Judge, Verdicts, Sides
<1>4. \A k : OfKind(k)' = OfKind(k)
  BY <1>3, Rewritten
<1>5. TypeOK'
  BY <1>3 DEF TypeOK, chain, Hit, Fault
<1>6. RunnerShape'
  BY <1>2, <1>3 DEF RunnerShape, TypeOK, Judge, Verdicts, Sides
<1>7. JudgedShape'
  BY <1>2, <1>3 DEF JudgedShape, RunnerShape, Verdicts, TypeOK, Judge, Verdicts, Sides
<1>8. DecisionStands' /\ LineagesPresent'
  BY <1>2, <1>4 DEF DecisionStands, LineagesPresent, chain
<1> QED
  BY <1>5, <1>6, <1>7, <1>8

\* PrepFails: an open task fails; of a COMPLETED round, one that never had nodes.
LEMMA PrepFailsKeeps ==
  ASSUME NEW i \in Rows, IInv, PrepFails(i)
  PROVE  IInv'
<1> USE DEF IInv, PrepFails, Ongoing
<1>1. ~Settled
  BY DEF Settled, Verdicts
<1>2. eliminated = {} /\ winner = "none" /\ runner.at # "carry"
  BY <1>1, Undecided DEF RunnerShape
<1>3. Rows' = Rows /\ tasks' \in [Rows -> Task] /\ \A j \in Rows : tasks'[j].kind = tasks[j].kind
  BY DEF Rows, TypeOK, Task
<1>4. \A k : OfKind(k)' = OfKind(k)
  BY <1>3, Rewritten
<1>5. TypeOK'
  BY <1>3 DEF TypeOK, chain, Hit, Fault
<1>6. RunnerShape'
  BY <1>2, <1>3 DEF RunnerShape, TypeOK
<1>7. JudgedShape'
  BY <1>2, <1>3 DEF JudgedShape, RunnerShape, Verdicts, TypeOK
<1>8. DecisionStands' /\ LineagesPresent'
  BY <1>2, <1>4 DEF DecisionStands, LineagesPresent, chain
<1> QED
  BY <1>5, <1>6, <1>7, <1>8

\* TaskFails: an open task with nodes fails, so the round is not COMPLETED.
LEMMA TaskFailsKeeps ==
  ASSUME NEW i \in Rows, IInv, TaskFails(i)
  PROVE  IInv'
<1> USE DEF IInv, TaskFails, Ongoing
<1>1. ~Settled
  BY DEF Settled, Verdicts
<1>2. eliminated = {} /\ winner = "none" /\ runner.at # "carry"
  BY <1>1, Undecided DEF RunnerShape
<1>3. Rows' = Rows /\ tasks' \in [Rows -> Task] /\ \A j \in Rows : tasks'[j].kind = tasks[j].kind
  BY DEF Rows, TypeOK, Task
<1>4. \A k : OfKind(k)' = OfKind(k)
  BY <1>3, Rewritten
<1>5. TypeOK'
  BY <1>3 DEF TypeOK, chain, Hit, Fault
<1>6. RunnerShape'
  BY <1>2, <1>3 DEF RunnerShape, TypeOK
<1>7. JudgedShape'
  BY <1>2, <1>3 DEF JudgedShape, RunnerShape, Verdicts, TypeOK
<1>8. DecisionStands' /\ LineagesPresent'
  BY <1>2, <1>4 DEF DecisionStands, LineagesPresent, chain
<1> QED
  BY <1>5, <1>6, <1>7, <1>8

\* CopyNodes: the stand-in gets the nodes of the task it replaces.
LEMMA CopyNodesKeeps ==
  ASSUME IInv, CopyNodes
  PROVE  IInv'
<1> USE DEF IInv, CopyNodes
<1>1. ~Settled
  BY DEF RunnerShape, Settled
<1>2. eliminated = {} /\ winner = "none" /\ runner.at # "carry"
  BY <1>1, Undecided DEF RunnerShape
<1>3. Rows' = Rows /\ tasks' \in [Rows -> Task] /\ \A j \in Rows : tasks'[j].kind = tasks[j].kind
  <2>1. \A j \in Rows : [tasks[j] EXCEPT !.nodes = tasks[runner.of].nodes] \in Task
    <3>1. runner.of \in Rows /\ tasks \in [Rows -> Task]
      BY DEF TypeOK, RunnerShape
    <3>2. tasks[runner.of].nodes \in BOOLEAN /\ \A j \in Rows : tasks[j] \in Task
      BY <3>1 DEF Task
    <3> HIDE DEF CopyNodes, IInv
    <3> QED
      BY <3>2 DEF Task
  <2>2. Rows' = Rows
    BY DEF Rows
  <2>3. tasks' \in [Rows -> Task]
    BY <2>1 DEF TypeOK
  <2> QED
    BY <2>2, <2>3 DEF TypeOK, Task
<1>4. \A k : OfKind(k)' = OfKind(k)
  BY <1>3, Rewritten
<1>5. TypeOK'
  BY <1>3 DEF TypeOK, chain, Hit, Fault
<1>6. RunnerShape'
  BY <1>2, <1>3 DEF RunnerShape, TypeOK
<1>7. JudgedShape'
  BY <1>2, <1>3 DEF JudgedShape, RunnerShape, Verdicts, TypeOK
<1>8. DecisionStands' /\ LineagesPresent'
  BY <1>2, <1>4 DEF DecisionStands, LineagesPresent, chain
<1> QED
  BY <1>5, <1>6, <1>7, <1>8

\* RegisterReplacement: the stand-in has the kind of the task that failed.
LEMMA RegisterReplacementKeeps ==
  ASSUME NEW i \in Rows, IInv, RegisterReplacement(i)
  PROVE  IInv'
<1> USE DEF IInv, RegisterReplacement
<1> DEFINE k == tasks[i].kind
<1>1. k \in Kinds
  BY DEF TypeOK, Task
<1>2. /\ Rows' = Rows \cup {made + 1} /\ made + 1 \notin Rows
      /\ tasks' \in [Rows' -> Task] /\ Rows' \subseteq 1..made' /\ made' \in Nat
      /\ \A j \in Rows : tasks'[j] = tasks[j]
      /\ tasks'[made + 1] = [kind |-> k, nodes |-> FALSE, state |-> "open"]
      /\ \A j \in Kinds \ {k} : OfKind(j)' = OfKind(j)
      /\ OfKind(k)' = OfKind(k) \cup {made + 1}
  BY <1>1, Registered
<1>3. eliminated = {} /\ winner = "none"
  BY Undecided DEF Settled
<1>4. runner' = [at |-> "copy", left |-> Nothing, ids |-> {made + 1}, of |-> i, name |-> "none"]
  BY DEF Idle
<1>5. TypeOK'
  <2>1. Nothing \in [Kinds -> Nat] /\ made + 1 \in 1..made' /\ i \in 0..made'
    BY <1>2 DEF Nothing, TypeOK
  <2> QED
    BY <1>2, <1>4, <2>1 DEF TypeOK, chain
<1>6. RunnerShape' /\ JudgedShape'
  BY <1>2, <1>3, <1>4 DEF RunnerShape, JudgedShape, Verdicts
<1>7. DecisionStands'
  BY <1>3 DEF DecisionStands, chain
<1>8. LineagesPresent'
  <2>1. \A l \in Lineages : OfKind(l) # {} /\ l \in Kinds
    BY DEF LineagesPresent, Kinds
  <2>2. \A l \in Lineages : OfKind(l)' # {}
    BY <1>2, <2>1
  <2> QED
    BY <1>4, <2>2 DEF LineagesPresent
<1> QED
  BY <1>5, <1>6, <1>7, <1>8

\* Detach: the stand-in stays for the task that goes.
LEMMA DetachKeeps ==
  ASSUME IInv, Detach
  PROVE  IInv'
<1> USE DEF IInv, Detach
<1>1. /\ status = "active" /\ runner.of \in Rows /\ made \in Rows /\ runner.of # made
      /\ tasks[made].kind = tasks[runner.of].kind
  BY DEF RunnerShape
<1>2. eliminated = {} /\ winner = "none"
  BY <1>1, Undecided DEF Settled
<1>3. /\ Rows' = Rows \ {runner.of} /\ tasks' \in [Rows' -> Task]
      /\ \A j \in Rows' : tasks'[j] = tasks[j]
  BY DEF Drop, Rows, TypeOK
<1>4. TypeOK'
  <2>1. /\ runner' = [at |-> "idle", left |-> Nothing, ids |-> {}, of |-> 0, name |-> "none"]
        /\ Nothing \in [Kinds -> Nat] /\ Rows' \subseteq 1..made
    BY <1>3 DEF Idle, Nothing, TypeOK
  <2> QED
    BY <1>3, <2>1 DEF TypeOK, chain, Hit, Fault
<1>5. RunnerShape' /\ JudgedShape'
  BY <1>1, <1>3 DEF RunnerShape, JudgedShape, Idle
<1>6. DecisionStands'
  BY <1>2 DEF DecisionStands, chain
<1>7. LineagesPresent'
  <2>1. \A l \in Lineages : OfKind(l) # {}
    BY <1>1 DEF LineagesPresent
  <2>2. ASSUME NEW l \in Lineages
        PROVE  OfKind(l)' # {}
    <3>1. PICK j \in OfKind(l) : TRUE
      BY <2>1
    <3>2. CASE j = runner.of
      BY <1>1, <1>3, <3>1, <3>2 DEF OfKind
    <3>3. CASE j # runner.of
      BY <1>3, <3>1, <3>3 DEF OfKind
    <3> QED
      BY <3>2, <3>3
  <2> QED
    BY <2>2 DEF LineagesPresent, Idle
<1> QED
  BY <1>4, <1>5, <1>6, <1>7

\* CreateDecider: an unassigned task of an ordinary type.
LEMMA CreateDeciderKeeps ==
  ASSUME NEW k \in Kinds, IInv, CreateDecider(k)
  PROVE  IInv'
<1> USE DEF IInv, CreateDecider, Less
<1>1. /\ Rows' = Rows \cup {made + 1} /\ made + 1 \notin Rows
      /\ tasks' \in [Rows' -> Task] /\ Rows' \subseteq 1..made' /\ made' \in Nat
      /\ \A j \in Rows : tasks'[j] = tasks[j]
      /\ tasks'[made + 1] = [kind |-> k, nodes |-> FALSE, state |-> "open"]
      /\ \A j \in Kinds \ {k} : OfKind(j)' = OfKind(j)
      /\ OfKind(k)' = OfKind(k) \cup {made + 1}
  BY Registered
<1>2. /\ status = "completed" /\ eliminated = {} /\ runner.ids \subseteq Rows
      /\ \A i \in runner.ids : ~tasks[i].nodes /\ tasks[i].kind \in Types
      /\ \A l \in Lineages : runner.left[l] = 0
  BY DEF RunnerShape
<1>3. winner = "none" /\ k \in Types
  BY <1>2 DEF DecisionStands, Kinds, TypeOK
<1>4. /\ runner'.left = [runner.left EXCEPT ![k] = @ - 1] /\ runner'.at = "decide"
      /\ runner'.left \in [Kinds -> Nat] /\ runner'.ids = runner.ids \cup {made + 1}
      /\ runner' = [runner EXCEPT !.left = runner'.left, !.ids = runner'.ids]
  BY DEF TypeOK
<1>5. TypeOK'
  <2>1. runner'.ids \subseteq 1..made' /\ runner.of \in 0..made'
    BY <1>1, <1>4 DEF TypeOK
  <2> QED
    BY <1>1, <1>4, <2>1 DEF TypeOK, chain
<1>6. RunnerShape'
  <2>1. \A l \in Lineages : runner'.left[l] = 0
    BY <1>2, <1>3, <1>4, BossAssumption DEF Kinds, TypeOK
  <2>2. \A i \in runner'.ids : i \in Rows' /\ ~tasks'[i].nodes /\ tasks'[i].kind \in Types
    BY <1>1, <1>2, <1>3, <1>4
  <2> QED
    BY <1>2, <1>4, <2>1, <2>2 DEF RunnerShape
<1>7. JudgedShape'
  BY <1>1, <1>2 DEF JudgedShape, Verdicts
<1>8. DecisionStands'
  BY <1>2, <1>3 DEF DecisionStands, chain
<1>9. LineagesPresent'
  <2>1. \A l \in Lineages : OfKind(l) # {} /\ l \in Kinds /\ l # k
    BY <1>2, <1>3, BossAssumption DEF LineagesPresent, Kinds
  <2> QED
    BY <1>1, <1>4, <2>1 DEF LineagesPresent
<1> QED
  BY <1>5, <1>6, <1>7, <1>8, <1>9

\* DeciderFails: what is rolled back holds no verdict and no lineage.
LEMMA DeciderFailsKeeps ==
  ASSUME IInv, DeciderFails
  PROVE  IInv'
<1> USE DEF IInv, DeciderFails
<1>1. /\ status = "completed" /\ eliminated = {} /\ runner.ids \subseteq Rows
      /\ \A i \in runner.ids : tasks[i].kind \in Types
  BY DEF RunnerShape
<1>2. winner = "none"
  BY <1>1 DEF DecisionStands
<1>3. /\ Rows' = Rows \ runner.ids /\ tasks' \in [Rows' -> Task]
      /\ \A j \in Rows' : tasks'[j] = tasks[j]
  BY DEF Drop, Rows, TypeOK
<1>4. TypeOK'
  <2>1. /\ runner' = [at |-> "idle", left |-> Nothing, ids |-> {}, of |-> 0, name |-> "none"]
        /\ Nothing \in [Kinds -> Nat] /\ Rows' \subseteq 1..made
    BY <1>3 DEF Idle, Nothing, TypeOK
  <2> QED
    BY <1>3, <2>1 DEF TypeOK, chain, Hit, Fault
<1>5. RunnerShape' /\ JudgedShape'
  BY <1>1, <1>3 DEF RunnerShape, JudgedShape, Idle
<1>6. DecisionStands'
  BY <1>1, <1>2 DEF DecisionStands, chain
<1>7. LineagesPresent'
  <2>1. \A l \in Lineages : OfKind(l) # {}
    BY <1>1 DEF LineagesPresent
  <2>2. \A l \in Lineages : OfKind(l)' = OfKind(l)
    BY <1>1, <1>3, BossAssumption DEF OfKind
  <2> QED
    BY <2>1, <2>2 DEF LineagesPresent, Idle
<1> QED
  BY <1>4, <1>5, <1>6, <1>7

-----------------------------------------------------------------------------
(* All steps                                                               *)

\* Every step keeps IInv.
LEMMA NextKeeps ==
  ASSUME IInv, [Next]_vars
  PROVE  IInv'
<1>1. CASE RunnerStep
  BY <1>1, BeginPassKeeps, FinishPassKeeps, CreateTaskKeeps, AssignNodesKeeps,
     RegisterReplacementKeeps, CarryForwardKeeps, CopyNodesKeeps, DetachKeeps,
     CheckCompletedKeeps, ReturnUnassignedKeeps, BeginDecidersKeeps, CreateDeciderKeeps,
     FinishDecidersKeeps, ResolveKeeps, CrownKeeps DEF RunnerStep
<1>2. CASE TaskStep
  BY <1>2, TaskEndsKeeps DEF TaskStep
<1>3. CASE FaultStep
  BY <1>3, CreationFailsKeeps, DeciderFailsKeeps, RestartKeeps, PrepFailsKeeps,
     TaskFailsKeeps DEF FaultStep
<1>4. CASE UNCHANGED vars
  <2>1. /\ Rows' = Rows /\ Unassigned' = Unassigned /\ Drawn' = Drawn
        /\ AlreadyAdded' = AlreadyAdded /\ RoundWinner' = RoundWinner
        /\ \A k : OfKind(k)' = OfKind(k)
    BY <1>4, SameTally DEF vars
  <2>2. TypeOK' /\ RunnerShape' /\ JudgedShape'
    BY <1>4, <2>1 DEF IInv, vars, chain, TypeOK, RunnerShape, JudgedShape
  <2>3. Settled' <=> Settled
    BY <1>4, <2>1 DEF vars, Settled
  <2>4. DecisionStands' /\ LineagesPresent'
    BY <1>4, <2>1, <2>3 DEF IInv, vars, chain, DecisionStands, LineagesPresent
  <2> QED
    BY <2>2, <2>4 DEF IInv
<1> QED
  BY <1>1, <1>2, <1>3, <1>4 DEF Next

-----------------------------------------------------------------------------
(* How many batches of deciders a round can get.                           *)

\* The round's tasks without those that a dying process would leave over: a
\* stand-in next to the task it stands in for, or a part of a batch.
Extra == IF runner.at \in {"copy", "detach", "decide"} THEN runner.ids ELSE {}
Base  == Cardinality(Rows \ Extra)

\* A batch is added to a round of no more tasks than it is built with, and it
\* adds one at least.
DecidingShape ==
  runner.at = "decide" => /\ Base <= Expected
                          /\ runner.left # Nothing \/ runner.ids # {}

\* Each creation that failed pays for a batch, and so does the room there is
\* until the round has more tasks than it is built with.
Filling == \A k \in Kinds : Cardinality(OfKind(k)) + runner.left[k] >= Target[k]
BatchesPaid ==
  \/ batches < faults["skip"]
  \/ /\ batches <= faults["skip"]
     /\ \/ Base >= Expected
        \/ status = "pending" /\ (runner.at = "create" => Filling)
  \/ batches <= faults["skip"] + 1 /\ Base > Expected

\* A round with enough of every kind has as many tasks as it is built with.
LEMMA FullWhenFilled ==
  ASSUME TypeOK, \A k \in Kinds : Cardinality(OfKind(k)) >= Target[k]
  PROVE  Size >= Expected
<1> DEFINE Nth(k) == CHOOSE f \in Bijection(1..Cardinality(OfKind(k)), OfKind(k)) : TRUE
           Place == [s \in Slots |-> Nth(s[1])[s[2]]]
<1>1. ASSUME NEW k \in Kinds
      PROVE  /\ Nth(k) \in Bijection(1..Cardinality(OfKind(k)), OfKind(k))
             /\ Cardinality(OfKind(k)) \in Nat /\ Target[k] \in Nat
             /\ OfKind(k) \subseteq Rows
  <2>1. IsFiniteSet(OfKind(k))
    BY TasksAreFinite DEF OfKind
  <2>2. Bijection(1..Cardinality(OfKind(k)), OfKind(k)) # {}
    BY <2>1, FS_CardinalityType DEF ExistsBijection
  <2> QED
    BY <2>2, Numbers DEF OfKind
<1>2. ASSUME NEW k \in Kinds, NEW a \in 1..Target[k], NEW b \in 1..Target[k]
      PROVE  /\ Nth(k)[a] \in OfKind(k) /\ Nth(k)[b] \in OfKind(k)
             /\ Nth(k)[a] = Nth(k)[b] => a = b
  <2> HIDE DEF Nth
  <2>1. PICK f : f = Nth(k)
    OBVIOUS
  <2>2. PICK n \in Nat : n = Cardinality(OfKind(k)) /\ n >= Target[k]
    BY <1>1
  <2>3. f \in [1..n -> OfKind(k)] /\ \A x, y \in 1..n : f[x] = f[y] => x = y
    BY <1>1, <2>1, <2>2 DEF Bijection, Injection, IsInjective
  <2>4. a \in 1..n /\ b \in 1..n
    BY <1>1, <1>2, <2>2
  <2> QED
    BY <2>1, <2>3, <2>4
<1>3. ASSUME NEW s \in Slots
      PROVE  s[1] \in Kinds /\ s[2] \in 1..Target[s[1]] /\ s = <<s[1], s[2]>>
  <2>1. PICK k \in Kinds : s \in {k} \X (1..Target[k])
    BY DEF Slots
  <2> QED
    BY <2>1
<1> HIDE DEF Nth
<1>4. ASSUME NEW s \in Slots
      PROVE  Place[s] \in OfKind(s[1]) /\ Place[s] \in Rows
  BY <1>1, <1>2, <1>3
<1>5. ASSUME NEW s \in Slots, NEW u \in Slots, Place[s] = Place[u]
      PROVE  s = u
  <2>1. s[1] = u[1]
    BY <1>4, <1>5 DEF OfKind
  <2>2. s[2] = u[2]
    BY <1>2, <1>3, <1>5, <2>1
  <2> QED
    BY <1>3, <2>1, <2>2
<1>6. Place \in Injection(Slots, Rows)
  <2>1. Place \in [Slots -> Rows]
    BY <1>4
  <2> HIDE DEF Place
  <2> QED
    BY <1>5, <2>1 DEF Injection, IsInjective
<1>7. IsFiniteSet(Rows)
  BY TasksAreFinite
<1>8. Cardinality(Slots) <= Cardinality(Rows)
  <2> HIDE DEF Place
  <2> QED
    BY <1>6, <1>7, FS_Injection
<1> QED
  BY <1>7, <1>8, SlotsAreFinite, FS_CardinalityType DEF Size, Expected

\* The sets that are counted are finite, and their sizes numbers.
LEMMA BaseIs ==
  TypeOK => /\ IsFiniteSet(Rows \ Extra) /\ Base \in Nat /\ Expected \in Nat /\ Size \in Nat
            /\ batches \in Nat /\ faults["skip"] \in Nat
<1> SUFFICES ASSUME TypeOK
             PROVE  /\ IsFiniteSet(Rows \ Extra) /\ Base \in Nat /\ Expected \in Nat /\ Size \in Nat
                    /\ batches \in Nat /\ faults["skip"] \in Nat
  OBVIOUS
<1>1. Rows \ Extra \in SUBSET Rows /\ Rows \in SUBSET Rows
  OBVIOUS
<1> QED
  BY <1>1, TasksAreFinite, SlotsAreFinite DEF Base, Size, TypeOK, Fault

Measured == TypeOK => IsFiniteSet(Rows \ Extra) /\ Base \in Nat

\* The same before and after a step.
LEMMA BaseNext == Measured /\ Measured'
<1>1. Measured
  BY BaseIs DEF Measured
<1> QED
  BY <1>1, PTL

\* More tasks that are no deciders count for no less.
LEMMA BaseGrows ==
  ASSUME TypeOK, TypeOK', Rows \ Extra \subseteq (Rows \ Extra)'
  PROVE  Base \in Nat /\ Base' \in Nat /\ Base <= Base'
<1>1. IsFiniteSet((Rows \ Extra)') /\ Base' \in Nat /\ Base \in Nat
  BY BaseNext DEF Measured
<1> QED
  BY <1>1, FS_Subset DEF Base

\* Steps that add no batch and take no task.
LEMMA PaidStays ==
  ASSUME TypeOK, TypeOK', BatchesPaid, Rows \ Extra \subseteq (Rows \ Extra)', UNCHANGED batches,
         faults'["skip"] \in Nat, faults["skip"] <= faults'["skip"],
         \/ faults["skip"] < faults'["skip"]
         \/ ~(status = "pending" /\ (runner.at = "create" => Filling))
         \/ (status = "pending" /\ (runner.at = "create" => Filling))' \/ Base' >= Expected
  PROVE  BatchesPaid'
<1>1. Base \in Nat /\ Base' \in Nat /\ Base <= Base' /\ Expected \in Nat /\ Expected' = Expected
      /\ batches \in Nat /\ faults["skip"] \in Nat
  BY BaseGrows, BaseIs DEF Expected, Slots
<1>2. PICK n \in Nat, m \in Nat : n = faults["skip"] /\ m = faults'["skip"] /\ n <= m
  BY <1>1
<1>3. CASE batches < n
  BY <1>1, <1>2, <1>3 DEF BatchesPaid
<1>4. CASE batches <= n /\ (Base >= Expected \/ (status = "pending" /\ (runner.at = "create" => Filling)))
  BY <1>1, <1>2, <1>4 DEF BatchesPaid
<1>5. CASE batches <= n + 1 /\ Base > Expected
  BY <1>1, <1>2, <1>5 DEF BatchesPaid
<1> QED
  BY <1>2, <1>3, <1>4, <1>5 DEF BatchesPaid

\* The runner is where it was, or idle again, and every task stays.
LEMMA ExtraShrinks ==
  ASSUME Rows \subseteq Rows', Extra' \subseteq Extra
  PROVE  Rows \ Extra \subseteq (Rows \ Extra)'
OBVIOUS

\* The counts of tasks by kind are numbers.
LEMMA NumbersAre ==
  ASSUME TypeOK
  PROVE  \A k \in Kinds : Cardinality(OfKind(k)) \in Nat /\ Target[k] \in Nat /\ runner.left[k] \in Nat
BY Numbers

\* The first pass of a round, and those after it.
LEMMA PassBatches ==
  ASSUME IInv, IInv', BatchesPaid, DecidingShape,
         BeginPass \/ FinishPass \/ (\E k \in Kinds : CreateTask(k) \/ CreationFails(k))
  PROVE  BatchesPaid' /\ DecidingShape'
<1> USE DEF IInv
<1>0. /\ faults["skip"] \in Nat /\ Base \in Nat /\ Expected \in Nat /\ Size \in Nat
      /\ \A k \in Kinds : Cardinality(OfKind(k)) \in Nat /\ Target[k] \in Nat /\ runner.left[k] \in Nat
  BY BaseIs, Numbers
<1>1. CASE BeginPass
  <2>1. /\ tasks' = tasks /\ runner.at = "idle" /\ runner'.at = "create" /\ runner'.left = Missing
        /\ UNCHANGED <<status, batches, faults>> /\ status = "pending"
    BY <1>1 DEF BeginPass, Idle
  <2>2. Rows' = Rows /\ Extra' = {} /\ Extra = {} /\ \A k : OfKind(k)' = OfKind(k)
    BY <2>1, SameTally DEF Extra
  <2>3. CASE Size >= Expected
    <3>1. Base' >= Expected
      BY <2>2, <2>3 DEF Base, Size
    <3> QED
      BY <1>0, <2>1, <2>2, <3>1, PaidStays DEF DecidingShape
  <2>4. CASE ~(Size >= Expected)
    <3>1. \A k \in Kinds : Cardinality(OfKind(k)) + Missing[k] >= Target[k]
      BY <1>0, <2>4 DEF Missing
    <3>2. Filling'
      BY <2>1, <2>2, <3>1 DEF Filling
    <3> QED
      BY <1>0, <2>1, <2>2, <3>2, PaidStays DEF DecidingShape
  <2> QED
    BY <2>3, <2>4
<1>2. CASE FinishPass
  <2>1. /\ tasks' = tasks /\ runner.at = "create" /\ runner'.at = "idle" /\ runner.left = Nothing
        /\ UNCHANGED <<batches, faults>>
    BY <1>2 DEF FinishPass, Idle
  <2>2. Rows' = Rows /\ Extra' = {} /\ Extra = {}
    BY <2>1, SameTally DEF Extra
  <2>3. Filling => Base' >= Expected
    <3>1. Filling => \A k \in Kinds : Cardinality(OfKind(k)) >= Target[k]
      BY <1>0, <2>1 DEF Filling, Nothing
    <3>2. Filling => Size >= Expected
      BY <3>1, FullWhenFilled
    <3> QED
      BY <2>2, <3>2 DEF Base, Size
  <2> QED
    BY <1>0, <2>1, <2>2, <2>3, PaidStays DEF DecidingShape
<1>3. ASSUME NEW k \in Kinds, CreateTask(k)
      PROVE  BatchesPaid' /\ DecidingShape'
  <2>1. /\ Register(k) /\ made' = made + 1 /\ runner.at = "create" /\ UNCHANGED <<status, batches, faults>>
        /\ runner' = [runner EXCEPT !.left = Less(k)] /\ runner.left[k] > 0
    BY <1>3 DEF CreateTask, Due
  <2>2. runner'.at = "create" /\ runner'.left = [runner.left EXCEPT ![k] = runner.left[k] - 1]
    BY <2>1 DEF Less, TypeOK
  <2>3. /\ Rows' = Rows \cup {made + 1}
        /\ \A j \in Kinds \ {k} : OfKind(j)' = OfKind(j)
        /\ Cardinality(OfKind(k)') = Cardinality(OfKind(k)) + 1
    BY <2>1, Registered
  <2>4. Extra' = {} /\ Extra = {}
    BY <2>1, <2>2 DEF Extra
  <2>5. Filling => Filling'
    <3>1. ASSUME Filling, NEW j \in Kinds
          PROVE  Cardinality(OfKind(j)') + runner'.left[j] >= Target[j]
      <4>1. Cardinality(OfKind(j)) + runner.left[j] >= Target[j]
        BY <3>1 DEF Filling
      <4>2. CASE j = k
        BY <1>0, <2>1, <2>2, <2>3, <4>1, <4>2 DEF TypeOK
      <4>3. CASE j # k
        BY <1>0, <2>2, <2>3, <4>1, <4>3 DEF TypeOK
      <4> QED
        BY <4>2, <4>3
    <3> QED
      BY <3>1 DEF Filling
  <2> QED
    BY <1>0, <2>1, <2>2, <2>3, <2>4, <2>5, PaidStays DEF DecidingShape
<1>4. ASSUME NEW k \in Kinds, CreationFails(k)
      PROVE  BatchesPaid' /\ DecidingShape'
  <2>1. /\ tasks' = tasks /\ runner.at = "create" /\ runner'.at \in {"create", "idle"}
        /\ UNCHANGED batches /\ faults'["skip"] = faults["skip"] + 1
    BY <1>4 DEF CreationFails, Idle, Hit, TypeOK, Fault
  <2>2. Rows' = Rows /\ Extra' = {} /\ Extra = {}
    BY <2>1, SameTally DEF Extra
  <2> QED
    BY <1>0, <2>1, <2>2, PaidStays DEF DecidingShape
<1> QED
  BY <1>1, <1>2, <1>3, <1>4

\* Preparation, training, replacements.
LEMMA TaskBatches ==
  ASSUME IInv, IInv', BatchesPaid, DecidingShape,
         \/ CopyNodes \/ Detach \/ CheckCompleted \/ ReturnUnassigned \/ Resolve \/ Crown \/ Restart
         \/ \E i \in Rows : \/ AssignNodes(i) \/ RegisterReplacement(i) \/ CarryForward(i)
                            \/ TaskEnds(i) \/ PrepFails(i) \/ TaskFails(i)
  PROVE  BatchesPaid' /\ DecidingShape'
<1> USE DEF IInv
<1>0. /\ faults["skip"] \in Nat /\ Base \in Nat /\ Expected \in Nat /\ Size \in Nat
  BY BaseIs
<1>1. ASSUME NEW i \in Rows, AssignNodes(i) \/ TaskEnds(i) \/ PrepFails(i) \/ TaskFails(i)
      PROVE  BatchesPaid' /\ DecidingShape'
  <2>1. /\ UNCHANGED <<status, runner, batches>> /\ Rows' = Rows
        /\ \A j \in Rows : tasks'[j].kind = tasks[j].kind
        /\ faults'["skip"] = faults["skip"]
    BY <1>1 DEF AssignNodes, TaskEnds, PrepFails, TaskFails, Hit, Rows, TypeOK, Task, Fault
  <2>2. Extra' = Extra /\ Base' = Base
    BY <2>1 DEF Extra, Base
  <2>3. \A k \in Kinds : OfKind(k)' = OfKind(k)
    BY <2>1, Rewritten
  <2>4. Filling' <=> Filling
    BY <2>1, <2>3 DEF Filling
  <2> QED
    BY <1>0, <2>1, <2>2, <2>4, PaidStays DEF DecidingShape
<1>2. CASE \/ CheckCompleted \/ Resolve \/ Crown \/ Restart \/ ReturnUnassigned
           \/ \E i \in Rows : CarryForward(i)
  <2>1. /\ tasks' = tasks /\ UNCHANGED batches /\ faults'["skip"] = faults["skip"]
        /\ runner'.at \in {"idle", "carry"}
        /\ status = "pending" => status' = "pending"
    <3>1. CASE CheckCompleted \/ ReturnUnassigned
      BY <3>1 DEF CheckCompleted, ReturnUnassigned, Judging
    <3>2. CASE Resolve
      <4>1. PICK w, S : runner' = [Idle EXCEPT !.at = "carry", !.name = w, !.ids = S]
        BY <3>2 DEF Resolve
      <4> QED
        BY <3>2, <4>1 DEF Resolve, Judging, Idle
    <3>5. CASE Crown
      BY <3>5 DEF Crown, Idle
    <3>3. CASE Restart
      BY <3>3 DEF Restart, Idle, Hit, TypeOK, Fault
    <3>4. ASSUME NEW i \in Rows, CarryForward(i)
          PROVE  tasks' = tasks /\ UNCHANGED <<status, batches, faults>> /\ runner'.at = "carry"
      BY <3>4 DEF CarryForward, TypeOK
    <3> QED
      BY <1>2, <3>1, <3>2, <3>3, <3>4, <3>5
  <2>2. Rows' = Rows /\ Extra' = {}
    BY <2>1, SameTally DEF Extra
  <2> QED
    BY <1>0, <2>1, <2>2, PaidStays DEF DecidingShape
<1>3. CASE CopyNodes
  <2>1. /\ UNCHANGED <<status, batches, faults>> /\ Rows' = Rows
        /\ runner.at = "copy" /\ runner'.at = "detach" /\ runner'.ids = runner.ids
        /\ status = "active"
    BY <1>3 DEF CopyNodes, Rows, TypeOK, RunnerShape
  <2>2. Extra' = Extra
    BY <2>1 DEF Extra
  <2> QED
    BY <1>0, <2>1, <2>2, PaidStays DEF DecidingShape
<1>4. CASE Detach
  <2>1. /\ UNCHANGED <<status, batches, faults>> /\ Rows' = Rows \ {runner.of} /\ runner'.at = "idle"
        /\ runner.at = "detach" /\ status = "active"
        /\ runner.of \in Rows /\ made \in Rows /\ runner.of # made /\ runner.ids = {made}
    BY <1>4 DEF Detach, Drop, Rows, Idle, RunnerShape
  <2>2. Extra = {made} /\ Extra' = {}
    BY <2>1 DEF Extra
  <2>3. Cardinality(Rows \ {made}) = Cardinality(Rows \ {runner.of})
    <3>1. IsFiniteSet(Rows)
      BY TasksAreFinite
    <3> QED
      BY <2>1, <3>1, FS_RemoveElement
  <2>4. Base' = Base
    BY <2>1, <2>2, <2>3 DEF Base
  <2> QED
    BY <1>0, <2>1, <2>4 DEF BatchesPaid, DecidingShape, Expected, Slots
<1>5. ASSUME NEW i \in Rows, RegisterReplacement(i)
      PROVE  BatchesPaid' /\ DecidingShape'
  <2>1. /\ UNCHANGED <<status, batches, faults>> /\ Register(tasks[i].kind) /\ made' = made + 1
        /\ runner.at = "idle" /\ runner'.at = "copy" /\ runner'.ids = {made + 1} /\ status = "active"
        /\ tasks[i].kind \in Kinds
    BY <1>5 DEF RegisterReplacement, Idle, TypeOK, Task
  <2>2. Rows' = Rows \cup {made + 1} /\ made + 1 \notin Rows
    BY <2>1, Registered
  <2>3. Extra = {} /\ Extra' = {made + 1}
    BY <2>1 DEF Extra
  <2> QED
    BY <1>0, <2>1, <2>2, <2>3, PaidStays DEF DecidingShape
<1> QED
  BY <1>1, <1>2, <1>3, <1>4, <1>5

\* The batch itself.
LEMMA DeciderBatches ==
  ASSUME IInv, IInv', BatchesPaid, DecidingShape,
         BeginDeciders \/ DeciderFails \/ FinishDeciders \/ (\E k \in Kinds : CreateDecider(k))
  PROVE  BatchesPaid' /\ DecidingShape'
<1> USE DEF IInv
<1>0. /\ faults["skip"] \in Nat /\ batches \in Nat /\ Base \in Nat /\ Expected \in Nat /\ Size \in Nat
      /\ Expected' = Expected
  BY BaseIs DEF Expected, Slots
<1>1. CASE BeginDeciders
  <2>1. /\ tasks' = tasks /\ UNCHANGED <<status, batches, faults>> /\ status = "completed"
        /\ runner.at = "idle" /\ runner'.at = "decide" /\ runner'.ids = {}
        /\ runner'.left = [k \in Kinds |-> Cardinality({i \in Drawn : DeciderKind(i) = k})]
        /\ ~(Size > Expected) /\ Drawn # {}
    BY <1>1 DEF BeginDeciders, Judging, Idle, AlreadyAdded
  <2>2. Rows' = Rows /\ Extra' = {} /\ Extra = {}
    BY <2>1, SameTally DEF Extra
  <2>3. Base' <= Expected
    BY <1>0, <2>1, <2>2 DEF Base, Size
  <2>4. runner'.left # Nothing
    <3>1. PICK i \in Drawn : TRUE
      BY <2>1
    <3>2. DeciderKind(i) \in Kinds
      BY <3>1, BossAssumption DEF DeciderKind, Drawn, InState, TypeOK, Task, Kinds
    <3>3. PICK k \in Kinds : k = DeciderKind(i)
      BY <3>2
    <3>4. IsFiniteSet({j \in Drawn : DeciderKind(j) = k}) /\ i \in {j \in Drawn : DeciderKind(j) = k}
      BY <3>1, <3>3, TasksAreFinite DEF Drawn, InState
    <3>5. Cardinality({j \in Drawn : DeciderKind(j) = k}) # 0
      BY <3>4, FS_EmptySet
    <3> QED
      BY <2>1, <3>5 DEF Nothing
  <2>5. DecidingShape'
    BY <1>0, <2>3, <2>4 DEF DecidingShape, Nothing
  <2> QED
    BY <1>0, <2>1, <2>2, <2>5, PaidStays
<1>2. ASSUME NEW k \in Kinds, CreateDecider(k)
      PROVE  BatchesPaid' /\ DecidingShape'
  <2>1. /\ UNCHANGED <<status, batches, faults>> /\ Register(k) /\ made' = made + 1
        /\ runner.at = "decide" /\ runner' = [runner EXCEPT !.left = Less(k), !.ids = runner.ids \cup {made + 1}]
        /\ runner.ids \subseteq Rows /\ status = "completed"
    BY <1>2 DEF CreateDecider, RunnerShape
  <2>2. runner'.at = "decide" /\ runner'.ids = runner.ids \cup {made + 1}
    BY <2>1 DEF TypeOK
  <2>3. Rows' = Rows \cup {made + 1} /\ made + 1 \notin Rows
    BY <2>1, Registered
  <2>4. Extra = runner.ids /\ Extra' = runner.ids \cup {made + 1}
    BY <2>1, <2>2 DEF Extra
  <2>5. (Rows \ Extra)' = Rows \ Extra /\ Base' = Base
    BY <2>1, <2>3, <2>4 DEF Base
  <2> QED
    BY <1>0, <2>1, <2>2, <2>5, PaidStays DEF DecidingShape
<1>3. CASE DeciderFails
  <2>1. /\ UNCHANGED <<status, batches>> /\ Rows' = Rows \ runner.ids /\ runner'.at = "idle"
        /\ runner.at = "decide" /\ faults'["skip"] = faults["skip"] + 1
    BY <1>3 DEF DeciderFails, Drop, Rows, Idle, Hit, TypeOK, Fault
  <2>2. (Rows \ Extra)' = Rows \ Extra
    BY <2>1 DEF Extra
  <2> QED
    BY <1>0, <2>1, <2>2, PaidStays DEF DecidingShape
<1>4. CASE FinishDeciders
  <2>1. /\ tasks' = tasks /\ UNCHANGED faults /\ status' = "pending" /\ batches' = batches + 1
        /\ runner.at = "decide" /\ runner'.at = "idle" /\ runner.left = Nothing
        /\ runner.ids \subseteq Rows /\ status = "completed"
    BY <1>4 DEF FinishDeciders, Idle, RunnerShape
  <2>2. Rows' = Rows /\ Extra' = {} /\ Extra = runner.ids
    BY <2>1, SameTally DEF Extra
  <2>3. Base <= Expected /\ runner.ids # {}
    BY <2>1 DEF DecidingShape
  <2>4. Base < Base' /\ Base' \in Nat
    <3>1. IsFiniteSet(Rows) /\ Cardinality(Rows) \in Nat
      BY TasksAreFinite
    <3>2. Rows \ runner.ids \subseteq Rows /\ Rows \ runner.ids # Rows
      BY <2>1, <2>3
    <3>3. Cardinality(Rows \ runner.ids) <= Cardinality(Rows) /\ Cardinality(Rows \ runner.ids) # Cardinality(Rows)
      BY <3>1, <3>2, FS_Subset
    <3> QED
      BY <1>0, <2>2, <3>1, <3>3 DEF Base
  <2>5. CASE batches < faults["skip"]
    BY <1>0, <2>1, <2>5 DEF BatchesPaid, DecidingShape
  <2>6. CASE batches <= faults["skip"] /\ Base >= Expected
    BY <1>0, <2>1, <2>4, <2>6 DEF BatchesPaid, DecidingShape
  <2> QED
    BY <1>0, <2>1, <2>3, <2>5, <2>6 DEF BatchesPaid
<1> QED
  BY <1>1, <1>2, <1>3, <1>4

\* Every step keeps what is known of batches of deciders.
LEMMA BatchesKeep ==
  ASSUME IInv, BatchesPaid, DecidingShape, [Next]_vars
  PROVE  BatchesPaid' /\ DecidingShape'
<1>1. IInv'
  BY NextKeeps
<1>2. CASE Next
  BY <1>1, <1>2, PassBatches, TaskBatches, DeciderBatches DEF Next, RunnerStep, TaskStep, FaultStep
<1>3. CASE UNCHANGED vars
  <2>1. UNCHANGED <<tasks, runner, status, batches, faults>>
    BY <1>3 DEF vars
  <2>2. Rows' = Rows /\ Extra' = Extra /\ Base' = Base /\ \A k : OfKind(k)' = OfKind(k)
    BY <2>1 DEF Rows, Extra, Base, OfKind
  <2>3. Filling' <=> Filling
    BY <2>1, <2>2 DEF Filling
  <2> QED
    BY <2>1, <2>2, <2>3 DEF BatchesPaid, DecidingShape, Expected, Slots
<1> QED
  BY <1>2, <1>3

-----------------------------------------------------------------------------
(* Theorems                                                                *)

\* IInv is an invariant.
THEOREM Invariance == Spec => []IInv
<1>1. Init => IInv
  BY InitHolds
<1>2. IInv /\ [Next]_vars => IInv'
  BY NextKeeps
<1> QED
  BY <1>1, <1>2, PTL DEF Spec

\* Type correctness.
THEOREM TypeCorrect == Spec => []TypeOK
<1>1. IInv => TypeOK
  BY DEF IInv
<1> QED
  BY <1>1, Invariance, PTL

\* However many tasks, lineages, draws, failures and crashes, the crown goes
\* to a challenger who deserves it, and to no other.
THEOREM DeservedCrown == Spec => []CrownIsDeserved
<1>1. IInv => CrownIsDeserved
  BY WinnerIsDeserved DEF IInv, DecisionStands, CrownIsDeserved
<1> QED
  BY <1>1, Invariance, PTL

\* A crowned challenger has held every lineage of the tournament, because no
\* round leaves PENDING without one task of each.
THEOREM LineagesHeld == Spec => []EveryLineageHeld
<1>1. IInv => EveryLineageHeld
  <2> SUFFICES ASSUME IInv, winner = "challenger", NEW l \in Lineages
               PROVE  \E i \in OfKind(l) : tasks[i].state \in {"challenger", "draw"}
    BY DEF EveryLineageHeld
  <2>1. Settled /\ RoundWinner = "challenger"
    BY DEF IInv, DecisionStands
  <2>2. OfKind(l) # {}
    BY <2>1 DEF IInv, LineagesPresent, Settled
  <2>3. Satisfied(l)
    BY <2>1, <2>2, WinnerIsDeserved DEF IInv, Deserved
  <2> QED
    BY <2>3 DEF Satisfied
<1> QED
  BY <1>1, Invariance, PTL

\* Every lineage has advanced exactly once when the winner is written.
THEOREM CarryOnce == Spec => []CarriedOnce
<1>1. IInv => CarriedOnce
  <2> SUFFICES ASSUME IInv PROVE CarriedOnce
    OBVIOUS
  <2>1. \A l \in Lineages : advances[l] = IF l \in marked THEN 1 ELSE 0
    BY DEF IInv, DecisionStands
  <2>2. ASSUME winner # "none", NEW l \in Lineages
        PROVE  l \in marked
    <3>1. Settled
      BY <2>2 DEF IInv, DecisionStands
    <3>2. OfKind(l) # {}
      BY <3>1 DEF IInv, LineagesPresent, Settled
    <3> QED
      BY <2>2, <3>2 DEF IInv, DecisionStands
  <2> QED
    BY <2>1, <2>2 DEF CarriedOnce
<1> QED
  BY <1>1, Invariance, PTL

\* Tasks keep their verdict and their place in the round.
THEOREM VerdictsStay == Spec => VerdictsStand
<1>1. IInv /\ [Next]_vars =>
        [\A i \in Rows : tasks[i].state \in Verdicts =>
           i \in DOMAIN tasks' /\ tasks'[i].state = tasks[i].state]_vars
  <2> SUFFICES ASSUME IInv, Next, NEW i \in Rows, tasks[i].state \in Verdicts
               PROVE  i \in DOMAIN tasks' /\ tasks'[i].state = tasks[i].state
    OBVIOUS
  <2> USE DEF IInv, Rows
  <2>1. CASE tasks' = tasks
    BY <2>1
  <2>2. ASSUME NEW k \in Kinds, Register(k)
        PROVE  i \in DOMAIN tasks' /\ tasks'[i] = tasks[i]
    BY <2>2 DEF Register
  <2>3. ASSUME NEW j \in Rows, AssignNodes(j) \/ TaskEnds(j) \/ PrepFails(j) \/ TaskFails(j)
        PROVE  i \in DOMAIN tasks' /\ tasks'[i].state = tasks[i].state
    BY <2>3 DEF AssignNodes, TaskEnds, PrepFails, TaskFails, Ongoing, Verdicts, TypeOK, Task
  <2>4. CASE CopyNodes
    BY <2>4 DEF CopyNodes, TypeOK, Task
  <2>5. CASE Detach
    BY <2>5 DEF Detach, Drop, RunnerShape, Verdicts
  <2>6. CASE DeciderFails
    BY <2>6 DEF DeciderFails, Drop, RunnerShape, JudgedShape
  <2>7. ASSUME NEW j \in Rows, RegisterReplacement(j)
        PROVE  i \in DOMAIN tasks' /\ tasks'[i] = tasks[i]
    BY <2>7 DEF RegisterReplacement, Register
  <2>8. CASE RunnerStep
    BY <2>1, <2>2, <2>3, <2>4, <2>5, <2>7, <2>8
    DEF RunnerStep, BeginPass, FinishPass, CreateTask, CarryForward, CheckCompleted,
        ReturnUnassigned, BeginDeciders, FinishDeciders, CreateDecider, Resolve, Crown
  <2>9. CASE FaultStep
    BY <2>1, <2>3, <2>6, <2>9 DEF FaultStep, CreationFails, Restart
  <2>10. CASE TaskStep
    BY <2>3, <2>10 DEF TaskStep
  <2> QED
    BY <2>8, <2>9, <2>10 DEF Next
<1> QED
  BY <1>1, Invariance, PTL DEF Spec, VerdictsStand

\* A second pass over a decided round never eliminates the other side.
THEOREM LoserIsOne == Spec => []OneLoser
<1>1. IInv => OneLoser
  <2> SUFFICES ASSUME IInv PROVE OneLoser
    OBVIOUS
  <2>1. RoundWinner \in Sides
    BY DEF RoundWinner, Sides
  <2>2. eliminated = {} \/ \E p \in Sides : eliminated = {p} /\ p # RoundWinner
    BY <2>1 DEF IInv, DecisionStands, Sides
  <2>3. Cardinality(eliminated) <= 1
    BY <2>2, FS_EmptySet, FS_Singleton
  <2>4. winner \notin eliminated
    BY <2>2 DEF IInv, DecisionStands, Sides
  <2> QED
    BY <2>3, <2>4 DEF OneLoser
<1> QED
  BY <1>1, Invariance, PTL

\* _resolve_boss_round_draws adds one batch of deciders to a round, and one
\* more at most for each creation that failed: by counting tasks alone, with
\* whatever restarts and replacements leave over.
THEOREM BatchesAreBounded == Spec => []DecidersBounded
<1> DEFINE Counted == IInv /\ BatchesPaid /\ DecidingShape
<1>1. Init => Counted
  <2> SUFFICES ASSUME Init
               PROVE  Counted
    OBVIOUS
  <2>1. IInv
    BY InitHolds
  <2>2. runner.at = "idle" /\ status = "pending" /\ batches = 0 /\ faults["skip"] = 0
    BY DEF Init, Idle, Fault
  <2> QED
    BY <2>1, <2>2 DEF BatchesPaid, DecidingShape
<1>2. Counted /\ [Next]_vars => Counted'
  BY NextKeeps, BatchesKeep
<1>3. Counted => DecidersBounded
  <2> SUFFICES ASSUME IInv, BatchesPaid
               PROVE  DecidersBounded
    OBVIOUS
  <2>1. batches \in Nat /\ faults["skip"] \in Nat
    BY BaseIs DEF IInv
  <2> QED
    BY <2>1 DEF BatchesPaid, DecidersBounded
<1> QED
  BY <1>1, <1>2, <1>3, PTL DEF Spec

=============================================================================
