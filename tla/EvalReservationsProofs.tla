---------------------- MODULE EvalReservationsProofs ----------------------
(* Proofs about EvalReservations, for every set of rows and of names, both  *)
(* providers and every number of faults: the cap, the reservation behind    *)
(* every deployment, and the reconciler that spares running work.           *)
EXTENDS EvalReservations, FiniteSetTheorems, TLAPS

-----------------------------------------------------------------------------
(* The inductive invariant.                                                *)

\* The names a row stands for.
NamesOf(r) == {row[r].dep, job[r].name}

\* No two rows stand for the same name.
NamesApart == \A r, q \in Rows : r # q => NamesOf(r) \cap NamesOf(q) \subseteq {NoName}

\* Where a coroutine knows the name of its deployment, and where that of the
\* row may be its deployment and no other.
Named == {"lookup", "create", "sent", "persist", "wait", "poll", "delete", "giveup"}
Running == Ats \ {"idle", "load"}

RowFits(r) ==
    /\ row[r].held \/ ~row[r].fresh => row[r].dep # NoName
    /\ job[r].at \in {"idle", "load"} => job[r].name = NoName
    /\ job[r].at # "idle" => row[r].status \in Open
    /\ job[r].at \in Running => row[r].dep \in {job[r].name, NoName}
    /\ job[r].at \in Named => job[r].name # NoName
    /\ job[r].at = "reserve" => ~row[r].held
    /\ job[r].at = "report" => job[r].then \in {"success", "failure", "retry"}

\* The names about to be created.
Coming == {job[r].name : r \in {q \in Rows : job[q].at = "create"}}

\* A name is about to be created, asked for, or listed.
Apart ==
    /\ inflight \cap live = {}
    /\ Coming \cap (inflight \cup live) = {}
    /\ recon.live \cap (inflight \cup Coming) = {}
    /\ \A r \in Rows : job[r].at \in {"persist", "wait", "poll", "delete"} => job[r].name \notin inflight

\* The reservation of row r covers deployment n, and nothing is under way
\* that would take it away.
KeptBy(r, n) ==
    /\ r \in Reserved /\ row[r].dep = n
    /\ job[r].at \in {"idle", "load", "lookup", "create", "sent", "persist", "wait", "poll", "delete"}
    /\ row[r].fresh \/ (n \in live /\ (recon.at = "read" => n \in recon.live))
    /\ n \notin recon.ghosts

Kept(n) == \E r \in Rows : KeptBy(r, n)

\* The deployments that faults have hidden from the ledger.
Lost == {n \in live \cup inflight \cup Coming : ~Kept(n)}

FewLost == IsFiniteSet(Lost) /\ Cardinality(Lost) <= Leaks

InSlots == Cardinality(Reserved) <= Slots

-----------------------------------------------------------------------------
(* What the reconciler relies on, while no creation outlasts the ghost      *)
(* grace.                                                                  *)

Active == {"lookup", "create", "sent", "persist", "wait", "poll"}

\* The row of a coroutine at work still names its deployment, or that is gone.
NamedOrGone ==
    \A r \in Rows : job[r].at \in Active =>
        \/ row[r].dep = job[r].name
        \/ job[r].at # "create" /\ job[r].name \notin live \cup inflight \cup recon.old

\* What is to be reaped, nobody uses.
ReapUnused ==
    recon.at = "reap" =>
        \A r \in Rows : /\ job[r].at \in Active => job[r].name \notin recon.old
                        /\ row[r].status \in Open => row[r].dep \notin recon.old

\* An open row behind the grace names a deployment that was listed, or gone.
StaleAreListed ==
    \A r \in Rows : row[r].status \in Open /\ ~row[r].fresh =>
        /\ row[r].dep \notin inflight \cup Coming
        /\ recon.at = "read" /\ row[r].dep \in live => row[r].dep \in recon.live

GhostsAreGone == recon.ghosts \cap (live \cup inflight \cup Coming) = {}

\* Between passes nothing is remembered; what is reaped is forgotten.
PassFits ==
    /\ recon.at = "idle" => recon = NoPass
    /\ recon.at = "reset" => recon.old = {}

Spares == NamedOrGone /\ ReapUnused /\ StaleAreListed /\ GhostsAreGone

SparesInv == PassFits /\ (faults["slowCreate"] = 0 => Spares)

IInv ==
    /\ TypeOK /\ NamesApart /\ (\A r \in Rows : RowFits(r))
    /\ Apart /\ FewLost /\ InSlots /\ SparesInv

-----------------------------------------------------------------------------
(* What the helpers of the model do.                                       *)

RowType == [status : Open \cup {"success", "failure"}, held : BOOLEAN,
            dep : Names \cup {NoName}, fresh : BOOLEAN]
JobType == [at : Ats, name : Names \cup {NoName}, resumed : BOOLEAN,
            attempt : Nat, then : Thens]

\* A coroutine moves on, and remembers a verdict.
LEMMA GoMoves ==
  ASSUME job \in [Rows -> JobType], NEW r \in Rows, NEW a \in Ats, Go(r, a)
  PROVE  /\ job' \in [Rows -> JobType]
         /\ \A q \in Rows \ {r} : job'[q] = job[q]
         /\ job'[r].at = a /\ job'[r].name = job[r].name /\ job'[r].then = job[r].then
<1>1. job'[r] = [job[r] EXCEPT !.at = a]
  BY DEF Go
<1>2. job[r] \in JobType
  OBVIOUS
<1>3. job'[r] \in JobType /\ job'[r].at = a /\ job'[r].name = job[r].name /\ job'[r].then = job[r].then
  BY <1>1, <1>2 DEF JobType
<1> QED
  BY <1>3 DEF Go

\* A coroutine that moves on changes its own position only.
LEMMA GoThenMoves ==
  ASSUME job \in [Rows -> JobType], NEW r \in Rows, NEW a \in Ats, NEW v \in Thens, GoThen(r, a, v)
  PROVE  /\ job' \in [Rows -> JobType]
         /\ \A q \in Rows \ {r} : job'[q] = job[q]
         /\ job'[r].at = a /\ job'[r].name = job[r].name /\ job'[r].then = v
<1>1. job'[r] = [[job[r] EXCEPT !.at = a] EXCEPT !.then = v]
  BY DEF GoThen
<1>2. job[r] \in JobType
  OBVIOUS
<1>3. job'[r] \in JobType /\ job'[r].at = a /\ job'[r].name = job[r].name /\ job'[r].then = v
  BY <1>1, <1>2 DEF JobType
<1> QED
  BY <1>3 DEF GoThen

\* A coroutine ends.
LEMMA JobEnds ==
  ASSUME job \in [Rows -> JobType], NEW r \in Rows, job' = [job EXCEPT ![r] = NoJob]
  PROVE  /\ job' \in [Rows -> JobType]
         /\ \A q \in Rows \ {r} : job'[q] = job[q]
         /\ job'[r].at = "idle" /\ job'[r].name = NoName
<1>1. NoJob \in JobType /\ NoJob.at = "idle" /\ NoJob.name = NoName
  BY DEF NoJob, JobType, Ats, Thens
<1> QED
  BY <1>1

\* A row is written.
LEMMA Writes ==
  ASSUME row \in [Rows -> RowType], NEW r \in Rows, NEW s \in Open \cup {"success", "failure"},
         NEW h \in BOOLEAN, NEW d \in Names \cup {NoName}, Write(r, s, h, d)
  PROVE  /\ row' \in [Rows -> RowType]
         /\ \A q \in Rows \ {r} : row'[q] = row[q]
         /\ row'[r] = [status |-> s, held |-> h, dep |-> d, fresh |-> TRUE]
  BY DEF Write, RowType

\* A release, or none if the row names another deployment.
LEMMA Releases ==
  ASSUME row \in [Rows -> RowType], job \in [Rows -> JobType], NEW r \in Rows, ReleaseRow(r)
  PROVE  /\ row' \in [Rows -> RowType]
         /\ \A q \in Rows \ {r} : row'[q] = row[q]
         /\ row'[r].status = row[r].status /\ row'[r].dep = row[r].dep
         /\ row'[r].held => row[r].held /\ row[r].dep # job[r].name
         /\ row'[r].fresh \/ row'[r].fresh = row[r].fresh
<1>1. row[r].status \in Open \cup {"success", "failure"} /\ row[r].dep \in Names \cup {NoName}
  BY DEF RowType
<1>2. CASE row[r].dep = job[r].name
  <2>1. Write(r, row[r].status, FALSE, row[r].dep)
    BY <1>2 DEF ReleaseRow
  <2>2. /\ row' \in [Rows -> RowType]
        /\ \A q \in Rows \ {r} : row'[q] = row[q]
        /\ row'[r] = [status |-> row[r].status, held |-> FALSE, dep |-> row[r].dep, fresh |-> TRUE]
    BY <1>1, <2>1, Writes
  <2> QED
    BY <2>2
<1>3. CASE row[r].dep # job[r].name
  BY <1>3 DEF ReleaseRow
<1> QED
  BY <1>2, <1>3

LeakyKinds == {"undeleted", "lostAnswer", "lateCreate", "slowCreate", "lookupError"}

\* A fault is counted, and among the leaks if it is one.
LEMMA FaultCounts ==
  ASSUME faults \in [Kinds -> Nat], NEW k \in Kinds, Fault(k)
  PROVE  /\ faults' \in [Kinds -> Nat]
         /\ Leaks \in Nat /\ Leaks' \in Nat /\ Leaks' >= Leaks
         /\ k \in LeakyKinds => Leaks' = Leaks + 1
         /\ faults'["slowCreate"] = 0 => faults["slowCreate"] = 0 /\ k # "slowCreate"
<1>1. /\ faults' \in [Kinds -> Nat] /\ faults'[k] = faults[k] + 1
      /\ \A j \in Kinds \ {k} : faults'[j] = faults[j]
  BY DEF Fault
<1>2. {"undeleted", "lostAnswer", "lateCreate", "slowCreate", "lookupError"} \subseteq Kinds
  BY DEF Kinds
<1>3. \A j \in Kinds : faults[j] \in Nat /\ faults'[j] \in Nat
  BY <1>1
<1> QED
  BY <1>1, <1>2, <1>3 DEF Leaks, LeakyKinds

\* A step without a fault adds no leak.
LEMMA NoFaultCounts ==
  ASSUME faults \in [Kinds -> Nat], NoFault
  PROVE  /\ faults' \in [Kinds -> Nat]
         /\ Leaks \in Nat /\ Leaks' = Leaks
         /\ faults'["slowCreate"] = faults["slowCreate"]
  BY DEF NoFault, Leaks, Kinds

-----------------------------------------------------------------------------
(* A step of one coroutine, or of time, on one row r.                      *)

\* The reservation of r goes on covering the deployment of r.
Holds(r) ==
    \A n \in Names : KeptBy(r, n) =>
        \/ KeptBy(r, n)'
        \/ /\ n \notin live' \cup inflight'
           /\ job'[r].at # "create"

\* The step touches r alone, hands it no name and no reservation, and takes
\* from the provider at most its deployment.
OneRow(r) ==
    /\ TypeOK'
    /\ \A q \in Rows \ {r} : row'[q] = row[q] /\ job'[q] = job[q]
    /\ NamesOf(r)' \subseteq NamesOf(r) \cup {NoName}
    /\ r \in Reserved' => r \in Reserved
    /\ job'[r].at = "create" => job' = job
    /\ recon' = recon
    /\ live' \subseteq live /\ inflight' \subseteq inflight
    /\ live \cup inflight \subseteq live' \cup inflight' \cup {job[r].name}

\* Any set of rows is finite.
LEMMA ReservedFinite ==
  ASSUME NEW S \in SUBSET Rows
  PROVE  IsFiniteSet(S) /\ Cardinality(S) \in Nat
  BY BoundsAssumption, FS_Subset, FS_CardinalityType

\* The lost deployments do not outgrow the leaks.
LEMMA LostStays ==
  ASSUME FewLost, Lost' \subseteq Lost, Leaks \in Nat, Leaks' \in Nat, Leaks' >= Leaks
  PROVE  FewLost'
<1>1. IsFiniteSet(Lost') /\ Cardinality(Lost') <= Cardinality(Lost)
  BY FS_Subset DEF FewLost
<1>2. Cardinality(Lost) \in Nat /\ Cardinality(Lost') \in Nat
  BY <1>1, FS_CardinalityType DEF FewLost
<1> QED
  BY <1>1, <1>2 DEF FewLost

\* A deployment that gets lost is paid for by a leak.
LEMMA LostGrows ==
  ASSUME FewLost, NEW n, Lost' \subseteq Lost \cup {n}, Leaks \in Nat, Leaks' = Leaks + 1
  PROVE  FewLost'
<1>0. IsFiniteSet(Lost) /\ Cardinality(Lost) \in Nat
  BY FS_CardinalityType DEF FewLost
<1>1. IsFiniteSet(Lost \cup {n}) /\ Cardinality(Lost \cup {n}) <= Cardinality(Lost) + 1
  <2> HIDE DEF Lost
  <2>1. /\ IsFiniteSet(Lost \cup {n})
        /\ Cardinality(Lost \cup {n}) = IF n \in Lost THEN Cardinality(Lost) ELSE Cardinality(Lost) + 1
    BY <1>0, FS_AddElement
  <2> QED
    BY <2>1, <1>0
<1>2. IsFiniteSet(Lost') /\ Cardinality(Lost') <= Cardinality(Lost \cup {n})
  BY <1>1, FS_Subset
<1>3. Cardinality(Lost) \in Nat /\ Cardinality(Lost') \in Nat /\ Cardinality(Lost \cup {n}) \in Nat
  BY <1>1, <1>2, FS_CardinalityType DEF FewLost
<1> QED
  BY <1>1, <1>2, <1>3 DEF FewLost

\* Nobody gains a reservation.
LEMMA SlotsStay ==
  ASSUME InSlots, Reserved' \subseteq Reserved
  PROVE  InSlots'
<1>1. Reserved \subseteq Rows
  BY DEF Reserved
<1>2. IsFiniteSet(Reserved) /\ Cardinality(Reserved) \in Nat
  BY <1>1, ReservedFinite
<1>3. IsFiniteSet(Reserved') /\ Cardinality(Reserved') <= Cardinality(Reserved)
  BY <1>2, FS_Subset
<1>4. Cardinality(Reserved') \in Nat
  BY <1>3, FS_CardinalityType
<1> QED
  BY <1>2, <1>3, <1>4, BoundsAssumption DEF InSlots

\* Nobody takes another's name.
LEMMA NamesStay ==
  ASSUME NamesApart, \A q \in Rows : NamesOf(q)' \subseteq NamesOf(q) \cup {NoName}
  PROVE  NamesApart'
<1> SUFFICES ASSUME NEW r \in Rows, NEW q \in Rows, r # q, NEW n \in NamesOf(r)' \cap NamesOf(q)'
             PROVE  n = NoName
  BY DEF NamesApart
<1>1. n \in (NamesOf(r) \cup {NoName}) /\ n \in (NamesOf(q) \cup {NoName})
  OBVIOUS
<1>2. NamesOf(r) \cap NamesOf(q) \subseteq {NoName}
  BY DEF NamesApart
<1> QED
  BY <1>1, <1>2

\* What a step does to row q that the reconciler need not mind: a coroutine
\* that works had that deployment already or takes it from its row, a row that
\* is open was, with that deployment or for the coroutine's, and none ages.
Quiet(q) ==
    /\ job'[q].at \in Active =>
         \/ /\ job[q].at \in Active /\ job'[q].name = job[q].name
            /\ row'[q].dep \in {row[q].dep, job[q].name}
            /\ job'[q].at = "create" => job[q].at = "create"
         \/ /\ row[q].status \in Open /\ row'[q].dep = row[q].dep
            /\ job'[q].name = row[q].dep
    /\ row'[q].status \in Open =>
         /\ row[q].status \in Open
         /\ \/ row'[q].dep = row[q].dep
            \/ job[q].at \in Active /\ row'[q].dep = job[q].name
    /\ ~row'[q].fresh => ~row[q].fresh /\ row'[q].dep = row[q].dep

\* What the reconciler spares stays spared while its pass stands still.
LEMMA SparesStay ==
  ASSUME IInv, \A q \in Rows : Quiet(q), recon' = recon, Coming' \subseteq Coming,
         live' \subseteq live, inflight' \subseteq inflight,
         faults'["slowCreate"] = 0 => faults["slowCreate"] = 0
  PROVE  SparesInv'
<1>1. PassFits'
  BY DEF IInv, SparesInv, PassFits, NoPass
<1> SUFFICES ASSUME faults'["slowCreate"] = 0
             PROVE  Spares'
  BY <1>1 DEF SparesInv
<1>2. Spares
  BY DEF IInv, SparesInv
<1>3. NamedOrGone'
  BY <1>2 DEF Spares, NamedOrGone, Quiet
<1>4. ReapUnused'
  BY <1>2 DEF Spares, ReapUnused, Quiet
<1>5. StaleAreListed'
  BY <1>2 DEF Spares, StaleAreListed, Quiet
<1>6. GhostsAreGone'
  BY <1>2 DEF Spares, GhostsAreGone
<1> QED
  BY <1>3, <1>4, <1>5, <1>6 DEF Spares

\* A step of one row's coroutine leaves the facts about other rows.
LEMMA OneRowKeeps ==
  ASSUME IInv, NEW r \in Rows, OneRow(r), RowFits(r)', SparesInv',
         job'[r].at \in {"persist", "wait", "poll", "delete"} => job'[r].name \notin inflight',
         Leaks \in Nat, Leaks' \in Nat, Leaks' = Leaks + 1 \/ (Leaks' >= Leaks /\ Holds(r))
  PROVE  IInv'
<1>1. TypeOK'
  BY DEF OneRow
<1>2. NamesApart'
  <2>1. \A q \in Rows \ {r} : NamesOf(q)' = NamesOf(q)
    BY DEF OneRow, NamesOf
  <2>2. \A q \in Rows : NamesOf(q)' \subseteq NamesOf(q) \cup {NoName}
    BY <2>1 DEF OneRow
  <2> QED
    BY <2>2, NamesStay DEF IInv
<1>3. \A q \in Rows : RowFits(q)'
  BY DEF OneRow, IInv, RowFits
<1>4. Coming' \subseteq Coming
  BY DEF Coming, OneRow
<1>5. Apart'
  BY <1>4 DEF Apart, OneRow, IInv
<1>6. InSlots'
  <2>1. Reserved' \subseteq Reserved
    BY DEF OneRow, Reserved
  <2> QED
    BY <2>1, SlotsStay DEF IInv
<1>7. ASSUME NEW n \in live' \cup inflight' \cup Coming', NEW q \in Rows, KeptBy(q, n),
             n # row[r].dep \/ Holds(r)
      PROVE  Kept(n)'
  <2>1. n \in Names
    <3>1. Coming' \subseteq Names
      BY <1>1, <1>3, NoNameAssumption DEF Coming, RowFits, Named, TypeOK
    <3> QED
      BY <3>1, <1>1 DEF TypeOK
  <2>2. CASE q # r
    <3>1. n # job[r].name
      <4>1. n = row[q].dep /\ n # NoName
        BY <2>1, <1>7, NoNameAssumption DEF KeptBy
      <4>2. NamesOf(q) \cap NamesOf(r) \subseteq {NoName}
        BY <2>2 DEF IInv, NamesApart
      <4> QED
        BY <4>1, <4>2 DEF NamesOf
    <3>2. n \in live => n \in live'
      <4>1. n \in live => n \notin inflight
        BY DEF IInv, Apart
      <4> QED
        BY <4>1, <3>1 DEF OneRow
    <3>3. KeptBy(q, n)'
      <4>1. row'[q] = row[q] /\ job'[q] = job[q] /\ recon' = recon
        BY <2>2 DEF OneRow
      <4> QED
        BY <4>1, <3>2, <1>7 DEF KeptBy, Reserved
    <3> QED
      BY <3>3 DEF Kept
  <2>3. CASE q = r
    <3>1. n = row[r].dep /\ row[r].held
      BY <2>3, <1>7 DEF KeptBy, Reserved
    <3>2. n \in live' \cup inflight' \/ job'[r].at = "create"
      <4>1. ASSUME NEW p \in Rows, job'[p].at = "create", job'[p].name = n
            PROVE  p = r
        <5>1. ASSUME p # r
              PROVE  FALSE
          <6>1. n \in NamesOf(p) /\ n \in NamesOf(r) /\ n # NoName
            BY <5>1, <4>1, <3>1, <2>1, NoNameAssumption DEF NamesOf, OneRow
          <6> QED
            BY <6>1, <5>1 DEF IInv, NamesApart
        <5> QED
          BY <5>1
      <4> QED
        BY <4>1 DEF Coming
    <3>3. Holds(r)
      BY <1>7, <3>1
    <3>4. KeptBy(r, n)'
      BY <3>2, <3>3, <2>3, <2>1, <1>7 DEF Holds
    <3> QED
      BY <3>4 DEF Kept
  <2> QED
    BY <2>2, <2>3
<1>8. ASSUME NEW n \in Lost', n \notin Lost
      PROVE  n = row[r].dep /\ ~Holds(r)
  <2>1. n \in live' \cup inflight' \cup Coming' /\ ~Kept(n)'
    BY <1>8 DEF Lost
  <2>2. n \in live \cup inflight \cup Coming
    BY <2>1, <1>4 DEF OneRow
  <2>3. Kept(n)
    BY <2>2, <1>8 DEF Lost
  <2>4. PICK q \in Rows : KeptBy(q, n)
    BY <2>3 DEF Kept
  <2> QED
    BY <2>1, <2>4, <1>7
<1>9. FewLost'
  <2>1. CASE Leaks' = Leaks + 1
    <3>1. Lost' \subseteq Lost \cup {row[r].dep}
      BY <1>8
    <3> QED
      BY <3>1, <2>1, LostGrows DEF IInv
  <2>2. CASE Leaks' >= Leaks /\ Holds(r)
    <3>1. Lost' \subseteq Lost
      BY <1>8, <2>2
    <3> QED
      BY <3>1, <2>2, LostStays DEF IInv
  <2> QED
    BY <2>1, <2>2
<1> QED
  BY <1>1, <1>2, <1>3, <1>5, <1>6, <1>9 DEF IInv

\* What the steps that write no row have in common: coroutine r goes from one
\* place to another, and the provider loses at most the deployment of r.
LEMMA MoveKeeps ==
  ASSUME IInv, NEW r \in Rows, backend' = backend, row' = row, recon' = recon,
         job' \in [Rows -> JobType], \A q \in Rows \ {r} : job'[q] = job[q],
         job'[r].name = job[r].name,
         job'[r].at = "report" => job'[r].then \in {"success", "failure", "retry"},
         job[r].at \notin {"idle", "load"},
         job'[r].at \notin {"idle", "load", "create", "reserve"},
         job[r].at \in Named \/ job'[r].at \notin Named,
         job[r].at \in Active \/ job'[r].at \notin Active,
         live' \subseteq live, inflight' \subseteq inflight, ready' \subseteq live', old' \subseteq live',
         live \cup inflight \subseteq live' \cup inflight' \cup {job[r].name},
         job'[r].at \in {"persist", "wait", "poll", "delete"} => job[r].name \notin inflight',
         faults' \in [Kinds -> Nat], Leaks \in Nat, Leaks' \in Nat,
         faults'["slowCreate"] = 0 => faults["slowCreate"] = 0,
         \/ Leaks' = Leaks + 1
         \/ /\ Leaks' >= Leaks
            /\ \/ job'[r].at \in {"lookup", "sent", "persist", "wait", "poll", "delete"}
               \/ job[r].at \notin {"lookup", "create", "sent", "persist", "wait", "poll", "delete"}
               \/ job[r].name \notin live' \cup inflight'
  PROVE  IInv'
<1>1. TypeOK'
  BY DEF IInv, TypeOK, JobType
<1>2. NamesOf(r)' = NamesOf(r) /\ Reserved' = Reserved
  BY DEF NamesOf, Reserved
<1>3. OneRow(r)
  BY <1>1, <1>2 DEF OneRow
<1>4. RowFits(r)'
  BY <1>1 DEF IInv, TypeOK, RowFits, Running, Named
<1>7. SparesInv'
  <2>1. \A q \in Rows : Quiet(q)
    BY DEF Quiet
  <2>2. Coming' \subseteq Coming
    BY DEF Coming
  <2> QED
    BY <2>1, <2>2, SparesStay
<1>5. CASE Leaks' = Leaks + 1
  BY <1>3, <1>4, <1>5, <1>7, OneRowKeeps
<1>6. ASSUME Leaks' >= Leaks,
             \/ job'[r].at \in {"lookup", "sent", "persist", "wait", "poll", "delete"}
             \/ job[r].at \notin {"lookup", "create", "sent", "persist", "wait", "poll", "delete"}
             \/ job[r].name \notin live' \cup inflight'
      PROVE  Holds(r)
  <2> SUFFICES ASSUME NEW n \in Names, KeptBy(r, n), n \in live' \cup inflight'
               PROVE  KeptBy(r, n)'
    BY DEF Holds
  <2>1. row[r].dep = n /\ n # NoName /\ job[r].at \in Running /\ job[r].name = n
    BY NoNameAssumption DEF KeptBy, IInv, RowFits, TypeOK, Running
  <2>2. job'[r].at \in {"lookup", "sent", "persist", "wait", "poll", "delete"}
    BY <1>6, <2>1 DEF KeptBy
  <2>3. n \in live => n \in live'
    BY DEF IInv, Apart
  <2> QED
    BY <1>2, <2>1, <2>2, <2>3 DEF KeptBy
<1> QED
  BY <1>3, <1>4, <1>5, <1>6, <1>7, OneRowKeeps

\* The steps that look at the deployment and go on.
LEMMA LooksKeep ==
  ASSUME IInv, NEW r \in Rows,
         \/ LookupMisses(r) \/ LookupFinds(r) \/ LookupUnhealthy(r) \/ LookupFails(r)
         \/ Created(r) \/ ReadyInTime(r) \/ NotReady(r) \/ PollSucceeds(r)
  PROVE  IInv'
<1> USE DEF provider, Named, Active, Ats, Thens, Kinds, LeakyKinds, Is
<1>0. /\ job \in [Rows -> JobType] /\ faults \in [Kinds -> Nat]
      /\ ready \subseteq live /\ old \subseteq live /\ inflight \cap live = {}
  BY DEF IInv, TypeOK, JobType, Apart
<1>1. CASE LookupMisses(r)
  <2>1. Go(r, "giveup") /\ job[r].at = "lookup"
    BY <1>1 DEF LookupMisses
  <2>2. /\ job' \in [Rows -> JobType] /\ \A q \in Rows \ {r} : job'[q] = job[q]
        /\ job'[r].at = "giveup" /\ job'[r].name = job[r].name
    BY <1>0, <2>1, GoMoves
  <2>3. CASE job[r].name \in inflight
    BY <1>0, <1>1, <2>1, <2>2, <2>3, FaultCounts, MoveKeeps DEF LookupMisses
  <2>4. CASE job[r].name \notin inflight
    BY <1>0, <1>1, <2>1, <2>2, <2>4, NoFaultCounts, MoveKeeps DEF LookupMisses
  <2> QED
    BY <2>3, <2>4
<1>2. CASE LookupFinds(r)
  <2>1. /\ job' \in [Rows -> JobType] /\ \A q \in Rows \ {r} : job'[q] = job[q]
        /\ job'[r].at = "poll" /\ job'[r].name = job[r].name
    <3>1. /\ job'[r] = [[job[r] EXCEPT !.at = "poll"] EXCEPT !.resumed = TRUE]
          /\ job' = [job EXCEPT ![r] = job'[r]]
      BY <1>0, <1>2 DEF LookupFinds
    <3>2. job'[r] \in JobType /\ job'[r].at = "poll" /\ job'[r].name = job[r].name
      <4>1. job[r] \in JobType /\ "poll" \in Ats
        BY <1>0
      <4> QED
        BY <3>1, <4>1 DEF JobType
    <3> QED
      BY <1>0, <3>1, <3>2
  <2> QED
    BY <1>0, <1>2, <2>1, NoFaultCounts, MoveKeeps DEF LookupFinds
<1>3. CASE LookupUnhealthy(r)
  <2>1. /\ job' \in [Rows -> JobType] /\ \A q \in Rows \ {r} : job'[q] = job[q]
        /\ job'[r].at = "delete" /\ job'[r].name = job[r].name
    BY <1>0, <1>3, GoThenMoves DEF LookupUnhealthy
  <2> QED
    BY <1>0, <1>3, <2>1, FaultCounts, MoveKeeps DEF LookupUnhealthy
<1>4. CASE LookupFails(r)
  <2>1. /\ job' \in [Rows -> JobType] /\ \A q \in Rows \ {r} : job'[q] = job[q]
        /\ job'[r].at \in {"giveup", "report"} /\ job'[r].name = job[r].name
        /\ job'[r].at = "report" => job'[r].then = "failure"
    BY <1>0, <1>4, GoMoves, GoThenMoves DEF LookupFails
  <2> QED
    BY <1>0, <1>4, <2>1, FaultCounts, MoveKeeps DEF LookupFails
<1>5. CASE Created(r)
  <2>1. /\ job' \in [Rows -> JobType] /\ \A q \in Rows \ {r} : job'[q] = job[q]
        /\ job'[r].at \in {"persist", "wait"} /\ job'[r].name = job[r].name
    BY <1>0, <1>5, GoMoves DEF Created
  <2> QED
    BY <1>0, <1>5, <2>1, NoFaultCounts, MoveKeeps DEF Created
<1>6. CASE ReadyInTime(r)
  <2>1. /\ job' \in [Rows -> JobType] /\ \A q \in Rows \ {r} : job'[q] = job[q]
        /\ job'[r].at = "poll" /\ job'[r].name = job[r].name
    BY <1>0, <1>6, GoMoves DEF ReadyInTime
  <2> QED
    BY <1>0, <1>6, <2>1, NoFaultCounts, MoveKeeps DEF ReadyInTime
<1>7. CASE NotReady(r)
  <2>1. /\ job' \in [Rows -> JobType] /\ \A q \in Rows \ {r} : job'[q] = job[q]
        /\ job'[r].at = "delete" /\ job'[r].name = job[r].name
    BY <1>0, <1>7, GoThenMoves DEF NotReady
  <2>2. job[r].name \notin inflight
    BY <1>7 DEF NotReady, IInv, Apart
  <2>3. CASE job[r].name \in live
    BY <1>0, <1>7, <2>1, <2>2, <2>3, FaultCounts, MoveKeeps DEF NotReady
  <2>4. CASE job[r].name \notin live
    BY <1>0, <1>7, <2>1, <2>2, <2>4, NoFaultCounts, MoveKeeps DEF NotReady
  <2> QED
    BY <2>3, <2>4
<1>8. CASE PollSucceeds(r)
  <2>1. /\ job' \in [Rows -> JobType] /\ \A q \in Rows \ {r} : job'[q] = job[q]
        /\ job'[r].at = "delete" /\ job'[r].name = job[r].name
    BY <1>0, <1>8, GoThenMoves DEF PollSucceeds
  <2> QED
    BY <1>0, <1>8, <2>1, NoFaultCounts, MoveKeeps DEF PollSucceeds
<1> QED
  BY <1>1, <1>2, <1>3, <1>4, <1>5, <1>6, <1>7, <1>8

\* The failures, the refusals and the deletions.
LEMMA FailuresKeep ==
  ASSUME IInv, NEW r \in Rows,
         \/ PollFails(r) \/ Refused(r) \/ CreateFails(r)
         \/ DeleteVerified(r) \/ DeleteFails(r) \/ DeleteLate(r)
  PROVE  IInv'
<1> USE DEF provider, Named, Active, Ats, Thens, Kinds, LeakyKinds, Is
<1>0. /\ job \in [Rows -> JobType] /\ faults \in [Kinds -> Nat]
      /\ ready \subseteq live /\ old \subseteq live /\ inflight \cap live = {}
  BY DEF IInv, TypeOK, JobType, Apart
<1>1. CASE PollFails(r)
  <2>1. GoThen(r, "delete", "failed") \/ GoThen(r, "delete", "timeout")
    BY <1>1 DEF PollFails
  <2>2. /\ job' \in [Rows -> JobType] /\ \A q \in Rows \ {r} : job'[q] = job[q]
        /\ job'[r].at = "delete" /\ job'[r].name = job[r].name
    BY <1>0, <2>1, GoThenMoves
  <2>3. job[r].name \notin inflight /\ UNCHANGED <<backend, row, provider, recon>> /\ job[r].at = "poll"
    BY <1>1 DEF PollFails, IInv, Apart
  <2>4. CASE Fault("failed") \/ Fault("timeout")
    BY <1>0, <2>2, <2>3, <2>4, FaultCounts, MoveKeeps
  <2>5. CASE NoFault
    BY <1>0, <2>2, <2>3, <2>5, NoFaultCounts, MoveKeeps
  <2> QED
    BY <1>1, <2>4, <2>5 DEF PollFails
<1>2. CASE Refused(r)
  <2>1. /\ job' \in [Rows -> JobType] /\ \A q \in Rows \ {r} : job'[q] = job[q]
        /\ job'[r].at = "report" /\ job'[r].name = job[r].name /\ job'[r].then = "retry"
    BY <1>0, <1>2, GoThenMoves DEF Refused
  <2> QED
    BY <1>0, <1>2, <2>1, NoFaultCounts, MoveKeeps DEF Refused
<1>3. CASE CreateFails(r)
  <2>1. /\ job' \in [Rows -> JobType] /\ \A q \in Rows \ {r} : job'[q] = job[q]
        /\ job'[r].at = "release" /\ job'[r].name = job[r].name
    BY <1>0, <1>3, GoThenMoves DEF CreateFails
  <2>2. CASE inflight' = inflight \ {job[r].name} /\ Fault("rejected")
    BY <1>0, <1>3, <2>1, <2>2, FaultCounts, MoveKeeps DEF CreateFails
  <2>3. CASE UNCHANGED inflight /\ Fault("lostAnswer")
    BY <1>0, <1>3, <2>1, <2>3, FaultCounts, MoveKeeps DEF CreateFails
  <2>4. CASE job[r].name \notin inflight /\ UNCHANGED inflight /\ NoFault
    BY <1>0, <1>3, <2>1, <2>4, NoFaultCounts, MoveKeeps DEF CreateFails
  <2> QED
    BY <1>3, <2>2, <2>3, <2>4 DEF CreateFails
<1>4. ASSUME Delete(job[r].name), NoFault, job[r].at = "delete", UNCHANGED <<backend, row, recon>>,
             \/ Go(r, "giveup")
             \/ \E v \in Thens : GoThen(r, "release", v)
             \/ \E v \in {"success", "failure"} : GoThen(r, "report", v)
      PROVE  IInv'
  <2>1. /\ job' \in [Rows -> JobType] /\ \A q \in Rows \ {r} : job'[q] = job[q]
        /\ job'[r].at \in {"giveup", "release", "report"} /\ job'[r].name = job[r].name
        /\ job'[r].at = "report" => job'[r].then \in {"success", "failure"}
    BY <1>0, <1>4, GoMoves, GoThenMoves
  <2>2. /\ live' = live \ {job[r].name} /\ ready' = ready \ {job[r].name} /\ old' = old \ {job[r].name}
        /\ inflight' = inflight
    BY <1>4 DEF Delete
  <2>3. job[r].name \notin live' \cup inflight'
    BY <1>4, <2>2 DEF IInv, Apart
  <2> QED
    BY <1>0, <1>4, <2>1, <2>2, <2>3, NoFaultCounts, MoveKeeps
<1>5. CASE DeleteVerified(r)
  <2>1. \/ Go(r, "giveup")
        \/ \E v \in Thens : GoThen(r, "release", v)
        \/ \E v \in {"success", "failure"} : GoThen(r, "report", v)
    BY <1>5 DEF DeleteVerified, Deleted
  <2> QED
    BY <1>4, <1>5, <2>1 DEF DeleteVerified
<1>6. CASE DeleteLate(r)
  BY <1>4, <1>6 DEF DeleteLate
<1>7. CASE DeleteFails(r)
  <2>1. \E v \in {"success", "failure", "retry"} : GoThen(r, "release", v) \/ GoThen(r, "report", v)
    BY <1>7 DEF DeleteFails
  <2>2. /\ job' \in [Rows -> JobType] /\ \A q \in Rows \ {r} : job'[q] = job[q]
        /\ job'[r].at \in {"report", "release"} /\ job'[r].name = job[r].name
        /\ job'[r].then \in {"success", "failure", "retry"}
    BY <1>0, <2>1, GoThenMoves
  <2> QED
    BY <1>0, <1>7, <2>2, FaultCounts, MoveKeeps DEF DeleteFails
<1> QED
  BY <1>1, <1>2, <1>3, <1>5, <1>6, <1>7

\* The steps that write the row, and those that start or end a coroutine.
LEMMA WritesKeep ==
  ASSUME IInv, NEW r \in Rows,
         Launch(r) \/ Load(r) \/ GiveUp(r) \/ Persist(r) \/ Release(r) \/ Report(r) \/ Clear(r)
  PROVE  IInv'
<1> USE DEF provider, Named, Ats, Is
<1>0. /\ row \in [Rows -> RowType] /\ job \in [Rows -> JobType] /\ faults \in [Kinds -> Nat]
      /\ RowFits(r) /\ TypeOK
  BY DEF IInv, TypeOK, JobType, RowType
<1>1. row[r] \in RowType /\ job[r] \in JobType
  BY <1>0
<1>2. ASSUME UNCHANGED <<backend, provider, recon>>, NoFault,
             row' \in [Rows -> RowType], job' \in [Rows -> JobType],
             \A q \in Rows \ {r} : row'[q] = row[q] /\ job'[q] = job[q],
             NamesOf(r)' \subseteq NamesOf(r) \cup {NoName},
             row'[r].held => row[r].held, row'[r].status \in Open => row[r].status \in Open,
             row'[r].fresh \/ row'[r].fresh = row[r].fresh,
             RowFits(r)', Quiet(r),
             job'[r].at # "create",
             job'[r].at \in {"persist", "wait", "poll", "delete"} => job'[r].name \notin inflight,
             r \in Reserved /\ job[r].at \in {"idle", "load", "lookup", "create", "sent", "persist", "wait", "poll", "delete"} =>
                /\ r \in Reserved' /\ row'[r].dep = row[r].dep
                /\ job'[r].at \in {"idle", "load", "lookup", "create", "sent", "persist", "wait", "poll", "delete"}
      PROVE  IInv'
  <2>1. TypeOK'
    BY <1>0, <1>2, NoFaultCounts DEF TypeOK, RowType, JobType
  <2>2. OneRow(r)
    BY <1>2, <2>1 DEF OneRow, Reserved
  <2>3. Holds(r)
    BY <1>2 DEF Holds, KeptBy
  <2>4. SparesInv'
    <3>1. \A q \in Rows : Quiet(q)
      BY <1>2 DEF Quiet
    <3>2. Coming' \subseteq Coming
      BY <1>2 DEF Coming
    <3> QED
      BY <1>0, <1>2, <3>1, <3>2, NoFaultCounts, SparesStay
  <2> QED
    BY <1>0, <1>2, <2>2, <2>3, <2>4, NoFaultCounts, OneRowKeeps
<1>3. CASE Launch(r)
  <2>1. /\ job' \in [Rows -> JobType] /\ \A q \in Rows \ {r} : job'[q] = job[q]
        /\ job'[r].at = "load" /\ job'[r].name = job[r].name
    BY <1>0, <1>3, GoMoves DEF Launch
  <2>2. CASE row[r].status = "pending"
    <3>1. Write(r, "evaluating", row[r].held, row[r].dep)
      BY <1>3, <2>2 DEF Launch
    <3>2. /\ row' \in [Rows -> RowType] /\ \A q \in Rows \ {r} : row'[q] = row[q]
          /\ row'[r] = [status |-> "evaluating", held |-> row[r].held, dep |-> row[r].dep, fresh |-> TRUE]
      BY <1>0, <1>1, <3>1, Writes DEF RowType, Open
    <3> QED
      BY <1>0, <1>2, <1>3, <2>1, <2>2, <3>2 DEF Launch, Quiet, Active, RowFits, NamesOf, Reserved, Open, Running
  <2>3. CASE row[r].status # "pending"
    BY <1>0, <1>2, <1>3, <2>1, <2>3 DEF Launch, Quiet, Active, RowFits, NamesOf, Reserved, Open, Running
  <2> QED
    BY <2>2, <2>3
<1>4. CASE Load(r)
  <2>1. /\ job' \in [Rows -> JobType] /\ \A q \in Rows \ {r} : job'[q] = job[q]
        /\ job'[r].at = IF row[r].dep = NoName THEN "reserve" ELSE "lookup"
        /\ job'[r].name = row[r].dep
    <3>1. /\ job'[r] = [[job[r] EXCEPT !.at = IF row[r].dep = NoName THEN "reserve" ELSE "lookup"]
                        EXCEPT !.name = row[r].dep]
          /\ job' = [job EXCEPT ![r] = job'[r]]
      BY <1>0, <1>4 DEF Load
    <3>2. /\ job'[r] \in JobType /\ job'[r].name = row[r].dep
          /\ job'[r].at = IF row[r].dep = NoName THEN "reserve" ELSE "lookup"
      BY <1>1, <3>1 DEF JobType, RowType
    <3> QED
      BY <1>0, <3>1, <3>2
  <2> QED
    BY <1>0, <1>2, <1>4, <2>1 DEF Load, Quiet, Active, RowFits, NamesOf, Reserved, Open, Running
<1>5. CASE GiveUp(r)
  <2>1. /\ job' \in [Rows -> JobType] /\ \A q \in Rows \ {r} : job'[q] = job[q]
        /\ job'[r].at = "reserve" /\ job'[r].name = job[r].name
    BY <1>0, <1>5, GoMoves DEF GiveUp
  <2>2. /\ row' \in [Rows -> RowType]
        /\ \A q \in Rows \ {r} : row'[q] = row[q]
        /\ row'[r].status = row[r].status /\ row'[r].dep = row[r].dep
        /\ row'[r].held => row[r].held /\ row[r].dep # job[r].name
        /\ row'[r].fresh \/ row'[r].fresh = row[r].fresh
    BY <1>0, <1>5, Releases DEF GiveUp
  <2> QED
    BY <1>0, <1>2, <1>5, <2>1, <2>2 DEF GiveUp, Quiet, Active, RowFits, NamesOf, Reserved, Running
<1>6. CASE Persist(r)
  <2>1. /\ job' \in [Rows -> JobType] /\ \A q \in Rows \ {r} : job'[q] = job[q]
        /\ job'[r].at = "wait" /\ job'[r].name = job[r].name
    BY <1>0, <1>6, GoMoves DEF Persist
  <2>2. /\ row' \in [Rows -> RowType] /\ \A q \in Rows \ {r} : row'[q] = row[q]
        /\ row'[r] = [status |-> row[r].status, held |-> row[r].held, dep |-> job[r].name, fresh |-> TRUE]
    <3>1. /\ Write(r, row[r].status, row[r].held, job[r].name)
          /\ row[r].status \in Open \cup {"success", "failure"} /\ row[r].held \in BOOLEAN
          /\ job[r].name \in Names \cup {NoName}
      BY <1>1, <1>6 DEF Persist, RowType, JobType
    <3> QED
      BY <1>0, <3>1, Writes
  <2>3. job[r].name \notin inflight
    BY <1>6 DEF Persist, IInv, Apart
  <2> QED
    BY <1>0, <1>2, <1>6, <2>1, <2>2, <2>3 DEF Persist, Quiet, Active, RowFits, NamesOf, Reserved, Running
<1>7. CASE Release(r)
  <2>1. /\ job' \in [Rows -> JobType] /\ \A q \in Rows \ {r} : job'[q] = job[q]
        /\ job'[r].at \in {"report", "reserve"} /\ job'[r].name = job[r].name
        /\ job'[r].at = "report" => job'[r].then \in {"retry", "failure"}
    BY <1>0, <1>7, GoMoves, GoThenMoves DEF Release, Thens
  <2>2. /\ row' \in [Rows -> RowType]
        /\ \A q \in Rows \ {r} : row'[q] = row[q]
        /\ row'[r].status = row[r].status /\ row'[r].dep = row[r].dep
        /\ row'[r].held => row[r].held /\ row[r].dep # job[r].name
        /\ row'[r].fresh \/ row'[r].fresh = row[r].fresh
    BY <1>0, <1>7, Releases DEF Release
  <2> QED
    BY <1>0, <1>2, <1>7, <2>1, <2>2 DEF Release, Quiet, Active, RowFits, NamesOf, Reserved, Running
<1>8. CASE Report(r)
  <2>1. CASE job[r].then = "retry"
    <3>1. Write(r, "pending", row[r].held, row[r].dep) /\ Go(r, "clear")
      BY <1>8, <2>1 DEF Report
    <3>2. /\ job' \in [Rows -> JobType] /\ \A q \in Rows \ {r} : job'[q] = job[q]
          /\ job'[r].at = "clear" /\ job'[r].name = job[r].name
      BY <1>0, <3>1, GoMoves
    <3>3. /\ row' \in [Rows -> RowType] /\ \A q \in Rows \ {r} : row'[q] = row[q]
          /\ row'[r] = [status |-> "pending", held |-> row[r].held, dep |-> row[r].dep, fresh |-> TRUE]
      BY <1>0, <1>1, <3>1, Writes DEF RowType, Open
    <3> QED
      BY <1>0, <1>2, <1>8, <3>2, <3>3 DEF Report, Quiet, Active, RowFits, NamesOf, Reserved, Running, Open
  <2>2. CASE job[r].then # "retry"
    <3>1. /\ Write(r, job[r].then, FALSE, row[r].dep) /\ job' = [job EXCEPT ![r] = NoJob]
          /\ job[r].then \in {"success", "failure"}
      BY <1>0, <1>8, <2>2 DEF Report, RowFits
    <3>2. /\ job' \in [Rows -> JobType] /\ \A q \in Rows \ {r} : job'[q] = job[q]
          /\ job'[r].at = "idle" /\ job'[r].name = NoName
      BY <1>0, <3>1, JobEnds
    <3>3. /\ row' \in [Rows -> RowType] /\ \A q \in Rows \ {r} : row'[q] = row[q]
          /\ row'[r] = [status |-> job[r].then, held |-> FALSE, dep |-> row[r].dep, fresh |-> TRUE]
      <4>1. row[r].dep \in Names \cup {NoName} /\ FALSE \in BOOLEAN
        BY <1>1 DEF RowType
      <4> QED
        BY <1>0, <3>1, <4>1, Writes
    <3> QED
      BY <1>0, <1>2, <1>8, <3>2, <3>3 DEF Report, Quiet, Active, RowFits, NamesOf, Reserved, Running
  <2> QED
    BY <2>1, <2>2
<1>9. CASE Clear(r)
  <2>1. /\ job' \in [Rows -> JobType] /\ \A q \in Rows \ {r} : job'[q] = job[q]
        /\ job'[r].at = "idle" /\ job'[r].name = NoName
    BY <1>0, <1>9, JobEnds DEF Clear
  <2>2. /\ row' \in [Rows -> RowType] /\ \A q \in Rows \ {r} : row'[q] = row[q]
        /\ row'[r] = [status |-> row[r].status, held |-> FALSE, dep |-> row[r].dep, fresh |-> TRUE]
    <3>1. /\ Write(r, row[r].status, FALSE, row[r].dep)
          /\ row[r].status \in Open \cup {"success", "failure"}
          /\ row[r].dep \in Names \cup {NoName} /\ FALSE \in BOOLEAN
      BY <1>1, <1>9 DEF Clear, RowType
    <3> QED
      BY <1>0, <3>1, Writes
  <2> QED
    BY <1>0, <1>2, <1>9, <2>1, <2>2 DEF Clear, Quiet, Active, RowFits, NamesOf, Reserved, Running
<1> QED
  BY <1>3, <1>4, <1>5, <1>6, <1>7, <1>8, <1>9

\* A new name is nobody's.
LEMMA FreshIsNew ==
  ASSUME Unused # {}
  PROVE  /\ Fresh \in Names
         /\ Fresh \notin inflight \cup live \cup recon.live \cup recon.old \cup recon.ghosts
         /\ \A q \in Rows : Fresh # row[q].dep /\ Fresh # job[q].name
<1>1. Fresh \in Unused
  BY DEF Fresh
<1> QED
  BY <1>1 DEF Unused

\* A reservation, if it fits.
LEMMA ReserveKeeps ==
  ASSUME IInv, NEW r \in Rows, Reserve(r)
  PROVE  IInv'
<1> DEFINE n == Fresh
<1> USE DEF provider, Ats, Is
<1>0. /\ row \in [Rows -> RowType] /\ job \in [Rows -> JobType] /\ faults \in [Kinds -> Nat]
      /\ RowFits(r) /\ TypeOK
  BY DEF IInv, TypeOK, JobType, RowType
<1>1. row[r] \in RowType /\ job[r] \in JobType
  BY <1>0
<1>2. /\ n \in Names /\ n # NoName
      /\ n \notin inflight \cup live \cup recon.live \cup recon.old \cup recon.ghosts
      /\ \A q \in Rows : n # row[q].dep /\ n # job[q].name
  BY FreshIsNew, NoNameAssumption DEF Reserve
<1> HIDE DEF n
<1>3. /\ job' \in [Rows -> JobType] /\ \A q \in Rows \ {r} : job'[q] = job[q]
      /\ job'[r].at = "create" /\ job'[r].name = n
  <2>1. /\ job'[r] = [[[NoJob EXCEPT !.at = "create"] EXCEPT !.name = n] EXCEPT !.attempt = job[r].attempt + 1]
        /\ job' = [job EXCEPT ![r] = job'[r]]
    BY <1>0 DEF Reserve, n
  <2>2. NoJob \in JobType /\ job[r].attempt + 1 \in Nat
    BY <1>1 DEF NoJob, JobType, Thens
  <2>3. /\ [NoJob EXCEPT !.at = "create"] \in JobType
        /\ [NoJob EXCEPT !.at = "create"].at = "create"
    BY <2>2 DEF JobType
  <2>4. /\ [[NoJob EXCEPT !.at = "create"] EXCEPT !.name = n] \in JobType
        /\ [[NoJob EXCEPT !.at = "create"] EXCEPT !.name = n].at = "create"
        /\ [[NoJob EXCEPT !.at = "create"] EXCEPT !.name = n].name = n
    BY <1>2, <2>3 DEF JobType
  <2>5. job'[r] \in JobType /\ job'[r].at = "create" /\ job'[r].name = n
    BY <2>1, <2>2, <2>4 DEF JobType
  <2> QED
    BY <1>0, <2>1, <2>5
<1>4. /\ row' \in [Rows -> RowType] /\ \A q \in Rows \ {r} : row'[q] = row[q]
      /\ row'[r] = [status |-> row[r].status, held |-> TRUE, dep |-> n, fresh |-> TRUE]
  <2>1. /\ Write(r, row[r].status, TRUE, n) /\ row[r].status \in Open \cup {"success", "failure"}
        /\ n \in Names \cup {NoName} /\ TRUE \in BOOLEAN
    BY <1>1, <1>2 DEF Reserve, RowType, n
  <2> QED
    BY <1>0, <2>1, Writes
<1>5. UNCHANGED <<backend, provider, recon>> /\ job[r].at = "reserve" /\ NoFault
  BY DEF Reserve
<1>6. TypeOK'
  BY <1>0, <1>3, <1>4, <1>5, NoFaultCounts DEF TypeOK, RowType, JobType
<1>7. NamesApart'
  <2>1. \A q \in Rows \ {r} : NamesOf(q)' = NamesOf(q) /\ NamesOf(r)' = {n}
    BY <1>3, <1>4 DEF NamesOf
  <2> QED
    BY <1>2, <2>1 DEF IInv, NamesApart, NamesOf
<1>8. \A q \in Rows : RowFits(q)'
  <2>1. RowFits(r)'
    BY <1>0, <1>2, <1>3, <1>4 DEF RowFits, Running, Reserve
  <2> QED
    BY <1>3, <1>4, <2>1 DEF IInv, RowFits
<1>9. Coming' = Coming \cup {n}
  BY <1>3, <1>5 DEF Coming
<1>10. Apart'
  BY <1>2, <1>3, <1>5, <1>9 DEF IInv, Apart
<1>11. InSlots'
  <2>1. Reserved' = Reserved \cup {r}
    BY <1>3, <1>4 DEF Reserved, Reserve
  <2>2. IsFiniteSet(Reserved) /\ Cardinality(Reserved) \in Nat
    BY ReservedFinite DEF Reserved
  <2>3. Cardinality(Reserved') <= Cardinality(Reserved) + 1
    <3>1. Cardinality(Reserved \cup {r}) = IF r \in Reserved THEN Cardinality(Reserved) ELSE Cardinality(Reserved) + 1
      BY <2>2, FS_AddElement
    <3> QED
      BY <2>1, <2>2, <3>1
  <2>4. Cardinality(Reserved) < Slots
    BY DEF Reserve, Fits
  <2>5. Cardinality(Reserved') \in Nat
    BY <2>1, <2>2, FS_AddElement, FS_CardinalityType
  <2> QED
    BY <2>2, <2>3, <2>4, <2>5, BoundsAssumption DEF InSlots
<1>12. Lost' \subseteq Lost
  <2> SUFFICES ASSUME NEW m \in live \cup inflight \cup Coming', m # n => Kept(m)
               PROVE  Kept(m)'
    BY <1>5, <1>9 DEF Lost
  <2>1. CASE m = n
    <3>1. KeptBy(r, m)'
      BY <1>2, <1>3, <1>4, <1>5, <2>1 DEF KeptBy, Reserved, Reserve
    <3> QED
      BY <3>1 DEF Kept
  <2>2. CASE m # n
    <3>1. PICK q \in Rows : KeptBy(q, m)
      BY <2>2 DEF Kept
    <3>2. q # r
      BY <1>5, <3>1 DEF KeptBy
    <3>3. KeptBy(q, m)'
      BY <1>3, <1>4, <1>5, <3>1, <3>2 DEF KeptBy, Reserved
    <3> QED
      BY <3>3 DEF Kept
  <2> QED
    BY <2>1, <2>2
<1>13. FewLost'
  BY <1>0, <1>5, <1>12, NoFaultCounts, LostStays DEF IInv
<1>14. ASSUME Spares
       PROVE  Spares'
  <2>1. NamedOrGone'
    BY <1>3, <1>4, <1>5, <1>14 DEF Spares, NamedOrGone
  <2>2. ReapUnused'
    BY <1>2, <1>3, <1>4, <1>5, <1>14 DEF Spares, ReapUnused
  <2>3. StaleAreListed'
    <3> SUFFICES ASSUME NEW q \in Rows, row'[q].status \in Open, ~row'[q].fresh
                 PROVE  /\ row'[q].dep \notin inflight' \cup Coming'
                        /\ recon'.at = "read" /\ row'[q].dep \in live' => row'[q].dep \in recon'.live
      BY DEF StaleAreListed
    <3>1. row'[q] = row[q]
      BY <1>4
    <3>2. row[q].dep # n
      BY <1>2
    <3> QED
      BY <1>5, <1>9, <1>14, <3>1, <3>2 DEF Spares, StaleAreListed
  <2>4. GhostsAreGone'
    BY <1>2, <1>5, <1>9, <1>14 DEF Spares, GhostsAreGone
  <2> QED
    BY <2>1, <2>2, <2>3, <2>4 DEF Spares
<1>15. SparesInv'
  BY <1>0, <1>5, <1>14, NoFaultCounts DEF IInv, SparesInv, PassFits, NoPass
<1> QED
  BY <1>6, <1>7, <1>8, <1>10, <1>11, <1>13, <1>15 DEF IInv

\* The creation is sent.
LEMMA CreateKeeps ==
  ASSUME IInv, NEW r \in Rows, Create(r)
  PROVE  IInv'
<1> USE DEF provider, Ats, Is
<1>0. /\ row \in [Rows -> RowType] /\ job \in [Rows -> JobType] /\ faults \in [Kinds -> Nat]
      /\ RowFits(r) /\ TypeOK
  BY DEF IInv, TypeOK, JobType, RowType
<1>1. /\ job' \in [Rows -> JobType] /\ \A q \in Rows \ {r} : job'[q] = job[q]
      /\ job'[r].at = "sent" /\ job'[r].name = job[r].name
  BY <1>0, GoMoves DEF Create
<1>2. /\ UNCHANGED <<backend, row, live, ready, old, recon>> /\ job[r].at = "create" /\ NoFault
      /\ inflight' = inflight \cup {job[r].name}
  BY DEF Create
<1>3. job[r].name \in Names
  BY <1>0, <1>2 DEF RowFits, Named, TypeOK
<1>4. TypeOK'
  BY <1>0, <1>1, <1>2, <1>3, NoFaultCounts DEF TypeOK, RowType, JobType
<1>5. \A q \in Rows : NamesOf(q)' = NamesOf(q) /\ RowFits(q)'
  BY <1>1, <1>2 DEF IInv, NamesOf, RowFits, Running, Named
<1>6. NamesApart'
  BY <1>5, NamesStay DEF IInv
<1>7. Coming = Coming' \cup {job[r].name}
  BY <1>1, <1>2 DEF Coming
<1>8. \A q \in Rows \ {r} : job[q].name # job[r].name
  <2>1. \A q \in Rows \ {r} : NamesOf(q) \cap NamesOf(r) \subseteq {NoName}
    BY DEF IInv, NamesApart
  <2> QED
    BY <1>3, <2>1, NoNameAssumption DEF NamesOf
<1>9. Apart'
  <2>1. job[r].name \notin Coming'
    BY <1>1, <1>8 DEF Coming
  <2> QED
    BY <1>1, <1>2, <1>7, <1>8, <2>1 DEF IInv, Apart
<1>10. InSlots'
  BY <1>2 DEF InSlots, Reserved, IInv
<1>11. Lost' \subseteq Lost
  <2> SUFFICES ASSUME NEW m \in Names, Kept(m)
               PROVE  Kept(m)'
    <3>1. live \cup inflight \cup Coming = live' \cup inflight' \cup Coming'
      BY <1>2, <1>7
    <3>2. Coming \subseteq Names
      BY <1>0, NoNameAssumption DEF IInv, Coming, RowFits, Named, TypeOK
    <3>3. live \cup inflight \subseteq Names
      BY <1>0 DEF TypeOK
    <3> QED
      BY <3>1, <3>2, <3>3 DEF Lost
  <2> QED
    BY <1>1, <1>2 DEF Kept, KeptBy, Reserved
<1>12. FewLost'
  BY <1>0, <1>2, <1>11, NoFaultCounts, LostStays DEF IInv
<1>13. ASSUME Spares
       PROVE  Spares'
  <2>1. NamedOrGone'
    <3> SUFFICES ASSUME NEW q \in Rows, job'[q].at \in Active
                 PROVE  \/ row'[q].dep = job'[q].name
                        \/ /\ job'[q].at # "create"
                           /\ job'[q].name \notin live' \cup inflight' \cup recon'.old
      BY DEF NamedOrGone
    <3>1. CASE q = r
      BY <1>1, <1>2, <1>13, <3>1 DEF Spares, NamedOrGone, Active
    <3>2. CASE q # r
      BY <1>1, <1>2, <1>8, <1>13, <3>2 DEF Spares, NamedOrGone
    <3> QED
      BY <3>1, <3>2
  <2>2. ReapUnused'
    BY <1>1, <1>2, <1>13 DEF Spares, ReapUnused, Active
  <2>3. StaleAreListed'
    BY <1>2, <1>7, <1>13 DEF Spares, StaleAreListed
  <2>4. GhostsAreGone'
    BY <1>2, <1>7, <1>13 DEF Spares, GhostsAreGone
  <2> QED
    BY <2>1, <2>2, <2>3, <2>4 DEF Spares
<1>14. SparesInv'
  BY <1>0, <1>2, <1>13, NoFaultCounts DEF IInv, SparesInv, PassFits, NoPass
<1> QED
  BY <1>4, <1>5, <1>6, <1>9, <1>10, <1>12, <1>14 DEF IInv

\* A row falls behind the ghost grace.
LEMMA RowAgesKeeps ==
  ASSUME IInv, NEW r \in Rows, RowAges(r)
  PROVE  IInv'
<1> USE DEF provider
<1>0. /\ row \in [Rows -> RowType] /\ job \in [Rows -> JobType] /\ faults \in [Kinds -> Nat]
      /\ RowFits(r) /\ TypeOK
  BY DEF IInv, TypeOK, JobType, RowType
<1>1. /\ row' \in [Rows -> RowType] /\ \A q \in Rows \ {r} : row'[q] = row[q]
      /\ row'[r].status = row[r].status /\ row'[r].held = row[r].held
      /\ row'[r].dep = row[r].dep /\ row'[r].fresh = FALSE /\ row[r].dep # NoName
      /\ UNCHANGED <<backend, provider, job, recon>> /\ recon.at = "idle"
  BY <1>0 DEF RowAges, RowType
<1>2. \/ row[r].dep \in (inflight \cup Awaited) \ live /\ Fault("slowCreate")
      \/ row[r].dep \notin (inflight \cup Awaited) \ live /\ NoFault
  BY DEF RowAges
<1>3. TypeOK'
  BY <1>0, <1>1, <1>2, NoFaultCounts, FaultCounts DEF TypeOK, RowType, JobType, Kinds
<1>4. NamesOf(r)' = NamesOf(r) /\ RowFits(r)'
  BY <1>0, <1>1 DEF NamesOf, RowFits
<1>5. OneRow(r)
  BY <1>1, <1>3, <1>4 DEF OneRow, Reserved
<1>8. ASSUME NoFault, row[r].dep \notin (inflight \cup Awaited) \ live, Spares
      PROVE  Spares'
  <2>1. NamedOrGone' /\ ReapUnused' /\ GhostsAreGone' /\ Coming' = Coming
    BY <1>1, <1>8 DEF Spares, NamedOrGone, ReapUnused, GhostsAreGone, Coming
  <2>2. row[r].dep \notin inflight \cup Coming
    <3>1. Coming \subseteq Awaited
      BY DEF Coming, Awaited
    <3> QED
      BY <1>8, <3>1 DEF IInv, Apart
  <2>3. StaleAreListed'
    BY <1>1, <1>8, <2>1, <2>2 DEF Spares, StaleAreListed
  <2> QED
    BY <2>1, <2>3 DEF Spares
<1>9. SparesInv'
  <2>1. PassFits'
    BY <1>1 DEF IInv, SparesInv, PassFits, NoPass
  <2>2. CASE Fault("slowCreate")
    <3>1. faults'["slowCreate"] # 0
      BY <1>0, <2>2, FaultCounts DEF Kinds
    <3> QED
      BY <2>1, <3>1 DEF SparesInv
  <2>3. CASE NoFault /\ row[r].dep \notin (inflight \cup Awaited) \ live
    BY <1>0, <1>8, <2>1, <2>3, NoFaultCounts DEF IInv, SparesInv
  <2> QED
    BY <1>2, <2>2, <2>3
<1>6. CASE Fault("slowCreate")
  BY <1>0, <1>1, <1>4, <1>5, <1>6, <1>9, FaultCounts, OneRowKeeps DEF LeakyKinds, Kinds, IInv, Apart
<1>7. CASE row[r].dep \notin (inflight \cup Awaited) \ live /\ NoFault
  <2>1. Holds(r)
    <3> SUFFICES ASSUME NEW n \in Names, KeptBy(r, n), n \in live' \cup inflight' \/ job'[r].at = "create"
                 PROVE  KeptBy(r, n)'
      BY DEF Holds
    <3>1. n = row[r].dep /\ n # NoName
      BY NoNameAssumption DEF KeptBy
    <3>2. n \in live
      <4>1. CASE job[r].at = "create"
        <5>1. n = job[r].name
          BY <1>0, <3>1, <4>1 DEF RowFits, Running, Ats
        <5> QED
          BY <1>7, <3>1, <4>1, <5>1 DEF Awaited
      <4>2. CASE n \in live \cup inflight
        BY <1>7, <3>1, <4>2
      <4> QED
        BY <1>1, <4>1, <4>2
    <3> QED
      BY <1>1, <3>1, <3>2 DEF KeptBy, Reserved
  <2> QED
    BY <1>0, <1>1, <1>4, <1>5, <1>7, <1>9, <2>1, NoFaultCounts, OneRowKeeps DEF IInv, Apart
<1> QED
  BY <1>2, <1>6, <1>7

-----------------------------------------------------------------------------
(* The provider, the reconciler and the restart.                           *)

\* What a step that touches no coroutine and gives no row anything keeps.
LEMMA AllRowsKeep ==
  ASSUME IInv, TypeOK',
         \A q \in Rows : /\ NamesOf(q)' \subseteq NamesOf(q) \cup {NoName}
                         /\ RowFits(q)'
                         /\ q \in Reserved' => q \in Reserved,
         Apart', SparesInv', Leaks \in Nat, Leaks' \in Nat, Leaks' >= Leaks,
         live' \cup inflight' \cup Coming' \subseteq live \cup inflight \cup Coming,
         \A n \in live' \cup inflight' \cup Coming', q \in Rows : KeptBy(q, n) => KeptBy(q, n)'
  PROVE  IInv'
<1>1. NamesApart'
  BY NamesStay DEF IInv
<1>2. InSlots'
  <2>1. Reserved' \subseteq Reserved
    BY DEF Reserved
  <2> QED
    BY <2>1, SlotsStay DEF IInv
<1>3. Lost' \subseteq Lost
  BY DEF Lost, Kept
<1>4. FewLost'
  BY <1>3, LostStays DEF IInv
<1> QED
  BY <1>1, <1>2, <1>4 DEF IInv

\* The provider lists a deployment, finds it healthy, loses it, sees it age.
LEMMA ProviderKeeps ==
  ASSUME IInv, NEW n \in Names, Listed(n) \/ Healthy(n) \/ Vanish(n) \/ DeploymentAges(n)
  PROVE  IInv'
<1> USE DEF provider
<1>0. TypeOK /\ Apart /\ faults \in [Kinds -> Nat]
  BY DEF IInv, TypeOK
<1>1. UNCHANGED <<backend, row, job, recon>>
  BY DEF Listed, Healthy, Vanish, DeploymentAges
<1>2. /\ \A q \in Rows : NamesOf(q)' = NamesOf(q) /\ RowFits(q)'
      /\ Reserved' = Reserved /\ Coming' = Coming
  BY <1>1 DEF IInv, NamesOf, RowFits, Reserved, Coming
<1>7. ASSUME NoFault \/ Fault("vanished"), live' \subseteq live, inflight' \subseteq inflight
      PROVE  SparesInv'
  <2>1. \A q \in Rows : Quiet(q)
    BY <1>1 DEF Quiet
  <2>2. faults'["slowCreate"] = 0 => faults["slowCreate"] = 0
    BY <1>0, <1>7, FaultCounts, NoFaultCounts DEF Kinds
  <2> QED
    BY <1>1, <1>2, <1>7, <2>1, <2>2, SparesStay
<1>3. CASE Listed(n)
  <2>1. TypeOK'
    BY <1>0, <1>1, <1>3, NoFaultCounts DEF Listed, TypeOK
  <2>2. Apart'
    BY <1>0, <1>1, <1>2, <1>3 DEF Listed, Apart
  <2>3. \A m, q : KeptBy(q, m) => KeptBy(q, m)'
    BY <1>1, <1>2, <1>3 DEF KeptBy, Listed
  <2>4. SparesInv'
    <3>1. ASSUME Spares
          PROVE  Spares'
      <4>1. NamedOrGone' /\ ReapUnused' /\ GhostsAreGone'
        BY <1>1, <1>2, <1>3, <3>1 DEF Listed, Spares, NamedOrGone, ReapUnused, GhostsAreGone
      <4>2. StaleAreListed'
        BY <1>1, <1>2, <1>3, <3>1 DEF Listed, Spares, StaleAreListed
      <4> QED
        BY <4>1, <4>2 DEF Spares
    <3> QED
      BY <1>0, <1>1, <1>3, <3>1, NoFaultCounts DEF Listed, IInv, SparesInv, PassFits, NoPass
  <2> QED
    BY <1>0, <1>2, <1>3, <2>1, <2>2, <2>3, <2>4, NoFaultCounts, AllRowsKeep DEF Listed
<1>4. CASE Healthy(n)
  <2>1. TypeOK'
    BY <1>0, <1>1, <1>4, NoFaultCounts DEF Healthy, TypeOK
  <2>2. Apart'
    BY <1>0, <1>1, <1>2, <1>4 DEF Healthy, Apart
  <2>3. \A m, q : KeptBy(q, m) => KeptBy(q, m)'
    BY <1>1, <1>2, <1>4 DEF KeptBy, Healthy
  <2> QED
    BY <1>0, <1>2, <1>4, <1>7, <2>1, <2>2, <2>3, NoFaultCounts, AllRowsKeep DEF Healthy
<1>5. CASE Vanish(n)
  <2>1. Fault("vanished") /\ "vanished" \in Kinds
    BY <1>5 DEF Vanish, Kinds
  <2>2. TypeOK'
    BY <1>0, <1>1, <1>5, <2>1, FaultCounts DEF Vanish, Delete, TypeOK
  <2>3. Apart'
    BY <1>0, <1>1, <1>2, <1>5 DEF Vanish, Delete, Apart
  <2>4. \A m \in live' \cup inflight' \cup Coming', q \in Rows : KeptBy(q, m) => KeptBy(q, m)'
    BY <1>0, <1>1, <1>2, <1>5 DEF KeptBy, Vanish, Delete, Apart
  <2> QED
    BY <1>0, <1>2, <1>5, <1>7, <2>1, <2>2, <2>3, <2>4, FaultCounts, AllRowsKeep DEF Vanish, Delete
<1>6. CASE DeploymentAges(n)
  <2>1. TypeOK'
    BY <1>0, <1>1, <1>6, NoFaultCounts DEF DeploymentAges, TypeOK
  <2>2. Apart'
    BY <1>0, <1>1, <1>2, <1>6 DEF DeploymentAges, Apart
  <2>3. \A m, q : KeptBy(q, m) => KeptBy(q, m)'
    BY <1>1, <1>2, <1>6 DEF KeptBy, DeploymentAges
  <2> QED
    BY <1>0, <1>2, <1>6, <1>7, <2>1, <2>2, <2>3, NoFaultCounts, AllRowsKeep DEF DeploymentAges
<1> QED
  BY <1>3, <1>4, <1>5, <1>6

\* The reconciler lists, plans, reaps and resets.
LEMMA ReconKeeps ==
  ASSUME IInv, ReconStep
  PROVE  IInv'
<1> USE DEF provider
<1>0. /\ TypeOK /\ Apart /\ faults \in [Kinds -> Nat]
      /\ row \in [Rows -> RowType] /\ job \in [Rows -> JobType]
  BY DEF IInv, TypeOK, RowType, JobType
<1>1. /\ NoPass.at = "idle" /\ NoPass.live = {} /\ NoPass.old = {} /\ NoPass.ghosts = {}
      /\ NoPass \in [at : {"idle", "read", "reap", "reset"}, live : SUBSET Names,
                     old : SUBSET Names, ghosts : SUBSET Names]
  BY DEF NoPass
<1>2. CASE ListLive
  <2>1. /\ recon'.at = "read" /\ recon'.live = live /\ recon'.old = old /\ recon'.ghosts = {}
        /\ recon' \in [at : {"idle", "read", "reap", "reset"}, live : SUBSET Names,
                       old : SUBSET Names, ghosts : SUBSET Names]
    BY <1>0, <1>2 DEF ListLive, NoPass, TypeOK
  <2>2. UNCHANGED <<backend, row, provider, job>> /\ NoFault
    BY <1>2 DEF ListLive
  <2>3. TypeOK'
    BY <1>0, <2>1, <2>2, NoFaultCounts DEF TypeOK
  <2>4. /\ \A q \in Rows : NamesOf(q)' = NamesOf(q) /\ RowFits(q)'
        /\ Reserved' = Reserved /\ Coming' = Coming
    BY <2>2 DEF IInv, NamesOf, RowFits, Reserved, Coming
  <2>5. Apart'
    BY <1>0, <2>1, <2>2, <2>4 DEF Apart
  <2>6. \A m, q : KeptBy(q, m) => KeptBy(q, m)'
    BY <2>1, <2>2, <2>4 DEF KeptBy
  <2>7. SparesInv'
    <3>1. ASSUME Spares
          PROVE  Spares'
      <4>1. NamedOrGone'
        BY <1>0, <2>1, <2>2, <3>1 DEF Spares, NamedOrGone, TypeOK
      <4>2. ReapUnused' /\ StaleAreListed' /\ GhostsAreGone'
        BY <2>1, <2>2, <2>4, <3>1 DEF Spares, ReapUnused, StaleAreListed, GhostsAreGone
      <4> QED
        BY <4>1, <4>2 DEF Spares
    <3> QED
      BY <1>0, <2>1, <2>2, <3>1, NoFaultCounts DEF IInv, SparesInv, PassFits
  <2> QED
    BY <1>0, <2>2, <2>3, <2>4, <2>5, <2>6, <2>7, NoFaultCounts, AllRowsKeep
<1>3. CASE Plan
  <2> DEFINE ghosts == {row[r].dep : r \in {q \in Rows : /\ row[q].status \in Open
                                                         /\ ~row[q].fresh
                                                         /\ row[q].dep \notin recon.live}}
             orphans == recon.old \ Backed
  <2>1. recon' = IF ghosts \cup orphans = {} THEN NoPass
                 ELSE [NoPass EXCEPT !.at = "reap", !.old = orphans, !.ghosts = ghosts]
    BY <1>3 DEF Plan
  <2>2. ghosts \subseteq Names /\ orphans \subseteq recon.old
    BY <1>0 DEF IInv, RowFits, RowType
  <2> HIDE DEF ghosts, orphans
  <2>3. /\ recon'.at \in {"idle", "reap"} /\ recon'.live = {} /\ recon'.ghosts \subseteq ghosts
        /\ recon' \in [at : {"idle", "read", "reap", "reset"}, live : SUBSET Names,
                       old : SUBSET Names, ghosts : SUBSET Names]
    BY <1>0, <1>1, <2>1, <2>2 DEF NoPass, TypeOK
  <2>4. UNCHANGED <<backend, row, provider, job>> /\ NoFault /\ recon.at = "read"
    BY <1>3 DEF Plan
  <2>5. TypeOK'
    BY <1>0, <2>3, <2>4, NoFaultCounts DEF TypeOK
  <2>6. /\ \A q \in Rows : NamesOf(q)' = NamesOf(q) /\ RowFits(q)'
        /\ Reserved' = Reserved /\ Coming' = Coming
    BY <2>4 DEF IInv, NamesOf, RowFits, Reserved, Coming
  <2>7. Apart'
    BY <1>0, <2>3, <2>4, <2>6 DEF Apart
  <2>8. ASSUME NEW m, NEW q \in Rows, KeptBy(q, m), m \in Names
        PROVE  KeptBy(q, m)'
    <3>1. m \notin ghosts
      <4> SUFFICES ASSUME NEW p \in Rows, row[p].dep = m, ~row[p].fresh, row[p].dep \notin recon.live
                   PROVE  FALSE
        BY DEF ghosts
      <4>1. p = q
        BY <2>8, NoNameAssumption DEF IInv, NamesApart, NamesOf, KeptBy
      <4> QED
        BY <2>4, <2>8, <4>1 DEF KeptBy
    <3> QED
      BY <2>3, <2>4, <2>6, <2>8, <3>1 DEF KeptBy
  <2>9. live \cup inflight \cup Coming \subseteq Names
    BY <2>6, <1>0, NoNameAssumption DEF TypeOK, Coming, IInv, RowFits, Named
  <2>10. ASSUME Spares
         PROVE  Spares'
    <3>1. /\ recon'.old \subseteq recon.old /\ recon'.old \cap Backed = {}
          /\ recon'.at # "read"
      BY <1>1, <2>1, <2>2, <2>3 DEF orphans
    <3>2. NamedOrGone'
      BY <2>4, <2>10, <3>1 DEF Spares, NamedOrGone
    <3>3. ASSUME NEW q \in Rows
          PROVE  /\ job[q].at \in Active => job[q].name \notin recon'.old
                 /\ row[q].status \in Open => row[q].dep \notin recon'.old
      <4>1. row[q].status \in Open => row[q].dep \notin recon'.old
        <5>1. recon'.old \subseteq Names
          BY <2>2, <3>1, <1>0 DEF TypeOK
        <5> QED
          BY <3>1, <5>1, NoNameAssumption DEF Backed
      <4>2. job[q].at \in Active => row[q].status \in Open
        BY DEF IInv, RowFits, Active
      <4> QED
        BY <2>10, <3>1, <4>1, <4>2 DEF Spares, NamedOrGone
    <3>4. ReapUnused'
      BY <2>4, <3>3 DEF ReapUnused
    <3>5. StaleAreListed'
      BY <2>4, <2>6, <2>10, <3>1 DEF Spares, StaleAreListed
    <3>6. GhostsAreGone'
      <4>1. ASSUME NEW n \in ghosts
            PROVE  n \notin live \cup inflight \cup Coming
        <5>1. PICK q \in Rows : /\ row[q].status \in Open /\ ~row[q].fresh
                                /\ row[q].dep \notin recon.live /\ n = row[q].dep
          BY DEF ghosts
        <5> QED
          BY <2>4, <2>10, <5>1 DEF Spares, StaleAreListed
      <4> QED
        BY <2>3, <2>4, <2>6, <4>1 DEF GhostsAreGone
    <3> QED
      BY <3>2, <3>4, <3>5, <3>6 DEF Spares
  <2>11. SparesInv'
    <3>1. PassFits'
      BY <1>1, <2>1 DEF PassFits, NoPass
    <3> QED
      BY <1>0, <2>4, <2>10, <3>1, NoFaultCounts DEF IInv, SparesInv
  <2> QED
    BY <1>0, <2>4, <2>5, <2>6, <2>7, <2>8, <2>9, <2>11, NoFaultCounts, AllRowsKeep
<1>4. CASE Reap
  <2>1. /\ recon' \in [at : {"idle", "read", "reap", "reset"}, live : SUBSET Names,
                       old : SUBSET Names, ghosts : SUBSET Names]
        /\ recon'.at \in {"idle", "reset"} /\ recon'.live \subseteq recon.live
        /\ recon'.ghosts \subseteq recon.ghosts
    BY <1>0, <1>1, <1>4 DEF Reap, TypeOK
  <2>2. /\ UNCHANGED <<backend, row, inflight, job>> /\ NoFault
        /\ live' = live \ recon.old /\ ready' = ready \ recon.old /\ old' = old \ recon.old
    BY <1>4 DEF Reap
  <2>3. TypeOK'
    BY <1>0, <2>1, <2>2, NoFaultCounts DEF TypeOK
  <2>4. /\ \A q \in Rows : NamesOf(q)' = NamesOf(q) /\ RowFits(q)'
        /\ Reserved' = Reserved /\ Coming' = Coming
    BY <2>2 DEF IInv, NamesOf, RowFits, Reserved, Coming
  <2>5. Apart'
    BY <1>0, <2>1, <2>2, <2>4 DEF Apart
  <2>6. \A m \in live' \cup inflight' \cup Coming', q \in Rows : KeptBy(q, m) => KeptBy(q, m)'
    BY <1>0, <2>1, <2>2, <2>4 DEF KeptBy, Apart
  <2>7. SparesInv'
    <3>1. recon'.old = {} /\ recon'.at \in {"idle", "reset"} /\ (recon'.at = "idle" => recon' = NoPass)
      BY <1>0, <1>1, <1>4 DEF Reap, TypeOK
    <3>2. ASSUME Spares
          PROVE  Spares'
      <4>1. NamedOrGone' /\ ReapUnused'
        BY <2>2, <3>1, <3>2 DEF Spares, NamedOrGone, ReapUnused
      <4>2. StaleAreListed' /\ GhostsAreGone'
        BY <2>1, <2>2, <2>4, <3>1, <3>2 DEF Spares, StaleAreListed, GhostsAreGone
      <4> QED
        BY <4>1, <4>2 DEF Spares
    <3> QED
      BY <1>0, <2>2, <3>1, <3>2, NoFaultCounts DEF IInv, SparesInv, PassFits, NoPass
  <2> QED
    BY <1>0, <2>2, <2>3, <2>4, <2>5, <2>6, <2>7, NoFaultCounts, AllRowsKeep
<1>5. ASSUME NEW n \in Names, ResetRows(n)
      PROVE  IInv'
  <2>1. /\ recon' \in [at : {"idle", "read", "reap", "reset"}, live : SUBSET Names,
                       old : SUBSET Names, ghosts : SUBSET Names]
        /\ recon'.at \in {"idle", "reset"} /\ recon'.live \subseteq recon.live
        /\ recon'.ghosts \subseteq recon.ghosts /\ n \in recon.ghosts
    BY <1>0, <1>1, <1>5 DEF ResetRows, TypeOK
  <2>2. UNCHANGED <<backend, provider, job>> /\ NoFault
    BY <1>5 DEF ResetRows
  <2>3. /\ row' \in [Rows -> RowType]
        /\ \A q \in Rows : \/ row'[q] = row[q]
                           \/ /\ row[q].dep = n /\ row[q].status \in Open
                              /\ row'[q] = [status |-> "pending", held |-> FALSE, dep |-> NoName, fresh |-> TRUE]
    BY <1>0, <1>5 DEF ResetRows, RowType, Open
  <2>4. TypeOK'
    BY <1>0, <2>1, <2>2, <2>3, NoFaultCounts DEF TypeOK, RowType
  <2>5. /\ \A q \in Rows : NamesOf(q)' \subseteq NamesOf(q) \cup {NoName} /\ RowFits(q)'
        /\ Coming' = Coming
    BY <2>2, <2>3 DEF IInv, NamesOf, RowFits, Coming, Open
  <2>6. Apart'
    BY <1>0, <2>1, <2>2, <2>5 DEF Apart
  <2>7. \A q \in Rows : q \in Reserved' => q \in Reserved
    BY <2>3 DEF Reserved
  <2>8. ASSUME NEW m, NEW q \in Rows, KeptBy(q, m)
        PROVE  KeptBy(q, m)'
    <3>1. row'[q] = row[q]
      BY <2>1, <2>3, <2>8 DEF KeptBy
    <3> QED
      BY <2>1, <2>2, <2>8, <3>1 DEF KeptBy, Reserved
  <2>9. SparesInv'
    <3>1. /\ recon'.old \subseteq recon.old /\ recon'.at \in {"idle", "reset"}
          /\ recon'.at = "idle" => recon' = NoPass
      BY <1>0, <1>1, <1>5 DEF ResetRows, TypeOK
    <3>2. ASSUME Spares
          PROVE  Spares'
      <4>1. NamedOrGone'
        <5> SUFFICES ASSUME NEW q \in Rows, job[q].at \in Active
                     PROVE  \/ row'[q].dep = job[q].name
                            \/ job[q].at # "create" /\ job[q].name \notin live \cup inflight \cup recon'.old
          BY <2>2 DEF NamedOrGone
        <5>1. CASE row'[q] = row[q]
          BY <3>1, <3>2, <5>1 DEF Spares, NamedOrGone
        <5>2. CASE row[q].dep = n /\ row[q].status \in Open
          <6>1. n \notin live \cup inflight \cup Coming
            BY <2>1, <3>2 DEF Spares, GhostsAreGone
          <6>2. CASE job[q].name = n
            <7>1. job[q].at # "create"
              BY <6>1, <6>2 DEF Coming
            <7>2. n \notin recon.old
              BY <1>5 DEF ResetRows, IInv, SparesInv, PassFits
            <7> QED
              BY <3>1, <6>1, <6>2, <7>1, <7>2
          <6>3. CASE job[q].name # n
            BY <3>1, <3>2, <5>2, <6>3 DEF Spares, NamedOrGone
          <6> QED
            BY <6>2, <6>3
        <5> QED
          BY <2>3, <5>1, <5>2
      <4>2. ReapUnused'
        BY <3>1 DEF ReapUnused
      <4>3. StaleAreListed'
        BY <2>2, <2>3, <2>5, <3>1, <3>2 DEF Spares, StaleAreListed
      <4>4. GhostsAreGone'
        BY <2>1, <2>2, <2>5, <3>2 DEF Spares, GhostsAreGone
      <4> QED
        BY <4>1, <4>2, <4>3, <4>4 DEF Spares
    <3> QED
      BY <1>0, <1>5, <2>2, <3>1, <3>2, NoFaultCounts DEF ResetRows, IInv, SparesInv, PassFits
  <2> QED
    BY <1>0, <2>2, <2>4, <2>5, <2>6, <2>7, <2>8, <2>9, NoFaultCounts, AllRowsKeep
<1> QED
  BY <1>2, <1>3, <1>4, <1>5 DEF ReconStep

\* A restart ends every coroutine and the pass; the rows stay.
LEMMA CrashKeeps ==
  ASSUME IInv, Crash
  PROVE  IInv'
<1> USE DEF provider
<1>0. /\ TypeOK /\ Apart /\ faults \in [Kinds -> Nat] /\ row \in [Rows -> RowType]
  BY DEF IInv, TypeOK, RowType
<1>1. Fault("crash") /\ "crash" \in Kinds /\ UNCHANGED <<backend, row, provider>>
  BY DEF Crash, Kinds
<1>2. \A q \in Rows : job'[q] \in JobType /\ job'[q].at = "idle" /\ job'[q].name = NoName
  BY DEF Crash, NoJob, JobType, Ats, Thens
<1>3. /\ recon'.at = "idle" /\ recon'.live = {} /\ recon'.ghosts = {}
      /\ recon' \in [at : {"idle", "read", "reap", "reset"}, live : SUBSET Names,
                     old : SUBSET Names, ghosts : SUBSET Names]
  BY DEF Crash, NoPass
<1>4. TypeOK'
  <2>1. job' \in [Rows -> JobType]
    BY <1>2 DEF Crash
  <2> QED
    BY <1>0, <1>1, <1>3, <2>1, FaultCounts DEF TypeOK, JobType
<1>5. /\ \A q \in Rows : NamesOf(q)' \subseteq NamesOf(q) \cup {NoName} /\ RowFits(q)'
      /\ Reserved' = Reserved /\ Coming' = {}
  BY <1>1, <1>2 DEF IInv, NamesOf, RowFits, Reserved, Coming, Running, Named
<1>6. Apart'
  BY <1>0, <1>1, <1>2, <1>3, <1>5 DEF Apart
<1>7. \A m, q : q \in Rows /\ KeptBy(q, m) => KeptBy(q, m)'
  BY <1>1, <1>2, <1>3, <1>5 DEF KeptBy
<1>8. SparesInv'
  <2>1. recon' = NoPass /\ recon'.old = {}
    BY DEF Crash, NoPass
  <2>2. ASSUME Spares
        PROVE  Spares'
    <3>1. NamedOrGone' /\ ReapUnused' /\ GhostsAreGone'
      BY <1>2, <1>3 DEF NamedOrGone, ReapUnused, GhostsAreGone, Active
    <3>2. StaleAreListed'
      BY <1>1, <1>3, <1>5, <2>2 DEF Spares, StaleAreListed
    <3> QED
      BY <3>1, <3>2 DEF Spares
  <2> QED
    BY <1>0, <1>1, <2>1, <2>2, FaultCounts DEF IInv, SparesInv, PassFits
<1> QED
  BY <1>0, <1>1, <1>4, <1>5, <1>6, <1>7, <1>8, FaultCounts, AllRowsKeep

-----------------------------------------------------------------------------
(* The theorems.                                                           *)

\* The deployments an earlier process left behind have their rows.
LEMMA InitHolds == Init => IInv
<1> SUFFICES ASSUME Init
             PROVE  IInv
  OBVIOUS
<1> USE DEF Init
<1>1. PICK left \in SUBSET Rows :
         /\ Cardinality(left) <= Slots
         /\ row = [r \in Rows |->
                     IF r \in left THEN [status |-> "evaluating", held |-> TRUE, dep |-> Given[r], fresh |-> TRUE]
                     ELSE [status |-> "pending", held |-> FALSE, dep |-> NoName, fresh |-> TRUE]]
         /\ live = {Given[r] : r \in left}
  OBVIOUS
<1>2. Given \in [Rows -> Names] /\ \A r, q \in Rows : Given[r] = Given[q] => r = q
  BY BoundsAssumption DEF Given
<1>3. \A r \in Rows : job[r].at = "idle" /\ job[r].name = NoName /\ job[r] \in JobType
  BY DEF NoJob, JobType, Ats, Thens
<1>4. recon = NoPass /\ recon.at = "idle" /\ recon.live = {} /\ recon.old = {} /\ recon.ghosts = {}
  BY DEF NoPass
<1>5. TypeOK
  <2>1. job \in [Rows -> JobType]
    BY <1>3
  <2>2. row \in [Rows -> RowType]
    BY <1>1, <1>2 DEF RowType, Open
  <2>3. live \subseteq Names
    BY <1>1, <1>2
  <2> QED
    BY <1>4, <2>1, <2>2, <2>3 DEF TypeOK, JobType, RowType, NoPass
<1>6. NamesApart
  <2>1. \A r \in Rows : NamesOf(r) \subseteq {Given[r], NoName}
    BY <1>1, <1>3 DEF NamesOf
  <2> QED
    BY <1>2, <2>1 DEF NamesApart
<1>7. \A r \in Rows : RowFits(r)
  BY <1>1, <1>2, <1>3, NoNameAssumption DEF RowFits, Running, Named, Open
<1>8. Coming = {}
  BY <1>3 DEF Coming
<1>9. Apart
  BY <1>3, <1>4, <1>8 DEF Apart
<1>10. Reserved = left
  BY <1>1 DEF Reserved, Open
<1>11. InSlots
  BY <1>1, <1>10 DEF InSlots
<1>12. Lost = {}
  <2> SUFFICES ASSUME NEW r \in left
               PROVE  KeptBy(r, Given[r])
    BY <1>1, <1>8 DEF Lost, Kept
  <2> QED
    BY <1>1, <1>3, <1>4, <1>10 DEF KeptBy
<1>13. FewLost
  BY <1>12, FS_EmptySet DEF FewLost, Leaks, Kinds
<1>14. SparesInv
  BY <1>1, <1>3, <1>4, <1>8 DEF SparesInv, PassFits, Spares, NamedOrGone, ReapUnused,
                                StaleAreListed, GhostsAreGone, Active
<1> QED
  BY <1>5, <1>6, <1>7, <1>9, <1>11, <1>13, <1>14 DEF IInv

\* Every step keeps the invariant.
LEMMA NextKeeps == IInv /\ [Next]_vars => IInv'
<1> SUFFICES ASSUME IInv, [Next]_vars
             PROVE  IInv'
  OBVIOUS
<1>1. ASSUME NEW r \in Rows, JobStep(r) \/ JobFault(r) \/ RowAges(r)
      PROVE  IInv'
  BY <1>1, LooksKeep, FailuresKeep, WritesKeep, ReserveKeeps, CreateKeeps, RowAgesKeeps
  DEF JobStep, JobFault
<1>2. ASSUME NEW n \in Names, Listed(n) \/ Healthy(n) \/ Vanish(n) \/ DeploymentAges(n)
      PROVE  IInv'
  BY <1>2, ProviderKeeps
<1>3. CASE ReconStep \/ Crash
  BY <1>3, ReconKeeps, CrashKeeps
<1>4. CASE UNCHANGED vars
  BY <1>4 DEF vars, provider, IInv, TypeOK, NamesApart, NamesOf, RowFits, Apart, Coming, FewLost, Lost,
              Kept, KeptBy, Leaks, InSlots, Reserved, SparesInv, PassFits, Spares, NamedOrGone,
              ReapUnused, StaleAreListed, GhostsAreGone
<1> QED
  BY <1>1, <1>2, <1>3, <1>4 DEF Next

\* Every step keeps the invariant that the theorems below rest on: names are
\* not shared between rows, a deployment is under a reservation that nothing
\* is about to drop or among those a leak has hidden, and the reconciler's
\* verdicts are about deployments nobody uses.
THEOREM InvariantHolds == Spec => []IInv
<1> QED
  BY InitHolds, NextKeeps, PTL DEF Spec

\* Every variable stays in its range.
THEOREM TypeCorrect == Spec => []TypeOK
<1>1. IInv => TypeOK
  BY DEF IInv
<1> QED
  BY <1>1, InvariantHolds, PTL

\* A deployment that is not lost has a reservation of its own.
LEMMA KeptHaveRows ==
  ASSUME IInv
  PROVE  live \cup inflight \subseteq Lost \cup {row[r].dep : r \in Reserved}
  BY DEF Lost, Kept, KeptBy

\* The deployments that run or are about to exceed the cap by at most one per
\* leak, whatever the number of rows, retries, crashes and passes
\* (try_reserve_evaluation_gpus, reconcile_eval_deployments).
THEOREM TheCapHolds == Spec => []CapHolds
<1>1. ASSUME IInv
      PROVE  CapHolds
  <2> DEFINE Covered == {row[r].dep : r \in Reserved}
             f == [r \in Reserved |-> row[r].dep]
  <2>1. IsFiniteSet(Reserved) /\ Cardinality(Reserved) \in Nat
    BY ReservedFinite DEF Reserved
  <2>2. IsFiniteSet(Covered) /\ Cardinality(Covered) <= Cardinality(Reserved)
    <3>1. f \in Surjection(Reserved, Covered)
      BY DEF Surjection
    <3> HIDE DEF f, Covered
    <3> QED
      BY <2>1, <3>1, FS_Surjection
  <2>3. IsFiniteSet(Lost) /\ Cardinality(Lost) <= Leaks
    BY <1>1 DEF IInv, FewLost
  <2> HIDE DEF Covered
  <2>4. /\ IsFiniteSet(Lost \cup Covered)
        /\ Cardinality(Lost \cup Covered) <= Cardinality(Lost) + Cardinality(Covered)
    <3>1. /\ IsFiniteSet(Lost \cup Covered) /\ IsFiniteSet(Lost \cap Covered)
          /\ Cardinality(Lost \cup Covered)
               = Cardinality(Lost) + Cardinality(Covered) - Cardinality(Lost \cap Covered)
      BY <2>2, <2>3, FS_Union, FS_Intersection
    <3>2. Cardinality(Lost) \in Nat /\ Cardinality(Covered) \in Nat /\ Cardinality(Lost \cap Covered) \in Nat
      BY <2>2, <2>3, <3>1, FS_CardinalityType
    <3> QED
      BY <3>1, <3>2
  <2>5. live \cup inflight \subseteq Lost \cup Covered
    BY <1>1, KeptHaveRows DEF Covered
  <2>6. /\ IsFiniteSet(live \cup inflight)
        /\ Cardinality(live \cup inflight) <= Cardinality(Lost \cup Covered)
    BY <2>4, <2>5, FS_Subset
  <2>7. /\ Cardinality(Lost) \in Nat /\ Cardinality(Covered) \in Nat
        /\ Cardinality(live \cup inflight) \in Nat /\ Cardinality(Lost \cup Covered) \in Nat
    BY <2>2, <2>3, <2>4, <2>6, FS_CardinalityType
  <2>8. Leaks \in Nat /\ Cardinality(Reserved) <= Slots
    BY <1>1 DEF IInv, TypeOK, Leaks, Kinds, InSlots
  <2> QED
    BY <2>1, <2>2, <2>3, <2>4, <2>6, <2>7, <2>8, BoundsAssumption DEF CapHolds
<1> QED
  BY <1>1, InvariantHolds, PTL

\* Without a leak every deployment is under a reservation, through crashes,
\* retries and passes of the reconciler (_recover_evaluating_tasks,
\* release_evaluation_gpu_reservation).
THEOREM DeploymentsAreReserved == Spec => []LiveIsReserved
<1>1. ASSUME IInv, Leaks = 0
      PROVE  \A n \in live \cup inflight : \E r \in Reserved : row[r].dep = n
  <2>1. IsFiniteSet(Lost) /\ Cardinality(Lost) = 0
    BY <1>1, FS_CardinalityType DEF IInv, FewLost
  <2>2. Lost = {}
    BY <2>1, FS_EmptySet
  <2> QED
    BY <1>1, <2>2, KeptHaveRows
<1>2. IInv => LiveIsReserved
  BY <1>1 DEF LiveIsReserved
<1> QED
  BY <1>2, InvariantHolds, PTL

\* The reconciler never deletes a deployment that an evaluation waits for or
\* polls, however long its pass takes and whatever the row went through in
\* the meantime (plan_eval_reconcile).
THEOREM TheReaperSparesWork == Spec => ReaperSparesWork
<1>1. ASSUME IInv, Reap, faults["slowCreate"] = 0, NEW r \in Rows,
             job[r].at \in {"persist", "wait", "poll"}
      PROVE  job[r].name \notin recon.old
  BY <1>1 DEF IInv, SparesInv, Spares, ReapUnused, Active, Reap
<1>2. IInv /\ [Next]_vars =>
        [Reap /\ faults["slowCreate"] = 0 =>
           \A r \in Rows : job[r].at \in {"persist", "wait", "poll"} => job[r].name \notin recon.old]_vars
  BY <1>1
<1> QED
  BY <1>2, InvariantHolds, PTL DEF Spec, ReaperSparesWork

=============================================================================
