---------------------------- MODULE GpuSelection ----------------------------
(* Which GPUs of a trainer a job gets: NVLink groups and first fit.  GPU ids *)
(* are numbers; links is the symmetric set of NVLink pairs a trainer         *)
(* reports, or Unknown when one of its GPUs reports none.                    *)
EXTENDS Integers, FiniteSets, FiniteSetsExt

VARIABLES
  host,   \* the GPUs of a trainer, which of them are free, and how many are asked for
  given   \* the GPUs that were chosen for it

Unknown == {{}}

\* The GPUs reached from start over links: members of all sets of GPUs that hold
\* it and the neighbours of their members.
Reached(start, ids, links) ==
    {g \in ids : \A S \in SUBSET ids :
        start \in S /\ (\A a \in S, b \in ids : {a, b} \in links => b \in S) => g \in S}

\* _nvlink_groups
NvlinkGroups(ids, links) ==
    IF links = Unknown THEN {{h \in ids : h \div 2 = g \div 2} : g \in ids}
    ELSE {Reached(g, ids, links) : g \in ids}

\* The n members of S that are first in order of their ids.
First(S, n) == {g \in S : Cardinality({h \in S : h < g}) < n}

\* Of the whole groups, in order of their lowest ids, each that fits beside
\* those before it.
LastGroup(W) == CHOOSE G \in W : \A H \in W : Min(H) <= Min(G)
Fitting(whole, count) ==
    LET chosen[W \in SUBSET whole] ==
            IF W = {} THEN {}
            ELSE LET before == chosen[W \ {LastGroup(W)}]
                 IN  IF Cardinality(before) + Cardinality(LastGroup(W)) <= count
                     THEN before \cup LastGroup(W) ELSE before
    IN  chosen[whole]

\* Mutant: every job is filled up from the free GPUs in their order.
SelectFirstFit(available, groups, count) ==
    IF Cardinality(available) < count THEN {} ELSE First(available, count)

\* _select_grouped_gpu_ids: whole free groups as long as they fit, then GPUs of
\* broken groups, then whatever is free.
Select(available, groups, count) ==
    LET whole   == {G \in groups : G \subseteq available}
        fits    == Fitting(whole, count)
        orphans == available \ UNION whole
        some    == fits \cup First(orphans, count - Cardinality(fits))
    IN  IF Cardinality(available) < count THEN {}
        ELSE IF Cardinality(groups) <= 1 \/ \A G \in groups : Cardinality(G) = 1
             THEN First(available, count)
             ELSE some \cup First(available \ some, count - Cardinality(some))

\* _trainer_has_sufficient_gpus for the GPUs of the wanted type.
SufficientGpus(ids, available, links, count) == Select(available, NvlinkGroups(ids, links), count)

-----------------------------------------------------------------------------
(* A look at one trainer.                                                  *)

Hosts == {h \in [ids : SUBSET Nat, free : SUBSET Nat, links : SUBSET (SUBSET Nat), count : Nat \ {0}] :
             IsFiniteSet(h.ids) /\ h.free \subseteq h.ids /\ h.links \in SUBSET kSubset(2, h.ids) \cup {Unknown}}
NoHost == [ids |-> {}, free |-> {}, links |-> Unknown, count |-> 1]

CheckTrainer(h) == host' = h /\ given' = SufficientGpus(h.ids, h.free, h.links, h.count)

SelectInit == host = NoHost /\ given = {}
SelectNext == \E h \in Hosts : CheckTrainer(h)
SelectSpec == SelectInit /\ [][SelectNext]_<<host, given>>

-----------------------------------------------------------------------------
(* Properties                                                              *)

\* How many free groups the choice S breaks.
Split(h, S) == Cardinality({G \in NvlinkGroups(h.ids, h.links) :
                               G \subseteq h.free /\ G \cap S # {} /\ ~ G \subseteq S})

\* The groups have one size, and are pairs or do not interleave.
Regular(groups) ==
    \A A, B \in groups :
        /\ Cardinality(A) = Cardinality(B)
        /\ A # B /\ Cardinality(A) > 2 =>
              (\A a \in A, b \in B : a < b) \/ (\A a \in A, b \in B : b < a)

\* A job gets the number of GPUs it asks for, all of them free, whenever that
\* many are free; and on a trainer of bridged pairs, or of quads with
\* consecutive ids, no other choice of free GPUs splits fewer free groups: what
\* _select_grouped_gpu_ids is there for.
SelectionKeepsGroups ==
    /\ given \subseteq host.free
    /\ Cardinality(given) = IF Cardinality(host.free) < host.count THEN 0 ELSE host.count
    /\ given # {} /\ Regular(NvlinkGroups(host.ids, host.links)) =>
           \A S \in kSubset(host.count, host.free) : Split(host, given) <= Split(host, S)
=============================================================================
