------------------------------ MODULE Weights ------------------------------
(***************************************************************************)
(* From the results of the last text and image tournament to the weight of *)
(* each node.  The code computes with floating-point fractions of one;     *)
(* here every weight is a whole number of parts, and Whole is the number   *)
(* of parts in one.  A tournament is a record: winner and base are         *)
(* winner_hotkey and base_winner_hotkey, places the final positions of its *)
(* participants, finalists the hotkeys scored in its final round (none     *)
(* when it had no final round); no tournament is Nobody.                   *)
(***************************************************************************)
EXTENDS Integers, FiniteSets, Sequences, FiniteSetsExt

CONSTANTS
  Earners,  \* hotkeys
  Burn,     \* EMISSION_BURN_HOTKEY
  Nobody

ASSUME BurnAssumption == IsFiniteSet(Earners) /\ Burn \in Earners /\ Nobody \notin Earners

VARIABLES
  audit,    \* the results and participants of the last round of the loop
  weights   \* the weight it computed for each node

PaidRanks        == 3     \* TOURNAMENT_PAID_RANKS
FallbackRanks    == 2     \* _LEGACY_FALLBACK_MAX_PAID_RANKS
BoostThreshold   == 10    \* EMISSION_MULTIPLIER_THRESHOLD, in percent
BoostRate        == 2     \* EMISSION_MULTIPLIER_RATE
MaxPool          == [text |-> 70, image |-> 50]  \* MAX_*_TOURNAMENT_WEIGHT, in percent
Scale            == 10000 \* parts of one in which a participant earns one

Lesser(i, j) == IF i < j THEN i ELSE j

-----------------------------------------------------------------------------
(* One tournament                                                          *)

\* update_tournament_placements
Places(participants, first, second, third) ==
    [h \in participants \cap {first, second, third} |->
        IF h = first THEN 1 ELSE IF h = second THEN 2 ELSE 3]

\* exponential_decline_mapping with base 1/4 (Decline, in sixteenths), in parts
\* of 105.
Decline == <<16, 4, 1>>
RankShare(total, rank) ==
    LET paid == Lesser(total, PaidRanks)
    IN  IF total <= 1 THEN 105
        ELSE IF rank > paid THEN 0
        ELSE (105 * Decline[rank]) \div (Decline[1] + Decline[2] + IF paid = 3 THEN Decline[3] ELSE 0)

\* _resolve_burn_placeholder
Resolve(h, base) == IF h = Burn /\ base # Nobody THEN base ELSE h

\* Each hotkey earns the sum of what its entries earn by their ranks.
Shares(name, rank, total) ==
    [h \in Earners |-> SumFunction([k \in {k \in DOMAIN rank : name[k] = h} |-> RankShare(total, rank[k])])]

\* Mutant: the champion's second position is dropped and the rest move up.
PlacedSharesReindexed(t) ==
    LET best(h)  == Min({t.places[k] : k \in {k \in DOMAIN t.places : Resolve(k, t.base) = h}})
        paid     == {Resolve(k, t.base) : k \in DOMAIN t.places}
        rank(h)  == 1 + Cardinality({g \in paid : best(g) < best(h)})
    IN  [h \in Earners |-> IF h \in paid THEN RankShare(Cardinality(paid), rank(h)) ELSE 0]

\* By final positions.
PaidPlaces(t) == {k \in DOMAIN t.places : t.places[k] <= PaidRanks}
PlacedShares(t) ==
    Shares([k \in PaidPlaces(t) |-> Resolve(k, t.base)], [k \in PaidPlaces(t) |-> t.places[k]],
           Lesser(Cardinality(DOMAIN t.places), PaidRanks))

\* Without positions: the champion, then the other finalists as they come; a
\* hotkey that comes again is skipped.
Finalists(t) == [i \in 1 .. Len(t.finalists) + 1 |->
                    Resolve(IF i = 1 THEN t.winner ELSE t.finalists[i - 1], t.base)]
Paid(names) == {i \in DOMAIN names : names[i] # Nobody /\ \A j \in 1 .. i - 1 : names[j] # names[i]}
FinalistShares(t) ==
    LET names == Finalists(t)
        paid  == Paid(names)
    IN  Shares(names, [i \in paid |-> Cardinality(paid \cap 1 .. i)], Lesser(Cardinality(paid), FallbackRanks))

\* get_boss_round_pair_weights, in parts of 105.
PairWeights(t) ==
    IF t = Nobody THEN [h \in Earners |-> 0]
    ELSE IF DOMAIN t.places # {} THEN PlacedShares(t) ELSE FinalistShares(t)

-----------------------------------------------------------------------------
(* The pools of the two types                                              *)

\* The performance difference of the champion, in percent: computed when the
\* tournament changed hands or was the first, kept from his own victory when he
\* defended.
PerformanceDifference(t) ==
    IF t = Nobody THEN Nobody
    ELSE IF t.first \/ t.winner # Burn THEN t.computed
    ELSE IF t.base = Nobody \/ t.stored = Nobody THEN 0 ELSE t.stored

\* calculate_emission_boost_from_perf
Boost(diff) == IF diff = Nobody THEN 0
               ELSE IF diff <= BoostThreshold THEN 0 ELSE BoostRate * (diff - BoostThreshold)

\* calculate_tournament_weight; the two pools of get_tournament_burn_details are
\* these, scaled to one.
Pool(type, base, t) == Lesser(base + Boost(PerformanceDifference(t)), MaxPool[type])

-----------------------------------------------------------------------------
(* The nodes.  A case c has the tournaments c.text and c.image, the         *)
(* participation-driven base of the text pool in percent, the hotkeys       *)
(* registered on the chain and the participants of the active tournaments.  *)

PoolOf(c) == [text  |-> Pool("text", c.base, c.text),
              image |-> Pool("image", 100 - c.base, c.image)]
Whole(c) == 105 * Scale * (PoolOf(c).text + PoolOf(c).image)

\* Mutant: the pools keep their size when participants are paid.
RestUnscaled(c) == Scale

\* What is left of one once the participants have their parts.
Rest(c) == Scale - Cardinality(c.participants)

\* apply_tournament_weights for one type; a type has one pool for all ranks.
TypeWeights(c, type) ==
    LET shares == PairWeights(c[type])
    IN  [h \in c.registered |-> shares[h] * PoolOf(c)[type] * Rest(c)]

Undistributed(c, type) ==
    105 * PoolOf(c)[type] * Rest(c) - SumFunction(TypeWeights(c, type))

\* get_node_weights_from_tournament_audit_data
NodeWeights(c) ==
    [h \in c.registered |->
        IF h = Burn THEN Undistributed(c, "text") + Undistributed(c, "image")
        ELSE TypeWeights(c, "text")[h] + TypeWeights(c, "image")[h]
             + (IF h \in c.participants THEN Whole(c) \div Scale ELSE 0)]

-----------------------------------------------------------------------------
(* The loop                                                                *)

\* What a tournament that is over may have left; positions are distinct.
Placings == {p \in UNION {[S -> Nat \ {0}] : S \in SUBSET Earners} : IsInjective(p)}
Results == [winner : Earners \cup {Nobody}, base : Earners \cup {Nobody}, first : BOOLEAN, computed : Int,
            stored : Int \cup {Nobody}, places : Placings, finalists : Seq(Earners \cup {Nobody})]
Audits == {c \in [text : Results \cup {Nobody}, image : Results \cup {Nobody}, base : 0 .. 100,
                  registered : SUBSET Earners, participants : SUBSET Earners] :
              Cardinality(c.participants) <= Scale}

WeightsInit == audit = Nobody /\ weights = <<>>

\* _get_and_set_weights
ComputeWeights(c) == audit' = c /\ weights' = NodeWeights(c)

WeightsNext == \E c \in Audits : ComputeWeights(c)

WeightsSpec == WeightsInit /\ [][WeightsNext]_<<audit, weights>>

-----------------------------------------------------------------------------
(* Properties                                                              *)

\* The weights of the nodes never exceed one, and add up to exactly one when
\* the account that burns is a node, every participant is a node, and no rank
\* or participation was paid to the account that burns (the sum at the end of
\* get_node_weights_from_tournament_audit_data).
EmissionsAddUp ==
    audit # Nobody =>
        LET total == SumFunction(weights)
            burnEarns == PairWeights(audit.text)[Burn] + PairWeights(audit.image)[Burn] > 0
        IN  /\ total <= Whole(audit)
            /\ Burn \in audit.registered \ audit.participants /\ audit.participants \subseteq audit.registered /\ ~ burnEarns
                  => total = Whole(audit)

\* A champion who also fought through the bracket earns what his two or three
\* positions are worth, and nobody else earns more or less for it.
ChampionKeepsHisPlaces ==
    audit # Nobody =>
        \A t \in {audit.text, audit.image} \ {Nobody} :
            DOMAIN t.places # {} /\ t.base \notin {Nobody, Burn} =>
                LET nominal == PlacedShares([t EXCEPT !.base = Nobody])
                IN  PairWeights(t) = [nominal EXCEPT ![t.base] = @ + nominal[Burn], ![Burn] = 0]
=============================================================================
