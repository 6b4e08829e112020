------------------------------ MODULE Targeting ------------------------------
(* Ranked lists and what is claimed of them: the supervised fraud layer and how  *)
(* it is evaluated (fraud/supervised.py), the effect of a collections action     *)
(* with its Qini curve (learning/uplift.py), and the value of a policy from the  *)
(* decisions of another (learning/offpolicy.py).                                 *)
(*                                                                               *)
(* A case carries what either needs.  A share is in parts of Whole, which every  *)
(* number of cases divides.                                                      *)
EXTENDS Integers, Sequences, FiniteSets, FiniteSetsExt

CONSTANTS
    Case,                    \* [score, label, treated, covariate, odds] that occur
    None,                    \* a covariate that was not recorded
    AlertRate,               \* a ratio: of the cases, those alerted
    MinimumConfirmedFrauds,
    MaxFriction,             \* MAX_STEP_UP_FRICTION, in hundredths
    MinArmSize,
    MaxOdds,                 \* one over the propensity that is refused, MIN_PROPENSITY
    MinEffectiveSample,
    Whole,
    MaxCases                 \* bound: cases

VARIABLES
    cases,          \* in the order they came, which is that of their account ids
    taxonomy,       \* the fraud taxonomy is ratified
    fitted          \* the fraud model last fitted, or NotFitted

targetingVars == <<cases, taxonomy, fitted>>

NotFitted == [ratified |-> FALSE, confirmed |-> 0, scope |-> "none"]
Ids == DOMAIN cases
Confirmed == Cardinality({i \in Ids : cases[i].label = 1})

Init == cases = <<>> /\ taxonomy = FALSE /\ fitted = NotFitted

\* A case is closed, or an account's outcome seen.
Record(c) ==
    /\ Len(cases) < MaxCases
    /\ cases' = Append(cases, c)
    /\ UNCHANGED <<taxonomy, fitted>>

\* The Fraud Head approves the codes; labels cite the decision from then on.
Ratify == taxonomy' = TRUE /\ UNCHANGED <<cases, fitted>>

\* Mutant: two states, as if a count were one whatever it counts.
ScopeByCount(ratified, confirmed) ==
    IF confirmed < MinimumConfirmedFrauds THEN "below_minimum" ELSE "in_scope"

\* supervised_layer_scope().
Scope(ratified, confirmed) ==
    CASE ~ratified -> "taxonomy_blocked"
      [] ratified /\ confirmed < MinimumConfirmedFrauds -> "below_minimum"
      [] OTHER -> "in_scope"

\* fit_fraud_model(): the labels and the taxonomy that made them travel with it.
FitFraudModel ==
    /\ Confirmed # 0 /\ Confirmed # Len(cases)
    /\ fitted' = [ratified |-> taxonomy, confirmed |-> Confirmed, scope |-> Scope(taxonomy, Confirmed)]
    /\ UNCHANGED <<cases, taxonomy>>

Next == (\E c \in Case : Record(c)) \/ Ratify \/ FitFraudModel

Spec == Init /\ [][Next]_targetingVars

\* Mutant: the count alone decides.
PromotableByCount(model) == model.confirmed >= MinimumConfirmedFrauds

\* FraudModel.promotable, but for the gate of the trees within.
Promotable(model) == model.ratified /\ model.scope = "in_scope"

-----------------------------------------------------------------------------
(* The ranking: highest score first, then the order of the cases.          *)

\* Mutant: lowest score first.
BeforeRising(i, j) ==
    \/ cases[i].score < cases[j].score
    \/ cases[i].score = cases[j].score /\ i < j

Before(i, j) ==
    \/ cases[i].score > cases[j].score
    \/ cases[i].score = cases[j].score /\ i < j

Prefix(n) == {i \in Ids : Cardinality({j \in Ids : Before(j, i)}) < n}
Bad(ids) == Cardinality({i \in ids : cases[i].label = 1})

\* Those at a score or above it: precision_recall_curve() takes equal scores together.
AtLeast(score) == {i \in Ids : cases[i].score >= score}
Thresholds == {cases[i].score : i \in Ids}
Part(a, n) == IF n = 0 THEN 0 ELSE (Whole * a) \div n

\* Mutant: a step of the sum at every case, equal scores or not.
AveragePrecisionByCase ==
    MapThenSumSet(LAMBDA n : (Bad(Prefix(n)) - Bad(Prefix(n - 1))) * Part(Bad(Prefix(n)), n), Ids)

\* average_precision() times the confirmed frauds: the step-wise sum, not trapezes.
AveragePrecision ==
    MapThenSumSet(
        LAMBDA t : LET above == {i \in Ids : cases[i].score > t}
                   IN (Bad(AtLeast(t)) - Bad(above)) * Part(Bad(AtLeast(t)), Cardinality(AtLeast(t))),
        Thresholds)

\* round() of a quotient: halves go to the even neighbour.
Rounded(a, b) ==
    LET q == a \div b IN
    IF 2 * (a % b) < b \/ (2 * (a % b) = b /\ q % 2 = 0) THEN q ELSE q + 1

\* _at_alert_rate().
Budget == Max({1, Rounded(AlertRate[1] * Len(cases), AlertRate[2])})
Alerted == Prefix(Budget)

\* step_up_friction(): of those who proved good, those stepped up.
Friction(stepped_up) ==
    LET goods == {i \in Ids : cases[i].label = 0}
    IN <<Cardinality(goods \cap stepped_up), Cardinality(goods)>>

\* evaluate(): it raises with no confirmed fraud, or with flags and nobody good; the
\* flags may be None.
Evaluate(stepped_up) ==
    [n |-> Len(cases), confirmed_frauds |-> Confirmed, average_precision |-> AveragePrecision,
     caught |-> Bad(Alerted), alerted |-> Cardinality(Alerted),
     step_up_friction |-> IF stepped_up = None THEN None ELSE Friction(stepped_up)]
FrictionWithinTolerance(evaluation) ==
    LET friction == evaluation.step_up_friction IN
    IF friction = None THEN None ELSE 100 * friction[1] < MaxFriction * friction[2]

-----------------------------------------------------------------------------
(* Uplift.                                                                 *)

Arm(treated, ids) == {i \in ids : cases[i].treated = treated}

\* ActionLog.__post_init__() and the guard: a claim of randomization has a name.
Claim == [assignment : {"randomized", "observational", "unknown"}, by : {None, "desk"}]
Identifiable(claim) == claim.assignment = "randomized" /\ claim.by # None

\* estimate_uplift(): the difference of the arms' rates.
Estimable(claim) ==
    /\ Identifiable(claim)
    /\ \A treated \in BOOLEAN : Cardinality(Arm(treated, Ids)) >= MinArmSize
Effect ==
    Part(Bad(Arm(TRUE, Ids)), Cardinality(Arm(TRUE, Ids)))
    - Part(Bad(Arm(FALSE, Ids)), Cardinality(Arm(FALSE, Ids)))

\* Mutant: the control outcomes scaled by the wrong ratio.
IncrementalSwapped(n) ==
    LET t == Arm(TRUE, Prefix(n)) c == Arm(FALSE, Prefix(n))
    IN Whole * Bad(t) - Part(Bad(c) * Cardinality(c), Cardinality(t))

\* qini_curve(): the treated outcomes of the first n, minus the control outcomes
\* scaled to the size of the treated arm.
Incremental(n) ==
    LET t == Arm(TRUE, Prefix(n)) c == Arm(FALSE, Prefix(n))
    IN Whole * Bad(t) - Part(Bad(c) * Cardinality(t), Cardinality(c))

-----------------------------------------------------------------------------
(* Balance.                                                                *)

With(treated) == {i \in Arm(treated, Ids) : cases[i].covariate # None}
Total(ids) == MapThenSumSet(LAMBDA i : cases[i].covariate, ids)
Spread(ids) ==      \* the size squared times the variance, over size times degrees
    [num |-> Cardinality(ids) * MapThenSumSet(LAMBDA i : cases[i].covariate * cases[i].covariate, ids)
             - Total(ids) * Total(ids),
     den |-> Cardinality(ids) * Max({1, Cardinality(ids) - 1})]

\* The means differ by more than a tenth of the pooled deviation, which may be 0.
Apart(t, c) ==
    LET gap == Total(t) * Cardinality(c) - Total(c) * Cardinality(t)
        size == Cardinality(t) * Cardinality(c)
        vt == Spread(t) vc == Spread(c)
    IN 200 * gap * gap * vt.den * vc.den > size * size * (vt.num * vc.den + vc.num * vt.den)

\* Mutant: without a variance there is no difference.
FlaggedIfSpread ==
    LET t == With(TRUE) c == With(FALSE)
    IN t # {} /\ c # {} /\ Spread(t).num + Spread(c).num > 0 /\ Apart(t, c)

\* check_randomization() of the covariate, over those that recorded it.
Flagged ==
    LET t == With(TRUE) c == With(FALSE)
    IN t # {} /\ c # {} /\ Apart(t, c)

-----------------------------------------------------------------------------
(* Off-policy evaluation of the cases as logged decisions: a score is the context, *)
(* treated the action, a label the reward, odds one over the propensity.  A target *)
(* policy has an action for every context, a reward model a reward for both.       *)

Context == {cases[i].score : i \in Ids}
Policies == [Context -> BOOLEAN]
RewardModels == [Context \X BOOLEAN -> 0..1]
Agreeing(policy) == {i \in Ids : policy[cases[i].score] = cases[i].treated}
Odds(ids) == MapThenSumSet(LAMBDA i : cases[i].odds, ids)
Squares(ids) == MapThenSumSet(LAMBDA i : cases[i].odds * cases[i].odds, ids)

\* check_positivity(): no row of tiny propensity, and no action that was never logged.
Violations == {i \in Ids : cases[i].odds >= MaxOdds}
Unsupported(policy) == {policy[x] : x \in Context} \ {cases[i].treated : i \in Ids}

\* Mutant: the weights themselves, a thousand rows in one.
EffectiveByWeight(policy) == Odds(Agreeing(policy)) >= MinEffectiveSample

\* Kish: the square of the sum of the weights over the sum of their squares.
Effective(policy) ==
    LET total == Odds(Agreeing(policy))
    IN total * total >= MinEffectiveSample * Squares(Agreeing(policy))

\* evaluate_policy() gives an estimate.
Evaluable(policy) ==
    /\ cases # <<>> /\ Violations = {}
    /\ Unsupported(policy) = {} /\ Effective(policy) /\ Agreeing(policy) # {}

\* Mutant: a residual counts once, however seldom its action was taken.
CorrectionOnce(i, model) == cases[i].label - model[cases[i].score, cases[i].treated]

\* What the log says beyond the reward model.
Correction(i, model) ==
    cases[i].odds * (cases[i].label - model[cases[i].score, cases[i].treated])

\* The doubly robust estimate times the rows.
DoublyRobust(policy, model) ==
    MapThenSumSet(LAMBDA i : model[cases[i].score, policy[cases[i].score]], Ids)
    + MapThenSumSet(LAMBDA i : Correction(i, model), Agreeing(policy))

\* DoublyRobustEstimate.lift, times the rows.
Lift(policy, model) == DoublyRobust(policy, model) - Bad(Ids)

-----------------------------------------------------------------------------
(* Properties.                                                             *)

\* A model to be promoted was fitted on confirmed fraud: enough cases under codes that
\* someone approved, however much earlier it was fitted (supervised.py:85-118).
PromotableIsConfirmed ==
    Promotable(fitted) => taxonomy /\ Confirmed >= MinimumConfirmedFrauds

\* Three states are told apart: too few frauds is never said of labels that nobody
\* defined, nor the other way round.
ScopeIsTold ==
    fitted # NotFitted =>
        (fitted.scope = "below_minimum" => fitted.ratified)
        /\ (fitted.scope = "taxonomy_blocked" => ~fitted.ratified)

\* The area is the mean, over the confirmed, of the precision down to their score:
\* no order among equal scores can change it.
AreaIsMeanPrecision ==
    Confirmed > 0 =>
        AveragePrecision =
            MapThenSumSet(LAMBDA i : Part(Bad(AtLeast(cases[i].score)), Cardinality(AtLeast(cases[i].score))),
                          {j \in Ids : cases[j].label = 1})

\* The queue holds the budget, and nobody outside scores above one within: what is
\* caught lies between two neighbours of the curve, and on it if no tie is cut.
AlertsAreTheTop ==
    Confirmed > 0 =>
        LET last == Min({cases[i].score : i \in Alerted})
            above == {i \in Ids : cases[i].score > last}
        IN /\ Cardinality(Alerted) = Budget
           /\ above \subseteq Alerted /\ Alerted \subseteq AtLeast(last)
           /\ Bad(above) <= Bad(Alerted) /\ Bad(Alerted) <= Bad(AtLeast(last))

\* Recall has its price in the same queue: if those alerted are the ones stepped up,
\* whoever is not caught is a good customer, so the recall and the friction of one
\* evaluation fix each other, and a longer queue buys neither back.  A queue within
\* tolerance reaches all the fraud only if the scores put hardly anybody good above it.
FrictionIsTheRest ==
    Confirmed \notin {0, Len(cases)} =>
        LET e == Evaluate(Alerted) IN
        /\ e.caught + e.step_up_friction[1] = e.alerted
        /\ \A n \in Ids : Friction(Prefix(n - 1))[1] <= Friction(Prefix(n))[1]
        /\ FrictionWithinTolerance(e) /\ e.caught = e.confirmed_frauds =>
             \A i \in Ids : cases[i].label = 1 =>
                 100 * Cardinality({j \in Ids : cases[j].label = 0 /\ Before(j, i)})
                     < MaxFriction * (e.n - e.confirmed_frauds)

\* Two routes to one figure: the curve ends at the effect on the treated.
CurveEndsAtTheEffect ==
    \A claim \in Claim :
        Estimable(claim) => Incremental(Len(cases)) = Cardinality(Arm(TRUE, Ids)) * Effect

\* A covariate that tells the arms apart is flagged, constant within them or not; one
\* with the same mean is not.
SeparationIsFlagged ==
    LET t == With(TRUE) c == With(FALSE) IN
    t # {} /\ c # {} =>
        /\ (\A i \in t, j \in c : cases[i].covariate > cases[j].covariate) => Flagged
        /\ Total(t) * Cardinality(c) = Total(c) * Cardinality(t) => ~Flagged

\* Right if the propensities are: of a log that took both actions as often in every
\* context, and so each at one in two, no reward model changes the value, which is that
\* of the rewards that the policy's own actions had.
RightByPropensity ==
    (/\ \A i \in Ids : cases[i].odds = 2
     /\ \A x \in Context : LET of == {i \in Ids : cases[i].score = x}
                           IN 2 * Cardinality({i \in of : cases[i].treated}) = Cardinality(of)) =>
        \A policy \in Policies : Evaluable(policy) =>
            \A model \in RewardModels : DoublyRobust(policy, model) = 2 * Bad(Agreeing(policy))

\* Right if the reward model is: one that gives every logged reward is believed, at
\* whatever propensities were written down.
RightByModel ==
    \A model \in {m \in RewardModels : \A i \in Ids : m[cases[i].score, cases[i].treated] = cases[i].label} :
        \A policy \in Policies :
            DoublyRobust(policy, model)
                = MapThenSumSet(LAMBDA i : model[cases[i].score, policy[cases[i].score]], Ids)

\* No estimate rests on fewer rows than the floor, whatever they weigh; and the policy
\* that made the log, always sure of itself, has no lift over it.
EstimateHasEvidence ==
    \A policy \in Policies : Evaluable(policy) =>
        /\ Cardinality(Agreeing(policy)) >= MinEffectiveSample
        /\ (Agreeing(policy) = Ids /\ \A i \in Ids : cases[i].odds = 1) =>
               \A model \in RewardModels : Lift(policy, model) = 0

TargetingSound ==
    /\ PromotableIsConfirmed
    /\ ScopeIsTold
    /\ AreaIsMeanPrecision
    /\ AlertsAreTheTop
    /\ FrictionIsTheRest
    /\ CurveEndsAtTheEffect
    /\ SeparationIsFlagged
    /\ RightByPropensity
    /\ RightByModel
    /\ EstimateHasEvidence

=============================================================================
