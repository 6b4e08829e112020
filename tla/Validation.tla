----------------------------- MODULE Validation -----------------------------
(* What a scorecard is judged by before it decides anything: the reliability *)
(* diagram, the shift between those booked and those declined, the swap set, *)
(* the rates of the protected groups and the exit criteria                   *)
(* (scoring/validation.py, calibration.py, fairness.py, rejects.py).         *)
(*                                                                           *)
(* A score is a natural number, rising with risk; a share is a pair of       *)
(* counts.  The logarithms of the stability index and the square roots of    *)
(* the Wilson interval are left out: what is told apart is which counts they *)
(* are taken of.                                                             *)
EXTENDS Integers, Sequences, FiniteSets, FiniteSetsExt

CONSTANTS
    Applicant,      \* the applicants there may be: their score, outcome, champion's
                    \* decision and group
    Cutoff,         \* the challenger approves up to this score
    Group,          \* values of a protected attribute
    Unknown,        \* no protected attribute is recorded
    Bins,           \* bins of a diagram and of the stability index
    Folds,          \* folds of the cross-fitting
    MinSample,      \* rows an isotonic calibrator needs
    MinPositives,   \* events an isotonic calibrator needs
    Open,           \* a criterion nobody could evaluate
    MaxRows         \* bound: applicants in all, booked and declined

VARIABLES
    booked,         \* applicants with an observed outcome, in the order of the table
    declined,       \* scores of the applicants the bank declined
    crossFitted,    \* the rows each row's model was fitted on, once cross-fitted
    exit            \* the exit criteria of the latest report

validationVars == <<booked, declined, crossFitted, exit>>

Rows == DOMAIN booked
Among(Test(_)) == Cardinality({i \in Rows : Test(i)})
Bad(i) == booked[i].bad

-----------------------------------------------------------------------------
(* The reliability diagram.                                                *)

\* Rows by score alone; rows of one score keep the order of the table.
Ahead(j, i) == booked[j].score < booked[i].score \/ (booked[j].score = booked[i].score /\ j <= i)
Ordered == [k \in Rows |-> CHOOSE i \in Rows : Among(LAMBDA j : Ahead(j, i)) = k]
ScoreAt(k) == booked[Ordered[k]].score

BinSize == LET size == Len(booked) \div Bins IN IF size = 0 THEN 1 ELSE size

StopAfterCut(start) == Min({start + BinSize, Len(booked)})

\* A bin is a range of scores: it runs on while the score is that of the row before.
StopAfter(start) ==
    LET stop == Min({start + BinSize, Len(booked)})
    IN Max({s \in stop..Len(booked) : \A k \in stop..(s - 1) : ScoreAt(k + 1) = ScoreAt(k)})

Reliability ==
    LET from[start \in 0..Len(booked)] ==
          IF start = Len(booked) THEN {}
          ELSE {(start + 1)..StopAfter(start)} \cup from[StopAfter(start)]
    IN {{Ordered[k] : k \in bin} : bin \in from[0]}

\* The expected calibration error is the count-weighted gap of these bins.
Observed(bin) == <<Cardinality({i \in bin : Bad(i)}), Cardinality(bin)>>

RecommendCalibrator ==
    IF Len(booked) < MinSample \/ Among(Bad) < MinPositives THEN "platt" ELSE "isotonic"

-----------------------------------------------------------------------------
(* Stability: the declined against the booked.                             *)

Edges ==
    LET n == Len(booked)
    IN {ScoreAt(Min({n - 1, (k * n) \div Bins}) + 1) : k \in 1..(Bins - 1)}

\* bisect_right(): the edges at or below the score.
BinOf(score, edges) == Cardinality({e \in edges : e <= score})

Proportion(scores, edges, b) ==
    <<Cardinality({k \in DOMAIN scores : BinOf(scores[k], edges) = b}), Len(scores)>>

BookedScores == [i \in Rows |-> booked[i].score]
SelectionBins ==
    [b \in 0..Cardinality(Edges) |->
        [reference |-> Proportion(BookedScores, Edges, b),
         current |-> Proportion(declined, Edges, b)]]

-----------------------------------------------------------------------------
(* The swap set: who the challenger decides differently.                   *)

Champion(i) == booked[i].champion
Challenger(i) == booked[i].score <= Cutoff

SwapIn(i) == ~Champion(i) /\ Challenger(i)
SwapOut(i) == Champion(i) /\ ~Challenger(i)
BothApprove(i) == Champion(i) /\ Challenger(i)
BothDecline(i) == ~Champion(i) /\ ~Challenger(i)

SwapSets ==
    [both_approve |-> Among(BothApprove), both_decline |-> Among(BothDecline),
     swap_in |-> Among(SwapIn), swap_out |-> Among(SwapOut),
     swap_in_bads |-> Among(LAMBDA i : SwapIn(i) /\ Bad(i)),
     swap_out_bads |-> Among(LAMBDA i : SwapOut(i) /\ Bad(i)),
     segment_swap_out |-> [g \in Group |-> Among(LAMBDA i : SwapOut(i) /\ booked[i].group = g)],
     segment_population |-> [g \in Group |-> Among(LAMBDA i : booked[i].group = g)]]

-----------------------------------------------------------------------------
(* The days of a shadow run (serving/shadow.py): a day is a set of rows.   *)

\* compare_day(), of a day with applications.
CompareDay(rows) ==
    [scored |-> Cardinality(rows), differ |-> Cardinality({i \in rows : SwapIn(i) \/ SwapOut(i)})]
DisagreementRate(rows) == <<CompareDay(rows).differ, CompareDay(rows).scored>>

\* ShadowReport.mean_disagreement: the mean of the days' rates, not that of all rows.
MeanDisagreement(days) ==
    LET Plus(r, s) == <<r[1] * s[2] + s[1] * r[2], r[2] * s[2]>>
        total == MapThenFoldSet(Plus, <<0, 1>>, DisagreementRate, LAMBDA D : CHOOSE d \in D : TRUE, days)
    IN <<total[1], total[2] * Cardinality(days)>>

-----------------------------------------------------------------------------
(* Fairness: the rates of each group, the challenger's approval being the  *)
(* favourable outcome and a default the positive one.                      *)

In(i, g) == booked[i].group = g
GroupRates(g) ==
    [n |-> Among(LAMBDA i : In(i, g)),
     selected |-> Among(LAMBDA i : In(i, g) /\ Challenger(i)),
     positives |-> Among(LAMBDA i : In(i, g) /\ Bad(i)),
     true_positives |-> Among(LAMBDA i : In(i, g) /\ Bad(i) /\ ~Challenger(i)),
     false_positives |-> Among(LAMBDA i : In(i, g) /\ ~Bad(i) /\ ~Challenger(i))]

\* Rates with a denominator: <<numerator, denominator>> of the groups that have one.
Defined(rates) == {r \in rates : r[2] # 0}
Selection == Defined({<<GroupRates(g).selected, GroupRates(g).n>> : g \in Group})
TruePositive == Defined({<<GroupRates(g).true_positives, GroupRates(g).positives>> : g \in Group})
FalsePositive ==
    Defined({<<GroupRates(g).false_positives, GroupRates(g).n - GroupRates(g).positives>> : g \in Group})
Having(Rate(_)) == {g \in Group : Rate(GroupRates(g)) # 0}

\* a - b of two rates, as a rate; and its order.
Gap(a, b) == <<a[1] * b[2] - b[1] * a[2], a[2] * b[2]>>
LEQ(a, b) == a[1] * b[2] <= b[1] * a[2]
Widest(rates) == CHOOSE w \in {Gap(a, b) : a, b \in rates} : \A a, b \in rates : LEQ(Gap(a, b), w)
Wider(v, w) == IF LEQ(v, w) THEN w ELSE v

\* A disparity needs two groups with a rate; it is Open otherwise.
DemographicParityDifference ==
    IF Cardinality(Having(LAMBDA r : r.n)) < 2 THEN Open ELSE Widest(Selection)
DemographicParityRatio ==
    IF Cardinality(Having(LAMBDA r : r.n)) < 2 \/ \A s \in Selection : s[1] = 0 THEN Open
    ELSE LET low == CHOOSE s \in Selection : \A t \in Selection : LEQ(s, t)
             high == CHOOSE s \in Selection : \A t \in Selection : LEQ(t, s)
         IN <<low[1] * high[2], high[1] * low[2]>>
EqualOpportunityDifference ==
    IF Cardinality(Having(LAMBDA r : r.positives)) < 2 THEN Open ELSE Widest(TruePositive)
EqualizedOddsDifference ==
    IF \/ Cardinality(Having(LAMBDA r : r.positives)) < 2
       \/ Cardinality(Having(LAMBDA r : r.n - r.positives)) < 2
    THEN Open ELSE Wider(Widest(TruePositive), Widest(FalsePositive))

\* Rows of no recorded group are left out, and their number is reported.
ExcludedUnknown == Among(LAMBDA i : In(i, Unknown))

-----------------------------------------------------------------------------
(* Exit criteria: each is met, not met, or Open with the reason why.       *)

\* What a report was given; a measure nobody supplied is Open.
Evidence ==
    [role : {"champion", "challenger"}, out_of_time : BOOLEAN, uplift : {-1, 0, 3, Open},
     brier_kept : BOOLEAN \cup {Open}, violations : {0, 1, Open}, stable : BOOLEAN]

GiniUpliftRequired(role) == IF role = "challenger" THEN 3 ELSE 0

ExitCriteria(e) ==
    [gini_uplift |->
        IF e.uplift = Open \/ ~e.out_of_time THEN Open
        ELSE e.uplift >= GiniUpliftRequired(e.role),
     brier |-> e.brier_kept,
     monotonicity |-> IF e.violations = Open THEN Open ELSE e.violations = 0,
     score_stability |-> e.stable,
     swap_set |-> Open]

-----------------------------------------------------------------------------

NotYet == <<>>

Init == booked = <<>> /\ declined = <<>> /\ crossFitted = NotYet /\ exit = NotYet

\* An outcome is observed; measures taken before it are of another table.
Book(a) ==
    /\ Len(booked) + Len(declined) < MaxRows
    /\ booked' = Append(booked, a)
    /\ crossFitted' = NotYet /\ exit' = NotYet /\ UNCHANGED declined

Decline(score) ==
    /\ Len(booked) + Len(declined) < MaxRows
    /\ declined' = Append(declined, score)
    /\ crossFitted' = NotYet /\ exit' = NotYet /\ UNCHANGED booked

Shuffle == {order \in [Rows -> Rows] : \A i, j \in Rows : order[i] = order[j] => i = j}

\* cross_fitted_scores(): the folds are dealt out over a shuffled order of the rows; the
\* declined are none of them.
CrossFit ==
    /\ Len(booked) >= Folds /\ crossFitted = NotYet /\ declined = <<>>
    /\ \E order \in Shuffle :
        LET fold == [i \in Rows |-> order[i] % Folds]
        IN crossFitted' = [i \in Rows |-> {j \in Rows : fold[j] # fold[i]}]
    /\ UNCHANGED <<booked, declined, exit>>

\* validate(), on a table it can measure; one report of a table is enough here.
Validate ==
    /\ exit = NotYet /\ Len(booked) = 1 /\ declined = <<>>
    /\ \E e \in Evidence : exit' = [given |-> e, criteria |-> ExitCriteria(e)]
    /\ UNCHANGED <<booked, declined, crossFitted>>

Next ==
    \/ \E a \in Applicant : Book(a)
    \/ \E a \in Applicant : Decline(a.score)
    \/ CrossFit
    \/ Validate

Spec == Init /\ [][Next]_validationVars

-----------------------------------------------------------------------------

\* A bin is a range of predicted probability: it holds all the rows of its range, so
\* that no outcome decides where a row is drawn, and no row and no outcome is lost
\* (reliability()).
DiagramIsOfRanges ==
    /\ UNION Reliability = Rows
    /\ MapThenSumSet(LAMBDA bin : Observed(bin)[1], Reliability) = Among(Bad)
    /\ \A bin \in Reliability : \A i \in Rows :
         (/\ \E j \in bin : booked[j].score <= booked[i].score
          /\ \E j \in bin : booked[i].score <= booked[j].score) => i \in bin

\* Every bin but the lowest holds rows of the reference, so that no share is compared
\* with an empty one (score_psi(): the edges are the reference's own).
ReferenceFillsBins ==
    booked # <<>> => \A b \in 1..Cardinality(Edges) : SelectionBins[b].reference[1] > 0

\* The swap set accounts for the change of the book: what the challenger approves, and
\* the bad among it, is what the champion approved with the swaps made (swap_sets()).
SwapsReconcile ==
    LET s == SwapSets
    IN /\ Among(Challenger) = Among(Champion) + s.swap_in - s.swap_out
       /\ Among(LAMBDA i : Challenger(i) /\ Bad(i))
            = Among(LAMBDA i : Champion(i) /\ Bad(i)) + s.swap_in_bads - s.swap_out_bads
       /\ s.both_approve + s.both_decline + s.swap_in + s.swap_out = Len(booked)

\* A day of shadow counts as one day however busy it was: the mean of two lies between
\* the calm one and the rough one, is nothing only if the two models decide everybody
\* alike, and is the rate of the whole run if the days were equally busy
\* (shadow.compare_day(), ShadowReport).
MeanOfTheDays ==
    \A cut \in 1..(Len(booked) - 1) :
        LET days == {1..cut, (cut + 1)..Len(booked)}
            mean == MeanDisagreement(days)
            pooled == DisagreementRate(Rows)
        IN /\ \E calm, rough \in days : LEQ(DisagreementRate(calm), mean) /\ LEQ(mean, DisagreementRate(rough))
           /\ mean[1] = 0 <=> \A i \in Rows : Champion(i) = Challenger(i)
           /\ 2 * cut = Len(booked) => LEQ(mean, pooled) /\ LEQ(pooled, mean)

\* The two parity measures call the same books even, and the odds never hide the gap of
\* opportunity they contain (fairness.py).
DisparitiesAgree ==
    /\ DemographicParityRatio # Open =>
         (DemographicParityDifference[1] = 0
            <=> DemographicParityRatio[1] = DemographicParityRatio[2])
    /\ EqualizedOddsDifference # Open => LEQ(EqualOpportunityDifference, EqualizedOddsDifference)
    /\ MapThenSumSet(LAMBDA g : GroupRates(g).n, Group) + ExcludedUnknown = Len(booked)

\* No row is scored by a model that saw it, and every row is scored by one that saw
\* something (cross_fitted_scores()).
OutOfFold ==
    \A i \in DOMAIN crossFitted : i \notin crossFitted[i] /\ crossFitted[i] # {}

\* An uplift measured in time decides nothing, neither role is judged by the other's
\* bar, and no report closes every criterion (exit_criteria()).
ExitIsEarned ==
    exit # NotYet =>
      LET e == exit.given c == exit.criteria
      IN /\ c.gini_uplift = TRUE => e.out_of_time /\ (e.uplift >= 3 \/ e.role = "champion")
         /\ c.gini_uplift = FALSE => e.out_of_time
         /\ \A name \in DOMAIN c : c[name] = TRUE => name # "swap_set"
         /\ (e.uplift = Open => c.gini_uplift = Open) /\ (e.violations = Open => c.monotonicity = Open)

\* The above, and the isotonic steps are not recommended to a handful of rows.
ValidationSound ==
    /\ DiagramIsOfRanges /\ ReferenceFillsBins /\ SwapsReconcile /\ MeanOfTheDays /\ DisparitiesAgree
    /\ OutOfFold /\ ExitIsEarned
    /\ RecommendCalibrator = "isotonic" => Len(booked) >= MinSample

=============================================================================
