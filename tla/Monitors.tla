------------------------------ MODULE Monitors ------------------------------
(* What watches one series of figures: the adaptive window and the two-sided *)
(* chart of portfolio/health.py, the seasonal test for outliers of           *)
(* portfolio/opsanomaly.py, and the run lengths of ews/bocpd.py, all fed the *)
(* same observations.                                                        *)
(*                                                                           *)
(* Observations are integers.  The bounds the code computes from logarithms  *)
(* and quantiles are tables here; a probability is a weight, not normalised. *)
EXTENDS Integers, Sequences, FiniteSets, FiniteSetsExt

CONSTANTS
    Observation,    \* what a period may show, above or below what was expected
    MinSubwindow,   \* MIN_SUBWINDOW
    Separation,     \* how far two means must lie apart, over the harmonic size
    Shift,          \* reference_shift of the chart
    Interval,       \* decision_interval of the chart
    Period,         \* of the season
    Critical,       \* tenths of the deviation an outlier exceeds, by sample size
    MaxFraction,    \* a ratio: the share of the series that may be anomalous
    Hazard,         \* a ratio: the chance that a regime ends
    Near,           \* an observation this close to the mean of a run is likely under it
    Threshold,      \* a ratio: above it a change is declared
    MaxLength       \* bound: observations

VARIABLES
    series,         \* the observations
    start,          \* the adaptive window holds those after this many
    changes,        \* the change points it reported
    chart,          \* the chart's two sums, by period
    weight,         \* of each run length: weight[r + 1] is that of length r
    declared        \* the indices at which a change of regime was declared

monitorVars == <<series, start, changes, chart, weight, declared>>

Abs(n) == IF n < 0 THEN -n ELSE n
Sum(s) == LET f[k \in 0..Len(s)] == IF k = 0 THEN 0 ELSE f[k - 1] + s[k] IN f[Len(s)]

\* The sequence itself; its entries are computed once.
Listed(s) == s \o <<>>

-----------------------------------------------------------------------------
(* The adaptive window.                                                    *)

\* The two means differ by more than the bound, in integers.
Separated(left, right) ==
    LET n0 == Len(left)  n1 == Len(right)
    IN Abs(Sum(left) * n1 - Sum(right) * n0) > Separation * (n0 + n1)

Cuts(observed, from) ==
    {cut \in (from + MinSubwindow)..(Len(observed) - MinSubwindow) :
        Separated(SubSeq(observed, from + 1, cut), SubSeq(observed, cut + 1, Len(observed)))}

\* The older part goes at the first cut, and the rest is searched again.
ShrunkOnce(observed, from) ==
    IF Cuts(observed, from) = {} THEN <<>> ELSE <<Min(Cuts(observed, from))>>

Shrunk(observed, from) ==
    LET f[k \in 0..Len(observed)] ==
            IF Cuts(observed, k) = {} THEN <<>>
            ELSE LET cut == Min(Cuts(observed, k)) IN <<cut>> \o f[cut]
    IN f[from]

-----------------------------------------------------------------------------
(* The two-sided chart.                                                    *)

Larger(a, b) == IF a > b THEN a ELSE b
Latest == IF chart = <<>> THEN [upper |-> 0, lower |-> 0] ELSE chart[Len(chart)]

\* Both sides take every observation; neither is reset by an alarm.
ChartAfter(sums, z) ==
    [upper |-> Larger(0, sums.upper + z - Shift), lower |-> Larger(0, sums.lower - z - Shift)]

Alarm(sums) ==
    CASE sums.upper > Interval -> "under_predicting"
      [] sums.upper <= Interval /\ sums.lower > Interval -> "over_predicting"
      [] OTHER -> "none"

-----------------------------------------------------------------------------
(* Outliers of a seasonal series.                                          *)

\* Medians are of figures times 16: four of them in a row halve exactly.
Scaled(observed) == Listed([i \in DOMAIN observed |-> 16 * observed[i]])

Ranked(s, k) ==
    CHOOSE v \in {s[i] : i \in DOMAIN s} :
        /\ Cardinality({i \in DOMAIN s : s[i] < v}) < k
        /\ Cardinality({i \in DOMAIN s : s[i] <= v}) >= k

Median(s) ==
    LET n == Len(s)
    IN IF n % 2 = 1 THEN Ranked(s, (n + 1) \div 2)
       ELSE (Ranked(s, n \div 2) + Ranked(s, n \div 2 + 1)) \div 2

Deviations(s, centre) == Listed([i \in DOMAIN s |-> Abs(s[i] - centre)])

\* Entries of s at the positions of a set, in order.
At(s, positions) ==
    Listed([k \in 1..Cardinality(positions) |->
        s[CHOOSE i \in positions : Cardinality({j \in positions : j <= i}) = k]])

Seasonal(s) ==
    LET Bucket(r) == {i \in DOMAIN s : (i - 1) % Period = r}
        medians == Listed([r \in 1..Period |-> Median(At(s, Bucket(r - 1)))])
        overall == Median(medians)
    IN Listed([i \in DOMAIN s |-> medians[((i - 1) % Period) + 1] - overall])

Residuals(s) ==
    LET seasonal == Seasonal(s)
        baseline == Median(s)
    IN Listed([i \in DOMAIN s |-> s[i] - seasonal[i] - baseline])

MaxAnomalies(n) == Larger(1, (n * MaxFraction[1]) \div MaxFraction[2])

\* The most extreme of those left, the earliest of equals.
Worst(w, left) ==
    LET centre == Median(At(w, left))
    IN CHOOSE i \in left :
        \A j \in left \ {i} :
            \/ Abs(w[i] - centre) > Abs(w[j] - centre)
            \/ Abs(w[i] - centre) = Abs(w[j] - centre) /\ i < j

\* One candidate after the other is taken out, while the rest still spreads.
Candidates(w) ==
    LET f[k \in 0..MaxAnomalies(Len(w))] ==
            IF k = 0 THEN <<>>
            ELSE LET left == DOMAIN w \ {f[k - 1][i].index : i \in DOMAIN f[k - 1]}
                     sample == At(w, left)
                     centre == Median(sample)
                     spread == Median(Deviations(sample, centre))
                     worst == Worst(w, left)
                 IN IF Len(f[k - 1]) < k - 1 \/ Len(sample) < 3 \/ spread = 0 THEN f[k - 1]
                    ELSE Append(f[k - 1],
                            [index |-> worst, high |-> w[worst] > 0,
                             exceeds |-> 10 * Abs(w[worst] - centre)
                                         > Critical[Len(sample)] * spread])
    IN f[MaxAnomalies(Len(w))]

\* Everything up to the last candidate over its critical value: an extreme that masked
\* another is declared with it.
DetectFirst(observed) ==
    LET candidates == Candidates(Residuals(Scaled(observed)))
        found == {k \in DOMAIN candidates : \A j \in 1..k : candidates[j].exceeds}
    IN [k \in 1..Max({0} \cup found) |-> candidates[k]]

Detect(observed) ==
    LET candidates == Candidates(Residuals(Scaled(observed)))
        found == {k \in DOMAIN candidates : candidates[k].exceeds}
    IN [k \in 1..Max({0} \cup found) |-> candidates[k]]

Testable(observed) == Len(observed) >= 2 * Period

-----------------------------------------------------------------------------
(* Run lengths.                                                            *)

\* How likely x is after a run of length r; after none, under the prior.
Predictive(observed, r, x) ==
    IF r = 0 THEN 2
    ELSE LET run == SubSeq(observed, Len(observed) - r + 1, Len(observed))
         IN IF Abs(r * x - Sum(run)) <= r * Near THEN 4 ELSE 1

\* A run grows or ends; it ends with the same chance whatever its length.
GrownFromLongest(observed, x) ==
    LET joint == Listed([k \in DOMAIN weight |-> weight[k] * Predictive(observed, k - 1, x)])
    IN <<Hazard[1] * joint[Len(joint)]>>
       \o [k \in DOMAIN joint |-> (Hazard[2] - Hazard[1]) * joint[k]]

Grown(observed, x) ==
    LET joint == Listed([k \in DOMAIN weight |-> weight[k] * Predictive(observed, k - 1, x)])
    IN <<Hazard[1] * Sum(joint)>>
       \o [k \in DOMAIN joint |-> (Hazard[2] - Hazard[1]) * joint[k]]

\* The regime that began with the latest observation has run length 1.
ChangeDeclared(weights) == Threshold[2] * weights[2] > Threshold[1] * Sum(weights)

-----------------------------------------------------------------------------
Init ==
    /\ series = <<>> /\ start = 0 /\ changes = <<>> /\ chart = <<>>
    /\ weight = <<1>> /\ declared = {}

\* A period is observed.  The first observation begins a regime and declares none.
Observe(x) ==
    LET observed == Append(series, x)
        cuts == Shrunk(observed, start)
        weights == Grown(series, x)
    IN /\ Len(series) < MaxLength
       /\ series' = observed
       /\ changes' = changes \o cuts
       /\ start' = IF cuts = <<>> THEN start ELSE cuts[Len(cuts)]
       /\ chart' = Append(chart, ChartAfter(Latest, x))
       /\ weight' = weights
       /\ declared' = IF series # <<>> /\ ChangeDeclared(weights)
                      THEN declared \cup {Len(series)} ELSE declared

Next == \E x \in Observation : Observe(x)

Spec == Init /\ [][Next]_monitorVars

-----------------------------------------------------------------------------
(* Properties.                                                             *)

\* The window is one regime: it holds all that was observed since the latest change
\* reported, no split of it is separated any more, and every change lies after the one
\* before (Adwin.update).
WindowIsOneRegime ==
    /\ Cuts(series, start) = {}
    /\ start = IF changes = <<>> THEN 0 ELSE changes[Len(changes)]
    /\ \A i, j \in DOMAIN changes : i < j => changes[i] + MinSubwindow <= changes[j]
    /\ Len(series) - start >= IF changes = <<>> THEN 0 ELSE MinSubwindow

Excess(t, sign) ==
    {Sum([k \in 1..(t - s) |-> sign * series[s + k] - Shift]) : s \in 0..t}

\* Each side of the chart is the largest excess of any run of periods that ends now, so
\* that a drift alarms whichever way it goes, and however long good periods hid it
\* (calibration_drift).
ChartIsTheLargestExcess ==
    \A t \in DOMAIN chart :
        /\ chart[t].upper = Max(Excess(t, 1)) /\ chart[t].lower = Max(Excess(t, -1))
        /\ (Alarm(chart[t]) = "none") = (Max(Excess(t, 1) \cup Excess(t, -1)) <= Interval)

Indices(found) == {found[k].index : k \in DOMAIN found}

\* The outliers are a minority, none is named twice, the last is over its critical
\* value; raising every figure alike changes none of them, and turning the series
\* upside down turns each of them (opsanomaly.detect).
OutliersStand ==
    Testable(series) =>
        LET found == Detect(series)
            raised == Detect([i \in DOMAIN series |-> series[i] + 3])
            turned == Detect([i \in DOMAIN series |-> -series[i]])
        IN /\ 2 * Len(found) < Len(series) /\ Cardinality(Indices(found)) = Len(found)
           /\ Indices(raised) = Indices(found) /\ Indices(turned) = Indices(found)
           /\ \A k \in DOMAIN found : found[k].high => ~turned[k].high
           /\ \A k \in DOMAIN Candidates(Residuals(Scaled(series))) :
                 k > Len(found) => ~Candidates(Residuals(Scaled(series)))[k].exceeds

\* The weight of run length 0 is the hazard at every step, whatever was observed, and so
\* no evidence; an observation that every run expects alike declares no change where the
\* threshold is not below the hazard (bocpd.detect).
ResetMassIsTheHazard ==
    series # <<>> =>
        /\ Len(weight) = Len(series) + 1
        /\ Hazard[2] * weight[1] = Hazard[1] * Sum(weight)
        /\ 0 \notin declared
        /\ \A t \in declared : t < Len(series) /\ \E u \in 1..t : series[u] # series[t + 1]

\* The above.
MonitorsSound ==
    WindowIsOneRegime /\ ChartIsTheLargestExcess /\ OutliersStand /\ ResetMassIsTheHazard
=============================================================================
