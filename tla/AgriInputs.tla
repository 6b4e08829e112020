----------------------------- MODULE AgriInputs -----------------------------
(***************************************************************************)
(* What agricultural underwriting rests on: the plots of a borrower        *)
(* (agri/registry.py), the boundaries a model draws (agri/boundary.py), an *)
(* income over the holding (agri/features.py) from a district yield shared *)
(* out by NDVI (agri/yield_model.py), the drought history (agri/drought.py)*)
(* and the land quality that lending by district is compared with          *)
(* (agri/disparate.py), and the completeness monitor over the satellite    *)
(* tiles received (agri/ingest.py).                                        *)
(***************************************************************************)
EXTENDS Integers, Sequences, FiniteSets, FiniteSetsExt

CONSTANTS
    PlotId, Borrower, Season,
    None,           \* no borrower, no confidence
    Confidence,     \* per cent
    Gate,           \* the IoU gate, per cent
    Tiles,          \* tiles a record may expect
    Revisit,        \* revisit interval in days
    MaxDay,         \* bound: days 0..MaxDay of the window
    Spei,           \* tenths of the index
    Seasons,        \* the drought window, in seasons
    Year,           \* months
    Timescale,      \* of the index, in months
    FirstMonth,     \* the calendar month the series starts in
    MinYears,       \* for a fit
    Ndvi,
    Cap,            \* max_adjustment, per cent
    Centre,         \* yields the regression gives
    Residuals,      \* its residuals, sorted
    Price,          \* [p50, p25] per unit of yield
    Cost,           \* per hectare
    Unit,           \* 1..the districts compared, in their order
    Land,           \* unit -> its land quality inputs, or None
    Zone,           \* input -> its agro-zone range <<low, high>>
    Formula,        \* [weights, directions], no weight below 0
    MinUnitSize,
    MaxRows         \* bound: months, seasons, plots and decisions together

VARIABLES
    plots,          \* plot -> its record, or Unregistered
    villages,       \* borrowers with a village location
    walked,         \* history: plots walked at some time
    records,        \* day -> the tile record of that day, or NoRecord
    rainfall,       \* months recorded
    history,        \* the drought index by season
    district,       \* peak NDVI of the plots seen of a district
    units           \* unit -> the applications decided and approved

lendingVars == <<rainfall, history, district, units>>
agriVars == <<plots, villages, walked, records, lendingVars>>

Unregistered == [source |-> "none", borrower |-> None, confidence |-> None]
NoRecord == [expected |-> -1, received |-> -1]

Init ==
    /\ plots = [p \in PlotId |-> Unregistered]
    /\ villages = {}
    /\ walked = {}
    /\ records = [d \in 0..MaxDay |-> NoRecord]
    /\ rainfall = 0 /\ history = <<>> /\ district = <<>>
    /\ units = [u \in Unit |-> [n |-> 0, approvals |-> 0]]

\* Plot.__post_init__(): a confidence is of a model's boundary, and only of one.
Observed(source, b) == [source |-> source, borrower |-> b, confidence |-> None]
Delineated(b, c) == [source |-> "auto_delineated", borrower |-> b, confidence |-> c]
Boundaries ==
    {Observed(s, b) : s \in {"gps_walk", "cadastral"}, b \in Borrower}
    \cup {Delineated(b, c) : b \in Borrower \cup {None}, c \in Confidence}

\* Mutant: whichever boundary comes last is stored.
RegisterPlotLast(p, plot) ==
    /\ plots' = [plots EXCEPT ![p] = plot]
    /\ walked' = IF plot.source = "gps_walk" THEN walked \cup {p} ELSE walked
    /\ UNCHANGED <<villages, records, lendingVars>>

\* register_plot(); a delineation comes through to_plot(), which may name no borrower.
RegisterPlot(p, plot) ==
    /\ plots[p].source = "gps_walk" => plot.source = "gps_walk"
    /\ plots' = [plots EXCEPT ![p] = plot]
    /\ walked' = IF plot.source = "gps_walk" THEN walked \cup {p} ELSE walked
    /\ UNCHANGED <<villages, records, lendingVars>>

RegisterVillage(b) ==
    /\ villages' = villages \cup {b}
    /\ UNCHANGED <<plots, walked, records, lendingVars>>

\* A day's acquisition, ingested with the tiles that came; never more than expected.
IngestTiles(d, n, m) ==
    /\ records[d] = NoRecord
    /\ records' = [records EXCEPT ![d] = [expected |-> n, received |-> m]]
    /\ UNCHANGED <<plots, villages, walked, lendingVars>>

Rows == rainfall + Len(history) + Len(district) + MapThenSumSet(LAMBDA u : units[u].n, Unit)

RecordMonth ==
    /\ Rows < MaxRows
    /\ rainfall' = rainfall + 1
    /\ UNCHANGED <<plots, villages, walked, records, history, district, units>>

\* A season closes with a drought index.
CloseSeason(spei) ==
    /\ Rows < MaxRows
    /\ history' = Append(history, spei)
    /\ UNCHANGED <<plots, villages, walked, records, rainfall, district, units>>

ObservePlot(ndvi) ==
    /\ Rows < MaxRows
    /\ district' = Append(district, ndvi)
    /\ UNCHANGED <<plots, villages, walked, records, rainfall, history, units>>

\* An application from the unit is approved or declined.
Decide(u, approved) ==
    /\ Rows < MaxRows
    /\ units' = [units EXCEPT ![u].n = @ + 1, ![u].approvals = IF approved THEN @ + 1 ELSE @]
    /\ UNCHANGED <<plots, villages, walked, records, rainfall, history, district>>

Next ==
    \/ \E p \in PlotId, plot \in Boundaries : RegisterPlot(p, plot)
    \/ \E b \in Borrower : RegisterVillage(b)
    \/ \E d \in 0..MaxDay, n \in Tiles : \E m \in 0..n : IngestTiles(d, n, m)
    \/ RecordMonth
    \/ \E spei \in Spei : CloseSeason(spei)
    \/ \E ndvi \in Ndvi : ObservePlot(ndvi)
    \/ \E u \in Unit, approved \in BOOLEAN : Decide(u, approved)

Spec == Init /\ [][Next]_agriVars

-----------------------------------------------------------------------------
PlotsFor(b) == {p \in PlotId : plots[p].borrower = b}
GranularityFor(b) ==
    IF PlotsFor(b) # {} THEN "plot" ELSE IF b \in villages THEN "village" ELSE "none"

UsableForScoring(p) ==
    plots[p].source \in {"gps_walk", "cadastral"}
    \/ (plots[p].source = "auto_delineated" /\ plots[p].confidence >= Gate)

\* admissible(): the model passed its held-out gate, and this boundary reaches it.
Admissible(passed, p) == passed /\ plots[p].confidence >= Gate

\* Mutant: part of a holding will do.
HoldingIncomeOfPart(b, inputs) ==
    LET valued == {i.plot : i \in inputs} IN
    GranularityFor(b) = "plot" /\ valued # {} /\ valued \subseteq PlotsFor(b)

\* holding_income() gives a figure for these season inputs.
HoldingIncome(b, inputs) ==
    LET valued == {i.plot : i \in inputs} IN
    /\ GranularityFor(b) = "plot" /\ inputs # {}
    /\ PlotsFor(b) \subseteq valued /\ valued \subseteq PlotsFor(b)

\* expected_ingest_days() of the window from first to last.
ExpectedIngestDays(first, last) == (last - first) \div Revisit + 1

\* Mutant: the last acquisition of the window is not expected.
MissingButLast(first, last) ==
    {d \in {first + n * Revisit : n \in 0..(ExpectedIngestDays(first, last) - 2)} : records[d] = NoRecord}

\* days_with_no_ingest
Missing(first, last) ==
    {d \in {first + n * Revisit : n \in 0..(ExpectedIngestDays(first, last) - 1)} : records[d] = NoRecord}

\* tile_completeness() is 1.
TilesComplete(first, last) ==
    LET window == {d \in first..last : records[d] # NoRecord}
        expected == MapThenSumSet(LAMBDA d : records[d].expected, window)
    IN expected # 0 /\ MapThenSumSet(LAMBDA d : records[d].received, window) = expected

-----------------------------------------------------------------------------
(* Drought.                                                                *)

\* DroughtIndex.category, McKee's classes.
Category(spei) ==
    CASE spei >= 20 -> "extremely wet"
      [] spei < 20 /\ spei >= 15 -> "very wet"
      [] spei < 15 /\ spei >= 10 -> "moderately wet"
      [] spei < 10 /\ spei > -10 -> "near normal"
      [] spei <= -10 /\ spei > -15 -> "moderately dry"
      [] spei <= -15 /\ spei > -20 -> "severely dry"
      [] OTHER -> "extremely dry"

\* Mutant: the boundary is not a drought.
IsDroughtBelow(spei) == spei < -10

IsDrought(spei) == spei <= -10

\* Mutant: the first sums are of what there is.
AccumulatePartial == 1..rainfall

\* accumulate(): the months that end a whole window.
Accumulate == {i \in 1..rainfall : i >= Timescale}

CalendarMonth(i) == ((FirstMonth + i - 2) % Year) + 1

\* spi() and spei() do not refuse for a calendar month of too few years.
LongEnough ==
    \A i \in Accumulate :
        Cardinality({j \in Accumulate : CalendarMonth(j) = CalendarMonth(i)}) >= MinYears

\* The window: a history that is shorter is refused, not divided by what there is.
Windowed == Len(history) >= Seasons
Window == (Len(history) - Seasons + 1)..Len(history)

\* climate_features(), the shares times the seasons.
DroughtSeasons == Cardinality({i \in Window : IsDrought(history[i])})
WetSeasons == Cardinality({i \in Window : history[i] >= 10})
WorstSpei == Min({history[i] : i \in Window})

-----------------------------------------------------------------------------
(* The yield of a district, and of a plot in it.                           *)

\* Mutant: the rank counted from the top.
QuantileFromTop(q) == Residuals[Len(Residuals) + 1 - Max({1, -((-q * Len(Residuals)) \div 100)})]

\* _quantile(): the nearest rank.
Quantile(q) == Residuals[Max({1, -((-q * Len(Residuals)) \div 100)})]

\* YieldModel.predict(): the residual quantiles about the regression, none below 0.
Predict(centre) ==
    [p50 |-> Max({0, centre + Quantile(50)}),
     p25 |-> Max({0, centre + Quantile(25)}),
     p10 |-> Max({0, centre + Quantile(10)})]

\* YieldPrediction.__post_init__().
Contract(y) == y.p50 >= y.p25 /\ y.p25 >= y.p10 /\ y.p10 >= 0

\* Mutant: plots with the same NDVI all count as below.
PositionFull(ndvi) ==
    2 * Cardinality({i \in DOMAIN district : district[i] <= ndvi})

\* Twice the plots below, ties by half: the percentile of a plot.
Position(ndvi) ==
    Cardinality({i \in DOMAIN district : district[i] < ndvi})
    + Cardinality({i \in DOMAIN district : district[i] <= ndvi})

\* downscale(), in hundredths of the number of plots.
Factor(ndvi) == 100 * Len(district) + Cap * (Position(ndvi) - Len(district))
Downscale(y, ndvi) == [q \in DOMAIN y |-> y[q] * Factor(ndvi)]

\* The season input of a plot of one hectare; SeasonInput.__post_init__() takes no price
\* that rises under stress.
Admitted(price, cost) == price.p25 >= 0 /\ price.p50 >= price.p25 /\ cost # None /\ cost >= 0

\* _income() over those plots: revenue at the quantile less the costs.
Income(y, price, cost, stressed) ==
    LET quantile == IF stressed THEN "p25" ELSE "p50" IN
    MapThenSumSet(
        LAMBDA i : Downscale(y, district[i])[quantile] * price[quantile] - cost * 100 * Len(district),
        DOMAIN district)

-----------------------------------------------------------------------------
(* Land quality and lending by district.                                   *)

\* land_quality_components(): per cent of the zone's range.
Components(u) ==
    [c \in DOMAIN Zone |->
        LET low == Zone[c][1] high == Zone[c][2]
        IN Min({100, Max({0, (100 * (Land[u][c] - low)) \div (high - low)})})]

\* LandQualityFormula.__post_init__(): every input has a weight and a direction.
Stated(f) ==
    /\ DOMAIN Zone \subseteq DOMAIN f.weights /\ DOMAIN Zone \subseteq DOMAIN f.directions
    /\ \A c \in DOMAIN f.directions : f.directions[c] \in {-1, 1}

\* Mutant: every input as if more of it were better.
DirectedUp(component, direction) == component

Directed(component, direction) == IF direction > 0 THEN component ELSE 100 - component

\* land_quality_index(), times the sum of the weights.
LandQualityIndex(u, f) ==
    MapThenSumSet(LAMBDA c : f.weights[c] * Directed(Components(u)[c], f.directions[c]), DOMAIN Zone)

\* Mutant: every unit is compared.
EligibleAll == {u \in Unit : units[u].n > 0}

Eligible == {u \in Unit : units[u].n >= MinUnitSize}
Assessable == Cardinality(Eligible) >= 2
HigherRate(u, v) == units[u].approvals * units[v].n > units[v].approvals * units[u].n

\* The first of the best served, and of the worst.
Highest == Min({u \in Eligible : ~\E v \in Eligible : HigherRate(v, u)})
Lowest == Min({u \in Eligible : ~\E v \in Eligible : HigherRate(u, v)})

\* GeographicFinding.explained_by_land_quality.
Explained(f) ==
    IF Land[Highest] = None \/ Land[Lowest] = None THEN "unattributed"
    ELSE IF LandQualityIndex(Highest, f) <= LandQualityIndex(Lowest, f) THEN "not explained"
    ELSE "partly"

-----------------------------------------------------------------------------
(* Properties.                                                             *)

\* Ground truth stands: a plot that was walked has the boundary of a walk ever after,
\* and is scored.
WalkStands == \A p \in walked : plots[p].source = "gps_walk" /\ UsableForScoring(p)

\* The same season inputs give an income for one holding as it now is and for no other,
\* so that inputs made before a plot was added, moved or lost are refused.
IncomeIsOfTheHolding ==
    \A inputs \in SUBSET [plot : PlotId, season : Season] : \A b \in Borrower :
        HoldingIncome(b, inputs) =>
            /\ \A p \in PlotId : (\E i \in inputs : i.plot = p) <=> plots[p].borrower = b
            /\ \A c \in Borrower \ {b} : ~HoldingIncome(c, inputs)

\* A window reported complete and without a gap has every nominal acquisition, with
\* every tile it expected.
CompleteMeansComplete ==
    \A first \in 0..MaxDay : \A last \in first..MaxDay :
        TilesComplete(first, last) /\ Missing(first, last) = {} =>
            \A d \in first..last : (d - first) % Revisit = 0 =>
                records[d] # NoRecord /\ records[d].received = records[d].expected

\* The words and the number agree: a window with a season in a dry class has a drought
\* frequency, and one without has none.
DryMeansDrought ==
    Windowed =>
        /\ DroughtSeasons = 0 <=> Category(WorstSpei) \notin {"moderately dry", "severely dry", "extremely dry"}
        /\ DroughtSeasons + WetSeasons <= Seasons

\* An index is fitted on whole windows alone: it takes the years and one window less a
\* month, whichever month they start in.  A record shorter than a window is not refused,
\* it has no index in any month.
RecordIsWhole == LongEnough <=> rainfall < Timescale \/ rainfall >= Year * MinYears + Timescale - 1

\* What a district yields is shared out and none of it made: over the plots that the
\* percentile is taken of, the factors average to one, and none leaves its cap.
AllocationConserves ==
    LET n == Len(district) IN
    n > 0 =>
        /\ MapThenSumSet(LAMBDA i : Factor(district[i]), DOMAIN district) = 100 * n * n
        /\ \A v \in Ndvi : (100 - Cap) * n <= Factor(v) /\ Factor(v) <= (100 + Cap) * n
        /\ \A v, w \in Ndvi : v <= w => Factor(v) <= Factor(w)

\* From the regression to the affordability cap: a prediction meets its contract, a plot's
\* share does, and no holding has more income stressed than expected.
StressIsDownward ==
    \A centre \in Centre :
        LET y == Predict(centre) IN
        /\ Contract(y) /\ \A v \in Ndvi : Contract(Downscale(y, v))
        /\ \A price \in Price, cost \in Cost : Admitted(price, cost) =>
               Income(y, price, cost, TRUE) <= Income(y, price, cost, FALSE)

\* The units named are the ends of those that are large enough, and a lower end whose land
\* is as good in every input is never called explained by it, whatever the formula.
DisparityIsTheWidest ==
    Assessable =>
        /\ \A u \in {Highest, Lowest} : units[u].n >= MinUnitSize
        /\ \A u, v \in Unit :
               units[u].n >= MinUnitSize /\ units[v].n >= MinUnitSize =>
                   units[u].approvals * units[Highest].n <= units[Highest].approvals * units[u].n
                   /\ units[v].approvals * units[Lowest].n >= units[Lowest].approvals * units[v].n
        /\ \A f \in {g \in Formula : Stated(g)} :
               (/\ Land[Highest] # None /\ Land[Lowest] # None
                /\ \A c \in DOMAIN Zone :
                       f.directions[c] * Land[Lowest][c] >= f.directions[c] * Land[Highest][c]) =>
                   Explained(f) = "not explained"

AgriInputsSound ==
    /\ WalkStands
    /\ IncomeIsOfTheHolding
    /\ CompleteMeansComplete
    /\ DryMeansDrought
    /\ RecordIsWhole
    /\ AllocationConserves
    /\ StressIsDownward
    /\ DisparityIsTheWidest

\* What the registry would score, admissible() would show, whether or not the model
\* passed its gate.  It does not: the registry never sees the gate's result.
ScorableIsAdmissible ==
    \A passed \in BOOLEAN : \A p \in PlotId :
        plots[p].source = "auto_delineated" /\ UsableForScoring(p) => Admissible(passed, p)

\* A borrower with a plot never falls back to the village.  One does: a delineation
\* again that names no borrower takes the plot away.
PlotsAreKept ==
    [][\A b \in Borrower : GranularityFor(b) = "plot" => GranularityFor(b)' = "plot"]_agriVars

=============================================================================
