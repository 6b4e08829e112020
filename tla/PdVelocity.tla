----------------------------- MODULE PdVelocity -----------------------------
(***************************************************************************)
(* PD velocity, ews/velocity.py: a reading differenced against the one a   *)
(* window before, and the accounts ranked against the portfolio so that a  *)
(* percentile makes an alert budget.  PDs are per cent.                    *)
(***************************************************************************)
EXTENDS Integers, FiniteSets

CONSTANTS
    Account,
    Pd,             \* readings, per cent
    Window, Tolerance,
    MinPortfolio,
    NotListed,
    MaxGap,         \* bound: days between two readings
    MaxListed       \* bound: velocities listed for a ranking

VARIABLES
    values,         \* account -> the velocity of it listed last, or NotListed
    listed,         \* the number of velocities listed
    fromZero        \* whether one of them, listed over since or not, starts from zero

pdVars == <<values, listed, fromZero>>

Init == values = [a \in Account |-> NotListed] /\ listed = 0 /\ fromZero = FALSE

\* Mutant: readings any time apart are differenced.
ComparableAnyGap(days) == days > 0

\* velocity(): the readings are one window apart, give or take.
Comparable(days) == days > 0 /\ days - Window \in -Tolerance..Tolerance

\* A reading of an account is differenced against one before it, and listed.
List(a, previous, current, days) ==
    /\ listed < MaxListed
    /\ Comparable(days)
    /\ values' = [values EXCEPT ![a] = [from |-> previous, to |-> current, days |-> days]]
    /\ listed' = listed + 1
    /\ fromZero' = (fromZero \/ previous <= 0)

Next == \E a \in Account, previous, current \in Pd, days \in 0..MaxGap : List(a, previous, current, days)

Spec == Init /\ [][Next]_pdVars

-----------------------------------------------------------------------------
\* portfolio_percentiles(): refused for a short list, or for a relative velocity
\* from zero anywhere in it; of two velocities of one account the later listed counts.
Absolute(v) == v.to - v.from
RankedAccounts == {a \in Account : values[a] # NotListed}
Ranked(basis) ==
    /\ listed >= MinPortfolio
    /\ basis = "relative" => ~fromZero

Less(basis, v, w) ==
    IF basis = "absolute" THEN Absolute(v) < Absolute(w)
    ELSE Absolute(v) * w.from < Absolute(w) * v.from

\* Mutant: those level with an account count as below it.
BelowOrLevel(basis, a) ==
    Cardinality({b \in RankedAccounts : ~Less(basis, values[a], values[b])})

Below(basis, a) == Cardinality({b \in RankedAccounts : Less(basis, values[b], values[a])})

\* alerts(): the accounts at or above the percentile p.
Alerts(basis, p) ==
    {a \in RankedAccounts : 100 * Below(basis, a) >= p * Cardinality(RankedAccounts)}

-----------------------------------------------------------------------------
(* Properties.                                                             *)
Percentile == {25, 50, 75, 95}

\* A percentile is a budget: it never alerts more than its share of the accounts,
\* however many are level.
AlertsKeepToBudget ==
    \A basis \in {"absolute", "relative"} : Ranked(basis) =>
        \A p \in Percentile :
            100 * Cardinality(Alerts(basis, p)) <= (100 - p) * Cardinality(RankedAccounts)

\* No account is passed over for one that deteriorates less, and an account that
\* recovered is not alerted before one that stood still.
WorstAreAlerted ==
    \A basis \in {"absolute", "relative"} : Ranked(basis) =>
        \A p \in Percentile : \A a \in Alerts(basis, p), b \in RankedAccounts \ Alerts(basis, p) :
            Less(basis, values[b], values[a])

\* The two bases agree on who deteriorates.
BasesAgreeOnDirection ==
    Ranked("relative") =>
        \A a, b \in RankedAccounts : Absolute(values[a]) > 0 /\ Absolute(values[b]) <= 0 =>
            Below("absolute", a) > Below("absolute", b) /\ Below("relative", a) > Below("relative", b)

\* The ranking is not of the calendar: an account whose PD climbs faster, by more than
\* the tolerance on the window can hide, is ranked above the slower one.
CalendarIsNotRanked ==
    Ranked("absolute") =>
        \A a, b \in RankedAccounts :
            LET v == values[a] w == values[b] IN
            Absolute(v) > 0
                /\ (Window - Tolerance) * Absolute(w) * v.days > (Window + Tolerance) * Absolute(v) * w.days
            => Below("absolute", b) > Below("absolute", a)

PdVelocitySound ==
    AlertsKeepToBudget /\ WorstAreAlerted /\ BasesAgreeOnDirection /\ CalendarIsNotRanked

\* A ranking is over the portfolio minimum of accounts.  It is over that many
\* velocities: two of one account count twice toward it.
MinimumIsOfAccounts == Ranked("absolute") => Cardinality(RankedAccounts) >= MinPortfolio

=============================================================================
