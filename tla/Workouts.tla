------------------------------- MODULE Workouts -------------------------------
(* What a default costs: the exposure of a term loan and the conversion of a     *)
(* revolver's undrawn limit (portfolio/ead.py), and the loss its workout leaves, *)
(* on both bases (portfolio/lgd.py).                                             *)
(*                                                                               *)
(* Money is in minor units, a rate in parts of Whole, which every exposure and   *)
(* headroom divides.                                                             *)
EXTENDS Integers, FiniteSets, FiniteSetsExt

CONSTANTS
    Account,
    Exposure,       \* account -> its exposure at default
    Posting,        \* amounts the servicer posts; a credit or a clawback is negative
    Limit,          \* of the revolver, as approved
    Draw,           \* amounts drawn, or repaid when negative
    Principal, Growth, Term,    \* of a term loan; Growth is 1 + its monthly rate
    Whole,
    MaxEvents       \* bound: postings and months in all

VARIABLES
    workouts,       \* account -> its cashflows
    revolver,       \* its limit and balance now
    reference,      \* the two at the reference date
    months          \* since the reference date, and since the loan was disbursed

workoutVars == <<workouts, revolver, reference, months>>

NoFlows == [costs |-> 0, proceeds |-> 0, enhancement |-> 0, posted |-> 0]

Init ==
    /\ workouts = [a \in Account |-> NoFlows]
    /\ revolver \in [limit : {Limit}, balance : 0..Limit]
    /\ reference = revolver
    /\ months = 0

Kind == {"costs", "proceeds", "enhancement"}
Events == months + MapThenSumSet(LAMBDA a : workouts[a].posted, Account)

\* The servicer posts to a workout; no magnitude is checked.
Post(a, kind, amount) ==
    /\ Events < MaxEvents
    /\ workouts' = [workouts EXCEPT ![a][kind] = @ + amount, ![a].posted = @ + 1]
    /\ UNCHANGED <<revolver, reference, months>>

\* A month passes: the borrower draws or repays, and the lender may cut the limit,
\* below the balance too.
Month(amount, limit) ==
    /\ Events < MaxEvents
    /\ limit <= revolver.limit
    /\ amount <= revolver.limit - revolver.balance \/ amount <= 0
    /\ revolver' = [limit |-> limit, balance |-> Max({0, revolver.balance + amount})]
    /\ months' = months + 1
    /\ UNCHANGED <<workouts, reference>>

\* The observation window is moved: balance and limit as of now.
Refer ==
    /\ reference' = revolver
    /\ UNCHANGED <<workouts, revolver, months>>

Next ==
    \/ \E a \in Account, kind \in Kind, amount \in Posting : Post(a, kind, amount)
    \/ \E amount \in Draw, limit \in {0, Limit} : Month(amount, limit)
    \/ Refer

Spec == Init /\ [][Next]_workoutVars

-----------------------------------------------------------------------------
(* Loss given default.                                                     *)

Basis == {"net", "gross"}
Clip(rate) == Max({0, Min({Whole, rate})})

\* Mutant: the enhancement comes off the wrong basis.
NetLossSwapped(a, basis) ==
    Exposure[a] + workouts[a].costs - workouts[a].proceeds
    - (IF basis = "gross" THEN workouts[a].enhancement ELSE 0)

\* net_loss()
NetLoss(a, basis) ==
    Exposure[a] + workouts[a].costs - workouts[a].proceeds
    - (IF basis = "net" THEN workouts[a].enhancement ELSE 0)

\* realised_lgd(), and without the clip.
RawLgd(a, basis) == NetLoss(a, basis) * (Whole \div Exposure[a])
RealisedLgd(a, basis) == Clip(RawLgd(a, basis))

Having(test(_)) == Cardinality({a \in Account : test(a)})
Ascending(rate) ==
    [k \in 1..Cardinality(Account) |->
        CHOOSE v \in {rate[a] : a \in Account} :
            /\ Cardinality({a \in Account : rate[a] < v}) < k
            /\ Cardinality({a \in Account : rate[a] <= v}) >= k]

\* Twice the middle one, or the middle two together.
TwiceTheMedian(rate) ==
    LET n == Cardinality(Account) s == Ascending(rate)
    IN IF n % 2 = 1 THEN 2 * s[(n + 1) \div 2] ELSE s[n \div 2] + s[n \div 2 + 1]

Reversed(a) == \E kind \in Kind : workouts[a][kind] < 0

\* Mutant: the masses counted on the figures before the clip.
DescribeRaw(basis) ==
    [total |-> MapThenSumSet(LAMBDA a : RealisedLgd(a, basis), Account),
     twice_median |-> TwiceTheMedian([a \in Account |-> RealisedLgd(a, basis)]),
     at_zero |-> Having(LAMBDA a : RawLgd(a, basis) = 0),
     at_one |-> Having(LAMBDA a : RawLgd(a, basis) = Whole),
     interior |-> Having(LAMBDA a : RealisedLgd(a, basis) \in 1..(Whole - 1)),
     raw_below_zero |-> Having(LAMBDA a : RawLgd(a, basis) < 0),
     raw_above_one |-> Having(LAMBDA a : RawLgd(a, basis) > Whole),
     reversals |-> Having(Reversed)]

\* describe()
Describe(basis) ==
    [total |-> MapThenSumSet(LAMBDA a : RealisedLgd(a, basis), Account),
     twice_median |-> TwiceTheMedian([a \in Account |-> RealisedLgd(a, basis)]),
     at_zero |-> Having(LAMBDA a : RealisedLgd(a, basis) = 0),
     at_one |-> Having(LAMBDA a : RealisedLgd(a, basis) = Whole),
     interior |-> Having(LAMBDA a : RealisedLgd(a, basis) \in 1..(Whole - 1)),
     raw_below_zero |-> Having(LAMBDA a : RawLgd(a, basis) < 0),
     raw_above_one |-> Having(LAMBDA a : RawLgd(a, basis) > Whole),
     reversals |-> Having(Reversed)]

\* Mutant: the sample size is left out of the shrinking.
SqueezeWide(rate, n) == 2 * rate * n + Whole

\* squeeze(), in parts of 2 * n * Whole.
Squeeze(rate, n) == 2 * rate * (n - 1) + Whole

-----------------------------------------------------------------------------
(* Exposure at default.                                                    *)

MinimumHeadroom == 1
Headroom == reference.limit - reference.balance
Defined == Headroom >= MinimumHeadroom

\* Mutant: over the limit, not over what was left of it.
CcfOfLimit == Clip((revolver.balance - reference.balance) * (Whole \div reference.limit))

\* realised_ccf() of a default now.
RealisedCcf == Clip((revolver.balance - reference.balance) * (Whole \div Headroom))

Power(n) == Growth ^ n

\* round() of a quotient: halves go to the even neighbour.
Rounded(a, b) ==
    LET q == a \div b IN
    IF 2 * (a % b) < b \/ (2 * (a % b) = b /\ q % 2 = 0) THEN q ELSE q + 1

\* Mutant: straight-line, whatever the rate.
ScheduledStraight(n) ==
    IF n >= Term THEN 0 ELSE Rounded(Principal * (Term - n), Term)

\* scheduled_balance(); a zero rate has a form of its own.
ScheduledBalance(n) ==
    CASE n >= Term -> 0
      [] n < Term /\ Growth = 1 -> Rounded(Principal * (Term - n), Term)
      [] OTHER -> Rounded(Principal * (Power(Term) - Power(n)), Power(Term) - 1)

-----------------------------------------------------------------------------
(* Properties.                                                             *)

\* Every workout is in one mass or in the interior, those the clip moved are on a
\* boundary and counted, and without them the mean is that of the losses as posted.
MassesReconcile ==
    \A basis \in Basis :
        LET d == Describe(basis) IN
        /\ d.at_zero + d.at_one + d.interior = Cardinality(Account)
        /\ d.raw_below_zero <= d.at_zero /\ d.raw_above_one <= d.at_one
        /\ d.raw_below_zero + d.raw_above_one = 0 =>
             d.total = MapThenSumSet(LAMBDA a : RawLgd(a, basis), Account)

\* The two bases part over what was insured and in one direction: unless a reversal is
\* reported, no figure is larger net of the enhancement than gross of it.
BasesAgree ==
    LET net == Describe("net") gross == Describe("gross") IN
    /\ net.reversals = 0 =>
         /\ net.total <= gross.total /\ net.twice_median <= gross.twice_median
         /\ net.at_zero >= gross.at_zero /\ net.at_one <= gross.at_one
    /\ \A a \in Account : workouts[a].enhancement = 0 => NetLoss(a, "net") = NetLoss(a, "gross")
    /\ net.twice_median # gross.twice_median \/ net.total # gross.total =>
         \E a \in Account : workouts[a].enhancement # 0

\* The squeeze takes a sample into the open interval and keeps its order, the total
\* losses and the full recoveries with it.
SqueezeKeepsOrder ==
    LET n == Cardinality(Account) Squeezed(a) == Squeeze(RealisedLgd(a, "net"), n) IN
    n > 1 =>
        /\ \A a \in Account : 0 < Squeezed(a) /\ Squeezed(a) < 2 * n * Whole
        /\ \A a, b \in Account :
             RealisedLgd(a, "net") < RealisedLgd(b, "net") <=> Squeezed(a) < Squeezed(b)

\* A conversion factor, where there is one, gives back the balance at default, but for
\* what was repaid or drawn beyond the limit the facility had.
CcfGivesTheExposure ==
    Defined =>
        reference.balance * Whole + RealisedCcf * Headroom
        = Whole * Max({reference.balance, Min({revolver.balance, reference.limit})})

\* The closed form is the schedule: each month the balance grows and the level payment
\* comes off, without the drift of rounding every month.
ScheduleAmortises ==
    LET den == Power(Term) - 1
        Exact[n \in 0..Term] ==
            IF n = 0 THEN Principal * den
            ELSE Growth * Exact[n - 1] - Principal * Power(Term) * (Growth - 1)
    IN Growth > 1 =>
        /\ ScheduledBalance(0) = Principal
        /\ Exact[Term] = 0
        /\ \A n \in {Min({months, Term})} :
             2 * Max({ScheduledBalance(n) * den - Exact[n], Exact[n] - ScheduledBalance(n) * den}) <= den
        /\ ScheduledBalance(months + 1) <= ScheduledBalance(months)

WorkoutsSound ==
    /\ MassesReconcile
    /\ BasesAgree
    /\ SqueezeKeepsOrder
    /\ CcfGivesTheExposure
    /\ ScheduleAmortises

=============================================================================
