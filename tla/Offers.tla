------------------------------- MODULE Offers -------------------------------
(* Recommendation: the affordability constraints and the feasible set          *)
(* (reco/feasible.py), the price an offer is made at (reco/pricing.py), the     *)
(* bandit that chooses among the feasible arms and learns from the rewards      *)
(* that arrive later (reco/bandit.py) and the monthly suitability audit         *)
(* (reco/suitability.py).                                                       *)
(*                                                                            *)
(* Money is integers, a rate is an integer number of monthly tenths and a ratio *)
(* is an exact pair <<numerator, denominator>>: rounding is left out, the       *)
(* boundaries are kept.  The UCB scores are not modelled: select() may choose   *)
(* any available arm, which includes the one the scores prefer.                 *)
EXTENDS Integers, FiniteSets

CONSTANTS
    Applicant,      \* applicant -> [segment, income, obligations, collateral]
    Flow,           \* the stressed annual cash flows of a borrower, None among them
    Caps,           \* product -> the ratified caps of that product
    Template,       \* arm -> [product, amount, tenor, offset]
    AlmTable,       \* the ALM tables treasury may have published
    ExpectedLoss,   \* expected-loss rates a borrower may carry
    MaxTableAge,    \* MAX_ALM_TABLE_AGE_DAYS
    MaxDecisions,   \* bound: decisions taken
    MaxUpdates,     \* bound: rewards applied
    None            \* a value that is absent

VARIABLES
    flow,           \* applicant -> its stressed annual cash flow, as last estimated
    rate,           \* the rate the next offers are made at, or None
    quote,          \* history: the table and expected loss that rate comes from
    sets,           \* applicant -> the feasible set last built for it, with the
                    \* flow it was built on, or None
    decisions,      \* the decisions logged, in order
    stage,          \* applicant -> its lifecycle stage
    observations    \* arm -> number of rewards its state has absorbed
offerVars == <<flow, rate, quote, sets, decisions, stage, observations>>

LE(p, q) == p[1] * q[2] <= q[1] * p[2]

Stages == {"sowing_confirmed", "good_harvest", "drought_flagged", "unknown"}
Retail(a) == Applicant[a].segment = "retail"
ToOffer(t, r) == [product |-> Template[t].product, amount |-> Template[t].amount,
                  tenor |-> Template[t].tenor, rate |-> r + Template[t].offset]

(* The equated instalment, with growth (1 + m)^tenor for a monthly rate m.      *)
Emi(o) ==
    LET growth == (10 + o.rate) ^ o.tenor
    IN  IF o.rate = 0 THEN <<o.amount, o.tenor>>
        ELSE <<o.amount * o.rate * growth, 10 * (growth - 10 ^ o.tenor)>>

(* What assess() refuses to judge at all, of an applicant with stressed flow f.  *)
Assessable(a, o, f) ==
    /\ o.product \in DOMAIN Caps
    /\ Applicant[a].segment = Caps[o.product].segment
    /\ IF Retail(a) THEN Applicant[a].income # None ELSE f # None
    /\ Caps[o.product].ltv # None =>
           /\ Applicant[a].collateral # None
           /\ Applicant[a].collateral > 0

Result(name, value, limit, ok) ==
    [name |-> name, value |-> value, limit |-> limit, satisfied |-> ok]

Affordability(a, o, c, f) ==
    LET e == Emi(o) IN
    IF Retail(a)
    THEN LET committed == <<e[1] + Applicant[a].obligations * e[2], e[2]>>
             allowed   == <<c.foir[1] * Applicant[a].income, c.foir[2]>>
         IN  Result("foir", committed, allowed, LE(committed, allowed))
    ELSE LET dscr == <<f * e[2], 12 * e[1]>>
         IN  Result("dscr", dscr, c.dscr, LE(c.dscr, dscr))

Constraints(a, o, f) ==
    LET c   == Caps[o.product]
        Ltv == <<o.amount, Applicant[a].collateral>>
    IN  {Affordability(a, o, c, f),
         Result("tenor", <<o.tenor, 1>>, <<c.tenor, 1>>, o.tenor <= c.tenor),
         Result("amount_max", <<o.amount, 1>>, <<c.max, 1>>, o.amount <= c.max),
         Result("amount_min", <<c.min, 1>>, <<o.amount, 1>>, o.amount >= c.min)}
        \union (IF c.ltv = None THEN {} ELSE {Result("ltv", Ltv, c.ltv, LE(Ltv, c.ltv))})

Feasible(a, o, f) == \A k \in Constraints(a, o, f) : k.satisfied

(* ConstraintResult.headroom is limit - value for every constraint; only its    *)
(* sign is kept.                                                                *)
HeadroomNonNegative(k) == LE(k.value, k.limit)

(* build_feasible_set(): one unassessable offer refuses the whole set.          *)
BuildSet(a, arms) ==
    /\ rate # None
    /\ arms # {}
    /\ \A t \in arms : Assessable(a, ToOffer(t, rate), flow[a])
    /\ sets' = [sets EXCEPT ![a] =
           [flow |-> flow[a],
            offers |-> {o \in {ToOffer(t, rate) : t \in arms} : Feasible(a, o, flow[a])}]]
    /\ UNCHANGED <<flow, rate, quote, decisions, stage, observations>>

(* The stressed cash flow of a borrower is estimated anew: what an audit finds at   *)
(* the month's end is not what the set was built on.                             *)
Reestimate(a, f) ==
    /\ ~Retail(a)
    /\ flow' = [flow EXCEPT ![a] = f]
    /\ UNCHANGED <<rate, quote, sets, decisions, stage, observations>>

(* price() and offerable_rate: a table of the future or past its age is refused, *)
(* a rate above the ceiling is not offered, one below the floor is raised to it.  *)
OfferableRate(t, el) ==
    LET computed == t.base + el
    IN  IF t.ceiling # None /\ computed > t.ceiling THEN None
        ELSE IF t.floor # None /\ computed < t.floor THEN t.floor
        ELSE computed

Price(t, el) ==
    /\ 0 <= t.age /\ t.age <= MaxTableAge
    /\ rate' = OfferableRate(t, el)
    /\ quote' = [table |-> t, el |-> el]
    /\ UNCHANGED <<flow, sets, decisions, stage, observations>>

(* Mutant of Available: an arm looked up by its terms, whatever its rate.       *)
AvailableAnyRate(a) ==
    {t \in DOMAIN Template : \E o \in sets[a].offers : o = [ToOffer(t, rate) EXCEPT !.rate = o.rate]}

(* The arms whose offer at the current rate is in the set, by equality.         *)
Available(a) == {t \in DOMAIN Template : ToOffer(t, rate) \in sets[a].offers}

Decision(a, t, considered, propensity, explored) ==
    [applicant |-> a, arm |-> t, offer |-> ToOffer(t, rate), considered |-> considered,
     propensity |-> propensity, exploration |-> explored, stage |-> stage[a],
     flow |-> sets[a].flow, quote |-> quote]

Log(d) ==
    /\ Cardinality(decisions) < MaxDecisions
    /\ decisions' = decisions \union {d}
    /\ UNCHANGED <<flow, rate, quote, sets, stage, observations>>

Ask(a) == rate # None /\ sets[a] # None

Select(a) ==
    /\ Ask(a)
    /\ \E t \in Available(a) : Log(Decision(a, t, Available(a), <<1, 1>>, FALSE))

(* explore(): the random value picks an index, so every available arm is         *)
(* reachable and the logged propensity is one over their number.                *)
Explore(a) ==
    /\ Ask(a)
    /\ \E t \in Available(a) :
           Log(Decision(a, t, Available(a), <<1, Cardinality(Available(a))>>, TRUE))

(* update(): nothing remembers that a decision was already rewarded.            *)
Update(d) ==
    /\ observations[d.arm] < MaxUpdates
    /\ observations' = [observations EXCEPT ![d.arm] = @ + 1]
    /\ UNCHANGED <<flow, rate, quote, sets, decisions, stage>>

SetStage(a, s) ==
    /\ stage' = [stage EXCEPT ![a] = s]
    /\ UNCHANGED <<flow, rate, quote, sets, decisions, observations>>

(* lifecycle_action(): what each stage makes of a campaign.                     *)
LifecycleAction(s) ==
    CASE s = "drought_flagged" -> "suppress_marketing"
      [] s \in {"sowing_confirmed", "good_harvest"} -> "offer"
      [] OTHER -> "no_action"

(* audit(): the findings over the recommendations made, as <<decision, check>>,   *)
(* with the stressed flows of the day of the audit.                             *)
Audit(recs) ==
    {<<d, "drought_marketing_suppression">> :
        d \in {r \in recs : r.stage = "drought_flagged"}}
    \union
    {<<d, "stressed_affordability">> :
        d \in {r \in recs : /\ ~Retail(r.applicant)
                            /\ \/ flow[r.applicant] = None
                               \/ ~LE(<<12 * Emi(r.offer)[1], Emi(r.offer)[2]>>,
                                      <<flow[r.applicant], 1>>)}}

Init ==
    /\ flow \in {f \in [DOMAIN Applicant -> Flow] : \A a \in DOMAIN Applicant : Retail(a) => f[a] = None}
    /\ rate = None
    /\ quote = None
    /\ sets = [a \in DOMAIN Applicant |-> None]
    /\ decisions = {}
    /\ stage = [a \in DOMAIN Applicant |-> "unknown"]
    /\ observations = [t \in DOMAIN Template |-> 0]

Next ==
    \/ \E t \in AlmTable, el \in ExpectedLoss : Price(t, el)
    \/ \E a \in DOMAIN Applicant, arms \in SUBSET DOMAIN Template : BuildSet(a, arms)
    \/ \E a \in DOMAIN Applicant : Select(a) \/ Explore(a)
    \/ \E a \in DOMAIN Applicant, s \in Stages : SetStage(a, s)
    \/ \E a \in DOMAIN Applicant, f \in Flow : Reestimate(a, f)
    \/ \E d \in decisions : Update(d)

Spec == Init /\ [][Next]_offerVars

-----------------------------------------------------------------------------
(* Every offer made, at the rate it was made at, keeps every cap of its product *)
(* for its applicant, whatever was repriced between the set and the choice      *)
(* (feasible.py FeasibleSet.contains, bandit.py LinUCB.select and explore).     *)
OffersKeepTheCaps == \A d \in decisions : Feasible(d.applicant, d.offer, d.flow)

(* Every offer made is priced: within its arm's offset it is at or above the     *)
(* floor and at or below the ceiling of the table its rate comes from, and the   *)
(* ceiling is never quoted to a borrower whose own rate exceeds it (pricing.py    *)
(* offerable_rate, bandit.py OfferTemplate.to_offer).                           *)
OffersKeepThePrice ==
    \A d \in decisions :
        LET t == d.quote.table
            offset == Template[d.arm].offset
        IN  /\ t.floor # None => d.offer.rate >= t.floor + offset
            /\ t.ceiling # None => /\ d.offer.rate <= t.ceiling + offset
                                  /\ t.base + d.quote.el <= t.ceiling

(* An offer that is feasible fails the audit of stressed affordability only when  *)
(* the borrower's stressed flow was withdrawn or estimated lower after its set    *)
(* was built: on the same flow no ratified DSCR floor, none being below one,     *)
(* lets through what the audit finds (suitability.py audit, feasible.py           *)
(* PolicyCaps).                                                                 *)
AuditFindsWhatFell ==
    \A f \in Audit(decisions) : f[2] = "stressed_affordability" =>
        \/ flow[f[1].applicant] = None
        \/ flow[f[1].applicant] < f[1].flow

(* What the log must support for an off-policy estimate: the propensities of a  *)
(* randomised choice sum to one over the arms considered, and a deterministic   *)
(* one is certain (bandit.py BanditDecision.propensity).                        *)
PropensitiesAddUp ==
    \A d \in decisions :
        /\ d.arm \in d.considered
        /\ d.propensity[1] * (IF d.exploration THEN Cardinality(d.considered) ELSE 1)
             = d.propensity[2]

OffersSound ==
    OffersKeepTheCaps /\ OffersKeepThePrice /\ AuditFindsWhatFell /\ PropensitiesAddUp

(* feasible.py ConstraintResult.headroom: "How far inside (positive) or outside *)
(* (negative) the limit."                                                       *)
HeadroomSigned ==
    \A a \in DOMAIN Applicant : sets[a] # None =>
        \A o \in sets[a].offers : \A k \in Constraints(a, o, sets[a].flow) :
            k.satisfied <=> HeadroomNonNegative(k)
=============================================================================
