----------------------------- MODULE Portfolio -----------------------------
(***************************************************************************)
(* The account-month panel and the reports computed from it.               *)
(*                                                                         *)
(* load_panel() of sources/fanniemae_panel.py reads the monthly rows of    *)
(* each loan, and portfolio/panel.py cuts the rows behind each model from  *)
(* the spells.  Every loan starts at month 0, so a snapshot is also the    *)
(* months on book.  The reports are the stage of each account (staging.py),*)
(* the bucket transitions (transitions.py), the observed incidence of the  *)
(* two competing causes (competing.py), the product-limit curve            *)
(* (survival.py) and the vintage curve (aggregates.py).                    *)
(***************************************************************************)
EXTENDS Integers, Sequences, FiniteSets, FiniteSetsExt

CONSTANTS
    Loan,
    Dpd,            \* days past due the rows report, in [0, 90]
    Unknown,        \* a status dlq_to_dpd_days() cannot read; also: no value
    Horizon,        \* behavioural horizon in months
    MaxMonth,       \* bound: months of the extract
    Span            \* bound: loan -> the last month it may report

VARIABLES
    clock,          \* the last month in the extract
    months,         \* loan -> [month -> dpd]: the AccountMonths read
    default_at,     \* loan -> first month at the default threshold, or 0
    disposition     \* loan -> its zero-balance code and date, or NotDisposed

panelVars == <<clock, months, default_at, disposition>>

\* Appendix A.
DefaultDpd == 90
IndeterminateDpd == 30

Label(max_dpd, written_off) ==
    IF max_dpd >= DefaultDpd \/ written_off THEN "bad"
    ELSE IF max_dpd >= IndeterminateDpd THEN "indeterminate"
    ELSE "good"

\* Zero-balance codes: paid off, sold at a loss, bought back from the pool.
Codes == {"prepaid", "loss", "repurchased"}
NotDisposed == [code |-> "none", at |-> 0]

\* A row of the file: a status, or for the last one of a loan a code whose date
\* may be that of the month before.
NoRow == [dpd |-> Unknown, code |-> "absent", back |-> 0]
Rows ==
    {NoRow}
    \cup {[dpd |-> d, code |-> "none", back |-> 0] : d \in Dpd \cup {Unknown}}
    \cup {[dpd |-> Unknown, code |-> c, back |-> b] : c \in Codes, b \in {0, 1}}

Init ==
    /\ clock = 0
    /\ months = [l \in Loan |-> [t \in {} |-> 0]]
    /\ default_at = [l \in Loan |-> 0]
    /\ disposition = [l \in Loan |-> NotDisposed]

\* A loan with a zero balance reports no more.
MayReport(l, row) ==
    /\ disposition[l] # NotDisposed => row = NoRow
    /\ row.back < clock + 1
    /\ clock < Span[l] \/ row = NoRow

\* The body of the loop for one month's rows.
ReadMonth(row) ==
    /\ clock < MaxMonth
    /\ \A l \in Loan : MayReport(l, row[l])
    /\ \E l \in Loan : row[l] # NoRow
    /\ clock' = clock + 1
    /\ months' = [l \in Loan |->
          IF row[l] = NoRow THEN months[l]
          ELSE [t \in DOMAIN months[l] \cup {clock + 1} |->
                   IF t = clock + 1 THEN row[l].dpd ELSE months[l][t]]]
    /\ default_at' = [l \in Loan |->
          IF default_at[l] = 0 /\ row[l].dpd # Unknown /\ row[l].dpd >= DefaultDpd
          THEN clock + 1 ELSE default_at[l]]
    /\ disposition' = [l \in Loan |->
          IF row[l].code \in Codes
          THEN [code |-> row[l].code, at |-> clock + 1 - row[l].back]
          ELSE disposition[l]]

Next == \E row \in [Loan -> Rows] : ReadMonth(row)

Spec == Init /\ [][Next]_panelVars

-----------------------------------------------------------------------------
\* How a spell ended.  A repurchase is no event, and an event before the first
\* month read is dropped.
NoEvent == [type |-> "none", at |-> 0]

Earliest(l) == CHOOSE t \in DOMAIN months[l] : \A u \in DOMAIN months[l] : t <= u
Latest(l) == CHOOSE t \in DOMAIN months[l] : \A u \in DOMAIN months[l] : t >= u

ResolveEvent(l) ==
    IF default_at[l] # 0 THEN [type |-> "default", at |-> default_at[l]]
    ELSE IF disposition[l].code = "loss"
    THEN [type |-> "default", at |-> disposition[l].at]
    ELSE IF disposition[l].code = "prepaid"
    THEN [type |-> "prepaid", at |-> disposition[l].at]
    ELSE NoEvent

Spelled == {l \in Loan : DOMAIN months[l] # {}}
Event(l) == IF ResolveEvent(l).at < Earliest(l) THEN NoEvent ELSE ResolveEvent(l)

\* The largest known dpd of a set of months; Unknown when there is none.
MaxDpd(l, window) ==
    LET known == {months[l][t] : t \in {u \in window : months[l][u] # Unknown}}
    IN IF known = {} THEN Unknown ELSE CHOOSE d \in known : \A e \in known : e <= d
OrZero(d) == IF d = Unknown THEN 0 ELSE d

\* behavioural_rows(): the label of month t, read from the months after it.
BehaviouralRow(l, t) ==
    LET end == t + Horizon
        window == {u \in DOMAIN months[l] : u > t /\ u <= end}
        worst == MaxDpd(l, window)
        ended == Event(l).type # "none" /\ t < Event(l).at /\ Event(l).at <= end
    IN CASE ended /\ Event(l).type = "default" ->
                [label |-> "bad", by |-> "observed"]
         [] ended /\ Event(l).type = "prepaid" ->
                [label |-> Label(OrZero(worst), FALSE), by |-> "terminated"]
         [] ~ended /\ end > clock -> [label |-> "none", by |-> "censored"]
         [] ~ended /\ end <= clock /\ worst = Unknown ->
                [label |-> "none", by |-> "unobserved"]
         [] OTHER -> [label |-> Label(worst, FALSE), by |-> "observed"]

\* Mutant: the window is not cut at the snapshot.
TrailingAhead(l, t) ==
    [dpd_now |-> months[l][t], unobserved |-> 0,
     max_dpd_3m |-> MaxDpd(l, DOMAIN months[l]),
     times_in_arrears_3m |-> 0, worst_dpd_ever |-> MaxDpd(l, DOMAIN months[l])]

\* trailing_features(): what the row of month t carries, from months up to t.
Trailing(l, t) ==
    LET history == {u \in DOMAIN months[l] : u <= t}
        Recent(n) == {u \in history : Cardinality({v \in history : v > u}) < n}
        arrears(n) == {u \in Recent(n) : months[l][u] # Unknown /\ months[l][u] >= IndeterminateDpd}
    IN [dpd_now |-> months[l][t],
        unobserved |-> Cardinality({u \in history : months[l][u] = Unknown}),
        max_dpd_3m |-> MaxDpd(l, Recent(3)),
        times_in_arrears_3m |-> Cardinality(arrears(3)),
        worst_dpd_ever |-> MaxDpd(l, history)]

\* Mutant: the months after the event stay at risk.
HazardRowsUncut(l) ==
    {[at |-> t, mob |-> t,
      cause |-> IF t = Event(l).at THEN Event(l).type ELSE "perform"] : t \in DOMAIN months[l]}

\* hazard_rows(): the months at risk, up to the event.  An event in a month that
\* has no row is carried one step on from the last row of the spell.
HazardRows(l) ==
    LET event == Event(l)
        atRisk == {t \in DOMAIN months[l] : event = NoEvent \/ t <= event.at}
        rows == {[at |-> t, mob |-> t,
                  cause |-> IF t = event.at THEN event.type ELSE "perform"] : t \in atRisk}
        step == IF event.at - Latest(l) > 1 THEN event.at - Latest(l) ELSE 1
    IN IF event = NoEvent \/ event.at \in atRisk THEN rows
       ELSE rows \cup {[at |-> event.at, mob |-> Latest(l) + step, cause |-> event.type]}

\* transition_pairs(): adjacent months alone.
Pairs(l) == {t \in DOMAIN months[l] : t + 1 \in DOMAIN months[l]}

-----------------------------------------------------------------------------
(* The reports.                                                            *)

\* The SICR ratios and thresholds that occur; Unknown stands for a pending one.
Ratio == 2..3
Policy == [sicr_threshold : {Unknown, 2}, ews_enabled : BOOLEAN]
DpdBackstop == 30

\* classify(): item has a dpd, a written_off flag that may be unknown, a ratio of
\* lifetime PDs and a red flag.  "none" stands for an undeterminable account.
Triggers(policy, item) ==
    (IF item.dpd # Unknown /\ item.dpd >= DpdBackstop THEN {"dpd_backstop"} ELSE {})
    \cup (IF policy.ews_enabled /\ item.red THEN {"ews_red_flag"} ELSE {})
    \cup (IF policy.sicr_threshold # Unknown /\ item.ratio # Unknown
             /\ item.ratio > policy.sicr_threshold
          THEN {"sicr_pd_ratio"} ELSE {})

\* Mutant: an arm that cannot be evaluated counts as one that did not fire.
ClassifyOptimist(policy, item) ==
    IF Label(OrZero(item.dpd), item.written_off = TRUE) = "bad" THEN "three"
    ELSE IF Triggers(policy, item) # {} THEN "two" ELSE "one"

Classify(policy, item) ==
    IF Label(OrZero(item.dpd), item.written_off = TRUE) = "bad" THEN "three"
    ELSE IF Triggers(policy, item) # {} THEN "two"
    ELSE IF policy.sicr_threshold = Unknown \/ item.ratio = Unknown THEN "none"
    ELSE "one"

\* run_staging() over the last month of each spell.
Item(l, ratio, red) ==
    [dpd |-> months[l][Latest(l)], ratio |-> ratio, red |-> red,
     written_off |-> IF Event(l).type = "default" THEN TRUE ELSE Unknown]

-----------------------------------------------------------------------------
\* bucket_of() and build_matrix().
Bucket == {"current", "1-30", "31-60", "61-89", "npa", "unknown"}
BucketOf(dpd) ==
    IF dpd = Unknown THEN "unknown"
    ELSE IF dpd >= DefaultDpd THEN "npa"
    ELSE IF dpd = 0 THEN "current"
    ELSE IF dpd < 31 THEN "1-30" ELSE IF dpd < 61 THEN "31-60" ELSE "61-89"

AllPairs ==
    UNION {{[loan |-> l, at |-> t, source |-> BucketOf(months[l][t]),
             target |-> BucketOf(months[l][t + 1])] : t \in Pairs(l)} : l \in Loan}
Counts(pairs, source, target) == Cardinality({p \in pairs : p.source = source /\ p.target = target})
RowTotal(pairs, source) == MapThenSumSet(LAMBDA target : Counts(pairs, source, target), Bucket)

-----------------------------------------------------------------------------
\* observed_incidence() and kaplan_meier(): shares of Whole, which the numbers at
\* risk of MaxMonth months divide.
Power(base, n) == FoldSet(LAMBDA i, product : product * base, 1, 1..n)
Whole == Power(FoldSet(LAMBDA i, product : product * i, 1, 1..Cardinality(Loan)), MaxMonth + 1)

AllHazardRows == UNION {{[loan |-> l, row |-> r] : r \in HazardRows(l)} : l \in Spelled}
AtRisk(rows, m) == Cardinality({h \in rows : h.row.mob = m})
EventsAt(rows, m, cause) == Cardinality({h \in rows : h.row.mob = m /\ h.row.cause = cause})
Part(share, events, n) == IF n = 0 THEN 0 ELSE (share * events) \div n

\* The accumulators after the months 0..m.
NextMonth(last, n, defaults, prepaids) ==
    LET d == Part(last.event_free, defaults, n) p == Part(last.event_free, prepaids, n) IN
    [default |-> last.default + d, prepay |-> last.prepay + p, event_free |-> last.event_free - d - p,
     naive_alive |-> last.naive_alive - Part(last.naive_alive, defaults, n)]
Incidence(rows) == LET
    after[m \in -1..MaxMonth] ==
        IF m = -1 THEN [default |-> 0, prepay |-> 0, event_free |-> Whole, naive_alive |-> Whole]
        ELSE NextMonth(after[m - 1], AtRisk(rows, m),
                       EventsAt(rows, m, "default"), EventsAt(rows, m, "prepaid"))
    IN after[MaxMonth]

\* A subject is a loan with the month its spell ended and whether by default.
Subject(l) ==
    [time |-> IF Event(l) # NoEvent THEN Event(l).at ELSE Latest(l),
     event |-> Event(l).type = "default"]

\* Mutant: those whose time came leave the risk set before the step.
AtRiskAfter(subjects, t) ==
    Cardinality({l \in Spelled : subjects[l].time > t \/ subjects[l] = [time |-> t, event |-> TRUE]})

\* Those whose time came leave the risk set after the step.
AtRiskAt(subjects, t) == Cardinality({l \in Spelled : subjects[l].time >= t})

\* _product_limit().
ProductLimit(subjects) == LET
    Events(t) == Cardinality({l \in Spelled : subjects[l] = [time |-> t, event |-> TRUE]})
    Step(alive, t) == alive - Part(alive, Events(t), AtRiskAt(subjects, t))
    after[t \in -1..MaxMonth] == IF t = -1 THEN Whole ELSE Step(after[t - 1], t)
    IN after[MaxMonth]
KaplanMeier == ProductLimit([l \in Spelled |-> Subject(l)])

\* vintage_curves(): cumulative defaults over the cohort as originated.
VintageBad(m) == Cardinality({l \in Spelled : Event(l).type = "default" /\ Event(l).at <= m})
VintageAtRisk(m) ==
    Cardinality({l \in Spelled :
        Latest(l) >= m /\ (Event(l).type # "default" \/ Event(l).at > m)})

\* subdistribution_rows() for default: a prepaid loan stays at risk to the horizon.
Subdistribution(l, horizon) ==
    LET rows == {r \in HazardRows(l) : r.mob < horizon}
        last == CHOOSE m \in {r.mob : r \in rows} : \A r \in rows : r.mob <= m
    IN IF rows = {} \/ Event(l).type # "prepaid" THEN rows
       ELSE rows \cup {[at |-> last, mob |-> m, cause |-> "perform"] : m \in (last + 1)..(horizon - 1)}
NonAdministrative == \E l \in Spelled : Event(l) = NoEvent /\ Latest(l) # clock

-----------------------------------------------------------------------------
(* Properties of the panel.                                                *)

Known(l, t) == l \in Spelled /\ t \in DOMAIN months[l]

\* A training row is final: its features never move, and a label once given moves
\* only when a loan turns out to have been lost in a month of its window.
RowsAreFinal ==
    \A l \in Loan : \A t \in DOMAIN months[l] :
        /\ Trailing(l, t)' = Trailing(l, t)
        /\ LET old == BehaviouralRow(l, t).label
               new == BehaviouralRow(l, t)'.label
           IN old \notin {"none", new} =>
                /\ disposition'[l].code = "loss" /\ disposition[l] = NotDisposed
                /\ new = "bad" /\ disposition'[l].at <= t + Horizon

\* Every ended spell contributes its event once, and nobody is at risk after it.
EventsCountOnce ==
    \A l \in Spelled :
        LET ending == {r \in HazardRows(l) : r.cause # "perform"} IN
        /\ Cardinality(ending) = IF Event(l) = NoEvent THEN 0 ELSE 1
        /\ \A e \in ending : \A r \in HazardRows(l) : r.at <= e.at
        /\ DOMAIN months[l] # {} => HazardRows(l) # {}

\* A label good was earned.  Every status known of its window is below the arrears
\* band, and one is known unless the loan was paid off there; a loan sold at a loss
\* in the window had crossed the threshold by the month of the row, and it is that
\* first default alone that behavioural_rows() looks for.
InWindow(t, u) == u > t /\ u <= t + Horizon
GoodIsEarned ==
    \A l \in Spelled : \A t \in DOMAIN months[l] :
        BehaviouralRow(l, t).label = "good" =>
            LET known == {u \in DOMAIN months[l] : InWindow(t, u) /\ months[l][u] # Unknown}
                Left(code) == disposition[l].code = code /\ InWindow(t, disposition[l].at)
            IN /\ \A u \in known : months[l][u] < IndeterminateDpd
               /\ known = {} => Left("prepaid")
               /\ Left("loss") => default_at[l] \in 1..t

\* A default anywhere in the window makes the row bad, a disposal at a loss
\* included.  It does not after a first default: the loan has one event.
LossIsNeverGood ==
    \A l \in Spelled : \A t \in DOMAIN months[l] :
        disposition[l].code = "loss" /\ InWindow(t, disposition[l].at)
        => BehaviouralRow(l, t).label # "good"

\* A loan bought back from the pool is censored: none of its rows is good by
\* months that nobody observed.
CensoringIsNotGood ==
    \A l \in Spelled : \A t \in DOMAIN months[l] :
        disposition[l].code = "repurchased" /\ t < clock
            /\ BehaviouralRow(l, t) = [label |-> "good", by |-> "observed"]
        => t + Horizon <= disposition[l].at

-----------------------------------------------------------------------------
(* Properties of the reports.                                              *)

Gapless == \A l \in Spelled : DOMAIN months[l] = 1..Latest(l)
DatedInRows == \A l \in Spelled : Event(l) # NoEvent => Event(l).at \in DOMAIN months[l]

\* A stage never improves when a policy learns to evaluate one more arm, and it is
\* never better than the label of the same month.
Stricter(p, q) ==
    /\ p.sicr_threshold # Unknown => q.sicr_threshold = p.sicr_threshold
    /\ p.ews_enabled => q.ews_enabled
Severity(stage) == CASE stage \in {"none", "one"} -> 1 [] stage = "two" -> 2 [] stage = "three" -> 3
StagesAgree ==
    \A l \in Spelled : \A ratio \in Ratio \cup {Unknown} : \A red \in BOOLEAN :
        \A item \in {Item(l, ratio, red)} :
            LET stages == {[policy |-> p, stage |-> Classify(p, item)] : p \in Policy} IN
            \A s \in stages :
                /\ \A t \in stages : Stricter(s.policy, t.policy) => Severity(t.stage) >= Severity(s.stage)
                /\ s.stage = "one" => /\ Label(OrZero(item.dpd), FALSE) = "good"
                                      /\ ratio # Unknown /\ ratio <= s.policy.sicr_threshold
                /\ s.stage = "three" => Event(l).type = "default"

\* The matrix loses nobody: the months of a spell that leave a bucket are those
\* that entered it, but for its first and its last month in a row.
FlowIsConserved ==
    \A pairs \in {AllPairs} : \A b \in Bucket :
        LET seen == {[loan |-> l, at |-> t] : l \in Loan, t \in 1..MaxMonth}
            inBucket == {x \in seen : x.at \in DOMAIN months[x.loan]
                                       /\ BucketOf(months[x.loan][x.at]) = b}
            starts == {x \in inBucket : x.at - 1 \notin DOMAIN months[x.loan]}
            ends == {x \in inBucket : x.at + 1 \notin DOMAIN months[x.loan]}
        IN /\ RowTotal(pairs, b) = Cardinality(inBucket) - Cardinality(ends)
           /\ MapThenSumSet(LAMBDA c : Counts(pairs, c, b), Bucket)
                 = Cardinality(inBucket) - Cardinality(starts)

\* The two causes and those still there make up the cohort, and ignoring the
\* competing cause never understates default.
IncidenceCloses ==
    \A last \in {Incidence(AllHazardRows)} :
        /\ last.default + last.prepay + last.event_free = Whole
        /\ Whole - last.naive_alive >= last.default

\* Three computations of one curve agree on an extract without gaps: the naive
\* incidence is the product limit, and without early exits the vintage curve is
\* both.
Agree(rows, alive) ==
    /\ Incidence(rows).naive_alive = alive
    /\ (\A l \in Spelled : Event(l).type # "prepaid" /\ (Latest(l) = clock \/ Event(l) # NoEvent))
          => Cardinality(Spelled) * (Whole - alive) = Whole * VintageBad(MaxMonth)
    /\ \A m \in 1..MaxMonth : VintageAtRisk(m) >= AtRisk(rows, m) - EventsAt(rows, m, "default")
CurvesAgree == Gapless /\ DatedInRows => Agree(AllHazardRows, KaplanMeier)

\* Fine and Gray's risk set holds the cause-specific one and those who prepaid
\* before, nobody else and nobody twice.
FineGrayRiskSet ==
    ~NonAdministrative /\ Gapless /\ DatedInRows =>
        \A m \in 1..(Horizon + 1) :
            Cardinality({l \in Spelled : \E r \in Subdistribution(l, Horizon + 2) : r.mob = m})
            = AtRisk(AllHazardRows, m) + Cardinality({l \in Spelled : Event(l).type = "prepaid" /\ Event(l).at < m})

\* What the reports count.
PortfolioSound ==
    /\ FlowIsConserved
    /\ IncidenceCloses
    /\ CurvesAgree
    /\ FineGrayRiskSet

=============================================================================
