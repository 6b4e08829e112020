------------------------------ MODULE Backtest ------------------------------
(***************************************************************************)
(* The replay of the early-warning system against what became of the       *)
(* accounts and of what the officers said: ews/backtest.py.                *)
(***************************************************************************)
EXTENDS Integers, FiniteSets, FiniteSetsExt

CONSTANTS
    Account,
    CapturePercent, \* CAPTURE_TARGET
    RedPercent,     \* RED_PRECISION_TARGET
    ReplayMonths,   \* REPLAY_MONTHS
    RequiredLead,   \* REQUIRED_LEAD_DAYS
    Raises,         \* the report raises instead of answering
    MaxDay,         \* bound: days of the replay
    MaxAlerts       \* bound: alerts

VARIABLES
    alerts,         \* [account, day, tier]
    defaulted_on,   \* account -> day, of those that defaulted
    dispositions    \* account -> what the officer confirmed, of those judged

backtestVars == <<alerts, defaulted_on, dispositions>>

Tiers == {"amber", "red"}

Defaulter == DOMAIN defaulted_on
Judged == DOMAIN dispositions

Init == alerts = {} /\ defaulted_on = <<>> /\ dispositions = <<>>

Alert(account, day, tier) ==
    /\ Cardinality(alerts) < MaxAlerts
    /\ alerts' = alerts \cup {[account |-> account, day |-> day, tier |-> tier]}
    /\ UNCHANGED <<defaulted_on, dispositions>>
Default(account, day) ==
    /\ account \notin DOMAIN defaulted_on
    /\ defaulted_on' = [a \in Defaulter \cup {account} |->
                            IF a = account THEN day ELSE defaulted_on[a]]
    /\ UNCHANGED <<alerts, dispositions>>

\* An officer judges an account that was alerted; a later judgement replaces it.
Judge(account, confirmed) ==
    /\ \E a \in alerts : a.account = account
    /\ dispositions' = [a \in Judged \cup {account} |->
                            IF a = account THEN confirmed ELSE dispositions[a]]
    /\ UNCHANGED <<alerts, defaulted_on>>

Next ==
    \/ \E a \in Account, d \in 0..MaxDay : Default(a, d) \/ \E t \in Tiers : Alert(a, d, t)
    \/ \E a \in Account, confirmed \in BOOLEAN : Judge(a, confirmed)

Spec == Init /\ [][Next]_backtestVars

-----------------------------------------------------------------------------
Lead(a) == defaulted_on[a.account] - a.day
AlertsOf(account, tiers) == {a \in alerts : a.account = account /\ a.tier \in tiers}

\* Mutant: the default itself counts as a warning of it.
InTimeAbsolute(account, lead, tiers) ==
    {a \in AlertsOf(account, tiers) : Lead(a) >= lead \/ -Lead(a) >= lead}

InTime(account, lead, tiers) == {a \in AlertsOf(account, tiers) : Lead(a) >= lead}

\* capture_rate(): the earliest alert in time supplies the lead.
Captured(lead, tiers) == {a \in Defaulter : InTime(a, lead, tiers) # {}}
NeverAlerted(tiers) == {a \in Defaulter : AlertsOf(a, tiers) = {}}
TooLate(lead, tiers) == Defaulter \ (Captured(lead, tiers) \cup NeverAlerted(tiers))
LeadDays(account, lead, tiers) == Max({Lead(a) : a \in InTime(account, lead, tiers)})

MeetsTarget(lead, tiers) ==
    /\ Defaulter # {}
    /\ 100 * Cardinality(Captured(lead, tiers)) >= CapturePercent * Cardinality(Defaulter)

\* tier_precision(): over the judged alerts of the tier.  A judgement is of the account,
\* so every alert of the tier that the account had counts with it.
TierPrecision(tier) ==
    LET judged == {a \in alerts : a.tier = tier /\ a.account \in Judged}
    IN [alerts |-> Cardinality(judged),
        confirmed |-> Cardinality({a \in judged : dispositions[a.account]})]

MeetsPrecision(precision) ==
    precision.alerts > 0 /\ 100 * precision.confirmed >= RedPercent * precision.alerts

\* BacktestReport.meets_targets: why not.  A red precision over no alerts misses its
\* target, and the sentence that says so divides by them.
WhyNot(months) ==
    LET red == TierPrecision("red") IN
    IF Judged # {} /\ red.alerts = 0 THEN Raises
    ELSE (IF months >= ReplayMonths THEN {} ELSE {"history"})
         \cup (IF MeetsTarget(RequiredLead, Tiers) THEN {} ELSE {"capture"})
         \cup (CASE Judged = {} -> {"precision_not_measured"}
                 [] Judged # {} /\ ~MeetsPrecision(red) -> {"precision"}
                 [] OTHER -> {})

\* assert_no_hindsight().
NoHindsight == \A a \in alerts : a.account \in Defaulter => a.day < defaulted_on[a.account]

-----------------------------------------------------------------------------
(* Properties.                                                             *)

\* Every defaulter is counted once, and asking for a longer lead or for fewer tiers
\* never finds more of them.
CaptureIsMonotone ==
    \A lead \in 0..MaxDay :
        /\ Captured(lead + 1, Tiers) \subseteq Captured(lead, Tiers)
        /\ \A t \in Tiers :
             /\ Captured(lead, {t}) \subseteq Captured(lead, Tiers)
             /\ MeetsTarget(lead, {t}) => MeetsTarget(lead, Tiers)
             /\ Captured(lead, {t}) \cap NeverAlerted(Tiers) = {}
        /\ Captured(lead, Tiers) = Captured(lead, {"amber"}) \cup Captured(lead, {"red"})

\* A replay without hindsight credits no warning that came with the default or after
\* it, not even when no lead is asked for; and the lead it reports is that of the
\* account's first alert.
LeadIsHonest ==
    /\ \A lead \in 1..MaxDay : \A a \in Captured(lead, Tiers) :
         \E w \in alerts : w.account = a /\ w.day + lead <= defaulted_on[a]
    /\ NoHindsight => \A lead \in 0..MaxDay :
         /\ \A a \in Captured(lead, Tiers) :
              /\ LeadDays(a, lead, Tiers) >= 1
              /\ LeadDays(a, lead, Tiers) = Max({Lead(w) : w \in AlertsOf(a, Tiers)})
         /\ lead <= 1 => TooLate(lead, Tiers) = {}

\* The targets are met on two kinds of evidence, of which neither stands in for the
\* other: somebody who defaulted was warned the required days before, and an officer
\* confirmed somebody warned in red.  What defaulted later confirms nothing: without a
\* judgement the precision stays unmeasured (tier_precision(), meets_targets).
TargetsNeedBoth ==
    \A months \in {ReplayMonths - 1, ReplayMonths} :
        /\ WhyNot(months) = {} =>
             /\ months = ReplayMonths
             /\ \E a \in Defaulter, w \in alerts :
                  w.account = a /\ w.day + RequiredLead <= defaulted_on[a]
             /\ \E w \in alerts : w.tier = "red" /\ w.account \in Judged /\ dispositions[w.account]
        /\ (\A a \in Judged : ~dispositions[a]) => WhyNot(months) # {}
        /\ WhyNot(months) = Raises <=>
             Judged # {} /\ \A w \in alerts : w.tier = "red" => w.account \notin Judged

BacktestSound == CaptureIsMonotone /\ LeadIsHonest /\ TargetsNeedBoth

=============================================================================
