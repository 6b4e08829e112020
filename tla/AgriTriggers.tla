---------------------------- MODULE AgriTriggers ----------------------------
(***************************************************************************)
(* Agricultural early-warning triggers and the scope they may be acted on: *)
(* ews/agri_triggers.py.  A revisit is whether its z-score is below the    *)
(* threshold and whether the crop was at a critical stage; a district's    *)
(* SPEI-3 is whether it is at or below the drought threshold.              *)
(***************************************************************************)
EXTENDS Naturals, Sequences, FiniteSets

CONSTANTS
    Plot, District,
    DistrictOf,     \* district_of: a function on some of the plots
    Cutoff,         \* plot -> ratified sowing cutoff, or Ungrounded
    Ungrounded,
    Consecutive,    \* NDVI_CONSECUTIVE_REVISITS
    MaxDay,         \* bound: days
    MaxRevisits     \* bound: revisits of a plot

VARIABLES
    today,
    sown,           \* plots on which sowing was observed
    revisits,       \* plot -> NDVI observations in date order
    dry             \* districts whose SPEI-3 is at or below the threshold

agriVars == <<today, sown, revisits, dry>>

Init == today = 0 /\ sown = {} /\ revisits = [p \in Plot |-> <<>>] /\ dry = {}

PassDay ==
    /\ today < MaxDay
    /\ today' = today + 1
    /\ UNCHANGED <<sown, revisits, dry>>
ObserveSowing(p) ==
    /\ sown' = sown \cup {p}
    /\ UNCHANGED <<today, revisits, dry>>
Revisit(p, stressed, critical) ==
    /\ Len(revisits[p]) < MaxRevisits
    /\ revisits' = [revisits EXCEPT ![p] =
         Append(@, [day |-> today, stressed |-> stressed, critical |-> critical])]
    /\ UNCHANGED <<today, sown, dry>>
MeasureSpei(d) ==
    /\ dry' \in {dry \cup {d}, dry \ {d}}
    /\ UNCHANGED <<today, sown, revisits>>

Next ==
    \/ PassDay
    \/ \E p \in Plot : ObserveSowing(p) \/ \E s, c \in BOOLEAN : Revisit(p, s, c)
    \/ \E d \in District : MeasureSpei(d)

Spec == Init /\ [][Next]_agriVars

-----------------------------------------------------------------------------
NoTrigger == [type |-> "none"]

\* non_sowing_trigger(): it cannot fire without a ratified cutoff.
NonSowing(p) == Cutoff[p] # Ungrounded /\ p \notin sown /\ today >= Cutoff[p]

\* Mutant: a healthy critical revisit does not end the run.
StressRunUnbroken(observations) == LET
    critical == SelectSeq(observations, LAMBDA o : o.critical)
    run[k \in 0..Len(critical)] ==
        IF k = 0 THEN 0
        ELSE LET before == run[k - 1] IN
             IF before = Consecutive THEN before
             ELSE IF critical[k].stressed THEN before + 1 ELSE before
    IN [critical |-> critical, run |-> run]

\* The run of stressed critical revisits at each of them; a healthy one ends it, one
\* that is not critical does not.
StressRun(observations) == LET
    critical == SelectSeq(observations, LAMBDA o : o.critical)
    run[k \in 0..Len(critical)] ==
        IF k = 0 THEN 0
        ELSE LET before == run[k - 1] IN
             IF before = Consecutive THEN before
             ELSE IF critical[k].stressed THEN before + 1 ELSE 0
    IN [critical |-> critical, run |-> run]

\* ndvi_stress_trigger(): at the revisit that completes the first run.
NdviStress(p, observations) ==
    LET r == StressRun(observations)
        full == {k \in DOMAIN r.critical : r.run[k] = Consecutive}
    IN IF full = {} THEN NoTrigger
       ELSE LET first == CHOOSE k \in full : \A j \in full : k <= j
            IN [type |-> "ndvi_stress", subject |-> p, observed_on |-> r.critical[first].day]

Individual ==
    {[type |-> "non_sowing", subject |-> p, observed_on |-> today] : p \in {q \in Plot : NonSowing(q)}}
    \cup ({NdviStress(p, revisits[p]) : p \in Plot} \ {NoTrigger})
Portfolio == {[type |-> "district_drought", subject |-> d, observed_on |-> today] : d \in dry}

\* route_by_scope() and suppressed_borrowers().
PortfolioDistricts == {t.subject : t \in Portfolio}
Suppressed ==
    {t \in Individual : t.subject \in DOMAIN DistrictOf /\ DistrictOf[t.subject] \in PortfolioDistricts}
Actionable == Individual \ Suppressed

-----------------------------------------------------------------------------
(* Properties.                                                             *)

\* A plot is stressed exactly when some stretch of its revisits holds the required
\* number of stressed critical ones and no healthy critical one.
StressIsSustained ==
    \A p \in Plot :
        LET obs == revisits[p]
            In(a, b, Good(_)) == {k \in a..b : obs[k].critical /\ Good(obs[k])}
        IN (NdviStress(p, obs) # NoTrigger) <=>
             \E a, b \in DOMAIN obs :
                 /\ Cardinality(In(a, b, LAMBDA o : o.stressed)) >= Consecutive
                 /\ In(a, b, LAMBDA o : ~o.stressed) = {}

\* Once fired it stays, with its date: later revisits, good or bad, change nothing.
StressStands ==
    \A p \in Plot : \A n \in 0..Len(revisits[p]) :
        LET then == NdviStress(p, SubSeq(revisits[p], 1, n)) IN
        then # NoTrigger => NdviStress(p, revisits[p]) = then

\* While a district is in drought nobody of it is pressed, and nobody elsewhere is
\* spared; the plots of no known district are.
NoPressureInDrought ==
    \A t \in Individual :
        t \in Actionable <=> ~(\E d \in dry : t.subject \in DOMAIN DistrictOf /\ DistrictOf[t.subject] = d)

AgriSound == StressIsSustained /\ StressStands /\ NoPressureInDrought

=============================================================================
