---------------------------- MODULE EarlyWarning ----------------------------
(***************************************************************************)
(* The early-warning loop of ews/signals.py and ews/routing.py: signals    *)
(* are registered, the active ones raise alerts, alerts become cases, the  *)
(* officer is assigned the day's cases under a cap, dispositions come back *)
(* and their rolling precision retires the signals that decayed.           *)
(*                                                                         *)
(* A day is the unit of time.  The precision of a signal is the pair       *)
(* (confirmed, alerts), compared with the floor Floor[1] / Floor[2].       *)
(* Reasons, owners, actions and outcome codes are present on every alert   *)
(* and disposition (the constructors refuse them otherwise) and carry no   *)
(* state.                                                                  *)
(***************************************************************************)
EXTENDS Naturals, FiniteSets

CONSTANTS
    Signal, SignalVersion,
    Evidence,           \* backtests: records [confirmed, total]
    MinAlerts,          \* MIN_ALERTS_FOR_PRECISION
    Floor,              \* the ratified floor, a pair <<numerator, denominator>>
    AlertId,
    Cap,                \* the ratified officer cap
    Window,             \* ALERT_PRECISION_WINDOW_DAYS
    NoEvidence, NotRegistered, NotOpen, NoDisposition,
    MaxDay              \* bound: the clock stops here, working days go on

\* No disposition confirms an alert that was never raised.
PrecisionEvidence == {e \in [confirmed : Nat, total : Nat] : e.confirmed <= e.total}

ASSUME EwsAssumption ==
    /\ Evidence \subseteq PrecisionEvidence
    /\ NoEvidence \notin Evidence
    /\ Floor \in Nat \X (Nat \ {0})
    /\ MinAlerts \in Nat \ {0} /\ Cap \in Nat \ {0} /\ Window \in Nat \ {0}
    /\ MaxDay \in Nat

Tier == {"AMBER", "RED"}
SignalDefinition == [version : SignalVersion, precision : Evidence \cup {NoEvidence}, enabled : BOOLEAN]
Case == [tier : Tier, raised : 0..MaxDay, nth : Nat, signals : SUBSET Signal]
Disposition == [confirmed : BOOLEAN, disposed : 0..MaxDay]

\* The three absent values are none of the values they stand for the absence of.
ASSUME AbsentAssumption ==
    /\ NotRegistered \notin SignalDefinition
    /\ NotOpen \notin Case
    /\ NoDisposition \notin Disposition

VARIABLES
    catalog,        \* SignalCatalog.signals
    floor_ratified, \* whether PRECISION_FLOOR is Grounded
    cases,          \* InMemoryCaseManager._cases
    dispositions,   \* InMemoryCaseManager._dispositions
    assigned,       \* the officer's assignment of the day
    condemned,      \* RetirementDecisions with retire = True, not applied yet
    day,
    rebuked         \* history: signals with an alert an officer ever called irrelevant

vars == <<catalog, floor_ratified, cases, dispositions, assigned, condemned, day, rebuked>>

Opened == {a \in AlertId : cases[a] # NotOpen}
Disposed == {a \in AlertId : dispositions[a] # NoDisposition}
OpenCases == Opened \ Disposed
Known == {s \in Signal : catalog[s] # NotRegistered}

Init ==
    /\ catalog = [s \in Signal |-> NotRegistered]
    /\ floor_ratified = FALSE
    /\ cases = [a \in AlertId |-> NotOpen]
    /\ dispositions = [a \in AlertId |-> NoDisposition]
    /\ assigned = {}
    /\ condemned = {}
    /\ day = 0
    /\ rebuked = {}

-----------------------------------------------------------------------------
(* ews/signals.py.                                                         *)

BelowFloor(confirmed, total) == confirmed * Floor[2] < Floor[1] * total

\* SignalDefinition.shippable.
Shippable(sig) ==
    /\ sig.precision # NoEvidence
    /\ sig.precision.total >= MinAlerts
    /\ floor_ratified
    /\ ~BelowFloor(sig.precision.confirmed, sig.precision.total)

\* SignalCatalog.active().
Active == {s \in Known : catalog[s].enabled /\ Shippable(catalog[s])}

\* SignalCatalog.register(): only the version now registered is refused.
Register(s, v, e) ==
    /\ s \in Known => catalog[s].version # v
    /\ catalog' = [catalog EXCEPT ![s] =
          [version |-> v, precision |-> e, enabled |-> TRUE]]
    /\ UNCHANGED <<floor_ratified, cases, dispositions, assigned, condemned, day, rebuked>>

\* LH-501 is settled: the Pending floor becomes Grounded.
RatifyFloor ==
    /\ ~floor_ratified
    /\ floor_ratified' = TRUE
    /\ UNCHANGED <<catalog, cases, dispositions, assigned, condemned, day, rebuked>>

-----------------------------------------------------------------------------
(* Tiering and the case manager (ews/routing.py).                          *)

\* tier(): the two-key rule.
TierOf(change_point, adverse, velocity) ==
    CASE ~change_point                        -> "NONE"
      [] change_point /\ adverse /\ velocity  -> "RED"
      [] OTHER                                -> "AMBER"

\* Mutant: an alert that earns no tier is opened all the same.
RaiseAlertUntiered(a, fired, change_point, adverse, velocity) ==
    /\ a \notin Opened
    /\ fired \subseteq Active /\ fired # {}
    /\ cases' = [cases EXCEPT ![a] =
          [tier |-> TierOf(change_point, adverse, velocity), raised |-> day,
           nth |-> Cardinality(Opened), signals |-> fired]]
    /\ UNCHANGED <<catalog, floor_ratified, dispositions, assigned, condemned, day, rebuked>>
\* catalog.evaluate() fires, the evidence is tiered, the Alert is built and
\* open_case() stores it.  The alert keeps the ids of the signals that fired.
RaiseAlert(a, fired, change_point, adverse, velocity) ==
    LET tier == TierOf(change_point, adverse, velocity) IN
    /\ a \notin Opened
    /\ fired \subseteq Active /\ fired # {}
    /\ tier \in Tier
    /\ cases' = [cases EXCEPT ![a] =
          [tier |-> tier, raised |-> day, nth |-> Cardinality(Opened), signals |-> fired]]
    /\ UNCHANGED <<catalog, floor_ratified, dispositions, assigned, condemned, day, rebuked>>

\* record_disposition(): for any case ever opened; a second one replaces the first.
RecordDisposition(a, confirmed) ==
    /\ a \in Opened
    /\ dispositions' = [dispositions EXCEPT ![a] = [confirmed |-> confirmed, disposed |-> day]]
    /\ rebuked' = IF confirmed THEN rebuked ELSE rebuked \cup cases[a].signals
    /\ UNCHANGED <<catalog, floor_ratified, cases, assigned, condemned, day>>

-----------------------------------------------------------------------------
(* apply_officer_cap().  The sort key is (-tier, raised_at), ties keep the *)
(* order in which the cases were opened.                                   *)

\* Mutant: the oldest first, whatever the tier.
OutranksByAge(a, b) ==
    \/ cases[a].raised < cases[b].raised
    \/ cases[a].raised = cases[b].raised /\ cases[a].nth < cases[b].nth
Outranks(a, b) ==
    \/ cases[a].tier = "RED" /\ cases[b].tier = "AMBER"
    \/ /\ cases[a].tier = cases[b].tier
       /\ \/ cases[a].raised < cases[b].raised
          \/ cases[a].raised = cases[b].raised /\ cases[a].nth < cases[b].nth

Assigned(alerts) ==
    {a \in alerts : Cardinality({b \in alerts : Outranks(b, a)}) < Cap}

\* The day's assignment is drawn from the open cases.
OfficerPass ==
    /\ assigned' = Assigned(OpenCases)
    /\ UNCHANGED <<catalog, floor_ratified, cases, dispositions, condemned, day, rebuked>>

-----------------------------------------------------------------------------
(* Auto-retirement.                                                        *)

\* The dispositions rolling_precision() keeps for a signal.
InWindow(s) ==
    {a \in Disposed : s \in cases[a].signals /\ day < cases[a].raised + Window}
Confirmed(S) == {a \in S : dispositions[a].confirmed}

\* Mutant: an empty window reads as precision zero.
DegradedWhenQuiet(s) ==
    \/ InWindow(s) = {}
    \/ BelowFloor(Cardinality(Confirmed(InWindow(s))), Cardinality(InWindow(s)))
\* retire_degraded(): no precision, no retirement.
Degraded(s) ==
    /\ InWindow(s) # {}
    /\ BelowFloor(Cardinality(Confirmed(InWindow(s))), Cardinality(InWindow(s)))

\* The decision names the signal; it is applied later.
RetireDegraded(s) ==
    /\ floor_ratified
    /\ s \in Known \ condemned
    /\ Degraded(s)
    /\ condemned' = condemned \cup {s}
    /\ UNCHANGED <<catalog, floor_ratified, cases, dispositions, assigned, day, rebuked>>

\* apply_retirements(): the signal registered under the id is disabled.
ApplyRetirements ==
    /\ condemned # {}
    /\ catalog' = [s \in Signal |-> IF s \in condemned
                                    THEN [catalog[s] EXCEPT !.enabled = FALSE] ELSE catalog[s]]
    /\ condemned' = {}
    /\ UNCHANGED <<floor_ratified, cases, dispositions, assigned, day, rebuked>>

NextDay ==
    /\ day' = IF day < MaxDay THEN day + 1 ELSE day
    /\ assigned' = {}
    /\ UNCHANGED <<catalog, floor_ratified, cases, dispositions, condemned, rebuked>>

Next ==
    \/ \E s \in Signal, v \in SignalVersion, e \in Evidence \cup {NoEvidence} :
          Register(s, v, e)
    \/ RatifyFloor
    \/ \E a \in AlertId, fired \in SUBSET Signal, cp, adverse, velocity \in BOOLEAN :
          RaiseAlert(a, fired, cp, adverse, velocity)
    \/ \E a \in AlertId, confirmed \in BOOLEAN : RecordDisposition(a, confirmed)
    \/ OfficerPass
    \/ \E s \in Signal : RetireDegraded(s)
    \/ ApplyRetirements
    \/ NextDay

Spec == Init /\ [][Next]_vars

-----------------------------------------------------------------------------
(* Properties.                                                             *)

\* The catalogue, the cases and the dispositions keep their shape: only a case
\* once opened is disposed or assigned, only a registered signal condemned.
TypeOK ==
    /\ catalog \in [Signal -> SignalDefinition \cup {NotRegistered}]
    /\ floor_ratified \in BOOLEAN
    /\ cases \in [AlertId -> Case \cup {NotOpen}]
    /\ dispositions \in [AlertId -> Disposition \cup {NoDisposition}]
    /\ IsFiniteSet(Opened) /\ Disposed \subseteq Opened
    /\ assigned \subseteq Opened
    /\ condemned \subseteq Known
    /\ rebuked \subseteq Signal
    /\ day \in 0..MaxDay

\* When the cap holds alerts back it holds back the right ones: no Red waits
\* behind an Amber and no alert behind a younger one of its tier, and nothing
\* waits while the officer has room.
WorstFirst ==
    [][assigned' \notin {assigned, {}} =>
          \A b \in OpenCases \ assigned' :
              /\ Cardinality(assigned') = Cap
              /\ \A a \in assigned' :
                    /\ ~(cases[b].tier = "RED" /\ cases[a].tier = "AMBER")
                    /\ cases[a].tier = cases[b].tier => cases[a].raised <= cases[b].raised]_vars

\* A signal is never disabled while no officer ever called one of its alerts
\* irrelevant: being quiet, or right, retires nothing.
GoodSignalsSurvive ==
    \A s \in Known : catalog[s].enabled \/ s \in rebuked

=============================================================================
