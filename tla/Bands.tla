------------------------------- MODULE Bands -------------------------------
(***************************************************************************)
(* Policy bands as dual-control configuration: serving/bands.py.           *)
(*                                                                         *)
(* Probabilities are scaled to 0..PdScale.  A config is a record of the    *)
(* two cutoffs, each a number or Pending (a TBD placeholder), and its      *)
(* approvals.  version() hashes exactly these fields, so a config is its   *)
(* own version.                                                            *)
(***************************************************************************)
EXTENDS Integers, FiniteSets

CONSTANTS
    PdScale,        \* the integer that stands for probability 1.0
    Pending,        \* a cutoff the committee has not ratified
    Approver        \* people who can approve a config

ASSUME PdScaleAssumption == PdScale \in Nat \ {0}
ASSUME PendingAssumption == Pending \notin Int
ASSUME ApproverAssumption == IsFiniteSet(Approver)

Outcome == {"approve", "refer", "decline"}

RequiredApprovers == 2

\* An approval is a person and a date, so one person may approve twice.
Approval == [approver : Approver, approved_at : Nat]

Grounded(c) == c.approve_below # Pending /\ c.decline_above # Pending

\* BandConfig.__post_init__: two ratified cutoffs must leave a review band.
WellFormed(c) == Grounded(c) => c.approve_below < c.decline_above

Cutoff == Int \cup {Pending}
BandConfig ==
    {c \in [approve_below : Cutoff, decline_above : Cutoff, approvals : SUBSET Approval] :
        WellFormed(c)}

DistinctApprovers(c) == Cardinality({a.approver : a \in c.approvals})

DualControlSatisfied(c) == DistinctApprovers(c) >= RequiredApprovers

Effective(c) == Grounded(c) /\ DualControlSatisfied(c)

\* Mutant: the probability of default is read as a score, higher being better.
BandOfInverted(c, pd) ==
    IF pd >= c.decline_above THEN "approve"
    ELSE IF pd <= c.approve_below THEN "decline" ELSE "refer"

\* outcome_for() of an effective config and a probability in range.
BandOf(c, pd) ==
    IF pd <= c.approve_below THEN "approve"
    ELSE IF pd >= c.decline_above THEN "decline" ELSE "refer"

\* outcome_for(): the exceptions in the order the code raises them.
OutcomeFor(c, pd) ==
    IF ~Grounded(c) THEN "Ungrounded"
    ELSE IF ~DualControlSatisfied(c) \/ pd \notin 0..PdScale THEN "BandConfigError"
    ELSE BandOf(c, pd)

\* How restrictive an outcome is.
Severity(o) == CASE o = "approve" -> 0 [] o = "refer" -> 1 [] o = "decline" -> 2

=============================================================================
