--------------------------- MODULE TrainingSample ---------------------------
(***************************************************************************)
(* From applications to the blocks a model is fitted, calibrated, selected *)
(* and tested on: build_target_table() of scoring/target.py, and           *)
(* split_by_vintage(), holdout_without_time_axis() and carve_calibration() *)
(* of scoring/splits.py.                                                   *)
(***************************************************************************)
EXTENDS Naturals, Sequences, FiniteSets, FiniteSetsExt

CONSTANTS
    Vintage,                \* the cohorts, in the order of their string keys
    TrainPercent, ValidationPercent, CalibrationPercent,
    MaxApplications         \* bound

VARIABLES
    applications,   \* as received: [vintage, at, label, staff]
    rows,           \* TargetTable: the indices kept, in order
    ledger,         \* TargetLedger
    splits          \* part -> sequence of indices

sampleVars == <<applications, rows, ledger, splits>>

Part == {"train", "validation", "test", "calibration"}
NoSplits == [strategy |-> "none"]
NoLedger == [built |-> FALSE]
Labels == {"good", "indeterminate", "none"}

Flag == {"yes", "no", "absent"}

\* staff is the flag an exclusion reads, absent when the row has no such column.
Application == [vintage : Vintage, at : Nat, label : Labels, staff : Flag]

Init ==
    /\ applications = <<>>
    /\ rows = <<>>
    /\ ledger = NoLedger
    /\ splits = NoSplits

Receive(a) ==
    /\ ~ledger.built
    /\ Len(applications) < MaxApplications
    /\ applications' = Append(applications, a)
    /\ UNCHANGED <<rows, ledger, splits>>

Indices == DOMAIN applications
Excluded(i) == applications[i].staff = "yes"
Enforceable == \E i \in Indices : applications[i].staff # "absent"

\* The first exclusion that applies counts the row out, then a missing outcome.
\* An exclusion no row carries the flag of stops the build, unless waived.
Build(require_enforceable) ==
    /\ ~ledger.built
    /\ Enforceable \/ ~require_enforceable
    /\ LET kept == {i \in Indices : ~Excluded(i) /\ applications[i].label # "none"}
       IN /\ rows' = SelectSeq([i \in Indices |-> i], LAMBDA i : i \in kept)
          /\ ledger' = [built |-> TRUE, applications_in |-> Len(applications),
                        kept |-> Cardinality(kept),
                        excluded |-> Cardinality({i \in Indices : Excluded(i)}),
                        undetermined |-> Cardinality({i \in Indices :
                            ~Excluded(i) /\ applications[i].label = "none"})]
    /\ UNCHANGED <<applications, splits>>

-----------------------------------------------------------------------------
VintageOf(i) == applications[i].vintage
DecidedAt(i) == applications[i].at
InVintage(v) == {i \in {rows[k] : k \in DOMAIN rows} : VintageOf(i) = v}
Vintages == {v \in Vintage : InVintage(v) # {}}

\* The vintage keys sort as the decisions they hold do.
Chronological ==
    \A v, w \in Vintages : v < w =>
        \A i \in InVintage(v), j \in InVintage(w) : DecidedAt(i) <= DecidedAt(j)

\* Twice the midpoint of a vintage among the rows before and in it, in per cent.
Midpoint(v) ==
    100 * (2 * MapThenSumSet(LAMBDA w : Cardinality(InVintage(w)), {w \in Vintages : w < v})
           + Cardinality(InVintage(v)))
PartOf(v) ==
    IF Midpoint(v) <= 2 * TrainPercent * Len(rows) THEN "train"
    ELSE IF Midpoint(v) <= 2 * (TrainPercent + ValidationPercent) * Len(rows) THEN "validation"
    ELSE "test"

\* The rows grouped by vintage, oldest key first.
ByVintage ==
    LET Rank(i) == CHOOSE k \in DOMAIN rows : rows[k] = i
        Before(i, j) == \/ VintageOf(i) < VintageOf(j)
                        \/ VintageOf(i) = VintageOf(j) /\ Rank(i) < Rank(j)
    IN [k \in DOMAIN rows |->
           CHOOSE i \in {rows[n] : n \in DOMAIN rows} :
               Cardinality({n \in DOMAIN rows : Before(rows[n], i)}) = k - 1]

Splittable == ledger.built /\ splits = NoSplits /\ rows # <<>>

\* Whole vintages, oldest first; no part may stay empty.
SplitByVintage ==
    /\ Splittable
    /\ Chronological
    /\ Cardinality(Vintages) >= 3
    /\ {PartOf(v) : v \in Vintages} = {"train", "validation", "test"}
    /\ splits' = [strategy |-> "vintage", out_of_time |-> TRUE,
                  parts |-> [p \in Part |->
                     SelectSeq(ByVintage, LAMBDA i : PartOf(VintageOf(i)) = p)]]
    /\ UNCHANGED <<applications, rows, ledger>>

\* A source without a usable clock: any order of the rows, cut at the fractions.
Holdout(order) ==
    /\ Splittable
    /\ LET train_end == (TrainPercent * Len(rows)) \div 100
           validation_end == ((TrainPercent + ValidationPercent) * Len(rows)) \div 100
       IN splits' = [strategy |-> "random_holdout", out_of_time |-> FALSE,
                     parts |-> [p \in Part |->
                        CASE p = "train" -> SubSeq(order, 1, train_end)
                          [] p = "validation" -> SubSeq(order, train_end + 1, validation_end)
                          [] p = "test" -> SubSeq(order, validation_end + 1, Len(order))
                          [] p = "calibration" -> <<>>]]
    /\ UNCHANGED <<applications, rows, ledger>>

\* Mutant: the block is cut where the fraction falls, inside a vintage.
CarveCalibrationTorn ==
    /\ splits # NoSplits
    /\ splits.parts["calibration"] = <<>>
    /\ LET train == splits.parts["train"]
           wanted == (CalibrationPercent * Len(train)) \div 100
           cut == Len(train) - wanted
       IN /\ wanted > 0 /\ cut > 0
          /\ splits' = [splits EXCEPT
                !.parts["calibration"] = SubSeq(train, cut + 1, Len(train)),
                !.parts["train"] = SubSeq(train, 1, cut)]
    /\ UNCHANGED <<applications, rows, ledger>>

\* The newest rows of the training block, snapped back to a whole vintage.
CarveCalibration ==
    /\ splits # NoSplits
    /\ splits.parts["calibration"] = <<>>
    /\ LET train == splits.parts["train"]
           wanted == (CalibrationPercent * Len(train)) \div 100
           at == Len(train) - wanted
           cut == IF splits.strategy = "vintage" /\ wanted > 0
                  THEN Cardinality({k \in 1..at : VintageOf(train[k]) # VintageOf(train[at + 1])})
                  ELSE at
       IN /\ wanted > 0
          /\ splits.strategy = "vintage" => cut > 0
          /\ splits' = [splits EXCEPT
                !.parts["calibration"] = SubSeq(train, cut + 1, Len(train)),
                !.parts["train"] = SubSeq(train, 1, cut)]
    /\ UNCHANGED <<applications, rows, ledger>>

\* Inputs: rows by vintage, each decided on time for its cohort or early.  The
\* first row alone may be one that is left out; a missing flag column is missing
\* from all.
Next ==
    \/ \E v \in Vintage, early \in {0, 1}, label \in Labels, staff \in Flag :
          /\ IF applications = <<>> THEN early = 1 => label = "good" /\ staff # "yes"
             ELSE /\ v >= applications[Len(applications)].vintage
                  /\ label = "good"
                  /\ staff = IF applications[1].staff = "absent" THEN "absent" ELSE "no"
          /\ Receive([vintage |-> v, at |-> v - early, label |-> label, staff |-> staff])
    \/ \E waived \in BOOLEAN : Build(~waived)
    \/ SplitByVintage
    \/ \E order \in {rows, [k \in DOMAIN rows |-> rows[Len(rows) + 1 - k]]} : Holdout(order)
    \/ CarveCalibration

Spec == Init /\ [][Next]_sampleVars

-----------------------------------------------------------------------------
(* Properties.                                                             *)

Content(p) == {splits.parts[p][k] : k \in DOMAIN splits.parts[p]}
Kept == {rows[k] : k \in DOMAIN rows}

\* Every row is in one part, once, and nothing that was left out is in any.
PartsPartitionTheTable ==
    splits # NoSplits =>
        /\ UNION {Content(p) : p \in Part} = Kept
        /\ MapThenSumSet(LAMBDA p : Len(splits.parts[p]), Part) = Len(rows)
        /\ \A i \in Kept : ~Excluded(i) /\ applications[i].label # "none"

\* Out of time means it: fitted before calibrated before selected before tested,
\* and no month on both sides of a wall.
Order == <<"train", "calibration", "validation", "test">>
OutOfTime ==
    splits # NoSplits /\ splits.out_of_time =>
        \A a, b \in 1..4 : a < b =>
            \A i \in Content(Order[a]), j \in Content(Order[b]) :
                DecidedAt(i) <= DecidedAt(j) /\ VintageOf(i) # VintageOf(j)

\* The ledger accounts for every application; an exclusion that could not run
\* excludes nobody.
LedgerReconciles ==
    ledger.built =>
        /\ ledger.applications_in = ledger.kept + ledger.undetermined + ledger.excluded
        /\ ledger.kept = Len(rows)
        /\ ~Enforceable => ledger.excluded = 0

\* Carving leaves something to fit on when the blocks follow time.
SomethingToFit ==
    splits # NoSplits /\ splits.out_of_time =>
        \A p \in {"train", "validation", "test"} : splits.parts[p] # <<>>

TrainingSound ==
    PartsPartitionTheTable /\ OutOfTime /\ LedgerReconciles /\ SomethingToFit

=============================================================================
