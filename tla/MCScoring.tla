----------------------------- MODULE MCScoring ------------------------------
(***************************************************************************)
(* What models learn from and how they are judged, for TLC: the feature    *)
(* store, and beside it the components that make samples, bins, trees and  *)
(* scorecards of data and passages of documents.  The first state chooses  *)
(* one of them, which then runs alone; the feature store rests in its      *)
(* initial state while another one runs.                                   *)
(***************************************************************************)
EXTENDS Integers, FeatureStore, TLC

CONSTANTS Absent, NotANumber

VARIABLES
    side,       \* the component that runs
    document,
    entityRecords, ring,
    statement, slip, aa_value, posture, documentsEdits,
    applications, sampleRows, ledger, splits,
    binningPresent, binningMissing,
    treeSample,
    nanSample,
    validationBooked, validationDeclined, crossFitted, validationExit,
    monitorsSeries, monitorsStart, monitorsChanges, monitorsChart,
    monitorsWeight, monitorsDeclared,
    screened, scorecardSelected, scorecardSpare, scorecardSteps, scorecardCard,
    scorecardPhase,
    targetingCases, targetingTaxonomy, targetingFitted

-----------------------------------------------------------------------------
\* Chunking: paragraphs and tables on both sides of the two token limits.
ChunkingBlock ==
    {[kind |-> "heading", sentences |-> <<1>>]}
    \cup {[kind |-> "paragraph", sentences |-> s] : s \in {<<2>>, <<2, 3, 2>>, <<6>>}}
    \cup {[kind |-> "table", sentences |-> s] : s \in {<<3>>, <<7>>}}
Ch == INSTANCE Chunking WITH
    Block <- ChunkingBlock, MinTokens <- 3, MaxTokens <- 5, MaxBlocks <- 4
chunkingVars == <<document>>

-----------------------------------------------------------------------------
\* Entity resolution: contacts shared in a chain, and names on both sides of the
\* blocking key and of the threshold.
Applies(phone, account, device, geo, employer, name) ==
    [phone |-> phone, account |-> account, device |-> device, geo |-> geo,
     employer |-> employer, name |-> name]
Called(text, start) == [text |-> text, start |-> start]
EntityApplication ==
    "a1" :> Applies("p1", Absent, "d1", Absent, Absent, Called("asha rao", "ash"))
    @@ "a2" :> Applies("p1", Absent, Absent, "g1", Absent, Called("asha rau", "ash"))
    @@ "a3" :> Applies(Absent, "c1", Absent, "g1", Absent, Absent)
    @@ "a4" :> Applies("p2", "c1", Absent, Absent, "e1", Called("asha rau", "ash"))
    @@ "a5" :> Applies(Absent, Absent, Absent, Absent, "e1", Called("kasha rao", "kas"))
    @@ "a6" :> Applies("p3", Absent, Absent, Absent, Absent, Called("asha rao", "ash"))
    @@ "a7" :> Applies("p4", Absent, Absent, Absent, Absent, Called("kasha rao", "kas"))
SimilarNames == {{"asha rao", "asha rau"}, {"asha rao", "kasha rao"}}
En == INSTANCE EntityGraph WITH
    Application <- EntityApplication, Similar <- SimilarNames,
    records <- entityRecords
entityVars == <<entityRecords, ring>>

-----------------------------------------------------------------------------
\* Documents: a statement of two months with two figures altered.
Do == INSTANCE Documents WITH
    Figure <- {1, 2}, NotExtracted <- Absent, Months <- 2, MaxEdits <- 2,
    edits <- documentsEdits
documentsVars == <<statement, slip, aa_value, posture, documentsEdits>>

-----------------------------------------------------------------------------
\* The training sample: four applications over four vintages.
Ts == INSTANCE TrainingSample WITH
    Vintage <- 1..4, TrainPercent <- 60, ValidationPercent <- 20,
    CalibrationPercent <- 40, MaxApplications <- 4, rows <- sampleRows
sampleVars == <<applications, sampleRows, ledger, splits>>

-----------------------------------------------------------------------------
\* Binning: five rows over three values.
Bn == INSTANCE Binning WITH
    MaxValue <- 3, MaxPrebins <- 3, MinPercent <- 40, MaxSample <- 5,
    present <- binningPresent, missing <- binningMissing
binningVars == <<binningPresent, binningMissing>>

-----------------------------------------------------------------------------
\* One boosted tree over two features, one of them constrained.
Tm == INSTANCE TreeModel WITH
    Features <- 2, Direction <- <<1, 0>>, Value <- <<{1, 2, Absent}, {1, 2}>>,
    Missing <- Absent, Gradient <- {-1, 1}, L2 <- 0, MaxDepth <- 2,
    MinChildWeight <- 1, Coded <- {1}, MaxSample <- 5, sample <- treeSample
treeVars == <<treeSample>>

-----------------------------------------------------------------------------
\* The same, with features that may be a float that is not a number.
Nt == INSTANCE TreeModel WITH
    Features <- 2, Direction <- <<1, 0>>,
    Value <- <<{1, 2, Absent, NotANumber}, {1, 2}>>, Missing <- Absent,
    Gradient <- {-1, 1}, L2 <- 0, MaxDepth <- 2, MinChildWeight <- 1,
    Coded <- {1}, MaxSample <- 3, sample <- nanSample
nanVars == <<nanSample>>

-----------------------------------------------------------------------------
\* Validation: five kinds of applicants, one of them of no recorded group.
Judged(score, bad, champion, group) ==
    [score |-> score, bad |-> bad, champion |-> champion, group |-> group]
ValidationApplicant ==
    {Judged(0, FALSE, TRUE, "f"), Judged(1, TRUE, FALSE, "f"), Judged(1, FALSE, TRUE, "m"),
     Judged(2, TRUE, TRUE, "m"), Judged(2, FALSE, FALSE, Absent)}
Va == INSTANCE Validation WITH
    Applicant <- ValidationApplicant, Cutoff <- 1, Group <- {"f", "m"},
    Unknown <- Absent, Bins <- 2, Folds <- 2, MinSample <- 3,
    MinPositives <- 1, Open <- Absent, MaxRows <- 4,
    booked <- validationBooked, declined <- validationDeclined,
    exit <- validationExit
validationVars ==
    <<validationBooked, validationDeclined, crossFitted, validationExit>>

-----------------------------------------------------------------------------
\* The monitors of one series: six observations.
Mo == INSTANCE Monitors WITH
    Observation <- {-2, -1, 0, 3}, MinSubwindow <- 1, Separation <- 1,
    Shift <- 1, Interval <- 2, Period <- 2,
    Critical <- <<0, 0, 17, 22, 25, 28>>, MaxFraction <- <<2, 5>>,
    Hazard <- <<1, 4>>, Near <- 1, Threshold <- <<1, 4>>, MaxLength <- 6,
    series <- monitorsSeries, start <- monitorsStart,
    changes <- monitorsChanges, chart <- monitorsChart,
    weight <- monitorsWeight, declared <- monitorsDeclared
monitorsVars ==
    <<monitorsSeries, monitorsStart, monitorsChanges, monitorsChart,
      monitorsWeight, monitorsDeclared>>

-----------------------------------------------------------------------------
\* A scorecard: four candidates, of which three make a card and two a second fit.
Sc == INSTANCE Scorecard WITH
    Candidates <- <<"a", "b", "c", "d">>, IvFloor <- 2, IvCeiling <- 3,
    Iv <- 1..4, Unbinnable <- Absent, Size <- 3, Minimum <- 2, MaxRounds <- 2,
    Woe <- {-1, 2}, Coefficient <- {-1, 1}, Factor <- 2, Offset <- 5,
    TopReasons <- 2, selected <- scorecardSelected, spare <- scorecardSpare,
    steps <- scorecardSteps, card <- scorecardCard, phase <- scorecardPhase
scorecardVars ==
    <<screened, scorecardSelected, scorecardSpare, scorecardSteps,
      scorecardCard, scorecardPhase>>

-----------------------------------------------------------------------------
\* Who is alerted and who is called: seven cases, one without its covariate.
Observing(score, label, treated, covariate, odds) ==
    [score |-> score, label |-> label, treated |-> treated, covariate |-> covariate, odds |-> odds]
TargetingCase ==
    {Observing(1, 0, FALSE, 1, 2), Observing(1, 1, TRUE, 2, 2), Observing(1, 1, FALSE, 0, 1),
     Observing(2, 0, TRUE, 1, 2), Observing(2, 1, FALSE, 1, 2), Observing(2, 1, TRUE, 1, 1),
     Observing(3, 1, TRUE, Absent, 5)}
Tg == INSTANCE Targeting WITH
    Case <- TargetingCase, AlertRate <- <<1, 2>>, MinimumConfirmedFrauds <- 2,
    MaxFriction <- 50, MinArmSize <- 1, MaxOdds <- 5, MinEffectiveSample <- 2,
    Whole <- 12, MaxCases <- 4, None <- Absent, cases <- targetingCases,
    taxonomy <- targetingTaxonomy, fitted <- targetingFitted
targetingVars == <<targetingCases, targetingTaxonomy, targetingFitted>>

-----------------------------------------------------------------------------
OtherSide ==
    {"chunking", "entity", "documents", "sample", "binning", "tree", "nan",
     "validation", "monitors", "scorecard", "targeting"}

AllInit ==
    /\ Init
    /\ side \in OtherSide \cup {"features"}
    /\ IF side = "chunking" THEN Ch!Init
       ELSE document = 0
    /\ IF side = "entity" THEN En!Init
       ELSE entityRecords = 0 /\ ring = 0
    /\ IF side = "documents" THEN Do!Init
       ELSE statement = 0 /\ slip = 0 /\ aa_value = 0 /\ posture = 0 /\
            documentsEdits = 0
    /\ IF side = "sample" THEN Ts!Init
       ELSE applications = 0 /\ sampleRows = 0 /\ ledger = 0 /\ splits = 0
    /\ IF side = "binning" THEN Bn!Init
       ELSE binningPresent = 0 /\ binningMissing = 0
    /\ IF side = "tree" THEN Tm!Init
       ELSE treeSample = 0
    /\ IF side = "nan" THEN Nt!Init
       ELSE nanSample = 0
    /\ IF side = "validation" THEN Va!Init
       ELSE validationBooked = 0 /\ validationDeclined = 0 /\
            crossFitted = 0 /\ validationExit = 0
    /\ IF side = "monitors" THEN Mo!Init
       ELSE monitorsSeries = 0 /\ monitorsStart = 0 /\ monitorsChanges = 0 /\
            monitorsChart = 0 /\ monitorsWeight = 0 /\ monitorsDeclared = 0
    /\ IF side = "scorecard" THEN Sc!Init
       ELSE screened = 0 /\ scorecardSelected = 0 /\ scorecardSpare = 0 /\
            scorecardSteps = 0 /\ scorecardCard = 0 /\ scorecardPhase = 0
    /\ IF side = "targeting" THEN Tg!Init
       ELSE targetingCases = 0 /\ targetingTaxonomy = 0 /\ targetingFitted = 0

OtherIdle(s) ==
    /\ IF s = "chunking" THEN TRUE ELSE UNCHANGED chunkingVars
    /\ IF s = "entity" THEN TRUE ELSE UNCHANGED entityVars
    /\ IF s = "documents" THEN TRUE ELSE UNCHANGED documentsVars
    /\ IF s = "sample" THEN TRUE ELSE UNCHANGED sampleVars
    /\ IF s = "binning" THEN TRUE ELSE UNCHANGED binningVars
    /\ IF s = "tree" THEN TRUE ELSE UNCHANGED treeVars
    /\ IF s = "nan" THEN TRUE ELSE UNCHANGED nanVars
    /\ IF s = "validation" THEN TRUE ELSE UNCHANGED validationVars
    /\ IF s = "monitors" THEN TRUE ELSE UNCHANGED monitorsVars
    /\ IF s = "scorecard" THEN TRUE ELSE UNCHANGED scorecardVars
    /\ IF s = "targeting" THEN TRUE ELSE UNCHANGED targetingVars

otherVars ==
    <<chunkingVars, entityVars, documentsVars, sampleVars, binningVars,
      treeVars, nanVars, validationVars,
      monitorsVars, scorecardVars, targetingVars>>

ChunkingStep == side = "chunking" /\ Ch!Next /\ OtherIdle("chunking") /\ UNCHANGED <<side, vars>>
EntityStep == side = "entity" /\ En!Next /\ OtherIdle("entity") /\ UNCHANGED <<side, vars>>
DocumentsStep == side = "documents" /\ Do!Next /\ OtherIdle("documents") /\ UNCHANGED <<side, vars>>
SampleStep == side = "sample" /\ Ts!Next /\ OtherIdle("sample") /\ UNCHANGED <<side, vars>>
BinningStep == side = "binning" /\ Bn!Next /\ OtherIdle("binning") /\ UNCHANGED <<side, vars>>
TreeStep == side = "tree" /\ Tm!Next /\ OtherIdle("tree") /\ UNCHANGED <<side, vars>>
NanStep == side = "nan" /\ Nt!Next /\ OtherIdle("nan") /\ UNCHANGED <<side, vars>>
ValidationStep == side = "validation" /\ Va!Next /\ OtherIdle("validation") /\ UNCHANGED <<side, vars>>
MonitorsStep == side = "monitors" /\ Mo!Next /\ OtherIdle("monitors") /\ UNCHANGED <<side, vars>>
ScorecardStep == side = "scorecard" /\ Sc!Next /\ OtherIdle("scorecard") /\ UNCHANGED <<side, vars>>
TargetingStep == side = "targeting" /\ Tg!Next /\ OtherIdle("targeting") /\ UNCHANGED <<side, vars>>

AllNext ==
    \/ side = "features" /\ Next /\ UNCHANGED <<side, otherVars>>
    \/ ChunkingStep
    \/ EntityStep
    \/ DocumentsStep
    \/ SampleStep
    \/ BinningStep
    \/ TreeStep
    \/ NanStep
    \/ ValidationStep
    \/ MonitorsStep
    \/ ScorecardStep
    \/ TargetingStep

AllSpec == AllInit /\ [][AllNext]_<<side, vars, otherVars>>

\* The values of the feature are interchangeable.
ValueSymmetry == Permutations(Value)

-----------------------------------------------------------------------------
\* What models learn from and how they are judged: the sample leaks nothing from later
\* cohorts, and the bins are those of the sample; the tree keeps to its ratified
\* directions and its attributions reconcile; a scorecard is judged on the rows it
\* says, and the monitors of one series agree with the series; rings and document
\* checks say what the contacts and figures do; chunking neither loses nor splits what
\* it must not (scoring/, learning/, ews/, fraud/, assistant/).
ScoringSound ==
    /\ side = "sample" => Ts!TrainingSound
    /\ side = "binning" => Bn!BinningSound
    /\ side = "tree" => Tm!TreeSound
    /\ side = "nan" => Nt!TreeSound
    /\ side = "validation" => Va!ValidationSound
    /\ side = "monitors" => Mo!MonitorsSound
    /\ side = "scorecard" => Sc!ScorecardSound
    /\ side = "targeting" => Tg!TargetingSound
    /\ side = "entity" => En!EntitySound
    /\ side = "documents" => Do!DocumentsSound
    /\ side = "chunking" => Ch!ChunkingSound

\* A value missing as NaN goes the way it was fitted (scoring/gbm.py): "a missing value
\* goes left, consistently in training and scoring".
ScoredAsTrained == side = "nan" => Nt!ScoredAsTrained
=============================================================================
