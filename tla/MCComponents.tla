---------------------------- MODULE MCComponents ----------------------------
(***************************************************************************)
(* Components that run apart from each other, for TLC: those of            *)
(* Components.tla with small values for their constants, and the others.   *)
(* The first state chooses one, which then runs alone: one run covers them *)
(* all, and the sizes of their state spaces add up instead of multiplying. *)
(* A behaviour is one of Components, in which the others are OtherSide.    *)
(***************************************************************************)
EXTENDS Components, TLC

VARIABLES
    lakeTables, lakeExtract, lakeGl,
    glTables, glExtract, glGl,
    agriToday, sown, revisits, dry,
    two_m, current, degree, community, tot, node, improved, membership,
    finished,
    holdingsPlots, holdingsVillages, holdingsWalked, holdingsRecords,
    holdingsRainfall, holdingsHistory, holdingsDistrict, holdingsUnits,
    lendingPlots, lendingVillages, lendingWalked, lendingRecords,
    lendingRainfall, lendingHistory, lendingDistrict, lendingUnits,
    workouts, revolver, workoutsReference, workoutsMonths

-----------------------------------------------------------------------------
(* The components of Components.tla, on a small scale.                     *)

\* The gateway with the screen: a route of each kind and the requests that tell
\* the branches of the dispatcher apart.
Is(derived, handler) == [derived |-> derived, handler |-> handler]
Path(name) == Is(FALSE, name)
MCGatewayRoute == {Is(TRUE, "blocked"), Is(TRUE, "conditional"), Is(TRUE, "computed"), Is(FALSE, "computed")}
Get(session, target) ==
    [method |-> "GET", session |-> session, target |-> target, body |-> "none"]
Post(session, target, body) ==
    [method |-> "POST", session |-> session, target |-> target, body |-> body]
MCGatewayRequests ==
    {Get("valid", Is(TRUE, "blocked")), Get("none", Is(TRUE, "blocked")),
     Get("valid", Is(TRUE, "conditional")), Get("valid", Path("capabilities")),
     Post("invalid", Is(TRUE, "blocked"), "object"), Post("valid", Path("other_method"), "object"),
     Post("valid", Is(FALSE, "computed"), "too_large"), Post("valid", Is(TRUE, "conditional"), "object")}

\* The fraud desk: two bands, two cases of one application.
MCDeskBands == <<[lower |-> 1, action |-> "step_up"], [lower |-> 2, action |-> "refer"]>>

\* Consents: one artifact, two purposes, and the clock at its three dates.

\* The same, with the features of a model: the scores given under a consent.
Declaring(name, source, needs, protected) ==
    [name |-> name, source |-> source, needs |-> needs, protected |-> protected]
MCCatalogueFeature ==
    {Declaring("enquiries", "bureau", Absent, FALSE), Declaring("balance", "aggregator", "underwriting", FALSE),
     Declaring("pincode", "bureau", Absent, FALSE), Declaring("gender", "bureau", Absent, TRUE),
     Declaring("clicks", "website", Absent, FALSE)}

\* The identity spine: extracts of three rows in all.

\* Offers: a borrower of each affordability arm, three arms.
Affording(segment, income, obligations) ==
    [segment |-> segment, income |-> income, obligations |-> obligations, collateral |-> 60]
MCOffersApplicant ==
    "farmer" :> Affording("agri", Absent, 0) @@ "clerk" :> Affording("retail", 80, 10)
ProductCaps(segment, foir, dscr, ltv) ==
    [segment |-> segment, foir |-> foir, dscr |-> dscr, ltv |-> ltv, tenor |-> 3, min |-> 20, max |-> 60]
MCOffersCaps ==
    "crop" :> ProductCaps("agri", Absent, <<5, 4>>, <<1, 1>>)
    @@ "card" :> ProductCaps("retail", <<1, 2>>, Absent, Absent)
Offer(product, amount, tenor, offset) ==
    [product |-> product, amount |-> amount, tenor |-> tenor, offset |-> offset]
MCOffersTemplate ==
    "small" :> Offer("crop", 40, 2, 0) @@ "large" :> Offer("crop", 60, 3, 1)
    @@ "plain" :> Offer("card", 60, 3, 0)
AlmTableOf(base, age) == [base |-> base, age |-> age, floor |-> 1, ceiling |-> 2]
MCOffersAlmTable == {AlmTableOf(0, 0), AlmTableOf(2, 0), AlmTableOf(0, -1), AlmTableOf(0, 2)}

\* The assistant: a rate sheet resubmitted under its version, its successor, and a
\* circular on the same subject.
RateSheet(version, from, to, text) ==
    [id |-> "rates", version |-> version, from |-> from, to |-> to, kind |-> "rate_sheet",
     tags |-> {"tractor"}, supersedes |-> {}, text |-> text]
MCAssistantDocument ==
    {RateSheet("v1", 0, 1, "8 percent"), RateSheet("v1", 0, 1, "9 percent"),
     RateSheet("v2", 1, Absent, "9 percent"),
     [RateSheet("v1", 0, Absent, "a circular") EXCEPT !.id = "circular"]}
Says(numeric, cites, tools) == [numeric |-> numeric, cites |-> cites, tools |-> tools]
MCAssistantSentence ==
    {Says(TRUE, {<<"rates", "v1">>}, {}), Says(TRUE, {}, {"compute_emi"}),
     Says(TRUE, {}, {"guess"}), Says(FALSE, {}, {})}
MCAssistantTool ==
    "compute_emi" :> [required |-> {"principal"}, optional |-> {}, bound |-> TRUE]
    @@ "book_branch_slot" :> [required |-> {"branch"}, optional |-> {}, bound |-> FALSE]

\* A conversation: two mapped drivers and one that is not, four turns.
TurnOf(topics, human, signals, written) ==
    [topics |-> topics, human |-> human, signals |-> signals, written |-> written]
MCConversationTurn ==
    {TurnOf({}, FALSE, {}, {"twelve_digits", "mobile"}),
     TurnOf({"rate", "tax"}, FALSE, {"role"}, {"grouped_card", "pan"}),
     TurnOf({"rate"}, TRUE, {"override"}, {"sixteen_digits"}),
     TurnOf({}, TRUE, {}, {"nine_digits", "grouped_aadhaar", "four_digits"})}
MCConversationTriple ==
    "q1" :> [sources |-> {"k1"}, language |-> "en", tricky |-> TRUE]
    @@ "q2" :> [sources |-> {"k1", "k2"}, language |-> "hi", tricky |-> FALSE]
MCConversationDictionary == "income" :> "R1" @@ "tenure" :> "R2"
MCConversationTopics == <<"tax", "rate">>
MCConversationChunk == "k1" :> {"override", "policy"} @@ "k2" :> {}

\* Fraud velocity counters: three events of one device, late by up to three.

\* Schema evolution: three versions of one field.

\* The early-warning backtest: two accounts, two alerts.

\* PD velocity: two accounts, readings two to four days apart.
MCPdReading == 0..2

\* The panel: two loans reporting for three and two months.
MCPanelSpan == "L1" :> 3 @@ "L2" :> 2

\* The ladder: two monitors, six evaluations, rows that differ in every way.
MCLadderActivity ==
    "freshness" :> [interval |-> 1, phase |-> "P0"] @@ "audit" :> [interval |-> 2, phase |-> "P5"]
Evaluated(value, trainedTo, from, population, reviewed) ==
    [metric |-> "auc", population |-> population, threshold |-> Absent, value |-> value,
     window |-> [trainedTo |-> trainedTo, from |-> from, to |-> 4], reviewed |-> reviewed]
MCLadderEntry ==
    {Evaluated(1, 2, 2, "all", TRUE), Evaluated(2, 2, 2, "all", TRUE),
     Evaluated(2, 3, 2, "all", TRUE), Evaluated(3, 2, 2, "all", FALSE),
     Evaluated(3, 2, 2, "salaried", TRUE), Evaluated(3, 1, 3, "all", TRUE)}
Answering(kind, outcome, score) == [kind |-> kind, outcome |-> outcome, score |-> score]
LadderAnswer ==
    {Answering("raises", Absent, Absent), Answering("nothing", Absent, Absent),
     Answering("decides", "approve", 1), Answering("decides", "approve", 2),
     Answering("decides", "decline", Absent)}
MCLadderRow == [left : LadderAnswer, right : LadderAnswer]

\* Retrieval: an expired rate sheet, its successor and a passage with another word.
Holding(n, m) == [t \in {"rate", "fee"} |-> IF t = "rate" THEN n ELSE m]
MCRetrievalVersion ==
    {[terms |-> Holding(2, 0), from |-> 1, to |-> 1, tag |-> "kcc"],
     [terms |-> Holding(1, 0), from |-> 2, to |-> Absent, tag |-> "kcc"],
     [terms |-> Holding(1, 1), from |-> 1, to |-> Absent, tag |-> "home"]}
MCRetrievalId == 1..3
MCRetrievalDay == 1..2

-----------------------------------------------------------------------------
\* The lakehouse: four tables, each over at most two others, and no balances.
Lk == INSTANCE Lakehouse WITH
    Table <- {"t1", "t2", "t3", "t4"}, MaxReads <- 2, Product <- {},
    Account <- {}, Mapping <- <<>>, Amount <- {}, PerMille <- 500,
    MaxRows <- 0, tables <- lakeTables, extract <- lakeExtract, gl <- lakeGl
lakeVars == <<lakeTables, lakeExtract, lakeGl>>

-----------------------------------------------------------------------------
\* Reconciliation: two products on one account, one on another, one unmapped.
Rc == INSTANCE Lakehouse WITH
    Table <- {}, MaxReads <- 0, Product <- {"p1", "p2", "p3", "p4"},
    Account <- {"a1", "a2"},
    Mapping <- "p1" :> "a1" @@ "p2" :> "a1" @@ "p3" :> "a2",
    Amount <- {-2, 0, 3, 4}, PerMille <- 500, MaxRows <- 2,
    tables <- glTables, extract <- glExtract, gl <- glGl
glVars == <<glTables, glExtract, glGl>>

-----------------------------------------------------------------------------
\* Agricultural triggers: one plot, two consecutive revisits of three.
Ag == INSTANCE AgriTriggers WITH
    Plot <- {"p1"}, District <- {"d1"}, DistrictOf <- "p1" :> "d1",
    Cutoff <- "p1" :> 1, Ungrounded <- Absent, Consecutive <- 2, MaxDay <- 1,
    MaxRevisits <- 3, today <- agriToday
agriVars == <<agriToday, sown, revisits, dry>>

-----------------------------------------------------------------------------
\* Louvain communities: every graph of four nodes with edges of weight 1 or 2.
Cm == INSTANCE Communities WITH
    Nodes <- 4, Weight <- 0..2
communitiesVars ==
    <<two_m, current, degree, community, tot, node, improved, membership,
      finished>>

-----------------------------------------------------------------------------
\* Agricultural inputs: two plots, two borrowers, two nominal acquisitions.
Ai == INSTANCE AgriInputs WITH
    PlotId <- {"p1", "p2"}, Borrower <- {"b1", "b2"},
    Season <- {"kharif", "rabi"}, Confidence <- {75}, Gate <- 75,
    Tiles <- {1}, Revisit <- 2, MaxDay <- 2, Spei <- {}, Seasons <- 1,
    Year <- 2, Timescale <- 2, FirstMonth <- 2, MinYears <- 2, Ndvi <- {},
    Cap <- 30, Centre <- {}, Residuals <- <<0>>, Price <- {}, Cost <- {},
    Unit <- {}, Land <- <<>>, Zone <- <<>>, Formula <- {}, MinUnitSize <- 1,
    MaxRows <- 0, None <- Absent, plots <- holdingsPlots,
    villages <- holdingsVillages, walked <- holdingsWalked,
    records <- holdingsRecords, rainfall <- holdingsRainfall,
    history <- holdingsHistory, district <- holdingsDistrict,
    units <- holdingsUnits
holdingsVars ==
    <<holdingsPlots, holdingsVillages, holdingsWalked, holdingsRecords,
      holdingsRainfall, holdingsHistory, holdingsDistrict, holdingsUnits>>

-----------------------------------------------------------------------------
\* The same, with seasons, plots of a district and decisions in three districts.
LendingPrice == {[p50 |-> 3, p25 |-> 1], [p50 |-> 2, p25 |-> 2], [p50 |-> 1, p25 |-> 3]}
LendingLand == <<[soil |-> 8, slope |-> 15], [soil |-> 8, slope |-> 5], Absent>>
LendingFormula ==
    {[weights |-> [soil |-> w, slope |-> 3 - w], directions |-> [soil |-> 1, slope |-> -1]] : w \in 1..2}
    \cup {[weights |-> [soil |-> 1], directions |-> [soil |-> 1]]}
Al == INSTANCE AgriInputs WITH
    PlotId <- {}, Borrower <- {}, Season <- {}, Confidence <- {}, Gate <- 75,
    Tiles <- {}, Revisit <- 1, MaxDay <- 0, Spei <- {-16, -10, 10},
    Seasons <- 2, Year <- 2, Timescale <- 2, FirstMonth <- 2, MinYears <- 2,
    Ndvi <- 1..3, Cap <- 30, Centre <- {0, 4}, Residuals <- <<-3, -1, 1, 5>>,
    Price <- LendingPrice, Cost <- {1, Absent}, Unit <- 1..3,
    Land <- LendingLand, Zone <- [soil |-> <<0, 10>>, slope |-> <<0, 20>>],
    Formula <- LendingFormula, MinUnitSize <- 2, MaxRows <- 5, None <- Absent,
    plots <- lendingPlots, villages <- lendingVillages,
    walked <- lendingWalked, records <- lendingRecords,
    rainfall <- lendingRainfall, history <- lendingHistory,
    district <- lendingDistrict, units <- lendingUnits
lendingVars ==
    <<lendingPlots, lendingVillages, lendingWalked, lendingRecords,
      lendingRainfall, lendingHistory, lendingDistrict, lendingUnits>>

-----------------------------------------------------------------------------
\* Workouts: two accounts, and a revolver and a term loan beside them.
Wo == INSTANCE Workouts WITH
    Account <- {"a", "b"}, Exposure <- "a" :> 2 @@ "b" :> 4,
    Posting <- {-2, 3}, Limit <- 3, Draw <- {-1, 2}, Principal <- 10,
    Growth <- 2, Term <- 3, Whole <- 12, MaxEvents <- 3,
    reference <- workoutsReference, months <- workoutsMonths
workoutsVars == <<workouts, revolver, workoutsReference, workoutsMonths>>

-----------------------------------------------------------------------------
MCOtherSide ==
    {"lake", "gl", "agri", "communities", "holdings", "lending", "workouts"}

AllInit ==
    /\ Init
    /\ IF side = "lake" THEN Lk!Init
       ELSE lakeTables = 0 /\ lakeExtract = 0 /\ lakeGl = 0
    /\ IF side = "gl" THEN Rc!Init
       ELSE glTables = 0 /\ glExtract = 0 /\ glGl = 0
    /\ IF side = "agri" THEN Ag!Init
       ELSE agriToday = 0 /\ sown = 0 /\ revisits = 0 /\ dry = 0
    /\ IF side = "communities" THEN Cm!Init
       ELSE two_m = 0 /\ current = 0 /\ degree = 0 /\ community = 0 /\
            tot = 0 /\ node = 0 /\ improved = 0 /\ membership = 0 /\
            finished = 0
    /\ IF side = "holdings" THEN Ai!Init
       ELSE holdingsPlots = 0 /\ holdingsVillages = 0 /\ holdingsWalked = 0 /\
            holdingsRecords = 0 /\ holdingsRainfall = 0 /\
            holdingsHistory = 0 /\ holdingsDistrict = 0 /\ holdingsUnits = 0
    /\ IF side = "lending" THEN Al!Init
       ELSE lendingPlots = 0 /\ lendingVillages = 0 /\ lendingWalked = 0 /\
            lendingRecords = 0 /\ lendingRainfall = 0 /\ lendingHistory = 0 /\
            lendingDistrict = 0 /\ lendingUnits = 0
    /\ IF side = "workouts" THEN Wo!Init
       ELSE workouts = 0 /\ revolver = 0 /\ workoutsReference = 0 /\
            workoutsMonths = 0

OtherIdle(s) ==
    /\ IF s = "lake" THEN TRUE ELSE UNCHANGED lakeVars
    /\ IF s = "gl" THEN TRUE ELSE UNCHANGED glVars
    /\ IF s = "agri" THEN TRUE ELSE UNCHANGED agriVars
    /\ IF s = "communities" THEN TRUE ELSE UNCHANGED communitiesVars
    /\ IF s = "holdings" THEN TRUE ELSE UNCHANGED holdingsVars
    /\ IF s = "lending" THEN TRUE ELSE UNCHANGED lendingVars
    /\ IF s = "workouts" THEN TRUE ELSE UNCHANGED workoutsVars

otherVars ==
    <<lakeVars, glVars, agriVars, communitiesVars, holdingsVars,
      lendingVars, workoutsVars>>

LakeStep == side = "lake" /\ Lk!Next /\ OtherIdle("lake") /\ UNCHANGED vars
GlStep == side = "gl" /\ Rc!Next /\ OtherIdle("gl") /\ UNCHANGED vars
AgriStep == side = "agri" /\ Ag!Next /\ OtherIdle("agri") /\ UNCHANGED vars
CommunitiesStep == side = "communities" /\ Cm!Next /\ OtherIdle("communities") /\ UNCHANGED vars
HoldingsStep == side = "holdings" /\ Ai!Next /\ OtherIdle("holdings") /\ UNCHANGED vars
LendingStep == side = "lending" /\ Al!Next /\ OtherIdle("lending") /\ UNCHANGED vars
WorkoutsStep == side = "workouts" /\ Wo!Next /\ OtherIdle("workouts") /\ UNCHANGED vars

AllNext ==
    \/ Next /\ UNCHANGED otherVars
    \/ LakeStep
    \/ GlStep
    \/ AgriStep
    \/ CommunitiesStep
    \/ HoldingsStep
    \/ LendingStep
    \/ WorkoutsStep

allVars == <<vars, otherVars>>

AllSpec ==
    /\ AllInit /\ [][AllNext]_allVars
    /\ Fairness
    \* A loop runs to its end.
    /\ WF_communitiesVars(side = "communities" /\ Cm!Next)

-----------------------------------------------------------------------------
(* Properties: those of the components, each where it runs.                *)

\* Waiting ends: a screen does not load forever, whatever connection breaks (client.ts,
\* useLoad.ts), and louvain() returns with no limit on its sweeps (learning/graph.py).
WaitsEnd ==
    /\ (side = "gateway" /\ screen.load > 0 /\ screen.kind = "loading")
           ~> (side = "gateway" /\ screen.kind # "loading")
    /\ side = "communities" ~> (side = "communities" /\ finished)

\* Every move of a node raises modularity and aggregation keeps it, so that no
\* partition returns (learning/graph.py).
ModularityRises == [][side = "communities" => Cm!ModularityRises]_allVars

\* The book and the data it is made of: stages, flows, incidences and curves of one
\* panel agree with each other and with its loans, lineage is complete and balances
\* reconcile; holdings stay whole, stress only lowers an income and a trigger is
\* sustained; a community is what its edges say, and two scoring paths are called alike
\* only if they are (portfolio/, lakehouse/, agri/, learning/graph.py, serving/parity.py).
PortfolioSound ==
    /\ side = "panel" => Pf!PortfolioSound
    /\ side = "workouts" => Wo!WorkoutsSound
    /\ side = "lake" => Lk!LakehouseSound
    /\ side = "gl" => Rc!LakehouseSound
    /\ side = "holdings" => Ai!AgriInputsSound
    /\ side = "lending" => Al!AgriInputsSound
    /\ side = "agri" => Ag!AgriSound
    /\ side = "communities" => Cm!CommunitiesSound
    /\ side = "ladder" => La!ParityMeansAlike

=============================================================================
