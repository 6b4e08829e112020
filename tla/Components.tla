----------------------------- MODULE Components -----------------------------
(***************************************************************************)
(* Components that run apart from each other, for any values of their      *)
(* constants.  The first state chooses one, which then runs alone.  Here   *)
(* are those whose properties are proved, and what the proofs assume of    *)
(* each; MCComponents adds the others and the scale of the runs.           *)
(***************************************************************************)
EXTENDS Integers, Sequences, FiniteSets

CONSTANTS
    Absent,             \* whatever value is not there
    OtherSide,          \* components that run apart from these
    GatewayRoute, GatewayConnection, GatewayRequests, GatewayMaxLoads,
    DeskCase, DeskApplication, DeskSignal, DeskAnalyst, DeskCode,
    DeskTopScore, DeskBands,
    Purpose, DataCategory, ConsentId, ConsentFeature, ConsentKnownSource,
    ConsentProtectedName, ConsentMaxTime, ConsentMaxScores,
    CatalogueFeature, CatalogueKnownSource, CatalogueProtectedName,
    CatalogueMaxTime, CatalogueMaxScores,
    SpineLoanKey, SpineCustomerKey, SpineMaxRows,
    OffersApplicant, OffersFlow, OffersCaps, OffersTemplate, OffersAlmTable,
    OffersExpectedLoss, OffersMaxTableAge, OffersMaxDecisions,
    OffersMaxUpdates,
    AssistantDocument, AssistantSentence, AssistantTool, AssistantArgument,
    AssistantSession, AssistantMaxCalls, AssistantWindowLength,
    AssistantMaxDay, AssistantMaxAnswers, AssistantMaxSentences,
    ConversationDictionary, ConversationDriver, ConversationLanguage,
    ConversationTopics, ConversationTurn, ConversationChunk,
    ConversationTriple, ConversationMinTriples, ConversationMaxEdits,
    VelocityEventKey, VelocityAllowedLateness, VelocityWindows,
    VelocityMaxTime, VelocityMaxEvents, VelocityMaxAsked,
    SchemaField, SchemaType, SchemaRecord, SchemaMaxVersions,
    SchemaMaxMessages,
    ReplayAccount, ReplayCapturePercent, ReplayRedPercent, ReplayMonths,
    ReplayRequiredLead, ReplayMaxDay, ReplayMaxAlerts,
    PdAccount, PdReading, PdWindow, PdTolerance, PdMinPortfolio, PdMaxGap,
    PdMaxListed,
    PanelLoan, PanelDpd, PanelHorizon, PanelMaxMonth, PanelSpan,
    LadderActivity, LadderGrace, LadderMinShadow, LadderMinCanary, LadderEntry,
    LadderRow, LadderGate, LadderMaxDay, LadderMaxSample,
    RetrievalId, RetrievalTerm, RetrievalVersion, RetrievalDay, RetrievalTag,
    RetrievalNoTag, RetrievalDepth, RetrievalK, RetrievalRrfK, RetrievalScale

VARIABLES
    side,       \* the component that runs
    gatewayTable, carries, leftover, loads, screen,
    deskTaxonomy, queue,
    consentClock, consentConsents, consentUses, consentCatalogue,
    consentScores,
    catalogueClock, catalogueConsents, catalogueUses, catalogueCatalogue,
    catalogueScores,
    reading, spineRows, spine, audit,
    flow, rate, quote, sets, decisions, stage, observations,
    assistantToday, corpus, calls, granted, invoked, served,
    conversationLibrary, conversationDecision, conversationExplanation,
    conversationSaid, conversationVerdict, conversationGolden,
    conversationEvaluation, conversationEdits,
    bucket, watermark, late, asked,
    versions, topic,
    replayAlerts, defaulted_on, dispositions,
    values, listed, fromZero,
    panelClock, panelMonths, default_at, disposition,
    ladderDay, ladderRung, ladderStarted, ladderIncident, ladderTraffic,
    lastRun, overdueReport, ladderAnswer,
    lexical, postings, chunks, vectors

-----------------------------------------------------------------------------
\* The gateway with the screen (Gateway.tla).
Gw == INSTANCE Gateway WITH
    Route <- GatewayRoute, Connection <- GatewayConnection,
    Requests <- GatewayRequests, MaxLoads <- GatewayMaxLoads,
    table <- gatewayTable
gatewayVars == <<gatewayTable, carries, leftover, loads, screen>>

-----------------------------------------------------------------------------
\* The fraud desk: fraud scores, and the bands of a RoutingPolicy.
Fd == INSTANCE FraudDesk WITH
    Case <- DeskCase, Analyst <- DeskAnalyst, Code <- DeskCode,
    TopScore <- DeskTopScore, Bands <- DeskBands, taxonomy <- deskTaxonomy
deskVars == <<deskTaxonomy, queue>>
ASSUME DeskAssumption ==
    DeskTopScore \in Nat /\ DeskBands \in Seq([lower : Nat, action : Fd!Action])

-----------------------------------------------------------------------------
\* Consents and the verdicts under them (Consent.tla).
ASSUME ConsentAssumption == ConsentMaxTime \in Nat
Co == INSTANCE Consent WITH
    Feature <- ConsentFeature, NoConsent <- Absent,
    KnownSource <- ConsentKnownSource, ProtectedName <- ConsentProtectedName,
    MaxTime <- ConsentMaxTime, MaxScores <- ConsentMaxScores,
    clock <- consentClock, consents <- consentConsents, uses <- consentUses,
    catalogue <- consentCatalogue, scores <- consentScores
consentVars ==
    <<consentClock, consentConsents, consentUses, consentCatalogue,
      consentScores>>

-----------------------------------------------------------------------------
\* The same, with the features of a model: the scores given under a consent.
ASSUME CatalogueAssumption == CatalogueMaxTime \in Nat
Cf == INSTANCE Consent WITH
    Feature <- CatalogueFeature, NoConsent <- Absent,
    KnownSource <- CatalogueKnownSource,
    ProtectedName <- CatalogueProtectedName, MaxTime <- CatalogueMaxTime,
    MaxScores <- CatalogueMaxScores, clock <- catalogueClock,
    consents <- catalogueConsents, uses <- catalogueUses,
    catalogue <- catalogueCatalogue, scores <- catalogueScores
catalogueVars ==
    <<catalogueClock, catalogueConsents, catalogueUses, catalogueCatalogue,
      catalogueScores>>

-----------------------------------------------------------------------------
\* The identity spine: normalise() answers for a key it rejects what is no key.
ASSUME SpineAssumption == Absent \notin SpineLoanKey \cup SpineCustomerKey
Sp == INSTANCE IdentitySpine WITH
    LoanKey <- SpineLoanKey, CustomerKey <- SpineCustomerKey,
    Rejected <- Absent, MaxRows <- SpineMaxRows, rows <- spineRows
spineVars == <<reading, spineRows, spine, audit>>

-----------------------------------------------------------------------------
\* Offers.  Caps with a DSCR floor below one are refused, emi() raises unless
\* principal and tenor are positive and the rate is not negative (feasible.py), and
\* so is an ALM table whose floor exceeds its ceiling (pricing.py).
Of == INSTANCE Offers WITH
    Applicant <- OffersApplicant, Flow <- OffersFlow, Caps <- OffersCaps,
    Template <- OffersTemplate, AlmTable <- OffersAlmTable,
    ExpectedLoss <- OffersExpectedLoss, MaxTableAge <- OffersMaxTableAge,
    MaxDecisions <- OffersMaxDecisions, MaxUpdates <- OffersMaxUpdates,
    None <- Absent
offersVars == <<flow, rate, quote, sets, decisions, stage, observations>>
\* The rates an offer may be made at, and the offers made at them.
PricedRate == {Of!OfferableRate(t, el) : t \in OffersAlmTable, el \in OffersExpectedLoss} \ {Absent}
PricedOffer == {Of!ToOffer(t, r) : t \in DOMAIN OffersTemplate, r \in PricedRate}
ASSUME OffersAssumption ==
    /\ IsFiniteSet(DOMAIN OffersTemplate)
    /\ OffersFlow \ {Absent} \subseteq Int
    /\ \A t \in DOMAIN OffersTemplate : OffersTemplate[t].offset \in Int
    /\ OffersExpectedLoss \subseteq Int
    /\ \A t \in OffersAlmTable :
          /\ t.base \in Int
          /\ t.floor # Absent => t.floor \in Int
          /\ t.ceiling # Absent => t.ceiling \in Int
          /\ t.floor # Absent /\ t.ceiling # Absent => t.floor <= t.ceiling
    /\ \A p \in DOMAIN OffersCaps : OffersCaps[p].segment # "retail" =>
          /\ OffersCaps[p].dscr \in Nat \X (Nat \ {0})
          /\ OffersCaps[p].dscr[1] >= OffersCaps[p].dscr[2]
    /\ \A o \in PricedOffer : Of!Emi(o) \in Nat \X Nat

-----------------------------------------------------------------------------
\* The assistant: a rate limit, and documents dated by days.
ASSUME AssistantAssumption ==
    /\ AssistantMaxCalls \in Nat /\ AssistantWindowLength \in Nat
    /\ \A d \in AssistantDocument : d.from \in Int /\ (d.to # Absent => d.to \in Int)
As == INSTANCE Assistant WITH
    Document <- AssistantDocument, Sentence <- AssistantSentence,
    Tool <- AssistantTool, Argument <- AssistantArgument,
    Session <- AssistantSession, MaxCalls <- AssistantMaxCalls,
    WindowLength <- AssistantWindowLength, Open <- Absent,
    MaxDay <- AssistantMaxDay, MaxAnswers <- AssistantMaxAnswers,
    MaxSentences <- AssistantMaxSentences, today <- assistantToday
assistantVars == <<assistantToday, corpus, calls, granted, invoked, served>>

-----------------------------------------------------------------------------
\* A conversation: what stands for nothing is no kind of personal data, no refusal
\* and no limit, and what a text may carry is listed.
Cv == INSTANCE Conversation WITH
    Dictionary <- ConversationDictionary, Driver <- ConversationDriver,
    Language <- ConversationLanguage, Topics <- ConversationTopics,
    Turn <- ConversationTurn, Chunk <- ConversationChunk,
    Triple <- ConversationTriple, MinTriples <- ConversationMinTriples,
    Nothing <- Absent, MaxEdits <- ConversationMaxEdits,
    library <- conversationLibrary, decision <- conversationDecision,
    explanation <- conversationExplanation, said <- conversationSaid,
    verdict <- conversationVerdict, golden <- conversationGolden,
    evaluation <- conversationEvaluation, edits <- conversationEdits
conversationVars ==
    <<conversationLibrary, conversationDecision, conversationExplanation,
      conversationSaid, conversationVerdict, conversationGolden,
      conversationEvaluation, conversationEdits>>
ASSUME ConversationAssumption ==
    /\ Absent # "handoff" /\ \A k \in DOMAIN Cv!PiiPatterns : Cv!PiiPatterns[k] # Absent
    /\ Absent # 1
    /\ IsFiniteSet(UNION {ConversationChunk[c] : c \in DOMAIN ConversationChunk})
    /\ \A t \in ConversationTurn : IsFiniteSet(t.signals)

-----------------------------------------------------------------------------
\* Fraud velocity counters: lateness, windows and instants are whole numbers.
ASSUME VelocityAssumption ==
    /\ VelocityAllowedLateness \in Nat
    /\ VelocityWindows \subseteq Nat
    /\ Absent \notin Int
    /\ VelocityMaxTime \in Nat /\ VelocityMaxEvents \in Nat /\ VelocityMaxAsked \in Nat
Fv == INSTANCE FraudVelocity WITH
    EventKey <- VelocityEventKey, AllowedLateness <- VelocityAllowedLateness,
    Windows <- VelocityWindows, Never <- Absent, MaxTime <- VelocityMaxTime,
    MaxEvents <- VelocityMaxEvents, MaxAsked <- VelocityMaxAsked
velocityVars == <<bucket, watermark, late, asked>>

-----------------------------------------------------------------------------
\* Schema evolution: no type is called absent.
ASSUME SchemaAssumption == "absent" \notin SchemaType
Se == INSTANCE SchemaEvolution WITH
    Field <- SchemaField, Type <- SchemaType, Record <- SchemaRecord,
    MaxVersions <- SchemaMaxVersions, MaxMessages <- SchemaMaxMessages
schemaVars == <<versions, topic>>

-----------------------------------------------------------------------------
\* The early-warning backtest: targets are positive, and a report that raises is
\* none of the reports it gives.
ASSUME BacktestAssumption ==
    /\ ReplayMaxDay \in Nat /\ ReplayMonths \in Nat /\ ReplayRequiredLead \in Nat
    /\ ReplayCapturePercent \in Nat /\ ReplayCapturePercent > 0
    /\ ReplayRedPercent \in Nat /\ ReplayRedPercent > 0
    /\ \A why \in SUBSET {"history", "capture", "precision", "precision_not_measured"} : Absent # why
Bt == INSTANCE Backtest WITH
    Account <- ReplayAccount, CapturePercent <- ReplayCapturePercent,
    RedPercent <- ReplayRedPercent, RequiredLead <- ReplayRequiredLead,
    Raises <- Absent, MaxDay <- ReplayMaxDay, MaxAlerts <- ReplayMaxAlerts,
    alerts <- replayAlerts
replayVars == <<replayAlerts, defaulted_on, dispositions>>

-----------------------------------------------------------------------------
\* PD velocity: PDs are not negative, and a window is wider than its tolerance
\* (ews/velocity.py compares over 30 days, give or take 5).
ASSUME PdAssumption ==
    /\ IsFiniteSet(PdAccount) /\ PdReading \subseteq Nat
    /\ PdWindow \in Nat /\ PdTolerance \in Nat /\ PdTolerance <= PdWindow
Pv == INSTANCE PdVelocity WITH
    Account <- PdAccount, Pd <- PdReading, Window <- PdWindow,
    Tolerance <- PdTolerance, MinPortfolio <- PdMinPortfolio,
    NotListed <- Absent, MaxGap <- PdMaxGap, MaxListed <- PdMaxListed
pdVars == <<values, listed, fromZero>>

-----------------------------------------------------------------------------
\* The account-month panel: days past due are counted, and neither a number nor TRUE
\* stands for what is not there.
ASSUME PanelAssumption == PanelDpd \subseteq Nat /\ PanelHorizon \in Nat /\ Absent \notin Int
ASSUME PanelFlagAssumption == Absent # TRUE
Pf == INSTANCE Portfolio WITH
    Loan <- PanelLoan, Dpd <- PanelDpd, Unknown <- Absent,
    Horizon <- PanelHorizon, MaxMonth <- PanelMaxMonth, Span <- PanelSpan,
    clock <- panelClock, months <- panelMonths
panelVars == <<panelClock, panelMonths, default_at, disposition>>

-----------------------------------------------------------------------------
\* The ladder to full traffic.  A window of an evaluation ends after it starts, which
\* EvaluationWindow checks, and intervals are whole days.
ASSUME LadderAssumption ==
    /\ Absent \notin Int /\ LadderGrace \in Nat /\ LadderMinShadow \in Nat /\ LadderMinCanary \in Nat
    /\ \A a \in DOMAIN LadderActivity : LadderActivity[a].interval \in Nat
    /\ \A e \in LadderEntry : e.value \in Int /\ e.window # Absent /\ e.window.trainedTo \in Int
                              /\ e.window.from \in Int /\ e.window.to \in Int /\ e.window.from < e.window.to
La == INSTANCE Ladder WITH
    Activity <- LadderActivity, Grace <- LadderGrace,
    MinShadow <- LadderMinShadow, MinCanary <- LadderMinCanary,
    Entry <- LadderEntry, Row <- LadderRow, Gate <- LadderGate, None <- Absent,
    MaxDay <- LadderMaxDay, MaxSample <- LadderMaxSample, day <- ladderDay,
    rung <- ladderRung, started <- ladderStarted, incident <- ladderIncident,
    traffic <- ladderTraffic, answer <- ladderAnswer
ladderVars ==
    <<ladderDay, ladderRung, ladderStarted, ladderIncident, ladderTraffic,
      lastRun, overdueReport, ladderAnswer>>

-----------------------------------------------------------------------------
\* Retrieval: chunk ids are ordered, a word occurs a number of times, and the share of
\* a rank is a whole number.
ASSUME RetrievalAssumption ==
    /\ IsFiniteSet(RetrievalId) /\ RetrievalId \subseteq Int
    /\ Absent \notin RetrievalVersion /\ \A v \in RetrievalVersion : v.terms \in [RetrievalTerm -> Nat]
    /\ RetrievalDepth \in Nat /\ RetrievalK \in Nat /\ RetrievalRrfK \in Nat
    /\ RetrievalScale \in Nat \ {0}
    /\ \A p \in 1..RetrievalDepth : RetrievalScale % (RetrievalRrfK + p) = 0
Rt == INSTANCE Retrieval WITH
    Id <- RetrievalId, Term <- RetrievalTerm, Version <- RetrievalVersion,
    Day <- RetrievalDay, Tag <- RetrievalTag, NoTag <- RetrievalNoTag,
    Depth <- RetrievalDepth, K <- RetrievalK, RrfK <- RetrievalRrfK,
    Scale <- RetrievalScale
retrievalVars == <<lexical, postings, chunks, vectors>>

-----------------------------------------------------------------------------
Side ==
    {"gateway", "desk", "consent", "catalogue", "spine", "offers", "assistant",
     "conversation", "velocity", "schema", "replay", "pd", "panel", "ladder",
     "retrieval"}

\* The variables of a component that does not run have no meaning.
Init ==
    /\ side \in Side \cup OtherSide
    /\ IF side = "gateway" THEN Gw!Init
       ELSE gatewayTable = 0 /\ carries = 0 /\ leftover = 0 /\ loads = 0 /\
            screen = 0
    /\ IF side = "desk" THEN Fd!Init
       ELSE deskTaxonomy = 0 /\ queue = 0
    /\ IF side = "consent" THEN Co!Init
       ELSE consentClock = 0 /\ consentConsents = 0 /\ consentUses = 0 /\
            consentCatalogue = 0 /\ consentScores = 0
    /\ IF side = "catalogue" THEN Cf!Init
       ELSE catalogueClock = 0 /\ catalogueConsents = 0 /\ catalogueUses = 0 /\
            catalogueCatalogue = 0 /\ catalogueScores = 0
    /\ IF side = "spine" THEN Sp!Init
       ELSE reading = 0 /\ spineRows = 0 /\ spine = 0 /\ audit = 0
    /\ IF side = "offers" THEN Of!Init
       ELSE flow = 0 /\ quote = 0 /\ rate = 0 /\ sets = 0 /\ decisions = 0 /\ stage = 0 /\
            observations = 0
    /\ IF side = "assistant" THEN As!Init
       ELSE assistantToday = 0 /\ corpus = 0 /\ calls = 0 /\ granted = 0 /\
            invoked = 0 /\ served = 0
    /\ IF side = "conversation" THEN Cv!Init
       ELSE conversationLibrary = 0 /\ conversationDecision = 0 /\
            conversationExplanation = 0 /\ conversationSaid = 0 /\
            conversationVerdict = 0 /\ conversationGolden = 0 /\
            conversationEvaluation = 0 /\ conversationEdits = 0
    /\ IF side = "velocity" THEN Fv!Init
       ELSE bucket = 0 /\ watermark = 0 /\ late = 0 /\
            asked = 0
    /\ IF side = "schema" THEN Se!Init
       ELSE versions = 0 /\ topic = 0
    /\ IF side = "replay" THEN Bt!Init
       ELSE replayAlerts = 0 /\ defaulted_on = 0 /\ dispositions = 0
    /\ IF side = "pd" THEN Pv!Init
       ELSE values = 0 /\ listed = 0 /\ fromZero = 0
    /\ IF side = "panel" THEN Pf!Init
       ELSE panelClock = 0 /\ panelMonths = 0 /\ default_at = 0 /\
            disposition = 0
    /\ IF side = "ladder" THEN La!Init
       ELSE ladderDay = 0 /\ ladderRung = 0 /\ ladderStarted = 0 /\
            ladderIncident = 0 /\ ladderTraffic = 0 /\ lastRun = 0 /\
            overdueReport = 0 /\ ladderAnswer = 0
    /\ IF side = "retrieval" THEN Rt!Init
       ELSE lexical = 0 /\ postings = 0 /\ chunks = 0 /\ vectors = 0

Idle(s) ==
    /\ IF s = "gateway" THEN TRUE ELSE UNCHANGED gatewayVars
    /\ IF s = "desk" THEN TRUE ELSE UNCHANGED deskVars
    /\ IF s = "consent" THEN TRUE ELSE UNCHANGED consentVars
    /\ IF s = "catalogue" THEN TRUE ELSE UNCHANGED catalogueVars
    /\ IF s = "spine" THEN TRUE ELSE UNCHANGED spineVars
    /\ IF s = "offers" THEN TRUE ELSE UNCHANGED offersVars
    /\ IF s = "assistant" THEN TRUE ELSE UNCHANGED assistantVars
    /\ IF s = "conversation" THEN TRUE ELSE UNCHANGED conversationVars
    /\ IF s = "velocity" THEN TRUE ELSE UNCHANGED velocityVars
    /\ IF s = "schema" THEN TRUE ELSE UNCHANGED schemaVars
    /\ IF s = "replay" THEN TRUE ELSE UNCHANGED replayVars
    /\ IF s = "pd" THEN TRUE ELSE UNCHANGED pdVars
    /\ IF s = "panel" THEN TRUE ELSE UNCHANGED panelVars
    /\ IF s = "ladder" THEN TRUE ELSE UNCHANGED ladderVars
    /\ IF s = "retrieval" THEN TRUE ELSE UNCHANGED retrievalVars

GatewayStep == side = "gateway" /\ Gw!Next /\ Idle("gateway") /\ UNCHANGED side
DeskStep == side = "desk" /\ Fd!Next /\ Idle("desk") /\ UNCHANGED side
ConsentStep == side = "consent" /\ Co!Next /\ Idle("consent") /\ UNCHANGED side
CatalogueStep == side = "catalogue" /\ Cf!Next /\ Idle("catalogue") /\ UNCHANGED side
SpineStep == side = "spine" /\ Sp!Next /\ Idle("spine") /\ UNCHANGED side
OffersStep == side = "offers" /\ Of!Next /\ Idle("offers") /\ UNCHANGED side
AssistantStep == side = "assistant" /\ As!Next /\ Idle("assistant") /\ UNCHANGED side
ConversationStep == side = "conversation" /\ Cv!Next /\ Idle("conversation") /\ UNCHANGED side
VelocityStep == side = "velocity" /\ Fv!Next /\ Idle("velocity") /\ UNCHANGED side
SchemaStep == side = "schema" /\ Se!Next /\ Idle("schema") /\ UNCHANGED side
ReplayStep == side = "replay" /\ Bt!Next /\ Idle("replay") /\ UNCHANGED side
PdStep == side = "pd" /\ Pv!Next /\ Idle("pd") /\ UNCHANGED side
PanelStep == side = "panel" /\ Pf!Next /\ Idle("panel") /\ UNCHANGED side
LadderStep == side = "ladder" /\ La!Next /\ Idle("ladder") /\ UNCHANGED side
RetrievalStep == side = "retrieval" /\ Rt!Next /\ Idle("retrieval") /\ UNCHANGED side

Next ==
    \/ GatewayStep
    \/ DeskStep
    \/ ConsentStep
    \/ CatalogueStep
    \/ SpineStep
    \/ OffersStep
    \/ AssistantStep
    \/ ConversationStep
    \/ VelocityStep
    \/ SchemaStep
    \/ ReplayStep
    \/ PdStep
    \/ PanelStep
    \/ LadderStep
    \/ RetrievalStep

vars ==
    <<side, gatewayVars, deskVars, consentVars, catalogueVars, spineVars,
      offersVars, assistantVars, conversationVars, velocityVars, schemaVars,
      replayVars, pdVars, panelVars, ladderVars, retrievalVars>>

Spec == Init /\ [][Next]_vars

\* A request sent is handled, each in a thread of its own, and a promise settled.
Fairness ==
    /\ \A k \in GatewayConnection : WF_gatewayVars(side = "gateway" /\ Gw!Serve(k))
    /\ \A n \in 1..GatewayMaxLoads : WF_gatewayVars(side = "gateway" /\ Gw!Progress(n))

-----------------------------------------------------------------------------
(* Properties: those of the components, each where it runs.                *)

\* What a screen shows came from its latest load, a governance stop and a fault are
\* told apart, and a model's value is traced (gateway/server.py, useLoad.ts).
ScreenFaithful == side = "gateway" => Gw!ScreenFaithful

\* Consent and identity: a use outside its consent, a verdict that a later event
\* rewrites, a score on a feature nobody consented to, a loan or a case that the audit
\* loses (privacy/consent.py, scoring/features.py, identity/spine.py).
CustomerSound ==
    /\ side = "consent" => Co!ConsentSound
    /\ side = "catalogue" => Cf!ConsentSound
    /\ side = "spine" => Sp!SpineSound

\* Every logged offer keeps the caps it was judged by, is priced within the floor and
\* the ceiling of its table, up to its arm's offset, and fails the affordability audit
\* only on a later flow; it has the propensity it was taken with (reco/*.py).
OffersSound == side = "offers" => Of!OffersSound

\* The desk's precision figures add up over its signals and no case closes without a
\* disposition; a count that was used is recomputed but for backdated events, and what
\* it missed arrived late (fraud/routing.py, fraud/velocity.py).
FraudSound ==
    /\ side = "desk" => Fd!DeskSound
    /\ side = "velocity" => Fv!VelocitySound

\* What training may have used stands: a fraud label is never withdrawn or changed, and
\* a row of the panel, once given, moves only to bad and only when a loss in its window
\* becomes known (fraud/routing.py, portfolio/panel.py).
TrainingDataStands ==
    [][/\ side = "desk" => Fd!LabelKept
       /\ side = "panel" => Pf!RowsAreFinal]_vars

\* Numbers in answers are grounded, citations keep resolving, tools run as declared
\* and within the rate, and a customer is told reasons as they were approved, in a
\* turn that is fenced and redacted; retrieval keeps nothing stale and crowds nothing
\* out (assistant/*.py, scoring/reasons.py).
AssistantSound ==
    /\ side = "assistant" => As!AssistantSound
    /\ side = "conversation" => Cv!ConversationSound
    /\ side = "retrieval" => Rt!RetrievalSound

\* A schema reads what any version before it wrote, but for fields put back; the backtest
\* counts alerts in time and passes on both of its targets only, and the PD alerts keep to
\* their budget, worst first; a loan of the panel defaults once, no month is called good
\* before arrears or its first default within the horizon, and its stages keep their
\* order; full traffic is earned on every rung (streaming/compat.py, ews/backtest.py,
\* ews/velocity.py, portfolio/panel.py, portfolio/staging.py, serving/shadow.py,
\* learning/challenger.py, learning/cadence.py).
DataSound ==
    /\ side = "schema" => Se!EvolutionSound
    /\ side = "replay" => Bt!BacktestSound
    /\ side = "pd" => Pv!PdVelocitySound
    /\ side = "panel" => Pf!GoodIsEarned /\ Pf!EventsCountOnce /\ Pf!StagesAgree
    /\ side = "ladder" => La!FullTrafficEarned /\ La!OverdueComplete /\ La!LiftAdmitted
=============================================================================
