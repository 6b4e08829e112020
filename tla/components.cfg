SPECIFICATION AllSpec
CONSTANTS
    Absent = Absent
    OtherSide <- MCOtherSide
    GatewayRoute <- MCGatewayRoute
    GatewayConnection = {"k1", "k2"}
    GatewayRequests <- MCGatewayRequests
    GatewayMaxLoads = 2
    DeskCase = {"c1", "c2"}
    DeskApplication = {"a1"}
    DeskSignal = {"s1", "s2"}
    DeskAnalyst = {"kim"}
    DeskCode = {"F1", "N1"}
    DeskTopScore = 2
    DeskBands <- MCDeskBands
    Purpose = {"underwriting", "marketing"}
    DataCategory = {"bank"}
    ConsentId = {"i1"}
    ConsentFeature = {}
    ConsentKnownSource = {}
    ConsentProtectedName = {}
    ConsentMaxTime = 3
    ConsentMaxScores = 0
    CatalogueFeature <- MCCatalogueFeature
    CatalogueKnownSource = {"bureau", "aggregator"}
    CatalogueProtectedName = {"pincode"}
    CatalogueMaxTime = 1
    CatalogueMaxScores = 2
    SpineLoanKey = {"L1"}
    SpineCustomerKey = {"C1", "C2"}
    SpineMaxRows = 3
    OffersApplicant <- MCOffersApplicant
    OffersFlow = {Absent, 200, 360}
    OffersCaps <- MCOffersCaps
    OffersTemplate <- MCOffersTemplate
    OffersAlmTable <- MCOffersAlmTable
    OffersExpectedLoss = {0, 2}
    OffersMaxTableAge = 1
    OffersMaxDecisions = 1
    OffersMaxUpdates = 1
    AssistantDocument <- MCAssistantDocument
    AssistantSentence <- MCAssistantSentence
    AssistantTool <- MCAssistantTool
    AssistantArgument = {"principal", "branch"}
    AssistantSession = {"s1"}
    AssistantMaxCalls = 2
    AssistantWindowLength = 2
    AssistantMaxDay = 2
    AssistantMaxAnswers = 1
    AssistantMaxSentences = 2
    ConversationDictionary <- MCConversationDictionary
    ConversationDriver = {"income", "tenure", "age"}
    ConversationLanguage = {"en", "hi"}
    ConversationTopics <- MCConversationTopics
    ConversationTurn <- MCConversationTurn
    ConversationChunk <- MCConversationChunk
    ConversationTriple <- MCConversationTriple
    ConversationMinTriples = 2
    ConversationMaxEdits = 3
    VelocityEventKey = {"d1"}
    VelocityAllowedLateness = 1
    VelocityWindows = {1, 2}
    VelocityMaxTime = 2
    VelocityMaxEvents = 3
    VelocityMaxAsked = 1
    SchemaField = {"f"}
    SchemaType = {"int", "long", "string"}
    SchemaRecord = {"r", "s"}
    SchemaMaxVersions = 3
    SchemaMaxMessages = 1
    ReplayAccount = {"x", "y"}
    ReplayCapturePercent = 55
    ReplayRedPercent = 25
    ReplayMonths = 24
    ReplayRequiredLead = 1
    ReplayMaxDay = 2
    ReplayMaxAlerts = 2
    PdAccount = {"a", "b"}
    PdReading <- MCPdReading
    PdWindow = 3
    PdTolerance = 1
    PdMinPortfolio = 2
    PdMaxGap = 5
    PdMaxListed = 3
    PanelLoan = {"L1", "L2"}
    PanelDpd = {0, 30, 90}
    PanelHorizon = 1
    PanelMaxMonth = 3
    PanelSpan <- MCPanelSpan
    LadderActivity <- MCLadderActivity
    LadderGrace = 1
    LadderMinShadow = 2
    LadderMinCanary = 2
    LadderEntry <- MCLadderEntry
    LadderRow <- MCLadderRow
    LadderGate = 999
    LadderMaxDay = 5
    LadderMaxSample = 2
    RetrievalId <- MCRetrievalId
    RetrievalTerm = {"rate", "fee"}
    RetrievalVersion <- MCRetrievalVersion
    RetrievalDay <- MCRetrievalDay
    RetrievalTag = {"kcc", "any"}
    RetrievalNoTag = "any"
    RetrievalDepth = 2
    RetrievalK = 2
    RetrievalRrfK = 60
    RetrievalScale = 3782
INVARIANTS
    ScreenFaithful CustomerSound OffersSound FraudSound AssistantSound DataSound
    PortfolioSound
PROPERTIES WaitsEnd TrainingDataStands ModularityRises
CHECK_DEADLOCK FALSE
