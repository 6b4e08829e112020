SPECIFICATION Spec
CONSTANTS
    PdScale = 10
    Pending = Pending
    alice = alice
    bob = bob
    Approver <- MCApprover
    Requests = {r1, r2}
    Rules <- MCRules
    Configs <- MCConfigs
    Pds = {3, 4, 6, 11}
    NoScores = NoScores
    NoPd = NoPd
    NoBands = NoBands
    NoAnswer = NoAnswer
    ModelRefs = {TRUE, FALSE}
    SwapMidFlight = FALSE
    MaxChanges = 2
PROPERTIES ImplementsPromise
CHECK_DEADLOCK FALSE
