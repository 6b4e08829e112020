SPECIFICATION FairSpec
CONSTANTS
    PdScale = 10
    Pending = Pending
    alice = alice
    bob = bob
    Approver <- MCApprover
    Requests = {r1, r2}
    Rules <- NoRules
    Configs <- SomeConfigs
    Pds = {3, 6}
    NoScores = NoScores
    NoPd = NoPd
    NoBands = NoBands
    NoAnswer = NoAnswer
    ModelRefs = {TRUE, FALSE}
    SwapMidFlight = TRUE
    MaxChanges = 2
INVARIANTS TypeOK DualControl RiskOrdering OutageNeverScores
PROPERTIES EveryCallAnswered
CHECK_DEADLOCK FALSE
