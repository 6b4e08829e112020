SPECIFICATION Spec
CONSTANTS
    PdScale = 10
    Pending = Pending
    alice = alice
    bob = bob
    Approver <- MCApprover
    Requests = {r1}
    Rules <- MCRules
    Configs <- FewConfigs
    Pds = {4}
    NoScores = NoScores
    NoPd = NoPd
    NoBands = NoBands
    NoAnswer = NoAnswer
    ModelRefs = {TRUE}
    SwapMidFlight = TRUE
    MaxChanges = 1
INVARIANTS RecordNamesDecidingBands
CHECK_DEADLOCK FALSE
