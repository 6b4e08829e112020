SPECIFICATION Spec
CONSTANTS
    Application = {a1, a2}
    Reason = {plain, noted}
    RequiresNote = {noted}
    DecisionOutcome = {approve, decline}
    Blank = Blank
    MaxMounts = 2
    MaxPosts = 2
INVARIANTS TypeOK ShowsThisCase OneOverrideAtATime
PROPERTIES ConfirmedChoice
CHECK_DEADLOCK FALSE
