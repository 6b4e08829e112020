SPECIFICATION AllSpec
CONSTANTS
    Absent = Absent
    NotANumber = NotANumber
    Entity = {e1}
    Value = {x, y}
    NoValue = NoValue
    NoTtl = NoTtl
    Ttl = 1
    MaxTime = 2
    MaxRows = 3
INVARIANTS ScoredAsTrained
CHECK_DEADLOCK FALSE
