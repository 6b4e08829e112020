SPECIFICATION Spec
CONSTANTS
    Evidence <- MCEvidence
    Floor <- MCFloor
    MinAlerts = 2
    NoEvidence = NoEvidence
    NotRegistered = NotRegistered
    NotOpen = NotOpen
    NoDisposition = NoDisposition
    Signal = {s1, s2}
    SignalVersion = {v1, v2}
    AlertId = {a1, a2}
    Cap = 1
    Window = 2
    MaxDay = 2
SYMMETRY Symmetry
INVARIANTS TypeOK GoodSignalsSurvive
PROPERTIES WorstFirst
