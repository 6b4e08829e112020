SPECIFICATION Spec
CONSTANTS
    Handles = {h1}
    Content = {c1, c2}
    Faults = {"crash_before_write", "crash_after_write"}
    TamperKinds = {"edit", "remove", "swap", "copy"}
    Garbage = Garbage
    MaxRecords = 4
    MaxTampers = 1
INVARIANTS TypeOK NoFalseAlarm AckedDurable EvidenceIsPermanent
CHECK_DEADLOCK FALSE
