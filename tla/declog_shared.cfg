SPECIFICATION Spec
CONSTANTS
    Handles = {h1, h2}
    Content = {c1, c2}
    Faults = {"crash_after_write", "crash_unterminated", "crash_torn", "short_write"}
    TamperKinds = {"edit", "remove", "swap", "copy", "truncate"}
    Garbage = Garbage
    MaxRecords = 3
    MaxTampers = 1
INVARIANTS NoEditSurvives HashPinsPrefix
CHECK_DEADLOCK FALSE
