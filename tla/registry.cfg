SPECIFICATION Spec
CONSTANTS
    Version = {v1, v2}
    Triplet = {t1, t2}
    Fingerprint = {f1, f2}
    MinimumShadow = 2
    NotRegistered = NotRegistered
    Never = Never
    RegisterStages = {"None"}
    MaxDay = 3
INVARIANTS TypeOK ProductionWasGated ReplayFaithful
PROPERTIES PromotionStep
