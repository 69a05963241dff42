SPECIFICATION Spec
CONSTANTS
    s1 = s1  s2 = s2
    a1 = a1  a2 = a2  a3 = a3
    Slots = {s1}
    Attempts = {a1, a2}
    None = None
    LegacySlots = {}
    MixedSlots = {}
    Policies <- MCAsync
SYMMETRY AttemptSymmetry
ACTION_CONSTRAINT Quiet
INVARIANTS TypeOK SealedUntilAccounted AuditedRelease TruthfulAudit HandlesAreOwn
PROPERTIES SealSpec
