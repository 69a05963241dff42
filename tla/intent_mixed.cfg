SPECIFICATION Spec
CONSTANTS
    s1 = s1  s2 = s2
    a1 = a1  a2 = a2  a3 = a3
    Slots = {s1}
    Attempts = {a1, a2, a3}
    None = None
    LegacySlots = {s1}
    MixedSlots = {s1}
    Policies <- MCTagged
SYMMETRY AttemptSymmetry
ACTION_CONSTRAINT Quiet
PROPERTIES NoIntentOverLegacy
