SPECIFICATION MCSpec
CONSTANTS
    fact = fact
    code = code
    note = note
    Rulings = {r1, r2}
    NoRuling = NoRuling
    Predicates <- MCPredicates
    MaxEvents = 4
    Subjects = {code, note}
    NodeLocal = {note}
    Elsewhere <- MCElsewhere
    Templates <- MCTemplates
    Configs <- MCConfigs
    Witnesses = {w1, w2}
    DECAY_TOLERANCE = 1
    FALL_TOLERANCE = 10
    MAX_IDS = 3
    MaxDay = 2
    MaxReadings = 3
SYMMETRY Symmetry
INVARIANTS LineageWhole DriftIsSeen
PROPERTIES ReaffirmRevivesNothing CurrentIsEarned AnswerStands
CHECK_DEADLOCK FALSE
