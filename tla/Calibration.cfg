CONSTANTS
    dev = dev
    other = other
    Ids <- TwoIds
    DevId <- dev
    MaxLinks = 3
    MaxMarks = 1
    Items = {"a", "b"}
    Predictions = {"approve", "BASE_RATE"}
    SigmaOf <- MCSigma
    Bars <- MCBars
    DefaultFloors <- MCDefault
    Thresholds <- MCStages
    Questions <- MCQuestions
    BarSince = 2
    Dates = {1, 2}
    MaxEvents = 4
    MaxCalls = 1
SPECIFICATION MCSpec
INVARIANTS TagoutsKept 
PROPERTIES RemediatedOnlyByTagIn
CHECK_DEADLOCK FALSE
