SPECIFICATION MCSpec
CONSTANTS
  j1 = j1
  j2 = j2
  Jobs = {j1, j2}
  MaxDoc = 2
  Cadences <- MCCadences
  MaxItems = 2
  MaxTokens = 4
  Reserve = 3
  Slack = 1
  FlatlineDays = 2
  MaxCryst = 3
  MaxJobs = 3
  MaxUpsets = 1
  MaxDate = 3
  CharterIds = {"a", "b"}
  LoopCadences <- MCLoopCadences
  Shares = {50, 0}
  Hosts = {"cron", "windows-task"}
  MaxEntries = 2
  MaxEdits = 4
  MaxRows = 1
  Channels <- MCChannels
  Speakers = {"node", "op", "guest"}
  Intents <- MCIntents
  Rules <- MCRules
  Targets = {"in", "secret", "away"}
  NoTarget = ""
  NoIntent = ""
  Outside = {"away"}
  MaxTurns = 1
  MaxRecordEdits = 1
SYMMETRY Symmetry
INVARIANTS PatternHasAncestry FlatlineIsSeen HostKeepsCharter LimitsHold AnsweredWithinCeiling
PROPERTIES PatternsKept
CHECK_DEADLOCK FALSE
