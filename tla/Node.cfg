SPECIFICATION NodeSpec
CONSTANTS
  Ops <- MCOps
  Clients = {"known"}
  NoName = "unnamed"
  Grades <- MCGrades
  BarRulings = 3
  BarPercent = 60
  MaxRequests = 3
  MaxEdits = 1
  Collections = {"notes", "mail"}
  RowIds = {"r1"}
  SourceTypes = {"letter", "chat"}
  Absorbers = {"a1", "a2"}
  MaxRing = 2
  GrowRows = 2
  Claims <- MCClaims
  Shapes <- MCShapes
  Taxonomies <- MCTaxonomies
  MaxWrites = 2
  MaxStoreEdits = 1
  MaxReadings = 3
  MaxMark = 3
  Contents <- MCContents
  Shipped <- MCShipped
  Roots = {"root"}
  NoRoot = "no root"
  Words = {"gate", "side"}
  MaxEstateEdits = 2
  PoolRows <- MCPoolRows
  Policies <- MCRoutes
  MaxTokens = 3
  MaxCalls = 2
INVARIANTS    FenceHolds
PROPERTIES ServedWasAdmitted WatermarkNeverBack
CHECK_DEADLOCK FALSE
