SPECIFICATION ReleaseSpec
CONSTANTS
  Files = {"IMPRINT", "honesty"}
  RuleFiles = {"honesty"}
  Contents = {"a", "b"}
  Absent = "absent"
  Keys = {"k1", "k2"}
  Pin = "k1"
  Clones <- MCClones
  Cached = {0, 2}
  MaxEdits = 2
  MaxRows = 1
  MaxMintings = 5
  MaxSittings = 4
  MaxHands = 2
  Readers = {"r1", "r2"}
  Facts <- MCFacts
  MaxReadings = 2
  MaxChanges = 1
  MaxDay = 2
INVARIANTS VerifiedMeansSigned CleanMeansSigned CeremonyAgrees CertificateOnRecord 
CHECK_DEADLOCK FALSE
