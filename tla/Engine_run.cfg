SPECIFICATION Spec
CONSTANTS
  None = None
  Null = Null
  Trimmed <- MCTrimmed
  Lowered <- MCLowered
  Value <- MCValue
  Today = 12
  Configs <- MCConfigs
  Contents <- MCContents
  Channel = {email, slack}
  PageSize = 2
  MaxPages = 2
  MaxAttempts = 2
  MaxRetries = 1
  MaxChanges = 1
  MaxKills = 1
SYMMETRY Symmetry
INVARIANTS
  TypeOK
  ExtractIsComplete
  RowsAreSiftedRight
  ScorecardIsOfTheOutcome
  OutcomeIsNotified
CHECK_DEADLOCK FALSE
