SPECIFICATION FairSpec
CONSTANTS
  Calls = {look, remove}
  Dangerous = {remove}
  NoPath = NoPath
  NoAnswer = NoAnswer
  Answerers = {first, second}
  CommandKey <- MCCommandKey
  PathKey <- MCPathKey
  Path <- MCPath
INVARIANTS
  ToolsRunLicensed
  AllowsAreHonoured
PROPERTIES
  WaitsEnd
