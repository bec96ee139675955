SPECIFICATION Spec
CONSTANTS
  Keys <- AnyText
  Definitions <- KubePkgDefinitions
  Templates <- TwoTemplates
  EditedPaths <- WrittenPaths
  Written <- WrittenAt
  MaxEdits = 2
  MaxPuts = 2
INVARIANTS
  TypeOK
  SubmittedIsDeployed
  RowAsListed
  SettingsCarriedOver
  MarkedIsChanged
  SubmittedIsValid
  CompletionsFit
CHECK_DEADLOCK FALSE
