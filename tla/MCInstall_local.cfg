SPECIFICATION Spec
CONSTANTS
  Names <- MCNames
  Tree <- MCTree
  MayMiss <- MCAnyMissing
  Modes = {TRUE}
  GetOnly = {TRUE, FALSE}
  Processors = 4
  LibDir = "lib64"
INVARIANTS TypeOK ShellPosition StaleNotReused CompleteBuildIsConfigurable
PROPERTIES NginxSurvives SourcesSurvive RunEnds
