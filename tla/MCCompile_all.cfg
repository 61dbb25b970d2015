SPECIFICATION Spec
CONSTANTS
  Modes = {TRUE, FALSE}
  Roots = {TRUE, FALSE}
  MayMiss <- MCSomeMissing
  Processors = 4
  LibDir = "lib"
INVARIANTS ShellPosition StaleNotReused CompleteBuildIsConfigurable
