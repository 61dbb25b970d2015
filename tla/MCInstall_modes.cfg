SPECIFICATION Spec
CONSTANTS
  Names <- MCNames
  Tree <- MCTree
  MayMiss <- MCSomeMissing
  Modes = {TRUE, FALSE}
  GetOnly = {TRUE, FALSE}
  Processors = 2
  LibDir = "lib"
INVARIANTS HandoverConsistent CompleteBuildIsConfigurable
