SPECIFICATION Spec
CONSTANTS
  Names <- MCNames
  Tree <- MCTree
  MayMiss <- MCNoneMissing
  Modes = {TRUE}
  GetOnly = {FALSE}
  Processors = 4
  LibDir = "lib64"
INVARIANT OpenSSLUsed
