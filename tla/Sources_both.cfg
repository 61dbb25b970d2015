SPECIFICATION Spec
CONSTANTS
  Modes = {TRUE, FALSE}
  OptUsable = {TRUE, FALSE}
INVARIANTS ShippedTree LuaPathObtained NothingAstray
