SPECIFICATION Spec
CONSTANTS
  Modes = {TRUE, FALSE}
  Admins = {TRUE, FALSE}
INVARIANTS TypeOK RunEndsWithDatabase
PROPERTIES SystemDataSurvives SystemUnitStartsCluster
