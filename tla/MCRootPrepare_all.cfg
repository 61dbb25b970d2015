SPECIFICATION Spec
CONSTANTS
  Buster = TRUE
  FirstGcc <- MCFirstGcc
  Admins = {TRUE, FALSE}
  Modes = {TRUE, FALSE}
  MaxTrouble = 3
INVARIANTS TypeOK CompilerIsSeven ExitKeepsNginx LeavesAPlace
PROPERTIES ObeyingLeadsThrough
