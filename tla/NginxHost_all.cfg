SPECIFICATION Spec
CONSTANTS
  Modes = {TRUE, FALSE}
  Admins = {TRUE, FALSE}
INVARIANTS TypeOK OnlyRunDirLost
PROPERTIES AfterReboot
