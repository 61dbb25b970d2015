SPECIFICATION Spec
CONSTANTS
  Buster = TRUE
  FirstGcc <- MCFirstGcc
  Admins = {TRUE}
  Modes = {TRUE}
  MaxTrouble = 1
PROPERTIES MessagesLeadThrough
