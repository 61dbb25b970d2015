SPECIFICATION Spec
CONSTANTS
  Admins = {TRUE, FALSE}
  MaxKeys = 3
INVARIANTS TypeOK KeyMatchesCert BackWhereItBegan CertsComplete
