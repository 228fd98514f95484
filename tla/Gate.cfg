SPECIFICATION FairSpec
CONSTANTS
  l1 = l1
  l2 = l2
  Launches = {l1, l2}
  Grants <- GateGrants
  Profiles <- GateProfiles
  Modes = {"ask", "yes", "dryNo", "noTerminal"}
  NoService = NoService
  NoGrant = NoGrant
  NoOne = NoOne
INVARIANT FileSaysTheAnswer
PROPERTIES
  Consent
  DecidedOnce
  GateReturns
