SPECIFICATION Spec
CONSTANTS
  l1 = l1
  l2 = l2
  Launches = {l1, l2}
  Services <- TwoServices
  Needs <- SecondNeedsOne
  Hashes = {"h1", "h2"}
  Want <- SameHash
  NoOne = NoOne
  Faults = {"engine", "kill", "budget"}
INVARIANTS
  StopDecisionStands
  ConsumersAreServed
PROPERTIES
  ForeignUntouched
  MountsStayLive
  ImplementsSharedService
