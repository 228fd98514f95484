SPECIFICATION FairSpec
CONSTANTS
  l1 = l1
  l2 = l2
  Launches = {l1, l2}
  Services <- TwoServices
  Needs <- BothNeedBoth
  Hashes = {"h1", "h2"}
  Want <- ChangedHash
  NoOne = NoOne
  Faults = {"daemon"}
INVARIANTS
  ServicesHaveKeepers
PROPERTIES
  LocksAreGranted
  StopStepEnds
