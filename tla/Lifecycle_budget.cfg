SPECIFICATION FreshSpec
CONSTANTS
  l1 = l1
  l2 = l2
  Launches = {l1, l2}
  Services <- TwoServices
  Needs <- SecondNeedsOne
  Hashes = {"h1"}
  Want <- SameHash
  NoOne = NoOne
  Faults = {"budget"}
INVARIANTS
  ServicesHaveKeepers
