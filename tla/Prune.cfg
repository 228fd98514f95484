SPECIFICATION MCSpec
CONSTANTS
  p = p
  q = q
  c = c
  l1 = l1
  l2 = l2
  Profiles = {p, q}
  Volumes = {c}
  Caches <- MCCaches
  Packaged = {p}
  Connected = {p}
  Launches = {l1, l2}
  ProfileOf <- MCProfileOf
  Pulls = {}
  Bases = {b1}
  Absent = Absent
  Nobody = Nobody
  Commands <- MCCommands
SYMMETRY Same
INVARIANTS
  LaunchUnharmed
  NetworkShared
PROPERTIES
  DefaultKeepsOwned
  ActiveSpared
  NoRebuild
CHECK_DEADLOCK FALSE
