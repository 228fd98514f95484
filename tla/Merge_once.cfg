SPECIFICATION FairSpec
CONSTANTS
  Names <- MCNames
  Scalars = {"image", "network"}
  Required = {"image"}
  MapFields = {"mounts"}
  Keys = {k}
  Packages = {p}
  Loads <- MCLoads
  Faulty = Faulty
  ProfileOnly = {"image"}
  Root <- MCRoot
  Nobody = Nobody
INVARIANTS
  MergedOnce
CHECK_DEADLOCK FALSE
