SPECIFICATION FairSpec
CONSTANTS
  Names <- MCNames
  Scalars = {"image", "network"}
  Required = {"image"}
  MapFields = {"mounts"}
  Keys = {k}
  Packages = {p}
  Loads <- MCLoads
  Faulty = Faulty
  ProfileOnly = {"image"}
  Root <- MCRoot
  Nobody = Nobody
INVARIANTS
  CreditsAreRight
  MeetsReference
  ChainInOrder
  RefusedForCause
  LoadsWhatIsSound
PROPERTIES
  Ends
CHECK_DEADLOCK FALSE
