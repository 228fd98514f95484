SPECIFICATION Spec
CONSTANTS
  c1 = c1
  c2 = c2
  v1 = v1
  v2 = v2
  Containers = {c1, c2}
  Versions = {v1, v2}
  Tpds <- OneTpd
  Files = 2
  Names <- MCNames
  Tools <- MCTools
  Backend <- MCBackend
  Registry <- MCRegistry
  Kills = FALSE
  None = None
INVARIANTS
  SettledPlugin
