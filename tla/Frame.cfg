SPECIFICATION FairSpec
INVARIANTS
  SpinnerQuiet
  BusIsOwn
  ProxyReaped
PROPERTY LaunchEnds
