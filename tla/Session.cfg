SPECIFICATION FairSpec
CONSTANTS
  MaxSignals = 1
  Nobody = Nobody
INVARIANTS
  TerminalMode
  QuietAfterShutdown
  NoOrphan
  InputWaits
PROPERTIES
  SessionEnds
  InputResumes
  SignalEndsContainer
CHECK_DEADLOCK FALSE
