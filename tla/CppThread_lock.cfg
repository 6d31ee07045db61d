SPECIFICATION FairSpec
CONSTANTS
  Users <- ThreeThreads
  MaxStarts = 4
INVARIANTS TypeOK Exclusion NoLostWakeUp StopHeeded
PROPERTIES ImplementsReadersWriter ShutdownEnds
CHECK_DEADLOCK FALSE
