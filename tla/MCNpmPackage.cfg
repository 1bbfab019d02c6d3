SPECIFICATION FairPackageSpec
CONSTANTS
  Invocations <- MCInvocations
  Environments <- MCEnvironments
  FileName <- CaseSensitive
  Chunks = 3
  MaxBuffer = 2
INVARIANTS
  SuccessIsComplete
  PrefixIsOnDisk
  RefusedIsHarmless
  ReleasedBeforeExit
  CallerIsTold
PROPERTIES
  EveryCallSettles
CHECK_DEADLOCK FALSE
