CONSTANTS
  Config <- MCConfig
  Pool = {1, 2, 3}
  Structure <- MCStructure
  Localization <- MCLocalization
  MaxCommands = 1
  MaxReuploads = 1
  MaxFaults = 2
  SlowWorker = FALSE
\* A client that was terminated may stay so
CHECK_DEADLOCK FALSE
SPECIFICATION FairSpec
INVARIANTS TypeOK ActiveIsCurrent ClientIsKnown
PROPERTIES Reconnects CommandsAnswered
