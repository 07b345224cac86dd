SPECIFICATION FairSpec
CONSTANTS
    EnvKey <- MCEnvKey
    Envs <- MCEnvs
    Page = 1
    MaxMsgs = 2
    MaxChanges = 1
    MaxTicks = 2
    MaxScrapes = 1
INVARIANT ExporterTypeOK
INVARIANT SlackInv
INVARIANT CleanExitIsClean
INVARIANT FailuresAreReal
INVARIANT NoneTicksForNothing
PROPERTY StopsInTime
CHECK_DEADLOCK FALSE
