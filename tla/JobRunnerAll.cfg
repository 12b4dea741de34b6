SPECIFICATION FairRunnerSpec
CONSTANTS
    Jobs = {j1}
    Workers = {w1, w2}
    NoWorker = NoWorker
    MaxAttempts = 2
    Checkpoints = 2
    Priority <- SamePriority
    DrainWorkers = {w2}
INVARIANTS
    RunnerTypeOK
    OneHolder
    AttemptsAreBounded
    NoUnitIsLost
PROPERTIES
    SettledStaysSettled
    CheckpointNeverGoesBack
    ImplementsLifecycle
    EveryJobSettles
