CONSTANTS
    Pids = {1, 2, 3}
    MaxJobs = 4
SPECIFICATION Spec
INVARIANTS
    TypeOK
    EveryChildListed
    JobsComplete
PROPERTIES
    CtrlCEndsForeground
    PromptReturns
