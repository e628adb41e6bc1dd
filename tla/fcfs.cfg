CONSTANTS
    Tasks = {t1, t2, t3}
    CExecs = {c1, c2}
    IExec = i
    None = None
SPECIFICATION FcfsSpec
INVARIANTS
    OnePlace
    PlacedTasksAreLive
PROPERTY
    EveryReadyTaskRuns
CHECK_DEADLOCK FALSE
