CONSTANTS
    NumCEXEC = 1
    Tasks = {t1, t2, t3}
    MaxContexts = 3
    IoCalls = {}
    Main = Main
    None = None
SPECIFICATION Spec
INVARIANTS
    OnlySavedContextsAreLoaded
    EveryContextInOnePlace
PROPERTY ShutdownReturns
