CONSTANTS
    NumCEXEC = 1
    Tasks = {t1, t2}
    MaxContexts = 3
    IoCalls = {"open"}
    Main = Main
    None = None
SPECIFICATION Spec
INVARIANT NoEmptyContext
