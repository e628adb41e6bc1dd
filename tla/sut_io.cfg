CONSTANTS
    NumCEXEC = 1
    Tasks = {t1, t2}
    MaxContexts = 3
    IoCalls = {"open", "write"}
    Main = Main
    None = None
SPECIFICATION Spec
INVARIANT CountIsLive
PROPERTIES
    ShutdownReturnsIfDefined
    ImplementsFcfs
