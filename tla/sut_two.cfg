CONSTANTS
    NumCEXEC = 2
    Tasks = {t1, t2}
    MaxContexts = 3
    IoCalls = {}
    Main = Main
    None = None
SPECIFICATION Spec
INVARIANTS
    TypeOK
    StopsOnlyWhenIdle
    DescriptorsReady
    OneExecutorPerTask
    SutInv
SYMMETRY TaskSymmetry
