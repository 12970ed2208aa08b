CONSTANTS
    Threads = {t1, t2, t3}
    Main = main
    Nodes = {n1, n2}
    MaxKey = 2
    InsertsInMain = 2
    TotalOps = 4
    NULL = NULL
SPECIFICATION Spec
INVARIANTS NoUseAfterFree SortedList ExitInv
PROPERTIES StableForReaders Linearizable Terminates
