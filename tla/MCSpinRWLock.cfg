CONSTANTS
    Threads = {t1, t2, t3}
    Spinlock = 2
    Nobody = Nobody
SPECIFICATION SpinSpec
INVARIANTS MutualExclusion CountsMatch OwnerInv NoLostWakeup
PROPERTIES ReaderPreference Refinement ImplementsSimple CallsReturn
