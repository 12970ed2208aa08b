CONSTANT Threads = {t1, t2, t3, t4}
SPECIFICATION OptimizedSpec
CHECK_DEADLOCK FALSE
INVARIANTS WritersExclusive DriftBounded NoReaderStranded
PROPERTIES ReaderProgress PromptRefinement
