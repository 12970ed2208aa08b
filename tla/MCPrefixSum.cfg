CONSTANTS
    MaxNum = 9
    MaxRoom = 2
SPECIFICATION Spec
INVARIANTS PrefixSums SumsAreRuns
PROPERTIES Terminates
