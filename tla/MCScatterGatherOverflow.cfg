\* 1,000,000 integers below 10,000 and 31 bits are here a few below 100 and 7.
CONSTANTS
    Programs = {"p5_1"}
    MaxInt = 127
    Values = {5, 38, 99}
    MaxRanks = 3
    MaxItems = 3
    MaxWidth = 1
    Colours <- MCColours
SPECIFICATION ScatterSpec
INVARIANTS AsGenerated
