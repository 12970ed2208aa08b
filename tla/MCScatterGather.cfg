CONSTANTS
    Programs = {"p5_1", "p5_2", "p5_3", "p6"}
    MaxInt = 127
    Values = {5, 38, 99}
    MaxRanks = 4
    MaxItems = 5
    MaxWidth = 3
    Colours <- MCColours
SPECIFICATION ScatterSpec
INVARIANTS ResultCorrect ImageSame
PROPERTIES AllFinalize
