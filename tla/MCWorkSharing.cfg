CONSTANTS
    Backwards <- MCBackwards
    thread_cnt = 3
    MaxInt = 15
    Chunks = {0, 1}
    MaxTasks = 5
    MaxWords = 4
SPECIFICATION Spec
INVARIANTS ResultSerial NoDoubleWork LinesWhole
PROPERTIES Terminates
