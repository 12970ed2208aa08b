CONSTANTS
    MatrixJobs <- MCMatrixJobs
    MaxJobs <- MCMaxJobs
SPECIFICATION Spec
INVARIANTS SameAsSerial NoRace
PROPERTIES Terminates
