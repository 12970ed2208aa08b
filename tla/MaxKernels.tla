----------------------------- MODULE MaxKernels -----------------------------
(***************************************************************************)
(* assignment-4/p2: the maximum of N integers by launches that each leave  *)
(* one value per block.  A value is the set of the inputs it is the        *)
(* maximum of, so that max is union; -1 stands for what memory that nobody *)
(* has written may hold.                                                   *)
(***************************************************************************)
EXTENDS CudaDevice

Value(c) == Read(c, {-1})

blockDim == job.block.x
Global(b, t) == b[1] * blockDim + t[1]      \* tid
Arr(i)       == <<launch.arr, i>>
Output(i)    == <<launch.output, i>>

\* The rounds of the loops over s: 1, 2, 4, ... and, in cuda_4, downwards.
Doubled[r \in Nat] == IF r = 0 THEN 1 ELSE 2 * Doubled[r - 1]
Rounds  == CHOOSE r \in 0..blockDim : Doubled[r] = blockDim
Up(r)   == Doubled[r - 1]
Down(r) == blockDim \div Doubled[r]

\* arr[i] = max(arr[i], arr[j]), or nothing.
Fold(cond, i, j) == IF cond THEN Effect({i, j}, Cell(i, Value(i) \cup Value(j)), <<>>)
                    ELSE Effect({}, Nothing, <<>>)

\* The thread 0 of a block writes the block's maximum.
Deliver(b, t, from) ==
    IF t[1] = 0 THEN Effect({from}, Cell(Output(b[1]), Value(from)), <<>>)
    ELSE Effect({}, Nothing, <<>>)

\* cuda_1: every thread whose number is a multiple of 2s.
MaxKernel1(b, t, p) ==
    LET tid == Global(b, t)
        s   == Up(p + 1)
    IN  IF p = Rounds THEN Deliver(b, t, Arr(tid))
        ELSE Fold(t[1] % (2 * s) = 0 /\ tid + s < launch.size, Arr(tid), Arr(tid + s))

\* cuda_2: the first threads of a block, at distances of 2s.
MaxKernel2(b, t, p) ==
    LET s      == Up(p + 1)
        offset == 2 * s * t[1]
        idx    == b[1] * blockDim + offset
    IN  IF p = Rounds THEN Deliver(b, t, Arr(Global(b, t)))
        ELSE Fold(offset < blockDim /\ idx + s < launch.size, Arr(idx), Arr(idx + s))

SharedSize(b) == IF blockDim < launch.size - b[1] * blockDim
                 THEN blockDim ELSE launch.size - b[1] * blockDim

\* The first phase of cuda_3 and cuda_4, which reads past the end of arr.
Load(b, t) ==
    Effect({Arr(Global(b, t))}, Cell(Shared(b, t[1]), Value(Arr(Global(b, t)))), <<>>)

\* cuda_3: cuda_2 in shared memory.
MaxKernel3(b, t, p) ==
    LET s   == Up(p)
        idx == 2 * s * t[1]
    IN  IF p = 0 THEN Load(b, t)
        ELSE IF p = Rounds + 1 THEN Deliver(b, t, Shared(b, 0))
        ELSE Fold(idx < blockDim /\ idx + s < SharedSize(b), Shared(b, idx), Shared(b, idx + s))

\* cuda_4: the first s threads, each with the one s further on.
MaxKernel4(b, t, p) ==
    LET s == Down(p)
    IN  IF p = 0 THEN Load(b, t)
        ELSE IF p = Rounds + 1 THEN Deliver(b, t, Shared(b, 0))
        ELSE Fold(t[1] < s /\ t[1] + s < SharedSize(b),
                  Shared(b, t[1]), Shared(b, t[1] + s))

\* Mutant of num_blocks: one block more than needed when the values fill them.
num_blocksOver(size) == size \div blockDim + 1

num_blocks(size) == (size + blockDim - 1) \div blockDim
=============================================================================
