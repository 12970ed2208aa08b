----------------------------- MODULE CudaDevice -----------------------------
(***************************************************************************)
(* How a device runs a kernel, as far as the kernels of assignment-4 need  *)
(* it.  A kernel is cut into phases at its __syncthreads; a thread begins  *)
(* a phase when all threads of its block have ended the one before.  A     *)
(* few blocks run at a time, as many as fit, in any order.                 *)
(*                                                                         *)
(* What a thread does in a phase is given as its effect: the cells it      *)
(* reads, those it writes with their values, and its register result.  It  *)
(* is one step: NoRace says that nobody could see it in halves.            *)
(***************************************************************************)
EXTENDS Integers, Sequences, FiniteSets

VARIABLES
    job,        \* kernel, sizes, blockDim, and how many blocks fit the device
    launch,     \* the launch under way: its gridDim and arguments
    done,       \* phases each thread of the grid has ended
    mem,        \* global and shared memory: the cells written so far
    result      \* the register result of each thread

device == <<done, mem, result>>

Pairs(dim) == (0..(dim.x - 1)) \X (0..(dim.y - 1))
Blocks     == Pairs(launch.grid)
Threads    == Pairs(job.block)
Grid       == Blocks \X Threads

\* A cell of a shared array belongs to a block.
Shared(b, i) == <<"shared", b, i>>

Effect(reads, writes, register) ==
    [reads |-> reads, writes |-> writes, result |-> register]

Nothing == [c \in {} |-> 0]
Cell(i, value) == [c \in {i} |-> value]

\* Cells on top of what was there before.
Written(cells, before) ==
    [c \in DOMAIN cells \cup DOMAIN before |->
        IF c \in DOMAIN cells THEN cells[c] ELSE before[c]]

\* What a read finds: in a cell nobody has written there may be anything.
Read(c, junk) == IF c \in DOMAIN mem THEN mem[c] ELSE junk

Running(b) == \E t \in Threads : done[<<b, t>>] # 0
Ended(b, phases) == \A t \in Threads : done[<<b, t>>] = phases

\* Mutant of Ready: a barrier is missing.
ReadyUnsynced(phases) ==
    {g \in Grid :
        /\ done[g] < phases
        /\ \A t \in Threads : done[<<g[1], t>>] >= done[g] - 1
        /\ \/ Running(g[1])
           \/ Cardinality({b \in Blocks : Running(b) /\ ~Ended(b, phases)}) < job.resident}

\* The threads that can run now.
Ready(phases) ==
    {g \in Grid :
        /\ done[g] < phases
        /\ \A t \in Threads : done[<<g[1], t>>] >= done[g]
        /\ \/ Running(g[1])
           \/ Cardinality({b \in Blocks : Running(b) /\ ~Ended(b, phases)}) < job.resident}

\* A grid of idle threads; what shared memory held is gone.
Fresh(grid) == [g \in Pairs(grid) \X Threads |-> 0]
=============================================================================
