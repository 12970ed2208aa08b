---------------------------- MODULE CudaPrograms ----------------------------
(***************************************************************************)
(* The seven CUDA versions of assignment-4 and the hosts that launch them: *)
(* p1 launches a kernel once, p2 again and again on what the launch before *)
(* left, with its two buffers swapped.                                     *)
(***************************************************************************)
EXTENDS MatrixKernels, MaxKernels

CONSTANTS
    MatrixJobs,     \* <<MATRIX_SIZE, BLOCK_WIDTH, BLOCK_HEIGHT, resident blocks>>
    MaxJobs         \* <<N, num_threads, resident blocks>>
ASSUME JobsAssumption ==
    /\ \A j \in MatrixJobs : /\ \A k \in 1..4 : j[k] \in Nat \ {0}
                             /\ j[1] % j[2] = 0 /\ j[1] % j[3] = 0
    /\ \A j \in MaxJobs : /\ \A k \in 1..3 : j[k] \in Nat \ {0}
                          /\ \E r \in 0..j[2] : j[2] = Doubled[r]

VARIABLE res        \* what the host of p2 returns; {} before the end

vars == <<job, launch, device, res>>

MatrixVersions == {"matrix_1", "matrix_2", "matrix_3"}
MaxVersions    == {"max_1", "max_2", "max_3", "max_4"}

\* The parts of a kernel between its barriers.
Phases == CASE job.kernel = "matrix_1"              -> 1
            [] job.kernel \in {"matrix_2", "matrix_3"} -> 2 * Tiles + 1
            [] job.kernel \in {"max_1", "max_2"}       -> Rounds + 1
            [] job.kernel \in {"max_3", "max_4"}       -> Rounds + 2

EffectOf(b, t) ==
    LET p == done[<<b, t>>]
    IN  CASE job.kernel = "matrix_1" -> MatrixKernel1(b, t)
          [] job.kernel = "matrix_2" -> MatrixKernel2(b, t, p)
          [] job.kernel = "matrix_3" -> MatrixKernel3(b, t, p)
          [] job.kernel = "max_1"    -> MaxKernel1(b, t, p)
          [] job.kernel = "max_2"    -> MaxKernel2(b, t, p)
          [] job.kernel = "max_3"    -> MaxKernel3(b, t, p)
          [] job.kernel = "max_4"    -> MaxKernel4(b, t, p)

\* cuda_version_1 to 3 of p1 up to the launch.
MatrixInit ==
    /\ \E j \in MatrixJobs, version \in MatrixVersions :
           job = [kernel |-> version, size |-> j[1], block |-> [x |-> j[2], y |-> j[3]],
                  resident |-> j[4]]
    /\ launch = [grid |-> MatrixGrid]
    /\ mem = Nothing

\* cuda_version_1 to 4 of p2 up to the first launch.
MaxInit ==
    /\ \E j \in MaxJobs, version \in MaxVersions :
           job = [kernel |-> version, size |-> j[1], block |-> [x |-> j[2], y |-> 1],
                  resident |-> j[3]]
    /\ launch = [grid |-> [x |-> num_blocks(job.size), y |-> 1], size |-> job.size,
                 arr |-> "arr_device", output |-> "output_device"]
    /\ mem = [c \in {"arr_device"} \X (0..(job.size - 1)) |-> {c[2]}]

Init ==
    /\ MatrixInit \/ MaxInit
    /\ done = Fresh(launch.grid)
    /\ result = [g \in Grid |-> <<>>]
    /\ res = {}
-----------------------------------------------------------------------------
\* A thread runs its next phase.
Step(g) ==
    /\ g \in Ready(Phases)
    /\ LET e == EffectOf(g[1], g[2])
       IN  /\ mem' = Written(e.writes, mem)
           /\ result' = [result EXCEPT ![g] = e.result]
    /\ done' = [done EXCEPT ![g] = @ + 1]
    /\ UNCHANGED <<job, launch, res>>

Over == \A g \in Grid : done[g] = Phases

\* Mutant of Relaunch: the buffers are not swapped.
RelaunchUnswapped ==
    /\ job.kernel \in MaxVersions /\ Over /\ res = {}
    /\ LET size == launch.grid.x
           next == [grid |-> [x |-> num_blocks(size), y |-> 1], size |-> size,
                    arr |-> launch.arr, output |-> launch.output]
       IN  /\ size > 1
           /\ launch' = next
           /\ done' = Fresh(next.grid)
           /\ result' = [g \in Pairs(next.grid) \X Threads |-> <<>>]
    /\ mem' = [c \in {c \in DOMAIN mem : c[1] # "shared"} |-> mem[c]]
    /\ UNCHANGED <<job, res>>

\* p2, after a launch: the buffers swap, and one more if there is more than
\* one value left.
Relaunch ==
    /\ job.kernel \in MaxVersions /\ Over /\ res = {}
    /\ LET size == launch.grid.x
           next == [grid |-> [x |-> num_blocks(size), y |-> 1], size |-> size,
                    arr |-> launch.output, output |-> launch.arr]
       IN  /\ size > 1
           /\ launch' = next
           /\ done' = Fresh(next.grid)
           /\ result' = [g \in Pairs(next.grid) \X Threads |-> <<>>]
    /\ mem' = [c \in {c \in DOMAIN mem : c[1] # "shared"} |-> mem[c]]
    /\ UNCHANGED <<job, res>>

\* p2: the first cell of the buffer written last is the answer.
Return ==
    /\ job.kernel \in MaxVersions /\ Over /\ res = {}
    /\ launch.grid.x <= 1
    /\ res' = Value(<<launch.output, 0>>)
    /\ UNCHANGED <<job, launch, device>>

Finished == Over /\ (job.kernel \in MaxVersions => res # {})

Exit == Finished /\ UNCHANGED vars

Next == (\E g \in Grid : Step(g)) \/ Relaunch \/ Return \/ Exit

Safety == Init /\ [][Next]_vars

\* Some thread that can run does.
Spec == Safety /\ WF_vars(Next)
-----------------------------------------------------------------------------
AsSerial ==
    IF job.kernel \in MatrixVersions
    THEN \A r, c \in 0..(MATRIX_SIZE - 1) :
             C(r, c) \in DOMAIN mem /\ mem[C(r, c)] = serial_version(r, c)
    ELSE res = 0..(job.size - 1)

\* The versions give what the serial ones give, however the threads and blocks
\* interleave: an element of C is the sum of the same products in the same
\* order, the maximum is that of all the inputs and of nothing else.  But
\* cuda_3 of p1 needs a block no higher than wide: its tile of A has as many
\* columns as the block, and it takes BLOCK_HEIGHT of them.
SameAsSerial ==
    Finished =>
        (AsSerial <=> ~(job.kernel = "matrix_3" /\ job.block.x < job.block.y))

\* No thread writes a cell that another which can run at the same time reads
\* or writes: the barriers are enough, and blocks keep out of each other's way.
NoRace ==
    LET ready == Ready(Phases)
        e     == [g \in ready |-> EffectOf(g[1], g[2])]
    IN  \A g, h \in ready : g # h =>
            DOMAIN e[g].writes \cap (e[h].reads \cup DOMAIN e[h].writes) = {}

\* The hosts come to their end: no thread is left at a barrier, and the
\* launches of p2 leave fewer values each time.
Terminates == <>Finished
=============================================================================
