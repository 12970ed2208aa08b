# Verification of the distributed-programming assignments

TLA+ specifications of the concurrent programs of this repository, TLC
configurations that check them on small instances, and TLAPS proofs of what
matters most about them.  Paths below are relative to the repository (`src/`).

Check a configuration with `tlc -config X.cfg M.tla` (the table under *Runs*
says which module goes with which), a proof module with `tlapm M.tla`.

## The system

The repository holds four sets of student programs that share no code.  What
they have in common is that several threads, processes or ranks must agree on
something with few primitives.

| part | files | state | operations | what is hard |
|---|---|---|---|---|
| simple readers-writer lock | `assignment-2/p2/my_simple_rwl.c`, `my_rwl.h` | `reader_cnt`, `writer_cnt`, `writing`, a mutex, two condition variables | init, rdlock, wrlock, unlock, destroy | who is woken and who may slip in before it runs; lost and spurious wakeups; preference |
| optimized lock | `assignment-2/p2/my_optimized_rwl.c` | the same | the same, but unlock notifies after it has released the mutex | any call may come between the decision and the notification |
| spin lock | `assignment-2/p2/--fail--my_rwl_with_spinlock.c` | the same | the simple lock, on a mutex that is tried 600 times first | the order in which threads get the mutex |
| shared list program | `assignment-2/p2/my_simple_pth_ll_rwl.c` (variants: `my_optimized_pth_ll_rwl.c`, `pth_ll_rwl.c`, `linked_list.c`) | a sorted linked list, three counters, the lock | Insert, Delete, Member by every thread; main fills, joins, frees | a node freed under a reader, lost updates, termination |
| request queue | `assignment-2/p3/request_queue.c` | a ring, two indices, a mutex, two condition variables | push, pop | late signals, stolen wakeups, wrapping, everyone waiting |
| web server, client simulator | `assignment-2/p3/web_server.c`, `http_lib.c`, `client_simulator.c` | connections, requests, descriptors | accept, read, push; pop, answer, close; connect, write, read | ownership of a connection, clients and servers that die, a buffer that is stale |
| time service | `assignment-2/p1/*` | a tick counter | get_time, delay over ONC RPC | a single-threaded server, a delay longer than the client's timeout |
| MPI prefix sum | `assignment-1/p4/my_solution.c` | a value per rank | sends up and down a tree | any number of ranks, sends that block |
| MPI digit collapse | `assignment-1/p5/*` | blocks of integers | scatter, collapse, gather | uneven blocks, the width of an int |
| MPI image | `assignment-1/p6/*` | rows of pixels | scatter, flip and grey, gather | uneven blocks |
| OpenMP palindromes | `assignment-3/p1/*` | words, a count per thread, the output file | look up the reverse of each word | which thread runs which iteration, one output for all, teams smaller than asked for |
| OpenMP schedules | `assignment-3/p2/*` | a partial result per thread | loops shared out by hand or by the runtime | shares that overlap or leave gaps, loops without a barrier |
| CUDA matrix product | `assignment-4/p1/*` | global memory, a tile per block in shared memory | load a tile, add its products, store | barriers, tiles that are not square |
| CUDA maximum | `assignment-4/p2/*` | two buffers in global memory, an array per block in shared memory | a tree of rounds per launch, launches until one value is left | barriers, blocks that are not full, buffers that swap |

How they interact: the list program calls the lock around every operation; the
server's main thread hands connections to the workers through the request
queue; clients and server meet at sockets; ranks meet at messages.  Nothing is
persisted, so a crash matters only to those who are left.

What makes each part correct:

* the locks: readers share, a writer is alone; nobody waits for nothing; a
  waiting reader is not overtaken by writers; a waiting thread gets in;
* the list: every operation acts as on a set, at one moment; the list stays
  sorted and whole; no freed node is followed; all of it ends;
* the queue: a bounded first-in first-out queue, with no wakeup lost;
* the server: each connection has one holder; a client gets the answer to its
  own request, whole; clients end even if the server dies;
* the time service: the delay a client asked for lies between the two times it
  prints, and every client ends;
* the prefix sum: rank r ends with the sum of ranks 0 to r, and every send has
  its receive;
* digit collapse and image: every item falls to one rank, and the result is that
  of a program without ranks;
* the OpenMP programs: every iteration is run once, by one thread, its line comes
  out whole, and the sum is that of the serial program;
* the CUDA programs: whatever the order of threads and blocks, no two threads that
  may run at once touch the same cell, one of them writing, and the result is
  that of the serial version.

`PROJECT.json` lists the places where this may go wrong (`hazards`), each at
its line.

## Modules

| module | models | composes |
|---|---|---|
| `AbstractRWLock` | what a readers-writer lock promises | |
| `RWLockCore` | the fields of `my_rwlock_t`, rdlock, wrlock, the condition variables | |
| `SimpleRWLock` | unlock of `my_simple_rwl.c` | extends `RWLockCore`, implements `AbstractRWLock` |
| `SpinRWLock` | the mutex of `--fail--my_rwl_with_spinlock.c` and how the calls get it | extends `SimpleRWLock` and implements it |
| `OptimizedRWLock` | unlock of `my_optimized_rwl.c` | extends `RWLockCore` |
| `KeySet` | a set of keys whose operations act at once | |
| `ListProgram` | `my_simple_pth_ll_rwl.c` | instantiates `SimpleRWLock`, implements `KeySet` |
| `BoundedFIFO` | a bounded first-in first-out queue | |
| `RequestQueue` | `request_queue.c` | implements `BoundedFIFO` |
| `WebServer` | `web_server.c`, `process_request`, `client_simulator.c` | instantiates `RequestQueue` |
| `TimeService` | the server and the client of `assignment-2/p1` | |
| `PrefixSum` | `prefix_sum` of `my_solution.c` | |
| `ScatterGather` | `assignment-1/p5` and `p6` | |
| `OmpPrograms` | the parallel regions of `assignment-3` as data | |
| `WorkSharing` | a team of OpenMP threads that runs a region | extends `OmpPrograms` |
| `CudaDevice` | threads, blocks, barriers and memory of a device | |
| `MatrixKernels`, `MaxKernels` | the kernels of `assignment-4/p1` and `p2` | extend `CudaDevice` |
| `CudaPrograms` | the hosts that launch them | extends both |
| `RWLockProofs`, `ListProgramProofs`, `RequestQueueProofs`, `WebServerProofs`, `TimeServiceProofs`, `MpiProofs`, `WorkSharingProofs`, `CudaProofs` | proofs about the module each is named for: the first about the three locks, `MpiProofs` about `PrefixSum` and `ScatterGather`, `CudaProofs` about `CudaPrograms` | that of the list instantiates that of the locks, that of the server that of its queue |
| `MC*` | the constants and symmetry sets of runs | |

Names follow the code where it has one.  A definition introduced by a comment
"Mutant of D" is D with a bug in it; nothing uses it in the specification.  It
shows what a property is for: with D replaced by it the property fails.

### The locks

`pc[t]` is where thread t is in the calls of the lock.  All fields are
accessed under the mutex, so what a call does between taking the mutex and
releasing it, or waiting, is one action:

* `RdLock`, `WrLock`: the call up to the wait or to its return;
* `RdResume`, `WrResume`: what follows `pthread_cond_wait`, once the thread has
  been woken and has the mutex back.  The condition is not tested again, as in
  the code;
* `UnlockWriter`, `UnlockReader`: the two branches of unlock.  Which is taken
  depends on `writing`, not on who calls; a caller that holds the lock in either
  mode may take either;
* in the optimized lock, whose unlock has the prefix `Optimized`, also `Notify`, the
  broadcast or signal after the release.

A broadcast wakes all who wait at `cv_read`; a signal wakes one who waits at
`cv_write`, any one, or nobody.  No `pthread_cond_wait` returns by itself here
(see *Findings* for what would come of it).

In these modules a thread at `idle`, or woken, takes its next step whenever the
others let it: the mutex is taken for granted.  `SpinRWLock` shows that this may
be done.  There the mutex is a variable.  A call (`Call`) tries it (`TryLock`)
as often as `Spinlock` says, then blocks for it (`Block`), as a woken thread does
at the end of `pthread_cond_wait`; who has it runs the body (`InRdLock`,
`InWrLock`, `InUnlock`, `InResume`: the actions of `SimpleRWLock`) and gives it
up, at once if the body ends in a wait (`Depart`), else in
`leave_critical_section` (`Leave`).  `SpinRWLock` implements `SimpleRWLock`
under the identity: a body is its one step, all else stutters.  With
`Spinlock = 0` the module is `my_simple_rwl.c` with its mutex.

### The list program

The list is a heap (`heap`: the allocated nodes) and `head`.  `Insert`,
`Delete` and `Member` are one step to begin (`Enter`), one for each node the
search visits (`Walk`), and one to finish, so a walk is interleaved with
whatever the lock lets in.  A thread calls the lock in `Start` and `Finish` and
adds its counts in `Report`.  The random choice of operation and key is any
choice.  main inserts before the threads exist (`MainInsert`), gives up after
`2*inserts_in_main` attempts, creates, joins and frees node by node.

### The request queue

`reqs`, `front` and `rear` are the ring.  Push and pop are one step up to the
wait or to the release of the mutex, and the signal, which the code sends after
the release, is another.  Wakeups without a signal are always allowed here: the
code tests its conditions in a loop.

### The web server

A connection bears the name of the client that made it, since a client has one
at a time.  main is at `accept`, `read` or `push`; a worker at its loop (the pop
included), `answer`, `body` (each turn of the loop that copies the file) or
`close`.  Requests name a file that can be served or one that is missing; what
is written is a sequence of pieces, the first of which carries the status.  A
file that is being copied holds a descriptor.  Around the code: the kernel's
backlog, descriptors that run out, a client killed at any moment, the server
killed or dead of SIGPIPE.  A client's `buf` outlives its accesses, as in the
code.

### The prefix sum

A value is the function that tells how often each rank's own value is in it, so
one behaviour stands for all values.  A rank's place is the loop it is in and
its `jump`; turns without a message are passed over.  `Send` is an `MPI_Send`
that copies its message while MPI has room, `SendRecv` one that waits for its
receive; `room` may be 0.

### The time service

The server has one thread that serves: `Serve` takes the next request of some
connection and, for a delay, leaves it spinning; `EndDelay` is the moment it sees
that enough ticks have passed, any time after they have.  `Tick` is the signal
handler.  A client makes three calls (`Call`, then `Receive` or `Fail`).  A call
may fail at any moment, since how long 25 seconds are in ticks of the CPU time
of the server is anybody's guess; its answer may still arrive and is skipped.
After a failed get_time the client follows a null pointer and is gone; answers
to it are lost, come back as a reset, and may then end the server.

### Scatter and gather

One module stands for the three programs of p5 and the parallel one of p6
(`program`): they scatter in the same way.  `input` is the root's buffer; an
item is an integer, or a row of `width` pixels.  `Scatter` is MPI_Scatterv with
the root's counts and displacements, cut to the rank's own count, and the
`process` that follows; `GatherBlock` and `Collect` are the gather, with the root's
merge.  Integers wrap around above `MaxInt`, as the programs do as `run.sh` compiles
them, without optimization.  `Quot` and `Rem` are the division of C.

### OpenMP

A region (`OmpPrograms`) is a list of loops with their schedules and `nowait`s,
the set of iterations whose body adds to the result, and what becomes of the
output.  `WorkSharing` runs one: a thread is given its share of a loop
(`TakeShare` for the static kinds, `TakeNext` for dynamic and guided), runs its
iterations one by one (`Iterate`, or `Critical` and `EndCritical` where a line is
written under `omp critical`), and leaves the loop (`EndLoop`); `Reduce` is what
main does after the barrier at the end of the region.  `Blocks` and `Cyclic` are
the shares the programs compute by hand, the bounds of blocks in the arithmetic of
an int (`Wrap`, `Quotient`, `Edge`; `MaxInt` is its largest value); `Static`, `Handful` and the barriers
are the runtime's and external.  The team may be smaller than the threads asked
for, as OpenMP allows, while the arrays and the reduction run over all of them.

Results are sums, or products modulo `INT_MAX`, so that order does not count: a
result is how often each iteration went into it.  Words are numbers, since order
and reversal is all the programs use of them.

### CUDA

A kernel is cut into phases at its `__syncthreads`; a thread begins a phase when
all threads of its block have ended the one before (`Ready`), and a limited number
of blocks is on the device at a time, in any order.  A phase of a thread is one
step with an effect: the cells it reads and the cells it writes.  That one step is
enough is what `NoRace` checks: no thread that may run at the same time would
see or disturb it in halves.  Shared memory is fresh for each launch, and a read
of a cell nobody has written gives a value that is nobody's input.

In the matrix product a float is what it was computed from: an element of C is
the sequence of the products added up, so that equality with the serial version
means the same additions in the same order.  In the maximum a value is the set of
inputs it is the maximum of.  `Relaunch` is the loop of the host with the swap of
the buffers, `Return` what follows it.

## Runs

| run | module, cfg | shows |
|---|---|---|
| `simple_lock` | `SpinRWLock`, `MCSpinRWLock.cfg` | 3 threads, 2 tries: exclusion, counters, ownership, no lost wakeup, reader preference, the refinement of `AbstractRWLock` and of `SimpleRWLock` with their fairness, the return of calls |
| `optimized_lock` | `OptimizedRWLock`, `MCOptimizedRWLock.cfg` | 4 threads: what holds for every schedule (writers exclude each other, the counters drift within bounds and there is one owner, no reader is stranded, waiting readers get in), and that until a broadcast has been late its steps are those of `AbstractRWLock` |
| `optimized_lock_race` | `OptimizedRWLock`, `MCOptimizedRWLockRace.cfg` | violated: a late broadcast lets a reader in beside a writer |
| `list_program` | `MCListProgram`, `MCListProgram.cfg` | 3 threads, 2 keys, 2 nodes, an operation each on a list main has filled with 0 to 2 keys: all safety properties, linearizability, termination |
| `request_queue` | `RequestQueue`, `MCRequestQueue.cfg` | 1 producer, 3 consumers, 2 places: no lost wakeup, first-in first-out, the producer gets through |
| `web_server` | `WebServer`, `MCWebServer.cfg` | 2 clients, 2 workers, 3 descriptors: ownership of connections, right answers, every client ends |
| `prefix_sum` | `PrefixSum`, `MCPrefixSum.cfg` | every number of ranks from 1 to 9, 0 to 2 buffered messages: right sums, every rank gets through |
| `time_service` | `TimeService`, `MCTimeService.cfg` | 2 clients, a delay of 2 ticks: the two times a client prints are its delay apart even if the delay's call has timed out, every client ends |
| `scatter_gather` | `MCScatterGather`, `MCScatterGather.cfg` | 1 to 4 ranks, 0 to 5 items, 1 to 3 columns: the right digit while the sums fit, the image of the sequential program, all ranks end |
| `scatter_gather_overflow` | `MCScatterGather`, `MCScatterGatherOverflow.cfg` | violated: `p5_1` reports another result than `make_random_data` has printed |
| `work_sharing` | `MCWorkSharing`, `MCWorkSharing.cfg` | teams of 1 to 3 of 3 threads, 0 to 5 tasks or up to 4 words out of 3: every iteration once, whole lines, as many pairs as the serial programs, the end of the region |
| `cuda` | `MCCudaPrograms`, `MCCudaPrograms.cfg` | matrices of 2 and 4 rows in blocks of five shapes and sizes, 1 to 9 values in blocks of 2 and 4: the result of the serial versions, no race, the end |

Each module has one type invariant; it is the first part of one of its safety
invariants and not a property of its own.

### Bounds, and why they are enough

* Locks: three threads give a holder and two waiters of any kind, and a mutex
  that two compete for while a third gives it back; two tries distinguish the
  first failure from the last.  The proofs remove both bounds for the safety
  properties.  The optimized lock is checked with four threads: two readers
  that leave, a writer, and a reader that comes.  The counters are
  bounded by the number of threads and need no cap: in the optimized lock they
  drift, but `DriftBounded` says how far.  The history variable `late` remembers
  whether another step has come before a broadcast that was owed;
  `PromptRefinement` is about the behaviours before that.
* List: two keys and two nodes make every case of Insert and Delete (empty
  list, first, middle-or-last, present, absent), and force addresses to be
  used again after a free, which is when a stale pointer does harm.  Three
  threads make two readers and a writer.  `InsertsInMain = 2` lets main meet
  duplicates and give up.  Three threads and `TotalOps = 4` leave a remainder.
* Queue: two places fill up, empty and wrap; three consumers make a wakeup that
  another consumer steals.  One producer, as in the server: `PushProgress` is
  stated for that.
* Server: `REQUEST_QUEUE_SIZE = 2` leaves one place, so main waits in push while
  a request waits for a worker.  `FdLimit = 3` makes fopen fail (403) when both
  connections and another file are open; accept would lack a descriptor only with
  more accesses than `Accesses = 1` of two clients, or if one leaked.  `BodyWrites = 2`, so that a client may die between two writes.
  `MaxKilled` and `Accesses` bound the kills and the accesses.
* Prefix sum: 1 to 9 has powers of two, their neighbours, and numbers with holes
  in several levels of the tree.
* Time service: two clients, so that one is served while the other is delayed
  and a dead client's answers meet a live one's calls.  `Delay = 2`, and ticks
  may come between any two steps.  `IdleTicks = 3` caps the clock while nobody
  is delayed; in a delay it runs to one tick past the end.
* Scatter and gather: more ranks than items, blocks of two sizes, empty blocks;
  an odd and an even number of columns; 8-bit integers of which two may or may
  not overflow, in a block or only in the total.  The pixels of the image
  (`MCColours`) are all different, so that one image of each size stands for any.
* OpenMP: five tasks in two halves do not divide by two or three threads; four
  words out of three (two that are each other's reverse and a palindrome) make
  every order of a pair, repetitions, and lists shorter than the team.
  `Chunks = {0, 1}` are the two values `run.sh` passes.  `MaxInt = 15` is the
  largest product of a thread and a task, 3 * 5, so that it is just met.
* CUDA: one tile and several, blocks that are square, wide and high; a last block
  that is full, half full, or a single value; one, two and three launches; blocks
  that run one at a time or two.  Barriers order the threads of a block alone, so
  more blocks at a time would only repeat what two show.

`CHECK_DEADLOCK FALSE` is said where the system really stops: the optimized
lock, whose threads may all end up waiting once the counters have drifted (a
consequence of the race), and the server, where at the end nobody is left to
act.

### Fairness

* A thread that holds a lock leaves it, a woken thread gets the mutex back, a
  thread that owes a notification gives it: weak fairness per thread, which is
  what a scheduler that starves no runnable thread gives.  Nobody has to call
  rdlock or wrlock.
* The lock with its mutex: a thread that can take a step of its call takes it
  (weak fairness), and a thread that blocks for the mutex is not passed by for
  ever by others that get it again and again (strong fairness of `Block`).  POSIX
  does not promise the latter of a mutex; the calls return only where it holds.
* List program and server: weak fairness of each thread.  No kill is ever
  required to happen.
* Queue: consumers call pop for ever (the loop of `worker_thread_main`), and any
  thread inside a call goes on.
* Time service: the clock ticks, the server serves, a client goes on and reads
  what has come.  No call has to fail, but for one to a server that is dead,
  whose connection is closed.
* Prefix sum, scatter and gather, OpenMP and CUDA: weak fairness of the whole,
  which every behaviour that goes on satisfies: these programs end whoever of
  those that can run is chosen.

## Findings

1. `my_optimized_rwl.c:73-74`, `:89-90` (run `optimized_lock_race`): the broadcast
   comes after the mutex is released.  In between the lock may pass to a writer
   and a new reader begin to wait; the broadcast wakes it.  That reader's unlock
   then takes the writer's branch, and the counters drift.
2. `p5_1.c:20` (run `scatter_gather_overflow`): the sum of all integers is an
   int.  With the 1000000 integers of the usage in `assignment-1/p5/README.txt:9`
   it overflows, and the result is not the one `make_random_data` has printed.

Seen while modelling, without a run of their own:

* `my_simple_rwl.c:42`, `:53`: the conditions are tested with `if`.  POSIX allows
  `pthread_cond_wait` to return on its own; a reader would then enter beside a
  writer, against the comment at `:35-36`.  Without such wakeups the lock is
  correct, and proved so.
* `client_simulator.c:71-76`: the result of read is not looked at before `buf` is
  parsed, so an answer that never came is reported with the status of an earlier
  one or of uninitialised memory.  `RightAnswer` is therefore stated for clients
  of a server that lives.
* `assignment-4/p1/cuda.cu:247`: the tile of A is BLOCK_WIDTH wide and the loop
  takes BLOCK_HEIGHT of its columns, so `cuda_3` is wrong when the block is higher
  than wide, a choice that `run.sh:3-6` offers.  `SameAsSerial` says that it is
  wrong then and only then; the program itself would report an error rate.
* `assignment-3/p2/example2_mystatic.cpp:36-38`: with a chunk size above 1 thread
  tid starts at tid and not at tid * chunk_size; iterations are run twice, others
  never, and the last may read past the end.  `run.sh` passes 0 and 1.
* `assignment-3/p2/example2_mystatic.cpp:42-43`: `(tid+1) * N` is an int and N is
  10^8.  With 22 threads, a number `run.sh` does not refuse, the end of the last
  block wraps to a negative number and the block is not run; with more, indices
  become negative and blocks repeat.  `Blocks` computes this: with `MaxInt = 7`
  in place of 15 in `MCWorkSharing.cfg` TLC finds `ResultSerial` violated by two
  threads and four tasks, of which the second block is lost.  No line of the
  repository says for how many threads the program is meant, so this is no run.
* `assignment-3/p1/bst_parallel.cpp:79-88`: N is the number of distinct words, but
  the loop indexes the list of all words; with repetitions, which
  `words.txt` has, the last words are never looked up.
* `my_simple_pth_ll_rwl.c:293` drops the remainder of `total_ops/thread_count`
  while line 113 prints `total_ops` as the operations run; `ExitInv` says how many
  really are.
* `--fail--my_rwl_with_spinlock.c`: its name notwithstanding nothing fails; the
  lock implements the simple one.

## What is proved

All theorems are about the specification without its fairness (`Safety`; of the
`Spec` of the time service and of the prefix sum they use no more), for any
finite set of threads, of the time service for any set of clients, of the prefix
sum for any number of ranks, of the programs that scatter and gather for any number
of ranks, any integers of any width and any image, of the OpenMP programs for any
number of threads, any words and any number of tasks that fit an int, of the CUDA
programs for matrices, blocks and numbers of values of any size.  The width of an
int is in the model where the programs come near it: the sums of p5, and the shares
of the OpenMP programs.  All other integers are unbounded: indices, counts and
displacements are taken to fit.  Assumptions are those on the constants, named in
the modules that declare them and evaluated by TLC on every run.

`RWLockProofs`, about the simple lock:

* `Invariant`: `IndInv == TypeOK /\ CountsMatch /\ OwnerInv /\ NoLostWakeup` is an
  invariant.  Mutual exclusion is not inductive: it says nothing of the writer
  that has been signalled and not yet run, which owns the lock.  `OwnerInv` adds
  it (`writing` is 1 exactly while one thread owns the lock, and then no reader
  is inside or woken), and needs `CountsMatch`, because unlock decides by the
  counters whether anybody is left.  One lemma per action shows the step;
  lemmas on cardinalities relate a counter to the set it counts.
* `TypeCorrect`, `CountersCorrect`, `Ownership`, `WakeupsKept`, `Exclusion`: its
  consequences.
* `Preference`: the action property `ReaderPreference`, from the invariant and a
  lemma that a step gives the lock to a writer only when no reader is counted.
* `Implements`: every step is a step of `AbstractRWLock` or a stutter, under the
  mapping `AbstractState`, in which a woken thread still waits.

`RWLockProofs`, about the spin lock with any number of tries:

* `SpinImplements`: the lock with its mutex implements the simple lock; so the
  properties above carry over (`SpinInvariant`, `SpinExclusion`,
  `SpinImplementsAbstract`).
* `MutexSafe`: `HolderRuns`, nobody sleeps with the mutex in its hand.

`RWLockProofs`, about the optimized lock, late notifications included:

* `OptimizedInvariant`: `OptimizedIndInv == DriftBounded /\ NoReaderStranded`.  The counters need not
  match the threads, so what is inductive is how far they may be off: their sum
  is right, readers are never counted too low, and while an owner is inside that
  `writing` does not tell of, readers are counted too high.  That surplus is what
  keeps a second writer out: a writer enters, or is signalled, only when no
  reader is counted, hence when there is no surplus and no owner.  A reader that
  is let in beside the writer and leaves first raises the surplus by one; the
  writer that leaves after it uses it up.
* `WriterAlone`, `DriftKept`, `ReadersKept`: its consequences.
* `PromptlyImplements`: the action property `PromptRefinement`.  Until a broadcast is
  late the readers are counted as they are, an owner has the lock alone, and only one
  thread owes a broadcast, the one that left last, while nobody owns the lock
  (`PromptInv`); so the readers it wakes find no writer.  A signal may be late: the
  thread that owes it keeps the lock for the writer.

`ListProgramProofs`, for any threads, nodes, keys and operations; of the lock it
uses two theorems of `RWLockProofs` alone, its types and its exclusion:

* `Invariant`: `IndInv` says where main and the threads may be at the same time
  (`PlacesInv`), which mode of the lock a search has (`CallsInv`), that the list is
  in order (`ListInv`), that a search is between two nodes that follow each other,
  the key not before them (`SearchInv`), and what the counters sum up to
  (`CountersInv`).  `SortedList` speaks of the path from head, which a step changes
  in one place only; `ListInv` says the same of each node: the keys are distinct, the first
  node has the least, and the next of a node is its successor among all that are
  allocated.  So insert and delete keep it by what they do to one pointer, and a
  search that stops has found the key if it is there at all.  `Free_list` keeps it
  too, with curr in the place of head.
* `ListSorted`: `SortedList`, the same said of the path.  The nodes in the order of
  their keys make a path from head, by an induction on how many there are: the
  path to a node goes on to its successor until there is none (`ChainPath`).
* `NodesAlive`, `ReadersUndisturbed`, `ExitRight`, `TypeCorrect`: its consequences.
* `Implements`: the list implements `KeySet`.

`RequestQueueProofs`, for any ring and any producers and consumers:

* `TypeCorrect`, `WakeupsKept`: no wakeup is lost though signals are sent after the
  release; the proof counts the waiting threads that could go on against the
  wakeups under way.
* `ImplementsFIFO`: the ring implements `BoundedFIFO`: its contents, read from
  `front` to `rear`, lose the first or gain a last.

`WebServerProofs`, for any clients, workers, ring, backlog and length of a file; of
the queue it uses the lemmas of `RequestQueueProofs` alone (what a push and a pop do
to the contents of the ring):

* `Invariant`: `IndInv == TypeOK /\ CallsInv /\ OwnInv /\ BacklogInv /\ ClientInv`.
  `OneOwner` counts the hands; `OwnInv` says of any two of them (main's, the ring, each
  worker's) that they have no connection between them, and `BacklogInv` that
  neither has the kernel's backlog, which is what a step that passes a connection
  on can keep.  `RightAnswer` speaks of the moment a client prints; what is
  inductive is how far the exchange with a client has come (`Asked`, `Unanswered`,
  `Written`, `Complete`), and that the hand that has its connection tells which
  it is (`StageInv`).  So the client whose connection is in no hand any more, and
  who is not at the start of an access, has a whole answer, read or to be read.  A
  client that is killed is at no stage, and a server that is dead has no hands.
* `ConnectionsOwned`: `OneOwner`, by counting hands that are disjoint.
* `AnswersRight`: the action property `RightAnswer`, for as long as the server runs.

`MpiProofs`, about the prefix sum with any number of ranks and any room for messages:

* `Invariant`: `SumsAreRuns` does not say which run; what is inductive is that the
  place of a rank determines it (`Knows`).  Every r + 1 is an odd multiple of
  one power of two, the size of the largest block that ends at r.  On its way up a
  rank has the sum of the block of the size it has come to, or of that largest
  one; on its way down, once it is below that size, that of all ranks up to its
  own.  A message carries what its sender knew (`Sent`), and the sender's number and
  the distance tell the two kinds apart, so that a receive adds the run that
  ends where its own begins.
* `PrefixSumsRight`, `RunsRight`: its consequences.

`MpiProofs`, about the programs that scatter and gather, for any number of ranks:

* `ScatterInvariant`: `ScatterInv` says what a rank has at each place: it knows `N` as
  the root does, and it has made its result of its own block (`Worked`), with the
  root's count and its own the same; and what the root has put together of all of
  them (`Made`).
* `ResultRight`: `ResultCorrect`.  The blocks divide the items: each ends where
  the next begins, and the last with the last item (`BlocksDivide`, `BlocksCover`;
  the first `N % K` are one longer).  So the sums of the blocks add up to that of the
  file.  The sum of the digits of a number is congruent to it modulo 9, is no larger,
  and is smaller when there are two digits (`CollapseFacts`); so repeating it ends
  with the digital root, as does doing so before the merge (`MergeRight`).  The
  hypothesis is about the merge: what the ranks report has to add up to an int.
  `D` bounds the sum of the digits of an int; at 32 bits it is 82, so the theorem is
  about up to 26 million ranks.  `Fits`, the condition of `ResultCorrect`, is about
  what the ranks themselves add up.
* `ImageRight`: `ImageSame`.  The swaps of a row turn it around (`MirrorIs`); done
  row by row, with each row made grey after it, they leave the rows behind as they
  were (`FlipRow`), so a block comes out as the mirrored rows in grey
  (`ProcessedIs`), as the whole image does in the sequential program
  (`SequentialIs`).  In the gathered image a pixel comes from the one block that
  has its row (`ImageGathered`).

`TimeServiceProofs`, for any clients, any delay and any number of ticks:

* `Invariant`: `IndInv == Shape /\ \A c : ClientInv(c)`.  `DelayKept` speaks of what
  is printed; what is inductive is why the second time is late enough.  Before its
  first answer a client has one message on its way at most, so no old answer is
  taken for a time.  After it the calls of a client are on its connection in the
  order they were made (`InOrder`), and its delay is still to be called, or is on
  the way, or going on, or it has been spun off (`Resting`): a request for the time
  that the server comes to has the delay behind it, whether or not the client
  waited for the delay's answer.
* `RestKept`: `DelayKept` with the types.

`WorkSharingProofs`, for any number of threads asked for, any smaller team, any words
and any number of tasks, as long as the region that runs satisfies `Fits`: the size of
the team times the number of iterations is an int for a loop in blocks, and the
iterations plus one turn of all threads for one in turns.  For 32 bits and the 10^8
tasks of `example2_mystatic` that is up to 21 threads with maximal chunks and any
number that can be started with chunks of one.  Loops shared out by the runtime are
under no such condition.  No step changes what `Fits` says (`FitsKept`), and
`WrapKeeps` shows that the products are then what they should be.

* `Invariant`: `Fits => IndInv`, where `IndInv == RegionOK /\ TypeOK /\ PlaceInv /\ OnceInv /\ KeptInv /\
  OutputInv /\ ReportInv`.  `NoDoubleWork` counts how often an iteration is held or
  has been added; what is inductive is where it may be.  What a thread has, to run
  or in its result, was handed to it (`Handed`: its share of a loop it has come to,
  or, with dynamic and guided, whatever is below `next`), no two threads have the
  same (`OnceInv`), and of what was handed out nothing that counts is lost
  (`KeptInv`).  Threads may be in different loops at the same time (`nowait`), so
  `Handed` speaks of each loop.  Lemmas on division with remainder show that the
  shares of different threads (`Static`, `Blocks`, `Cyclic`) have nothing in common
  and cover the loop together.
* `WorkOnce`: `NoDoubleWork`.
* `SerialResult`: `ResultSerial`.  When the team has joined, all that was in the loops
  has been handed out and nothing is held, so each iteration that counts is in one
  result.  The sum that main makes goes over the threads asked for, those that are
  not in the team included.
* `WholeLines`: `LinesWhole`.  Of the lines written under `omp critical` the last is
  unfinished exactly while a thread is writing, and they are those of the counted
  iterations (`OutputInv`); those written afterwards are a concatenation of rows, one
  for each thread, which are found to be whole, and each there once, by lemmas on
  `FlattenSeq`.

All four assume `Chunks \subseteq {0, 1}`, the chunk sizes that `run.sh` passes: with
a larger one `example2_mystatic.cpp:36` runs iterations twice (see *Findings*), so the
theorems would be false without it, as they would be without `Fits`.

`CudaProofs`, for any matrix, any shape of block that divides it, any number of values,
any block of a power of two, and however many blocks fit the device:

* `Invariant`: `TypesInv == JobOK /\ LaunchOK /\ GridOK`, what the hosts launch: a grid
  of blocks that divide the matrix, or that are a power of two and as many as it takes
  for the values left, with two buffers that are not the same one.
* `RaceFree`: `NoRace`.  Two threads of one block that can run are in the same phase
  (`SamePhase`), so what has to be shown is that no phase has a race in it.  In the
  matrix product a thread writes cells that are its own (`Own`: the numbers of its block
  and its own are the digits of its row and its column), or it reads tiles that
  nobody writes before the next barrier.  In the maximum a thread folds a cell into the
  one s before it.  s is a power of two below the size of the block, so 2s divides
  that size (`StrideFacts`), and the pairs of different threads have no cell in
  common (`PairsApart`), whether the threads are those at multiples of 2s, the first
  ones at distances of 2s, or the first s (`RoundEffect` puts the three in the same
  words).  What a block touches is its own (`Foot`), though a block of the first
  kernels works in global memory.

* `SerialSame`: `SameAsSerial`.  The strengthening is `ValueInv == RunInv /\ MatrixOK /\
  MaxOK`.  `RunInv` says that threads of one block are a phase apart at most.
  `MatrixOK` says of each thread, by its phase, what its cells of the tiles hold and that
  its register has the products of the tiles before, in their order
  (`ThreadOK`).  When a thread adds up a tile, the others of its block may already
  have ended that phase, but none has loaded the next tile (`TilesLoaded`).  For a block
  of `cuda_3` that is higher than wide it says instead that the first element has the
  product of a wrong row in it, which no later phase repairs: the version is wrong for every
  such block, not only for some.  `MaxOK` says of the maximum that places hold
  inputs only and that every input is somewhere: in a place of some block that no
  thread has taken in yet, or in what that block has delivered (`Has`).  It takes no look at how
  far the block as a whole is: a thread that folds a place into another takes it
  (`Takes`), and the other cannot have been taken in the same round or before
  (`NotTaken`: it is at a multiple of 2s, and what has been taken is at an odd multiple
  of some earlier s, or in `cuda_4` further on).  At the end all but the first
  place have been taken (`AllTaken`, by induction over the rounds), so the first thread
  delivers every input that the block had; and the next launch starts from what
  the blocks of this one have delivered (`RelaunchOK`).

Only model-checked: liveness and the fairness half of the refinements, which are
out of the prover's reach.

Induction over numbers is at hand, though the induction theorems of
the library, which take an operator, are not: the proofs that need it state that a
set of numbers that holds 0 and the successor of each of its members holds all (or
that a set that is not empty has a least member), from the well-foundedness of the
naturals.  What a recursive function computes for every argument is proved in
that way in `MpiProofs` (the turns that a rank passes over, sums, displacements, the
collapse of digits, the swaps of a row), in `WorkSharingProofs` (the sum over a set
of threads, the concatenation of lines) and in `CudaProofs` (powers of two, the
rounds of the maximum).

## What is not modelled

* `my_rwlock_destroy`, `request_queue_destroy` and the failure paths of init: they
  run before or after all concurrency.
* The parsing of requests other than those the simulator sends, and `strdecode`.
* A client that connects and sends nothing: main of the server reads the
  request itself (`web_server.c:95`), so such a client keeps all others out.  The
  modelled client sends, or is killed.
* Memory that runs out, and descriptors of the client program.
* The size of a cache line that `bst_parallel.cpp:17-26` cannot find: it is 0 then, all
  threads count in one counter of an array without elements (`:36`, `:70`, `:81`), and
  the count is wrong.  In the model each thread has its own.
* What lies outside an array.  `cuda_3` with a block wider than high reads past the
  row of A, and in the last row past its end (`assignment-4/p1/cuda.cu:243`); the model
  gives it a value that is nowhere used, and no fault.  Nor does an iteration outside
  the array, when the bounds of a block have overflowed, do anything in the model.
* The list program over the optimized lock, over `pthread_rwlock_t`, and with one
  process and no lock (`linked_list.c`): the same operations; the first is unsafe as
  soon as its lock is.  `mpi_scan.c` is one call of the library.
* The openmp version of the matrix product, one `parallel for` without shared
  results; the rounding of floats; failures of CUDA calls; schedules with chunks
  other than 1 and the maximum.
* Wakeups without a signal of the two locks (the queue has them), and weak memory:
  all shared data but the arrays of a kernel are accessed under a mutex.
* What the generated RPC stubs do besides calls
  and timeouts (decoding, the UDP service, registration); file formats (PPM),
  random numbers and timing output.

## Plan

Done: every module of the table above with its runs, and with proofs of all the
safety properties that the runs check.  Left, in order of importance:

1. The list program over the optimized lock, until a broadcast is late.
2. `process_request` and `strdecode` against a reference.
