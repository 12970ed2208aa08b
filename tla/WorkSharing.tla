---------------------------- MODULE WorkSharing ----------------------------
(***************************************************************************)
(* The OpenMP programs of assignment-3: a team of threads shares the       *)
(* iterations of a region's loops, each thread keeps the result of its own *)
(* iterations, and main puts them together after the region.               *)
(*                                                                         *)
(* The results are kept as how often each iteration went into them: they   *)
(* are sums and products modulo INT_MAX, in which order does not count.    *)
(***************************************************************************)
EXTENDS OmpPrograms, SequencesExt

CONSTANTS
    thread_cnt,     \* argv[1], the threads asked for
    MaxInt,         \* INT_MAX: one below a power of two
    Chunks,         \* argv[2] of example2_mystatic: chunk_size, 0 for maximal
    MaxTasks,       \* bound on the tasks of a program of p2
    MaxWords        \* bound on the words of a program of p1
ASSUME SizesAssumption ==
    /\ thread_cnt \in Nat \ {0} /\ Chunks \subseteq Nat
    /\ MaxTasks \in Nat /\ MaxWords \in 0..MaxTasks
    /\ MaxInt \in Nat /\ thread_cnt <= MaxInt /\ MaxTasks <= MaxInt

Threads == 0..(thread_cnt - 1)
Tasks   == 0..MaxTasks

VARIABLES
    program,        \* the region that runs
    tnum,           \* omp_get_num_threads(): the team may be smaller than asked for
    chunk_size,
    pairs,          \* # of palindrome pairs by the serial programs, or -1
    loop,           \* the loop each thread is in, or past the last
    mine,           \* iterations a thread has been given and not yet run
    given,          \* the thread has had its share of the loop (static kinds)
    next,           \* the first iteration nobody has been given (dynamic kinds)
    local,          \* how often each iteration went into a thread's result
    writing,        \* the thread in the critical section, or -1
    ofs,            \* halves of lines in the output: <<iteration, half>>
    palin_cnt       \* the result main puts together, or -1

inputs == <<program, tnum, chunk_size, pairs>>
vars   == <<inputs, loop, mine, given, next, local, writing, ofs, palin_cnt>>

Team  == 0..(tnum - 1)
Loops == program.loops
Past  == Len(Loops) + 1

\* The inputs: words with or without repetitions, or a number of tasks.
WordLists == UNION {[1..n -> DOMAIN Backwards] : n \in 0..MaxWords}
Distinct(words) == \A i, j \in DOMAIN words : words[i] = words[j] => i = j

PalindromeInputs ==
    \E words \in WordLists :
        /\ \/ program = vec_parallel(words) /\ pairs = Cardinality(vec_serial(words))
           \/ program = vec_parallel_optimized(words) /\ pairs = Cardinality(vec_serial(words))
           \/ /\ program = bst_parallel(words)
              /\ pairs = IF Distinct(words) THEN Cardinality(bst_serial(words)) ELSE -1
        /\ chunk_size = 0

TaskInputs ==
    \E n \in 0..MaxTasks, c \in Chunks, schedule \in {"static", "dynamic", "guided"} :
        /\ program \in {example2_mystatic(n, c), example2_myschd(n), example3_myschd(n),
                        example_myschd(n), example2_omp(n, schedule),
                        example3_omp(n, schedule), example_omp(n, schedule)}
        /\ chunk_size = c
        /\ pairs = -1

Init ==
    /\ PalindromeInputs \/ TaskInputs
    /\ tnum \in 1..thread_cnt
    /\ loop = [t \in Threads |-> 1]
    /\ mine = [t \in Threads |-> <<>>]
    /\ given = [t \in Threads |-> FALSE]
    /\ next = program.loops[Len(program.loops)].lo
    /\ local = [t \in Threads |-> [i \in Tasks |-> 0]]
    /\ writing = -1
    /\ ofs = <<>>
    /\ palin_cnt = -1
-----------------------------------------------------------------------------
From(lo, hi) == [k \in 1..(hi - lo) |-> lo + k - 1]

\* Mutant of Blocks: the last block is cut short when it does not divide.
BlocksFloor(t, N) == From(t * (N \div tnum), (t + 1) * (N \div tnum))

\* What int arithmetic leaves of a number, as compiled by run.sh, and C's
\* division, which goes toward zero.
Wrap(x) == ((x + MaxInt + 1) % (2 * (MaxInt + 1))) - MaxInt - 1
Quotient(x, d) == IF x < 0 THEN -((-x) \div d) ELSE x \div d

\* tid * N / tnum: the product is an int, and only then divided.
Edge(t, N) == Quotient(Wrap(t * N), tnum)

\* start and end of bst_parallel, and of example2_mystatic's maximal chunks.
Blocks(t, N) == From(Edge(t, N), Edge(t + 1, N))

\* The two loops over i and j of example2_mystatic, as long as i += jump stays
\* an int.
Cyclic(t, N) ==
    LET jump  == tnum * chunk_size
        turns == Cardinality({i \in t..(N - 1) : (i - t) % jump = 0})
    IN  [k \in 1..(turns * chunk_size) |->
            t + ((k - 1) \div chunk_size) * jump + ((k - 1) % chunk_size)]

\* OpenMP's static schedule: contiguous shares that differ by one at most.
Static(t, lo, hi) ==
    LET q == (hi - lo) \div tnum
        r == (hi - lo) % tnum
        first == lo + t * q + (IF t < r THEN t ELSE r)
    IN  From(first, first + q + (IF t < r THEN 1 ELSE 0))

Share(t, l) == CASE l.schedule = "blocks" -> Blocks(t, l.hi)
                 [] l.schedule = "cyclic" -> Cyclic(t, l.hi)
                 [] l.schedule = "static" -> Static(t, l.lo, l.hi)

\* OpenMP's dynamic schedule hands out one iteration, guided an equal part of
\* what is left, rounded up.
Handful(l) == IF l.schedule = "dynamic" THEN 1
              ELSE (l.hi - next + tnum - 1) \div tnum
-----------------------------------------------------------------------------
\* A thread works on a loop once all are through those before it that have a
\* barrier; one with nowait holds nobody up.
Inside(t) ==
    /\ t \in Team
    /\ loop[t] \in 1..Len(Loops)
    /\ \A k \in 1..(loop[t] - 1) : Loops[k].nowait \/ \A u \in Team : loop[u] > k

SharedOut(l) == l.schedule \in {"dynamic", "guided"}

TakeShare(t) ==
    /\ Inside(t)
    /\ ~SharedOut(Loops[loop[t]]) /\ ~given[t]
    /\ given' = [given EXCEPT ![t] = TRUE]
    /\ mine' = [mine EXCEPT ![t] = Share(t, Loops[loop[t]])]
    /\ UNCHANGED <<inputs, loop, next, local, writing, ofs, palin_cnt>>

\* Mutant of TakeNext: the shared counter is read, and written by then stale.
TakeNextStale(t) ==
    /\ Inside(t)
    /\ SharedOut(Loops[loop[t]]) /\ mine[t] = <<>>
    /\ \E stale \in {next, next - 1} :
           /\ stale \in Loops[loop[t]].lo..(Loops[loop[t]].hi - 1)
           /\ mine' = [mine EXCEPT ![t] = From(stale, stale + Handful(Loops[loop[t]]))]
           /\ next' = stale + Handful(Loops[loop[t]])
    /\ UNCHANGED <<inputs, loop, given, local, writing, ofs, palin_cnt>>

TakeNext(t) ==
    /\ Inside(t)
    /\ SharedOut(Loops[loop[t]]) /\ mine[t] = <<>>
    /\ next < Loops[loop[t]].hi
    /\ mine' = [mine EXCEPT ![t] = From(next, next + Handful(Loops[loop[t]]))]
    /\ next' = next + Handful(Loops[loop[t]])
    /\ UNCHANGED <<inputs, loop, given, local, writing, ofs, palin_cnt>>

Add(t, i) == local' = [local EXCEPT ![t][i] = @ + 1]
Drop(t)   == mine' = [mine EXCEPT ![t] = Tail(@)]

\* The body of an iteration that has nothing to write within the region.  One
\* outside the array, as only a share that does not fit an int has, is left out.
Iterate(t) ==
    /\ mine[t] # <<>>
    /\ LET i == Head(mine[t])
       IN  \/ i \in program.counts /\ program.output # "critical" /\ Add(t, i)
           \/ i \notin program.counts /\ UNCHANGED local
    /\ Drop(t)
    /\ UNCHANGED <<inputs, loop, given, next, writing, ofs, palin_cnt>>

\* Mutant of Critical: nobody waits for the one who writes.
CriticalOpen(t) ==
    /\ mine[t] # <<>>
    /\ Head(mine[t]) \in program.counts /\ program.output = "critical"
    /\ writing # t
    /\ writing' = t
    /\ ofs' = Append(ofs, <<Head(mine[t]), 1>>)
    /\ UNCHANGED <<inputs, loop, mine, given, next, local, palin_cnt>>

\* #pragma omp critical(output): a line goes out in several parts.
Critical(t) ==
    /\ mine[t] # <<>>
    /\ Head(mine[t]) \in program.counts /\ program.output = "critical"
    /\ writing = -1
    /\ writing' = t
    /\ ofs' = Append(ofs, <<Head(mine[t]), 1>>)
    /\ UNCHANGED <<inputs, loop, mine, given, next, local, palin_cnt>>

\* The rest of the line, and ++palin_cnt of the thread.
EndCritical(t) ==
    /\ writing = t
    /\ writing' = -1
    /\ ofs' = Append(ofs, <<Head(mine[t]), 2>>)
    /\ Add(t, Head(mine[t]))
    /\ Drop(t)
    /\ UNCHANGED <<inputs, loop, given, next, palin_cnt>>

EndLoop(t) ==
    /\ Inside(t)
    /\ mine[t] = <<>>
    /\ IF SharedOut(Loops[loop[t]]) THEN next >= Loops[loop[t]].hi ELSE given[t]
    /\ loop' = [loop EXCEPT ![t] = @ + 1]
    /\ given' = [given EXCEPT ![t] = FALSE]
    /\ UNCHANGED <<inputs, mine, next, local, writing, ofs, palin_cnt>>
-----------------------------------------------------------------------------
\* How often an iteration went into the result of the threads asked for.
Total(i) == FoldFunction(+, 0, [t \in Threads |-> local[t][i]])

\* results[tid]: a thread finds its pairs in rising order, as the dynamic
\* schedule gives its iterations out.
Rising(pairs_found) ==
    CHOOSE row \in [1..Cardinality(pairs_found) -> pairs_found] :
        \A j, k \in DOMAIN row : j < k => row[j] < row[k]

\* The lines vec_parallel_optimized writes from the results of each thread.
Lines == LET rows == [k \in 1..thread_cnt |-> Rising({i \in Tasks : local[k - 1][i] > 0})]
         IN  FlattenSeq([k \in 1..thread_cnt |->
                 FlattenSeq([j \in DOMAIN rows[k] |-> <<<<rows[k][j], 1>>, <<rows[k][j], 2>>>>])])

\* Mutant of Joined: main waits for the threads asked for.
JoinedByAll == \A t \in Threads : loop[t] = Past

Joined == \A t \in Team : loop[t] = Past

\* After the region, whose end is a barrier, main adds up and reports.
Reduce ==
    /\ Joined /\ palin_cnt = -1
    /\ palin_cnt' = FoldFunction(+, 0, [i \in Tasks |-> Total(i)])
    /\ ofs' = IF program.output = "afterwards" THEN Lines ELSE ofs
    /\ UNCHANGED <<inputs, loop, mine, given, next, local, writing>>

Finished == palin_cnt >= 0

Exit == Finished /\ UNCHANGED vars

Next == \/ \E t \in Threads : \/ TakeShare(t) \/ TakeNext(t) \/ Iterate(t)
                              \/ Critical(t) \/ EndCritical(t) \/ EndLoop(t)
        \/ Reduce \/ Exit

Safety == Init /\ [][Next]_vars

\* The program as a whole runs; no thread needs more than that.
Spec == Safety /\ WF_vars(Next)
-----------------------------------------------------------------------------
\* Every iteration that counts went into the result once, whatever the team,
\* the schedule and the interleaving; the palindrome programs count as many
\* pairs as the serial ones (bst_parallel for words without repetitions).
ResultSerial ==
    Finished => /\ \A i \in Tasks : Total(i) = IF i \in program.counts THEN 1 ELSE 0
                /\ pairs >= 0 => palin_cnt = pairs

\* At no moment is an iteration held by two threads, held twice, or held once
\* more after it went into a result.
NoDoubleWork ==
    LET held == UNION {{t} \X DOMAIN mine[t] : t \in Team}
    IN  \A i \in Tasks :
            Total(i) + Cardinality({h \in held : mine[h[1]][h[2]] = i}) <= 1

\* The lines of the output are whole, and in the end one for each pair.
LinesWhole ==
    /\ \A k \in DOMAIN ofs : k % 2 = 0 => ofs[k] = <<ofs[k - 1][1], 2>>
    /\ Finished /\ program.output # "none" =>
           /\ ToSet(ofs) = program.counts \X {1, 2}
           /\ Len(ofs) = 2 * Cardinality(program.counts)

\* The region ends: no thread is left at a barrier or in the critical section.
Terminates == <>Finished
=============================================================================
