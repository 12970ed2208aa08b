---------------------------- MODULE OmpPrograms ----------------------------
(***************************************************************************)
(* The parallel regions of assignment-3 as data: the loops of a region and *)
(* how each is shared out, the iterations whose body adds to the result    *)
(* (all of them in p2, those that find a pair of words in p1), and what    *)
(* becomes of the lines a body writes.  WorkSharing runs them.             *)
(*                                                                         *)
(* A word is a number; order and reversal are all the programs use of it.  *)
(***************************************************************************)
EXTENDS Integers, Sequences, FiniteSets

CONSTANT Backwards    \* the word each word is when read backwards
ASSUME BackwardsAssumption ==
    /\ DOMAIN Backwards \subseteq Nat
    /\ \A w \in DOMAIN Backwards : Backwards[w] \in DOMAIN Backwards
                                 /\ Backwards[Backwards[w]] = w

Indices(words) == 0..(Len(words) - 1)
Word(words, i) == words[i + 1]

\* The iterations lo to hi - 1; with nowait no barrier follows them.
Loop(lo, hi, schedule, nowait) ==
    [lo |-> lo, hi |-> hi, schedule |-> schedule, nowait |-> nowait]

Region(loops, counts, output) ==
    [loops |-> loops, counts |-> counts, output |-> output]
-----------------------------------------------------------------------------
\* p1: a word counts when its reverse is among the words up to it: in the set
\* built so far, or by std::find in the vector.
bst_serial(words) ==
    {i \in Indices(words) :
        Backwards[Word(words, i)] \in {Word(words, j) : j \in 0..i}}

Found(words, i) == \E j \in 0..i : Word(words, j) = Backwards[Word(words, i)]

vec_serial(words) == {i \in Indices(words) : Found(words, i)}

\* p1, parallel.  bst_parallel looks each word up in the whole set, so that a
\* pair counts at one of its two words only; N is the size of the set.
bst_parallel(words) ==
    LET word_set == {Word(words, i) : i \in Indices(words)}
        N        == Cardinality(word_set)
    IN  Region(<<Loop(0, N, "blocks", TRUE)>>,
               {i \in 0..(N - 1) : LET reverse == Backwards[Word(words, i)]
                                   IN  /\ reverse \in word_set
                                       /\ reverse >= Word(words, i)},
               "critical")

vec_parallel(words) ==
    Region(<<Loop(0, Len(words), "dynamic", FALSE)>>,
           {i \in Indices(words) : Found(words, i)}, "critical")

vec_parallel_optimized(words) ==
    Region(<<Loop(0, Len(words), "dynamic", FALSE)>>,
           {i \in Indices(words) : Found(words, i)}, "afterwards")
-----------------------------------------------------------------------------
\* p2: n tasks, each of which counts.
example2_mystatic(n, chunk_size) ==
    Region(<<Loop(0, n, IF chunk_size > 0 THEN "cyclic" ELSE "blocks", TRUE)>>,
           0..(n - 1), "none")

example2_myschd(n) ==
    Region(<<Loop(0, n \div 2, "static", TRUE), Loop(n \div 2, n, "guided", FALSE)>>,
           0..(n - 1), "none")

example3_myschd(n) ==
    Region(<<Loop(0, n \div 2, "static", TRUE), Loop(n \div 2, n, "dynamic", FALSE)>>,
           0..(n - 1), "none")

\* The pixels of a picture are the tasks; each is written by one of them.
example_myschd(num_pixels) == example3_myschd(num_pixels)

\* schedule(runtime): what OMP_SCHEDULE says.
example2_omp(n, schedule) ==
    Region(<<Loop(0, n, schedule, FALSE)>>, 0..(n - 1), "none")

example3_omp(n, schedule) == example2_omp(n, schedule)

example_omp(num_pixels, schedule) == example2_omp(num_pixels, schedule)
=============================================================================
