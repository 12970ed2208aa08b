---------------------------- MODULE ScatterGather ----------------------------
(***************************************************************************)
(* assignment-1/p5 and p6: MPI programs whose root scatters a buffer over  *)
(* the ranks in blocks of almost the same size, each rank works on its own *)
(* block, and the root gathers the results.                                *)
(*                                                                         *)
(* p5 adds up integers and then the digits of the sum until one is left.   *)
(* Its three versions differ in what a rank does before the gather.  p6    *)
(* mirrors an image and makes it grey; an item is a row of pixels.         *)
(*                                                                         *)
(* The collectives do not synchronize: a rank takes part in one when the   *)
(* root has, and the root ends a gather when all others have taken part.   *)
(***************************************************************************)
EXTENDS Integers, Sequences

CONSTANTS
    Programs,       \* which programs run: a subset of the four
    MaxInt,         \* INT_MAX: one below a power of two
    Values,         \* the integers in the input of p5
    MaxRanks,       \* a bound: the ranks
    MaxItems,       \* a bound: the integers, or the rows of the image
    MaxWidth,       \* a bound: the width of the image
    Colours         \* the pixels of an image, as many as it takes

ASSUME ScatterGatherAssumption ==
    /\ Programs \subseteq {"p5_1", "p5_2", "p5_3", "p6"}
    /\ MaxInt \in Nat \ {0}
    /\ Values \subseteq 0..MaxInt
    /\ MaxRanks \in Nat \ {0} /\ MaxItems \in Nat /\ MaxWidth \in Nat \ {0}
    /\ Colours \in Seq([1..3 -> 0..255]) /\ MaxWidth * MaxItems <= Len(Colours)

VARIABLES
    program,
    K,          \* the number of ranks
    width,      \* the pixels in a row; 1 in p5
    input,      \* the file that the root reads
    N,          \* per rank: how many items there are, or Unknown
    place,      \* per rank: the collective it comes to next
    data,       \* per rank: its block
    output      \* what the root prints, in p5, or writes

scatterVars == <<program, K, width, input, N, place, data, output>>

root      == 0
Processes == 0 .. K - 1
Unknown   == -1
-----------------------------------------------------------------------------
(***************************************************************************)
(* The sum and the collapse of integers.                                   *)
(***************************************************************************)
Ints == -MaxInt - 1 .. MaxInt

\* What int arithmetic leaves of a number, as compiled by run.sh.
Wrap(x) == ((x + MaxInt + 1) % (2 * (MaxInt + 1))) - MaxInt - 1

Sum(s) ==
    LET sum[i \in 0..Len(s)] == IF i = 0 THEN 0 ELSE Wrap(sum[i - 1] + s[i])
    IN  sum[Len(s)]

\* num / 10 and num % 10 of C, which go toward zero.
Quot(num) == IF num < 0 THEN -((-num) \div 10) ELSE num \div 10
Rem(num)  == num - 10 * Quot(num)

collapse[num \in Ints] ==
    IF num = 0 THEN 0 ELSE Rem(num) + collapse[Quot(num)]

ultimate_collapse[num \in Ints] ==
    IF Quot(num) > 0 THEN ultimate_collapse[collapse[num]] ELSE num

\* What make_random_data prints as the correct result while it writes the file.
CorrectResult ==
    LET digit[i \in 0..Len(input)] ==
            IF i = 0 THEN 0 ELSE ultimate_collapse[Wrap(digit[i - 1] + input[i])]
    IN  digit[Len(input)]

\* process of p5: what a rank makes of its integers.
Local(s) ==
    CASE program = "p5_1" -> Sum(s)
      [] program = "p5_2" -> collapse[Sum(s)]
      [] program = "p5_3" -> ultimate_collapse[Sum(s)]

\* Mutant of Merge: the digits are added up once only.
MergeOnce(s) == collapse[Sum(s)]

\* merge of p5: what the root makes of the results of all.
Merge(s) == ultimate_collapse[Sum(s)]
-----------------------------------------------------------------------------
(***************************************************************************)
(* The image: rows of RGB pixels, one after the other.                     *)
(***************************************************************************)
Pixel == [1..3 -> 0..255]

Grey(p) == [c \in 1..3 |-> (p[1] + p[2] + p[3]) \div 3]

\* The swaps that mirror the row of w pixels that begins after base.
Mirror(s, base, w) ==
    LET swapped[j \in 0 .. w \div 2] ==
            IF j = 0 THEN s
            ELSE LET t == swapped[j - 1]
                 IN  [t EXCEPT ![base + j] = t[base + w + 1 - j],
                               ![base + w + 1 - j] = t[base + j]]
    IN  swapped[w \div 2]

\* process of p6 on a block of cnt rows: each row is mirrored and then grey.
ProcessRows(s, cnt) ==
    LET processed[i \in 0..cnt] ==
            IF i = 0 THEN s
            ELSE LET flipped == Mirror(processed[i - 1], (i - 1) * width, width)
                 IN  [k \in DOMAIN s |->
                         IF k \in (i - 1) * width + 1 .. i * width
                         THEN Grey(flipped[k]) ELSE flipped[k]]
    IN  processed[cnt]

\* sequential.c: all rows are mirrored, then all pixels are grey.
SequentialImage ==
    LET height  == Len(input) \div width
        flipped[i \in 0..height] ==
            IF i = 0 THEN input ELSE Mirror(flipped[i - 1], (i - 1) * width, width)
    IN  [k \in DOMAIN input |-> Grey(flipped[height][k])]
-----------------------------------------------------------------------------
\* Mutant of Count: the remainder is dropped.
CountEven(n, r) == n \div K

\* How many of n items rank r gets: computed by the root for all, and by each
\* rank for itself.
Count(n, r) == IF r < n % K THEN n \div K + 1 ELSE n \div K

\* displs of the root: where the block of a rank begins.
displs == LET d[r \in 0..K] == IF r = 0 THEN 0 ELSE d[r - 1] + Count(N[root], r - 1)
          IN  d

\* The files that are read: any integers, and an image of each size.
IntegerFiles == UNION {[1..n -> Values] : n \in 0..MaxItems}
Images(w) == {[k \in 1 .. w * height |-> Colours[k]] : height \in 0..MaxItems}

ScatterInit ==
    /\ program \in Programs /\ K \in 1..MaxRanks
    /\ IF program = "p6"
       THEN /\ width \in 1..MaxWidth
            /\ input \in Images(width)
       ELSE /\ width = 1
            /\ input \in IntegerFiles
    /\ N = [r \in Processes |-> IF r = root THEN Len(input) \div width ELSE Unknown]
    /\ place = [r \in Processes |-> "bcast"]
    /\ data = [r \in Processes |-> <<>>]
    /\ output = <<>>

\* MPI_Bcast of N, or of the width and the height.
Bcast(r) ==
    /\ place[r] = "bcast"
    /\ r = root \/ place[root] # "bcast"
    /\ N' = [N EXCEPT ![r] = N[root]]
    /\ place' = [place EXCEPT ![r] = "scatter"]
    /\ UNCHANGED <<program, K, width, input, data, output>>

\* scatter_data or scatter_img_block: MPI_Scatterv sends the block by the
\* counts of the root, the receiver takes what its own count has room for.
\* Then process, on that block alone.
Scatter(r) ==
    /\ place[r] = "scatter"
    /\ r = root \/ place[root] \in {"gather", "done"}
    /\ LET sent  == SubSeq(input, displs[r] * width + 1,
                           (displs[r] + Count(N[root], r)) * width)
           cnt   == Count(N[r], r)
           block == SubSeq(sent, 1, cnt * width)
       IN  data' = [data EXCEPT ![r] =
                        IF program = "p6" THEN ProcessRows(block, cnt)
                        ELSE <<Local(block)>>]
    /\ place' = [place EXCEPT ![r] = "gather"]
    /\ UNCHANGED <<program, K, width, input, N, output>>

\* Mutant of GatherBlock: a rank with an empty block stays away.
GatherBlockSome(r) ==
    /\ place[r] = "gather" /\ r # root
    /\ Count(N[r], r) > 0
    /\ place' = [place EXCEPT ![r] = "done"]
    /\ UNCHANGED <<program, K, width, input, N, data, output>>

\* MPI_Gather or MPI_Gatherv of a rank that is not the root.
GatherBlock(r) ==
    /\ place[r] = "gather" /\ r # root
    /\ place' = [place EXCEPT ![r] = "done"]
    /\ UNCHANGED <<program, K, width, input, N, data, output>>

Gathered == \A r \in Processes \ {root} : place[r] = "done"

\* The image with every block put back to its displacement.
Gatherv == [k \in DOMAIN input |->
    LET from == {r \in Processes : /\ k > displs[r] * width
                                   /\ k <= (displs[r] + Count(N[root], r)) * width}
    IN  IF from = {} THEN input[k]
        ELSE LET r == CHOOSE x \in from : TRUE IN data[r][k - displs[r] * width]]

\* The gather of the root, and merge.
Collect ==
    /\ place[root] = "gather" /\ Gathered
    /\ output' = IF program = "p6" THEN Gatherv
                 ELSE <<Merge([i \in 1..K |-> data[i - 1][1]])>>
    /\ place' = [place EXCEPT ![root] = "done"]
    /\ UNCHANGED <<program, K, width, input, N, data>>

Done == \A r \in Processes : place[r] = "done"

Exit == Done /\ UNCHANGED scatterVars

ScatterNext ==
    \/ \E r \in Processes : Bcast(r) \/ Scatter(r) \/ GatherBlock(r)
    \/ Collect \/ Exit

ScatterSafety == ScatterInit /\ [][ScatterNext]_scatterVars

\* Every rank runs on, and MPI ends a collective all have called.
ScatterSpec == ScatterSafety /\ WF_scatterVars(ScatterNext)
-----------------------------------------------------------------------------
Reported == place[root] = "done"

\* Every variable is in its type; a rank has an item more or less than another.
ScatterTypeOK ==
    /\ program \in Programs /\ K \in 1..MaxRanks /\ width \in 1..MaxWidth
    /\ N \in [Processes -> 0..MaxItems \cup {Unknown}]
    /\ place \in [Processes -> {"bcast", "scatter", "gather", "done"}]
    /\ \A r \in Processes : IF program = "p6" THEN data[r] \in Seq(Pixel)
                        ELSE data[r] \in Seq(Ints) /\ Len(data[r]) <= 1
    /\ IF program = "p6" THEN output \in Seq(Pixel)
       ELSE output \in Seq(Ints) /\ (Reported <=> Len(output) = 1)

\* The sum of integers as a number of any size.
TrueSum(s) ==
    LET sum[i \in 0..Len(s)] == IF i = 0 THEN 0 ELSE sum[i - 1] + s[i]
    IN  sum[Len(s)]

Block(r) == SubSeq(input, displs[r] + 1, displs[r] + Count(N[root], r))

\* No int overflows: the total in p5_1, the sum of each block in the others.
Fits == IF program = "p5_1" THEN TrueSum(input) <= MaxInt
        ELSE \A r \in Processes : TrueSum(Block(r)) <= MaxInt

\* Every version reports the same digit, the one of the whole sum, however the
\* integers fall to the ranks, as long as what it adds up fits in an int.  The
\* versions that collapse before the gather do so for larger inputs.  Before
\* that every variable is in its type.
ResultCorrect ==
    /\ ScatterTypeOK
    /\ program # "p6" /\ Reported /\ Fits =>
        output[1] = IF TrueSum(input) = 0 THEN 0 ELSE 1 + ((TrueSum(input) - 1) % 9)

\* The place on the other side of the same row.
Mirrored(k) == ((k - 1) \div width) * width + width - ((k - 1) % width)

\* The parallel program makes the image of the sequential one, for any number
\* of ranks, rows and columns, and that is the mirrored image in grey.
ImageSame ==
    program = "p6" /\ Reported =>
        /\ output = SequentialImage
        /\ output = [k \in DOMAIN input |-> Grey(input[Mirrored(k)])]

\* All ranks come to MPI_Finalize, those with an empty block too.
AllFinalize == <>Done

\* The result is the one make_random_data has printed as correct.
AsGenerated == program # "p6" /\ Reported => output = <<CorrectResult>>
=============================================================================
