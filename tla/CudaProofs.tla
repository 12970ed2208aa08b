----------------------------- MODULE CudaProofs -----------------------------
(***************************************************************************)
(* No thread of the seven kernels of assignment-4 writes what another that *)
(* can run at the same time reads or writes, and all give what the serial  *)
(* versions give, for any size of matrix, any shape of block that divides  *)
(* it (but one that is higher than wide in cuda_3, which is always wrong), *)
(* any number of values and any block of a power of two, and however many  *)
(* blocks fit the device.                                                  *)
(*                                                                         *)
(* Races.  Two threads that can run and are of one block are in the same   *)
(* phase, which is what the barriers are for (SamePhase).  In a phase, a   *)
(* thread of the matrix product writes cells that are its own (Own), or    *)
(* reads the tiles that nobody writes.  A thread of the maximum folds one  *)
(* cell into another s before it, and these pairs have no cell in common   *)
(* because 2s divides the block (PairsApart); what a block touches is its  *)
(* own (Foot).                                                             *)
(*                                                                         *)
(* Results.  A thread of the matrix product has the products of the tiles  *)
(* it has been through, in order, and when it adds the next all threads of *)
(* its block have loaded it (ThreadOK).  In the maximum each input is in   *)
(* a place that no thread has taken, of some block, or that block has      *)
(* delivered it (Has).                                                     *)
(***************************************************************************)
EXTENDS CudaPrograms, WellFoundedInduction, TLAPS

(***************************************************************************)
(* Powers of two, which the loops over s go through.                       *)
(***************************************************************************)
\* Induction, said of a set of numbers.
LEMMA Induction ==
    ASSUME NEW S, 0 \in S, \A n \in Nat : n \in S => n + 1 \in S
    PROVE  Nat \subseteq S
  <1> SUFFICES ASSUME Nat \ S # {} PROVE FALSE
    OBVIOUS
  <1> DEFINE R == OpToRel(<, Nat)
  <1>1. \A k, m \in Nat : k < m => <<k, m>> \in R
    BY DEF OpToRel
  <1>2. IsWellFoundedOn(R, Nat)
    BY NatLessThanWellFounded, Zenon
  <1> HIDE DEF R
  <1>3. Nat \ S \subseteq Nat
    OBVIOUS
  <1>4. PICK m \in Nat \ S : \A k \in Nat \ S : ~(<<k, m>> \in R)
    BY <1>2, <1>3, WFMin
  <1>5. m - 1 \in Nat /\ m - 1 < m /\ m = (m - 1) + 1
    BY <1>4
  <1>6. m - 1 \in S
    BY <1>1, <1>4, <1>5
  <1>7. QED
    BY <1>4, <1>5, <1>6

\* f doubles up to n, so it is known up to n.
Doubles(f, n) == \A r \in 0 .. n : f[r] = IF r = 0 THEN 1 ELSE 2 * f[r - 1]

\* Two that double, agree as far as both go.
LEMMA DoublesOnce ==
    ASSUME NEW f, NEW g, NEW m \in Nat, NEW n \in Nat,
           Doubles(f, m), Doubles(g, n)
    PROVE  \A r \in Nat : r <= m /\ r <= n => f[r] = g[r]
  <1> DEFINE S == {r \in Nat : r <= m /\ r <= n => f[r] = g[r]}
  <1>1. 0 \in S
    BY DEF Doubles
  <1>2. ASSUME NEW r \in Nat, r \in S PROVE r + 1 \in S
    <2>1. CASE r + 1 <= m /\ r + 1 <= n
      <3>1. f[r] = g[r]
        BY <1>2, <2>1
      <3>2. r + 1 \in 0 .. m /\ r + 1 \in 0 .. n /\ r + 1 # 0 /\ (r + 1) - 1 = r
        BY <2>1
      <3>3. f[r + 1] = 2 * f[r] /\ g[r + 1] = 2 * g[r]
        BY <3>2 DEF Doubles
      <3>4. QED
        BY <3>1, <3>3
    <2>2. QED
      BY <2>1
  <1> HIDE DEF S
  <1>3. Nat \subseteq S
    BY <1>1, <1>2, Induction
  <1>4. QED
    BY <1>3 DEF S

\* There is one that doubles, as far as wanted.
LEMMA DoublesExists == \A n \in Nat : \E f : Doubles(f, n)
  <1> DEFINE S == {n \in Nat : \E f : Doubles(f, n)}
  <1>1. 0 \in S
    <2>1. Doubles([r \in {0} |-> 1], 0)
      BY DEF Doubles
    <2>2. QED
      BY <2>1
  <1>2. ASSUME NEW n \in Nat, n \in S PROVE n + 1 \in S
    <2>1. PICK f : Doubles(f, n)
      BY <1>2
    <2> DEFINE g == [r \in 0 .. n + 1 |-> IF r = n + 1 THEN 2 * f[n] ELSE f[r]]
    <2>2. ASSUME NEW r \in 0 .. n + 1
          PROVE  g[r] = IF r = 0 THEN 1 ELSE 2 * g[r - 1]
      <3>1. CASE r = n + 1
        BY <3>1
      <3>2. CASE r # n + 1
        <4>1. r \in 0 .. n /\ (r # 0 => r - 1 \in 0 .. n)
          BY <3>2
        <4>2. f[r] = IF r = 0 THEN 1 ELSE 2 * f[r - 1]
          BY <2>1, <4>1 DEF Doubles
        <4>3. QED
          BY <3>2, <4>1, <4>2
      <3>3. QED
        BY <3>1, <3>2
    <2> HIDE DEF g
    <2>3. Doubles(g, n + 1)
      BY <2>2 DEF Doubles
    <2>4. QED
      BY <2>3
  <1> HIDE DEF S
  <1>3. Nat \subseteq S
    BY <1>1, <1>2, Induction
  <1>4. QED
    BY <1>3 DEF S

\* Doubled is the function that its definition says.
LEMMA DoubledIs ==
    Doubled = [r \in Nat |-> IF r = 0 THEN 1 ELSE 2 * Doubled[r - 1]]
  <1> DEFINE Is(f) == f = [r \in Nat |-> IF r = 0 THEN 1 ELSE 2 * f[r - 1]]
             h == [r \in Nat |-> (CHOOSE f : Doubles(f, r))[r]]
  <1>1. ASSUME NEW r \in Nat PROVE h[r] = IF r = 0 THEN 1 ELSE 2 * h[r - 1]
    <2> DEFINE f == CHOOSE f : Doubles(f, r)
    <2>1. Doubles(f, r)
      BY DoublesExists, Zenon
    <2>2. h[r] = f[r]
      OBVIOUS
    <2>3. CASE r # 0
      <3> DEFINE g == CHOOSE g : Doubles(g, r - 1)
      <3>1. r - 1 \in Nat /\ r - 1 <= r
        BY <2>3
      <3>2. Doubles(g, r - 1)
        BY <3>1, DoublesExists, Zenon
      <3>3. h[r - 1] = g[r - 1]
        BY <3>1
      <3> HIDE DEF f, g
      <3>4. f[r - 1] = g[r - 1]
        BY <2>1, <3>1, <3>2, DoublesOnce
      <3>5. f[r] = 2 * f[r - 1]
        BY <2>1, <2>3 DEF Doubles
      <3>6. QED
        BY <2>2, <2>3, <3>3, <3>4, <3>5
    <2>4. CASE r = 0
      <3> HIDE DEF f
      <3>1. f[0] = 1
        BY <2>1, <2>4 DEF Doubles
      <3>2. QED
        BY <2>2, <2>4, <3>1
    <2>5. QED
      BY <2>3, <2>4
  <1>2. h = [r \in Nat |-> h[r]]
    OBVIOUS
  <1> HIDE DEF h
  <1>3. Is(h)
    BY <1>1, <1>2
  <1>4. Is(CHOOSE f : Is(f))
    BY <1>3, Zenon
  <1>5. QED
    BY <1>4 DEF Doubled

\* The powers of two, one after the other.
LEMMA DoubledFacts ==
    /\ Doubled[0] = 1
    /\ \A r \in Nat : Doubled[r] \in Nat \ {0} /\ Doubled[r + 1] = 2 * Doubled[r]
  <1>1. \A r \in Nat : Doubled[r] = IF r = 0 THEN 1 ELSE 2 * Doubled[r - 1]
    BY DoubledIs, Zenon
  <1>2. \A r \in Nat : Doubled[r + 1] = 2 * Doubled[r]
    <2> SUFFICES ASSUME NEW r \in Nat PROVE Doubled[r + 1] = 2 * Doubled[r]
      OBVIOUS
    <2>1. r + 1 \in Nat /\ r + 1 # 0 /\ (r + 1) - 1 = r
      OBVIOUS
    <2>2. QED
      BY <1>1, <2>1
  <1> DEFINE S == {r \in Nat : Doubled[r] \in Nat \ {0}}
  <1>3. 0 \in S
    BY <1>1
  <1>4. \A r \in Nat : r \in S => r + 1 \in S
    BY <1>2
  <1> HIDE DEF S
  <1>5. Nat \subseteq S
    BY <1>3, <1>4, Induction
  <1>6. QED
    BY <1>1, <1>2, <1>5 DEF S

\* A smaller power of two divides a greater one.
LEMMA DoubledDivides ==
    ASSUME NEW p \in Nat, NEW n \in Nat
    PROVE  /\ Doubled[n] \in Nat \ {0}
           /\ Doubled[p + n] = Doubled[p] * Doubled[n]
  <1> DEFINE S == {k \in Nat : Doubled[p + k] = Doubled[p] * Doubled[k]}
  <1>1. 0 \in S
    BY DoubledFacts
  <1>2. ASSUME NEW k \in Nat, k \in S PROVE k + 1 \in S
    <2>1. /\ Doubled[(p + k) + 1] = 2 * Doubled[p + k]
          /\ Doubled[k + 1] = 2 * Doubled[k]
          /\ Doubled[p] \in Nat /\ Doubled[k] \in Nat
          /\ (p + k) + 1 = p + (k + 1)
      BY DoubledFacts
    <2>2. Doubled[p + k] = Doubled[p] * Doubled[k]
      BY <1>2
    <2> DEFINE a == Doubled[p]
               b == Doubled[k]
    <2>3. 2 * (a * b) = a * (2 * b)
      <3> HIDE DEF a, b
      <3>1. \A x, y \in Nat : 2 * (x * y) = x * (2 * y)
        OBVIOUS
      <3>2. QED
        BY <2>1, <3>1 DEF a, b
    <2>4. QED
      BY <2>1, <2>2, <2>3
  <1> HIDE DEF S
  <1>3. Nat \subseteq S
    BY <1>1, <1>2, Induction
  <1>4. QED
    BY <1>3, DoubledFacts DEF S
-----------------------------------------------------------------------------

Positive == Nat \ {0}

\* The kernel, and its sizes.
JobOK ==
    /\ job \in [kernel : MatrixVersions \cup MaxVersions, size : Positive,
                block : [x : Positive, y : Positive], resident : Positive]
    /\ job.kernel \in MatrixVersions => /\ job.size % job.block.x = 0
                                        /\ job.size % job.block.y = 0
    /\ job.kernel \in MaxVersions => /\ job.block.y = 1
                                     /\ \E r \in Nat : job.block.x = Doubled[r]

\* The grid covers the matrix, or the values that are left; and the buffers of p2
\* are two.
LaunchOK ==
    /\ job.kernel \in MatrixVersions => launch = [grid |-> MatrixGrid]
    /\ job.kernel \in MaxVersions =>
           /\ launch \in [grid : [x : Positive, y : {1}], size : Positive,
                          arr    : {"arr_device", "output_device"},
                          output : {"arr_device", "output_device"}]
           /\ launch.arr # launch.output
           /\ launch.grid.x = num_blocks(launch.size)

\* How far each thread is.
GridOK == done \in [Grid -> Nat]

\* Numbers in two digits.
LEMMA TwoDigits ==
    ASSUME NEW d \in Positive, NEW a \in 0 .. d - 1, NEW c \in 0 .. d - 1,
           NEW p \in Int, NEW q \in Int, p * d + a = q * d + c
    PROVE  a = c /\ p = q
  <1>1. ASSUME NEW x \in Int, NEW y \in Int, x < y PROVE x * d + d <= y * d
    <2>1. y - x - 1 \in Nat /\ d \in Nat
      BY <1>1 DEF Positive
    <2>2. (y - x - 1) * d \in Nat
      BY <2>1
    <2>3. y * d = (x * d) + d + ((y - x - 1) * d)
      BY <1>1 DEF Positive
    <2>4. x * d \in Int /\ y * d \in Int
      BY DEF Positive
    <2>5. QED
      BY <2>2, <2>3, <2>4 DEF Positive
  <1>2. p < q => p * d + d <= q * d
    BY <1>1
  <1>3. q < p => q * d + d <= p * d
    BY <1>1
  <1>4. p * d \in Int /\ q * d \in Int
    BY DEF Positive
  <1>5. p = q
    BY <1>2, <1>3, <1>4 DEF Positive
  <1>6. QED
    BY <1>4, <1>5 DEF Positive

\* A digit before another makes a number below the product.
LEMMA DigitBound ==
    ASSUME NEW d \in Positive, NEW a \in 0 .. d - 1, NEW n \in Nat, NEW p \in 0 .. n - 1
    PROVE  p * d + a \in 0 .. (n * d) - 1
  <1>1. n - 1 - p \in Nat /\ d \in Nat /\ p \in Nat
    BY DEF Positive
  <1>2. (n - 1 - p) * d \in Nat /\ p * d \in Nat
    BY <1>1
  <1>3. n * d = (p * d) + d + ((n - 1 - p) * d)
    BY <1>1
  <1>4. QED
    BY <1>2, <1>3 DEF Positive

\* n divided without remainder.
LEMMA Divides ==
    ASSUME NEW n \in Nat, NEW d \in Positive, n % d = 0
    PROVE  n = (n \div d) * d /\ n \div d \in Nat
  <1>1. n = d * (n \div d) + (n % d) /\ n \div d \in Nat
    BY DEF Positive
  <1>2. QED
    BY <1>1 DEF Positive
-----------------------------------------------------------------------------
(***************************************************************************)
(* The matrix product.                                                     *)
(***************************************************************************)
IsMatrix == JobOK /\ LaunchOK /\ job.kernel \in MatrixVersions

\* A thread is named by the numbers of its block and its own, which are the
\* digits of its row and column.
LEMMA MatrixPlaces ==
    ASSUME IsMatrix, NEW b \in Blocks, NEW t \in Threads
    PROVE  /\ job.block.x \in Positive /\ job.block.y \in Positive
           /\ MATRIX_SIZE \in Positive
           /\ b = <<b[1], b[2]>> /\ t = <<t[1], t[2]>>
           /\ b[1] \in Nat /\ b[2] \in Nat
           /\ t[1] \in 0 .. job.block.x - 1 /\ t[2] \in 0 .. job.block.y - 1
           /\ Row(b, t) \in 0 .. MATRIX_SIZE - 1
           /\ Col(b, t) \in 0 .. MATRIX_SIZE - 1
           /\ Index(t[1], t[2]) \in 0 .. (job.block.y * job.block.x) - 1
  <1> DEFINE w == job.block.x
             h == job.block.y
             n == job.size
  <1>1. w \in Positive /\ h \in Positive /\ n \in Positive /\ n % w = 0 /\ n % h = 0
    BY DEF IsMatrix, JobOK
  <1>2. n = (n \div w) * w /\ n \div w \in Nat /\ n = (n \div h) * h /\ n \div h \in Nat
    BY <1>1, Divides DEF Positive
  <1>3. /\ b = <<b[1], b[2]>>
        /\ b[1] \in 0 .. (n \div w) - 1 /\ b[2] \in 0 .. (n \div h) - 1
        /\ t = <<t[1], t[2]>> /\ t[1] \in 0 .. w - 1 /\ t[2] \in 0 .. h - 1
    BY DEF IsMatrix, LaunchOK, MatrixGrid, Blocks, Threads, Pairs, MATRIX_SIZE
  <1> HIDE DEF w, h, n
  <1>4. b[1] * w + t[1] \in 0 .. ((n \div w) * w) - 1
    BY <1>1, <1>2, <1>3, DigitBound
  <1>5. b[2] * h + t[2] \in 0 .. ((n \div h) * h) - 1
    BY <1>1, <1>2, <1>3, DigitBound
  <1>6. t[2] * w + t[1] \in 0 .. (h * w) - 1
    BY <1>1, <1>3, DigitBound DEF Positive
  <1>7. b[1] \in Nat /\ b[2] \in Nat
    BY <1>2, <1>3
  <1>8. b[1] * w + t[1] \in 0 .. n - 1 /\ b[2] * h + t[2] \in 0 .. n - 1
    BY <1>2, <1>4, <1>5, Zenon
  <1>9. QED
    BY <1>1, <1>3, <1>6, <1>7, <1>8 DEF w, h, n, Row, Col, Index, MATRIX_SIZE

\* So it has an element of C, and a cell of each tile, to itself.
Own(b, t) == {C(Row(b, t), Col(b, t)), Shared(b, Index(t[1], t[2])),
              Shared(b, job.block.y * job.block.x + Index(t[1], t[2]))}

\* No other thread of the grid has any of them.
LEMMA OwnAlone ==
    ASSUME IsMatrix, NEW b \in Blocks, NEW c \in Blocks,
           NEW t \in Threads, NEW u \in Threads, <<b, t>> # <<c, u>>
    PROVE  Own(b, t) \cap Own(c, u) = {}
  <1> DEFINE w == job.block.x
             h == job.block.y
             n == MATRIX_SIZE
  <1>1. /\ w \in Positive /\ h \in Positive /\ n \in Positive
        /\ b = <<b[1], b[2]>> /\ t = <<t[1], t[2]>> /\ b[1] \in Nat /\ b[2] \in Nat
        /\ t[1] \in 0 .. w - 1 /\ t[2] \in 0 .. h - 1
        /\ Row(b, t) \in 0 .. n - 1 /\ Col(b, t) \in 0 .. n - 1
        /\ Index(t[1], t[2]) \in 0 .. (h * w) - 1
    BY MatrixPlaces
  <1>2. /\ c = <<c[1], c[2]>> /\ u = <<u[1], u[2]>> /\ c[1] \in Nat /\ c[2] \in Nat
        /\ u[1] \in 0 .. w - 1 /\ u[2] \in 0 .. h - 1
        /\ Row(c, u) \in 0 .. n - 1 /\ Col(c, u) \in 0 .. n - 1
        /\ Index(u[1], u[2]) \in 0 .. (h * w) - 1
    BY MatrixPlaces
  <1>3. h * w \in Int
    BY <1>1 DEF Positive
  <1> HIDE DEF w, h, n
  <1>4. C(Row(b, t), Col(b, t)) # C(Row(c, u), Col(c, u))
    <2> SUFFICES ASSUME C(Row(b, t), Col(b, t)) = C(Row(c, u), Col(c, u)) PROVE FALSE
      OBVIOUS
    <2>1. Row(b, t) * n + Col(b, t) = Row(c, u) * n + Col(c, u)
      BY DEF C, n
    <2>2. Row(b, t) = Row(c, u) /\ Col(b, t) = Col(c, u)
      BY <1>1, <1>2, <2>1, TwoDigits
    <2>3. b[2] * h + t[2] = c[2] * h + u[2] /\ b[1] * w + t[1] = c[1] * w + u[1]
      BY <2>2 DEF Row, Col, w, h
    <2>4. t[2] = u[2] /\ b[2] = c[2]
      BY <1>1, <1>2, <2>3, TwoDigits
    <2>5. t[1] = u[1] /\ b[1] = c[1]
      BY <1>1, <1>2, <2>3, TwoDigits
    <2>6. QED
      BY <1>1, <1>2, <2>4, <2>5
  <1>5. b = c => Index(t[1], t[2]) # Index(u[1], u[2])
    <2> SUFFICES ASSUME b = c, Index(t[1], t[2]) = Index(u[1], u[2]) PROVE FALSE
      OBVIOUS
    <2>1. t[2] * w + t[1] = u[2] * w + u[1]
      BY DEF Index, w
    <2>2. t[1] = u[1] /\ t[2] = u[2]
      BY <1>1, <1>2, <2>1, TwoDigits
    <2>3. QED
      BY <1>1, <1>2, <2>2
  <1>6. QED
    BY <1>1, <1>2, <1>3, <1>4, <1>5 DEF Own, C, Shared, h, w

\* The phases in which a thread adds up products: it reads the tiles, and none
\* of its block writes.
Adds(p) == job.kernel # "matrix_1" /\ p # 2 * Tiles /\ p % 2 # 0

\* A thread writes cells of its own, and reads only tiles, in the phases in
\* which it adds up products; in those it writes nothing.
LEMMA MatrixTouches ==
    ASSUME IsMatrix, NEW b \in Blocks, NEW t \in Threads
    PROVE  /\ DOMAIN EffectOf(b, t).writes \subseteq Own(b, t)
           /\ EffectOf(b, t).reads \subseteq {Shared(b, i) : i \in Int}
           /\ IF Adds(done[<<b, t>>]) THEN DOMAIN EffectOf(b, t).writes = {}
                                      ELSE EffectOf(b, t).reads = {}
  <1> DEFINE p == done[<<b, t>>]
  <1>1. job.kernel \in {"matrix_1", "matrix_2", "matrix_3"}
    BY DEF IsMatrix, MatrixVersions
  <1>2. CASE job.kernel = "matrix_1"
    <2>1. EffectOf(b, t) = MatrixKernel1(b, t)
      BY <1>2 DEF EffectOf
    <2>2. QED
      BY <1>2, <2>1 DEF MatrixKernel1, Effect, Cell, Own, Adds
  <1>3. \A k \in 0 .. job.block.y : \A x \in Int : Index(x, k) \in Int
    <2>1. job.block.x \in Nat /\ job.block.y \in Nat
      BY DEF IsMatrix, JobOK, Positive
    <2>2. QED
      BY <2>1 DEF Index
  <1>4. /\ t[1] \in Int /\ t[2] \in 0 .. job.block.y /\ job.block.y * job.block.x \in Int
    <2>1. /\ job.block.x \in Positive /\ job.block.y \in Positive
          /\ t[1] \in 0 .. job.block.x - 1 /\ t[2] \in 0 .. job.block.y - 1
      BY MatrixPlaces
    <2>2. QED
      BY <2>1 DEF Positive
  <1>5. CASE job.kernel = "matrix_2"
    <2>1. EffectOf(b, t) = MatrixKernel2(b, t, p)
      BY <1>5 DEF EffectOf
    <2>2. CASE p = 2 * Tiles
      BY <2>1, <2>2 DEF MatrixKernel2, Store, Effect, Cell, Own, Adds
    <2>3. CASE p # 2 * Tiles /\ p % 2 = 0
      BY <2>1, <2>3 DEF MatrixKernel2, Effect, Cell, Own, Adds
    <2>4. CASE p # 2 * Tiles /\ p % 2 # 0
      <3>1. \A k \in 0 .. job.block.y - 1 : Index(t[1], k) \in Int
        <4>1. job.block.y \in Nat
          BY DEF IsMatrix, JobOK, Positive
        <4>2. QED
          BY <1>3, <1>4, <4>1
      <3>2. QED
        BY <1>5, <2>1, <2>4, <3>1 DEF MatrixKernel2, Effect, Nothing, Adds
    <2>5. QED
      BY <2>2, <2>3, <2>4
  <1>6. CASE job.kernel = "matrix_3"
    <2>1. EffectOf(b, t) = MatrixKernel3(b, t, p)
      BY <1>6 DEF EffectOf
    <2>2. CASE p = 2 * Tiles
      BY <2>1, <2>2 DEF MatrixKernel3, Store, Effect, Cell, Own, Adds
    <2>3. CASE p # 2 * Tiles /\ p % 2 = 0
      BY <2>1, <2>3 DEF MatrixKernel3, Effect, Cell, Written, Own, Adds
    <2>4. CASE p # 2 * Tiles /\ p % 2 # 0
      <3>1. \A k \in 0 .. job.block.y - 1 :
                /\ Index(k, t[2]) \in Int
                /\ job.block.y * job.block.x + Index(t[1], k) \in Int
        <4>1. job.block.y \in Nat
          BY DEF IsMatrix, JobOK, Positive
        <4>2. QED
          BY <1>3, <1>4, <4>1
      <3>2. QED
        BY <1>6, <2>1, <2>4, <3>1 DEF MatrixKernel3, Effect, Nothing, Adds
    <2>5. QED
      BY <2>2, <2>3, <2>4
  <1>7. QED
    BY <1>1, <1>2, <1>5, <1>6

\* Threads of a block that may run are in the same phase.
LEMMA SamePhase ==
    ASSUME GridOK, NEW n, NEW b \in Blocks, NEW t \in Threads, NEW u \in Threads,
           <<b, t>> \in Ready(n), <<b, u>> \in Ready(n)
    PROVE  done[<<b, t>>] = done[<<b, u>>]
  <1>1. <<b, t>>[1] = b /\ <<b, u>>[1] = b /\ <<b, t>> \in Grid /\ <<b, u>> \in Grid
    BY DEF Grid
  <1>2. done[<<b, u>>] >= done[<<b, t>>] /\ done[<<b, t>>] >= done[<<b, u>>]
    BY <1>1 DEF Ready
  <1>3. QED
    BY <1>1, <1>2 DEF GridOK

\* No race in the matrix product.
LEMMA MatrixNoRace ==
    ASSUME IsMatrix, GridOK PROVE NoRace
  <1> SUFFICES ASSUME NEW g \in Ready(Phases), NEW h \in Ready(Phases), g # h
               PROVE  DOMAIN EffectOf(g[1], g[2]).writes
                      \cap (EffectOf(h[1], h[2]).reads
                            \cup DOMAIN EffectOf(h[1], h[2]).writes) = {}
    BY DEF NoRace
  <1>1. /\ g = <<g[1], g[2]>> /\ g[1] \in Blocks /\ g[2] \in Threads
        /\ h = <<h[1], h[2]>> /\ h[1] \in Blocks /\ h[2] \in Threads
    BY DEF Ready, Grid
  <1>2. Own(g[1], g[2]) \cap Own(h[1], h[2]) = {}
    BY <1>1, OwnAlone
  <1>3. /\ DOMAIN EffectOf(g[1], g[2]).writes \subseteq Own(g[1], g[2])
        /\ DOMAIN EffectOf(h[1], h[2]).writes \subseteq Own(h[1], h[2])
        /\ EffectOf(h[1], h[2]).reads \subseteq {Shared(h[1], i) : i \in Int}
    BY <1>1, MatrixTouches
  <1>4. DOMAIN EffectOf(g[1], g[2]).writes \cap EffectOf(h[1], h[2]).reads = {}
    <2>1. CASE g[1] = h[1]
      <3>1. done[g] = done[h]
        BY <1>1, <2>1, SamePhase
      <3>2. Adds(done[g]) => DOMAIN EffectOf(g[1], g[2]).writes = {}
        BY <1>1, MatrixTouches
      <3>3. ~Adds(done[h]) => EffectOf(h[1], h[2]).reads = {}
        BY <1>1, MatrixTouches
      <3>4. QED
        BY <3>1, <3>2, <3>3
    <2>2. CASE g[1] # h[1]
      <3>1. Own(g[1], g[2]) \cap {Shared(h[1], i) : i \in Int} = {}
        BY <2>2 DEF Own, Shared, C
      <3>2. QED
        BY <1>3, <3>1
    <2>3. QED
      BY <2>1, <2>2
  <1>5. QED
    BY <1>2, <1>3, <1>4
-----------------------------------------------------------------------------
(***************************************************************************)
(* The maximum.  The four kernels differ in which cell a thread takes, and *)
(* in how far the other is; all fold pairs until one cell is left.         *)
(***************************************************************************)
IsMax == JobOK /\ LaunchOK /\ job.kernel \in MaxVersions

\* cuda_1 and cuda_2 of p2 have no array in shared memory.
InGlobal == job.kernel \in {"max_1", "max_2"}

\* A round of the loop over s, and s in it.
InRounds(p) == IF InGlobal THEN p \in 0 .. Rounds - 1 ELSE p \in 1 .. Rounds
Stride(p)   == IF InGlobal THEN Up(p + 1)
               ELSE IF job.kernel = "max_3" THEN Up(p) ELSE Down(p)

\* The cells of a block are numbered, in global or in shared memory.
CellAt(b, o) == IF InGlobal THEN Arr(b[1] * blockDim + o) ELSE Shared(b, o)

\* The cell of a thread, and whether it has one.
Offset(t, s) == IF job.kernel \in {"max_1", "max_4"} THEN t[1] ELSE 2 * s * t[1]
Active(t, s) == CASE job.kernel = "max_1"            -> t[1] % (2 * s) = 0
                  [] job.kernel \in {"max_2", "max_3"} -> 2 * s * t[1] < blockDim
                  [] job.kernel = "max_4"            -> t[1] < s

\* The threads of a block are a row, and the blocks of the grid.
LEMMA MaxPlaces ==
    ASSUME IsMax
    PROVE  /\ blockDim \in Positive /\ launch.size \in Positive
           /\ \A b \in Blocks : /\ b = <<b[1], 0>> /\ b[1] \in 0 .. launch.grid.x - 1
                                /\ b[1] * blockDim \in Nat
           /\ \A t \in Threads : t = <<t[1], 0>> /\ t[1] \in 0 .. blockDim - 1
  <1>1. blockDim \in Positive /\ job.block.y = 1
    BY DEF IsMax, JobOK, blockDim
  <1>2. launch.grid.x \in Positive /\ launch.grid.y = 1 /\ launch.size \in Positive
    BY DEF IsMax, LaunchOK
  <1>3. ASSUME NEW b \in Blocks
        PROVE  /\ b = <<b[1], 0>> /\ b[1] \in 0 .. launch.grid.x - 1
               /\ b[1] * blockDim \in Nat
    <2>1. b = <<b[1], b[2]>> /\ b[1] \in 0 .. launch.grid.x - 1 /\ b[2] \in 0 .. 0
      BY <1>2 DEF Blocks, Pairs
    <2>2. b[1] \in Nat /\ blockDim \in Nat /\ b[2] = 0
      BY <1>1, <1>2, <2>1 DEF Positive
    <2>3. QED
      BY <2>1, <2>2
  <1>4. ASSUME NEW t \in Threads PROVE t = <<t[1], 0>> /\ t[1] \in 0 .. blockDim - 1
    <2>1. t = <<t[1], t[2]>> /\ t[1] \in 0 .. blockDim - 1 /\ t[2] \in 0 .. 0
      BY <1>1 DEF Threads, Pairs, blockDim
    <2>2. QED
      BY <2>1
  <1>5. QED
    BY <1>1, <1>2, <1>3, <1>4

\* blockDim is 2 to the Rounds.
LEMMA RoundsFacts ==
    ASSUME IsMax
    PROVE  Rounds \in Nat /\ blockDim = Doubled[Rounds]
  <1>1. PICK r \in Nat : blockDim = Doubled[r]
    BY DEF IsMax, JobOK, blockDim
  <1>2. r <= Doubled[r]
    <2> DEFINE S == {k \in Nat : k <= Doubled[k]}
    <2>1. 0 \in S
      BY DoubledFacts
    <2>2. \A k \in Nat : k \in S => k + 1 \in S
      <3> SUFFICES ASSUME NEW k \in Nat, k \in S PROVE k + 1 \in S
        OBVIOUS
      <3>1. Doubled[k] \in Nat \ {0} /\ Doubled[k + 1] = 2 * Doubled[k]
        BY DoubledFacts
      <3>2. QED
        BY <3>1
    <2> HIDE DEF S
    <2>3. Nat \subseteq S
      BY <2>1, <2>2, Induction
    <2>4. QED
      BY <2>3 DEF S
  <1>3. r \in 0 .. blockDim /\ Doubled[r] = blockDim
    BY <1>1, <1>2, MaxPlaces DEF Positive
  <1>4. Rounds \in 0 .. blockDim /\ Doubled[Rounds] = blockDim
    BY <1>3, Zenon DEF Rounds
  <1>5. QED
    BY <1>4, MaxPlaces DEF Positive

\* The stride of a round, doubled, divides the block.
LEMMA StrideFacts ==
    ASSUME IsMax, NEW p \in Nat, InRounds(p)
    PROVE  \E m \in Positive : Stride(p) \in Positive /\ blockDim = 2 * (Stride(p) * m)
  <1>1. Rounds \in Nat /\ blockDim = Doubled[Rounds]
    BY RoundsFacts
  <1> DEFINE q == IF InGlobal THEN p + 1 ELSE p
  <1>2. q \in 1 .. Rounds /\ q - 1 \in Nat /\ Rounds - q \in Nat
    BY <1>1 DEF InRounds
  <1>3. job.kernel # "max_4" => Stride(p) = Doubled[q - 1]
    BY DEF IsMax, MaxVersions, Stride, InGlobal, Up
  <1> HIDE DEF q
  <1>4. /\ Doubled[q - 1] \in Positive /\ Doubled[Rounds - q] \in Positive
        /\ Doubled[q] \in Positive
        /\ Doubled[q] = 2 * Doubled[q - 1]
    <2>1. (q - 1) + 1 = q /\ q \in Nat
      BY <1>2
    <2>2. QED
      BY <1>2, <2>1, DoubledFacts DEF Positive
  <1>5. blockDim = Doubled[q] * Doubled[Rounds - q]
    <2>1. q + (Rounds - q) = Rounds /\ q \in Nat
      BY <1>1, <1>2
    <2>2. QED
      BY <1>1, <1>2, <2>1, DoubledDivides
  <1> DEFINE a == Doubled[q - 1]
             c == Doubled[Rounds - q]
  <1>6. blockDim = 2 * (a * c) /\ blockDim = 2 * (c * a)
    <2>1. Doubled[q] = 2 * a /\ a \in Nat /\ c \in Nat
      BY <1>4 DEF Positive
    <2> HIDE DEF a
    <2>2. blockDim = (2 * a) * c
      BY <1>5, <2>1
    <2> HIDE DEF c
    <2>3. QED
      BY <2>1, <2>2
  <1>7. CASE job.kernel # "max_4"
    BY <1>3, <1>4, <1>6, <1>7
  <1>8. CASE job.kernel = "max_4"
    <2>1. Stride(p) = blockDim \div Doubled[q]
      BY <1>8 DEF Stride, InGlobal, Down, q
    <2>2. \A x \in Positive, y \in Positive : (x * y) \div x = y
      <3> SUFFICES ASSUME NEW x \in Positive, NEW y \in Positive
                   PROVE  (x * y) \div x = y
        OBVIOUS
      <3> DEFINE k == (x * y) \div x
                 e == (x * y) % x
      <3>1. x * y \in Nat
        BY DEF Positive
      <3>2. x * y = x * k + e /\ e \in 0 .. x - 1 /\ k \in Int
        BY <3>1 DEF Positive
      <3> HIDE DEF k, e
      <3>3. k * x + e = y * x + 0 /\ 0 \in 0 .. x - 1 /\ y \in Int
        BY <3>2 DEF Positive
      <3>4. k = y
        BY <3>2, <3>3, TwoDigits
      <3>5. QED
        BY <3>4 DEF k
    <2>3. Stride(p) = c
      BY <1>4, <1>5, <2>1, <2>2
    <2>4. QED
      BY <1>4, <1>6, <2>3
  <1>9. QED
    BY <1>7, <1>8

\* Multiples of 2s below a multiple of 2s leave room for 2s, and are not s apart.
LEMMA DoubleStrides ==
    ASSUME NEW s \in Positive, NEW k \in Nat, NEW l \in Nat, NEW m \in Nat,
           k * (2 * s) < m * (2 * s)
    PROVE  /\ k * (2 * s) + s < m * (2 * s)
           /\ k * (2 * s) # l * (2 * s) + s
  <1> DEFINE d == 2 * s
  <1>1. d \in Positive /\ s \in 0 .. d - 1 /\ 0 \in 0 .. d - 1 /\ d \in Nat /\ s < d
    BY DEF Positive
  <1> HIDE DEF d
  <1>2. k * d + s < m * d
    <2>1. k < m
      <3> SUFFICES ASSUME k >= m PROVE FALSE
        OBVIOUS
      <3>1. k - m \in Nat
        OBVIOUS
      <3>2. (k - m) * d \in Nat /\ k * d \in Nat /\ m * d \in Nat
        BY <1>1, <3>1
      <3>3. k * d = (m * d) + ((k - m) * d)
        BY <1>1
      <3>4. QED
        BY <3>2, <3>3 DEF d
    <2>2. (m - k) - 1 \in Nat
      BY <2>1
    <2>3. ((m - k) - 1) * d \in Nat /\ k * d \in Nat /\ m * d \in Nat
      BY <1>1, <2>2
    <2>4. m * d = (k * d) + d + (((m - k) - 1) * d)
      BY <1>1
    <2>5. QED
      BY <1>1, <2>3, <2>4 DEF Positive
  <1>3. k * d # l * d + s
    <2> SUFFICES ASSUME k * d + 0 = l * d + s PROVE FALSE
      BY <1>1
    <2>1. 0 = s
      BY <1>1, TwoDigits
    <2>2. QED
      BY <2>1 DEF Positive
  <1>4. QED
    BY <1>2, <1>3 DEF d

\* The threads that fold in a round take pairs of cells that have none in common.
LEMMA PairsApart ==
    ASSUME IsMax, NEW s \in Positive, NEW m \in Positive, blockDim = 2 * (s * m),
           NEW t \in Threads, Active(t, s)
    PROVE  /\ Offset(t, s) \in Nat /\ Offset(t, s) + s \in 0 .. blockDim - 1
           /\ \A u \in Threads \ {t} : Active(u, s) =>
                  /\ Offset(t, s) # Offset(u, s)
                  /\ Offset(t, s) # Offset(u, s) + s
  <1>1. /\ blockDim \in Positive
        /\ \A u \in Threads : u = <<u[1], 0>> /\ u[1] \in 0 .. blockDim - 1
    BY MaxPlaces
  <1>2. job.kernel \in {"max_1", "max_2", "max_3", "max_4"}
    BY DEF IsMax, MaxVersions
  <1>3. blockDim = m * (2 * s)
    <2>1. 2 * (s * m) = m * (2 * s)
      BY DEF Positive
    <2>2. QED
      BY <2>1
  <1>4. CASE job.kernel = "max_4"
    <2>1. s * m >= s
      <3>1. m - 1 \in Nat /\ s \in Nat
        BY DEF Positive
      <3>2. (m - 1) * s \in Nat
        BY <3>1
      <3>3. s * m = s + ((m - 1) * s)
        BY DEF Positive
      <3>4. QED
        BY <3>1, <3>2, <3>3
    <2>2. s * m \in Nat
      BY DEF Positive
    <2>3. \A u \in Threads : (Active(u, s) <=> u[1] < s) /\ Offset(u, s) = u[1]
      BY <1>4 DEF Active, Offset
    <2>4. \A u \in Threads \ {t} : u[1] # t[1]
      BY <1>1
    <2>5. QED
      BY <1>1, <2>1, <2>2, <2>3, <2>4 DEF Positive
  <1>5. ASSUME job.kernel # "max_4", NEW u \in Threads, Active(u, s)
        PROVE  \E k \in Nat : /\ Offset(u, s) = k * (2 * s)
                              /\ k * (2 * s) < m * (2 * s)
                              /\ job.kernel # "max_1" => k = u[1]
    <2>1. u[1] \in Nat /\ u[1] < blockDim
      BY <1>1 DEF Positive
    <2>2. CASE job.kernel = "max_1"
      <3> DEFINE k == u[1] \div (2 * s)
      <3>1. u[1] % (2 * s) = 0 /\ Offset(u, s) = u[1]
        BY <1>5, <2>2 DEF Active, Offset
      <3>2. 2 * s \in Positive
        BY DEF Positive
      <3>3. u[1] = k * (2 * s) /\ k \in Nat
        BY <2>1, <3>1, <3>2, Divides
      <3>4. QED
        BY <1>3, <2>1, <2>2, <3>1, <3>3
    <2>3. CASE job.kernel # "max_1"
      <3>1. Offset(u, s) = 2 * s * u[1] /\ 2 * s * u[1] < blockDim
        BY <1>2, <1>5, <2>3 DEF Active, Offset
      <3>2. 2 * s * u[1] = u[1] * (2 * s)
        BY <2>1 DEF Positive
      <3>3. QED
        BY <1>3, <2>1, <3>1, <3>2
    <2>4. QED
      BY <2>2, <2>3
  <1>6. CASE job.kernel # "max_4"
    <2>1. PICK k \in Nat : /\ Offset(t, s) = k * (2 * s)
                           /\ k * (2 * s) < m * (2 * s)
                           /\ job.kernel # "max_1" => k = t[1]
      BY <1>5, <1>6
    <2>2. k * (2 * s) + s < m * (2 * s) /\ k * (2 * s) \in Nat
      BY <2>1, DoubleStrides DEF Positive
    <2>3. Offset(t, s) \in Nat /\ Offset(t, s) + s \in 0 .. blockDim - 1
      BY <1>1, <1>3, <2>1, <2>2 DEF Positive
    <2>4. ASSUME NEW u \in Threads \ {t}, Active(u, s)
          PROVE  Offset(t, s) # Offset(u, s) /\ Offset(t, s) # Offset(u, s) + s
      <3>1. PICK l \in Nat : /\ Offset(u, s) = l * (2 * s)
                             /\ job.kernel # "max_1" => l = u[1]
        BY <1>5, <1>6, <2>4
      <3>2. Offset(t, s) # Offset(u, s) + s
        BY <2>1, <3>1, DoubleStrides DEF Positive
      <3>3. Offset(t, s) # Offset(u, s)
        <4>1. t[1] # u[1]
          BY <1>1, <2>4
        <4>2. CASE job.kernel = "max_1"
          BY <4>1, <4>2 DEF Offset
        <4>3. CASE job.kernel # "max_1"
          <5> SUFFICES ASSUME Offset(t, s) = Offset(u, s) PROVE FALSE
            OBVIOUS
          <5>1. k * (2 * s) + 0 = l * (2 * s) + 0
            BY <2>1, <3>1 DEF Positive
          <5>2. 2 * s \in Positive /\ 0 \in 0 .. (2 * s) - 1
            BY DEF Positive
          <5> HIDE DEF Offset
          <5>3. k = l
            BY <5>1, <5>2, TwoDigits
          <5>4. QED
            BY <2>1, <3>1, <4>1, <4>3, <5>3
        <4>4. QED
          BY <4>2, <4>3
      <3>4. QED
        BY <3>2, <3>3
    <2>5. QED
      BY <2>3, <2>4
  <1>7. QED
    BY <1>4, <1>6

\* What the phases of the four kernels do, in the same words.
LEMMA RoundEffect ==
    ASSUME IsMax, NEW b \in Blocks, NEW t \in Threads, NEW p \in Nat,
           p = done[<<b, t>>], InRounds(p),
           NEW s \in Positive, s = Stride(p), NEW o \in Nat, o = Offset(t, s),
           Active(t, s) => o + s < blockDim
    PROVE  EffectOf(b, t) =
               IF Active(t, s) /\ o + s < SharedSize(b)
               THEN Effect({CellAt(b, o), CellAt(b, o + s)},
                           Cell(CellAt(b, o), Value(CellAt(b, o))
                                              \cup Value(CellAt(b, o + s))), <<>>)
               ELSE Effect({}, Nothing, <<>>)
  <1>1. /\ blockDim \in Positive /\ launch.size \in Positive
        /\ b[1] * blockDim \in Nat /\ t[1] \in 0 .. blockDim - 1
    BY MaxPlaces
  <1> DEFINE base == b[1] * blockDim
  <1> DEFINE D == blockDim
  <1>2. SharedSize(b) = IF D < launch.size - base THEN D ELSE launch.size - base
    BY DEF SharedSize
  <1> HIDE DEF base, D
  <1>3. Active(t, s) => (o + s < SharedSize(b) <=> base + (o + s) < launch.size)
    BY <1>1, <1>2 DEF Positive, base, D
  <1>4. (base + o) + s = base + (o + s)
    BY <1>1 DEF Positive, base
  <1>5. Rounds \in Nat
    BY RoundsFacts
  <1>6. job.kernel \in {"max_1", "max_2", "max_3", "max_4"}
    BY DEF IsMax, MaxVersions
  <1>7. CASE job.kernel = "max_1"
    <2>1. p # Rounds /\ s = Up(p + 1) /\ o = t[1] /\ Global(b, t) = base + o
      BY <1>5, <1>7 DEF InRounds, InGlobal, Stride, Offset, Global, base
    <2>2. EffectOf(b, t) = MaxKernel1(b, t, p)
      BY <1>7 DEF EffectOf
    <2>3. EffectOf(b, t) = Fold(t[1] % (2 * s) = 0 /\ base + (o + s) < launch.size,
                                Arr(base + o), Arr(base + (o + s)))
      BY <1>4, <2>1, <2>2 DEF MaxKernel1
    <2>4. Active(t, s) <=> t[1] % (2 * s) = 0
      BY <1>7 DEF Active
    <2>5. CellAt(b, o) = Arr(base + o) /\ CellAt(b, o + s) = Arr(base + (o + s))
      BY <1>7 DEF CellAt, InGlobal, base
    <2>6. QED
      BY <1>3, <2>3, <2>4, <2>5 DEF Fold
  <1>8. CASE job.kernel = "max_2"
    <2>1. p # Rounds /\ s = Up(p + 1) /\ o = 2 * s * t[1]
      BY <1>5, <1>8 DEF InRounds, InGlobal, Stride, Offset
    <2>2. EffectOf(b, t) = MaxKernel2(b, t, p)
      BY <1>8 DEF EffectOf
    <2>3. EffectOf(b, t) = Fold(o < blockDim /\ base + (o + s) < launch.size,
                                Arr(base + o), Arr(base + (o + s)))
      BY <1>4, <2>1, <2>2 DEF MaxKernel2, base
    <2>4. Active(t, s) <=> o < blockDim
      BY <1>8, <2>1 DEF Active
    <2>5. CellAt(b, o) = Arr(base + o) /\ CellAt(b, o + s) = Arr(base + (o + s))
      BY <1>8 DEF CellAt, InGlobal, base
    <2>6. QED
      BY <1>3, <2>3, <2>4, <2>5 DEF Fold
  <1>9. CASE job.kernel = "max_3"
    <2>1. p # 0 /\ p # Rounds + 1 /\ s = Up(p) /\ o = 2 * s * t[1]
      BY <1>5, <1>9 DEF InRounds, InGlobal, Stride, Offset
    <2>2. EffectOf(b, t) = MaxKernel3(b, t, p)
      BY <1>9 DEF EffectOf
    <2>3. EffectOf(b, t) = Fold(o < blockDim /\ o + s < SharedSize(b),
                                Shared(b, o), Shared(b, o + s))
      BY <2>1, <2>2 DEF MaxKernel3
    <2>4. Active(t, s) <=> o < blockDim
      BY <1>9, <2>1 DEF Active
    <2>5. CellAt(b, o) = Shared(b, o) /\ CellAt(b, o + s) = Shared(b, o + s)
      BY <1>9 DEF CellAt, InGlobal
    <2>6. QED
      BY <2>3, <2>4, <2>5 DEF Fold
  <1>10. CASE job.kernel = "max_4"
    <2>1. p # 0 /\ p # Rounds + 1 /\ s = Down(p) /\ o = t[1]
      BY <1>5, <1>10 DEF InRounds, InGlobal, Stride, Offset
    <2>2. EffectOf(b, t) = MaxKernel4(b, t, p)
      BY <1>10 DEF EffectOf
    <2>3. EffectOf(b, t) = Fold(t[1] < s /\ o + s < SharedSize(b),
                                Shared(b, o), Shared(b, o + s))
      BY <2>1, <2>2 DEF MaxKernel4
    <2>4. Active(t, s) <=> t[1] < s
      BY <1>10 DEF Active
    <2>5. CellAt(b, o) = Shared(b, o) /\ CellAt(b, o + s) = Shared(b, o + s)
      BY <1>10 DEF CellAt, InGlobal
    <2>6. QED
      BY <2>3, <2>4, <2>5 DEF Fold
  <1>11. QED
    BY <1>6, <1>7, <1>8, <1>9, <1>10

\* The first phase, in which cuda_3 and cuda_4 fill that array, and the last one.
Loads(p) == ~InGlobal /\ p = 0
Ends(p)  == p = IF InGlobal THEN Rounds ELSE Rounds + 1

\* The first phase of cuda_3 and cuda_4: a value to its place in the array.
LEMMA LoadEffect ==
    ASSUME IsMax, NEW b \in Blocks, NEW t \in Threads, Loads(done[<<b, t>>])
    PROVE  EffectOf(b, t) =
               Effect({Arr(b[1] * blockDim + t[1])},
                      Cell(Shared(b, t[1]), Value(Arr(b[1] * blockDim + t[1]))), <<>>)
  <1>1. job.kernel \in {"max_3", "max_4"} /\ done[<<b, t>>] = 0
    BY DEF IsMax, MaxVersions, Loads, InGlobal
  <1>2. EffectOf(b, t) = Load(b, t)
    BY <1>1 DEF EffectOf, MaxKernel3, MaxKernel4
  <1>3. QED
    BY <1>2 DEF Load, Global

\* The last phase of all four: the first thread writes the maximum of the block.
LEMMA EndEffect ==
    ASSUME IsMax, NEW b \in Blocks, NEW t \in Threads, Ends(done[<<b, t>>])
    PROVE  EffectOf(b, t) =
               IF t[1] = 0
               THEN Effect({CellAt(b, 0)}, Cell(Output(b[1]), Value(CellAt(b, 0))), <<>>)
               ELSE Effect({}, Nothing, <<>>)
  <1>1. Rounds \in Nat
    BY RoundsFacts
  <1>2. CASE job.kernel = "max_1"
    BY <1>2 DEF EffectOf, MaxKernel1, Ends, InGlobal, Deliver, CellAt, Global
  <1>3. CASE job.kernel = "max_2"
    BY <1>3 DEF EffectOf, MaxKernel2, Ends, InGlobal, Deliver, CellAt, Global
  <1>4. CASE job.kernel = "max_3"
    <2>1. EffectOf(b, t) = Deliver(b, t, Shared(b, 0))
      BY <1>1, <1>4 DEF EffectOf, MaxKernel3, Ends, InGlobal
    <2>2. QED
      BY <1>4, <2>1 DEF InGlobal, Deliver, CellAt
  <1>5. CASE job.kernel = "max_4"
    <2>1. EffectOf(b, t) = Deliver(b, t, Shared(b, 0))
      BY <1>1, <1>5 DEF EffectOf, MaxKernel4, Ends, InGlobal
    <2>2. QED
      BY <1>5, <2>1 DEF InGlobal, Deliver, CellAt
  <1>6. QED
    BY <1>2, <1>3, <1>4, <1>5 DEF IsMax, MaxVersions

\* There are no phases but these.
LEMMA MaxPhase ==
    ASSUME IsMax, NEW p \in Nat, p < Phases
    PROVE  (InRounds(p) /\ ~Ends(p)) \/ (Loads(p) /\ ~Ends(p)) \/ Ends(p)
  <1>1. Rounds \in Nat
    BY RoundsFacts
  <1>2. Phases = IF InGlobal THEN Rounds + 1 ELSE Rounds + 2
    BY DEF IsMax, MaxVersions, Phases, InGlobal
  <1>3. QED
    BY <1>1, <1>2 DEF InRounds, Loads, Ends

\* The cells of a block: no other block touches them, in any phase.
Foot(b) == {Arr(b[1] * blockDim + o) : o \in 0 .. blockDim - 1}
           \cup {Output(b[1])} \cup {Shared(b, i) : i \in Nat}

\* Blocks have no cells in common.
LEMMA FootAlone ==
    ASSUME IsMax, NEW b \in Blocks, NEW c \in Blocks, b # c
    PROVE  Foot(b) \cap Foot(c) = {}
  <1>1. /\ blockDim \in Positive /\ b = <<b[1], 0>> /\ c = <<c[1], 0>>
        /\ b[1] \in Int /\ c[1] \in Int
    BY MaxPlaces
  <1>2. launch.arr # launch.output
        /\ launch.arr \in {"arr_device", "output_device"}
        /\ launch.output \in {"arr_device", "output_device"}
    BY DEF IsMax, LaunchOK
  <1>3. b[1] # c[1]
    BY <1>1
  <1>4. \A o \in 0 .. blockDim - 1, q \in 0 .. blockDim - 1 :
            Arr(b[1] * blockDim + o) # Arr(c[1] * blockDim + q)
    <2> SUFFICES ASSUME NEW o \in 0 .. blockDim - 1, NEW q \in 0 .. blockDim - 1,
                        Arr(b[1] * blockDim + o) = Arr(c[1] * blockDim + q)
                 PROVE  FALSE
      OBVIOUS
    <2>1. b[1] * blockDim + o = c[1] * blockDim + q
      BY DEF Arr
    <2>2. b[1] = c[1]
      BY <1>1, <2>1, TwoDigits
    <2>3. QED
      BY <1>3, <2>2
  <1>5. \A i, j : /\ Arr(i) # Output(j) /\ Output(b[1]) # Output(c[1])
                  /\ \A d : Arr(i) # Shared(d, j) /\ Output(i) # Shared(d, j)
                  /\ Shared(b, i) # Shared(c, j)
    BY <1>2, <1>3 DEF Arr, Output, Shared
  <1>6. QED
    BY <1>4, <1>5 DEF Foot

\* What a thread reads and writes is of its block.
LEMMA MaxTouches ==
    ASSUME IsMax, NEW b \in Blocks, NEW t \in Threads,
           done[<<b, t>>] \in Nat, done[<<b, t>>] < Phases
    PROVE  EffectOf(b, t).reads \cup DOMAIN EffectOf(b, t).writes \subseteq Foot(b)
  <1> DEFINE p == done[<<b, t>>]
  <1>1. /\ blockDim \in Positive /\ t[1] \in 0 .. blockDim - 1
    BY MaxPlaces
  <1>2. CASE InRounds(p)
    <2> DEFINE s == Stride(p)
               o == Offset(t, s)
    <2>1. PICK m \in Positive : s \in Positive /\ blockDim = 2 * (s * m)
      BY <1>2, StrideFacts
    <2>2. o \in Nat
      <3>1. t[1] \in Nat /\ s \in Nat
        BY <1>1, <2>1 DEF Positive
      <3> HIDE DEF s
      <3>2. QED
        BY <3>1 DEF Offset
    <2> HIDE DEF s, o
    <2>3. Active(t, s) => o + s \in 0 .. blockDim - 1 /\ o \in 0 .. blockDim - 1
      <3>1. Active(t, s) => o + s \in 0 .. blockDim - 1
        BY <2>1, PairsApart DEF o
      <3>2. QED
        BY <2>1, <2>2, <3>1 DEF Positive
    <2>4. Active(t, s) => o + s < blockDim
      BY <1>1, <2>1, <2>2, <2>3 DEF Positive
    <2>5. EffectOf(b, t) =
               IF Active(t, s) /\ o + s < SharedSize(b)
               THEN Effect({CellAt(b, o), CellAt(b, o + s)},
                           Cell(CellAt(b, o), Value(CellAt(b, o))
                                              \cup Value(CellAt(b, o + s))), <<>>)
               ELSE Effect({}, Nothing, <<>>)
      BY <1>2, <2>1, <2>2, <2>4, RoundEffect DEF s, o
    <2>6. \A q \in 0 .. blockDim - 1 : CellAt(b, q) \in Foot(b)
      BY DEF CellAt, Foot
    <2>7. CASE Active(t, s) /\ o + s < SharedSize(b)
      <3>1. CellAt(b, o) \in Foot(b) /\ CellAt(b, o + s) \in Foot(b)
        BY <2>3, <2>6, <2>7
      <3>2. QED
        BY <2>5, <2>7, <3>1 DEF Effect, Cell
    <2>8. CASE ~(Active(t, s) /\ o + s < SharedSize(b))
      BY <2>5, <2>8 DEF Effect, Nothing
    <2>9. QED
      BY <2>7, <2>8
  <1>3. CASE Loads(p)
    <2>1. EffectOf(b, t) =
              Effect({Arr(b[1] * blockDim + t[1])},
                     Cell(Shared(b, t[1]), Value(Arr(b[1] * blockDim + t[1]))), <<>>)
      BY <1>3, LoadEffect
    <2>2. Arr(b[1] * blockDim + t[1]) \in Foot(b) /\ Shared(b, t[1]) \in Foot(b)
      BY <1>1 DEF Foot
    <2>3. QED
      BY <2>1, <2>2 DEF Effect, Cell
  <1>4. CASE Ends(p)
    <2>1. 0 \in 0 .. blockDim - 1
      BY <1>1 DEF Positive
    <2>2. CellAt(b, 0) \in Foot(b) /\ Output(b[1]) \in Foot(b)
      BY <2>1 DEF CellAt, Foot
    <2>3. EffectOf(b, t) =
              IF t[1] = 0
              THEN Effect({CellAt(b, 0)}, Cell(Output(b[1]), Value(CellAt(b, 0))), <<>>)
              ELSE Effect({}, Nothing, <<>>)
      BY <1>4, EndEffect
    <2>4. QED
      BY <2>2, <2>3 DEF Effect, Cell, Nothing
  <1>5. QED
    BY <1>2, <1>3, <1>4, MaxPhase

\* And no thread writes what another of its block reads or writes in the phase.
LEMMA MaxApart ==
    ASSUME IsMax, NEW b \in Blocks, NEW t \in Threads, NEW u \in Threads, t # u,
           done[<<b, t>>] \in Nat, done[<<b, t>>] < Phases,
           done[<<b, t>>] = done[<<b, u>>]
    PROVE  DOMAIN EffectOf(b, t).writes
           \cap (EffectOf(b, u).reads \cup DOMAIN EffectOf(b, u).writes) = {}
  <1> DEFINE p == done[<<b, t>>]
  <1>1. /\ blockDim \in Positive
        /\ t[1] \in 0 .. blockDim - 1 /\ t = <<t[1], 0>>
        /\ u[1] \in 0 .. blockDim - 1 /\ u = <<u[1], 0>>
        /\ b[1] * blockDim \in Nat
    BY MaxPlaces
  <1>2. \A i, j : Arr(i) # Shared(b, j)
    BY DEF IsMax, LaunchOK, Arr, Shared
  <1>3. CASE InRounds(p)
    <2> DEFINE s == Stride(p)
               Fits(v) == Active(v, s) /\ Offset(v, s) + s < SharedSize(b)
               at(v) == CellAt(b, Offset(v, s))
               far(v) == CellAt(b, Offset(v, s) + s)
    <2>1. PICK m \in Positive : s \in Positive /\ blockDim = 2 * (s * m)
      BY <1>3, StrideFacts
    <2>2. ASSUME NEW v \in {t, u}
          PROVE  /\ ~Fits(v) => DOMAIN EffectOf(b, v).writes = {}
                                /\ EffectOf(b, v).reads = {}
                 /\ Fits(v) => DOMAIN EffectOf(b, v).writes = {at(v)}
                               /\ EffectOf(b, v).reads = {at(v), far(v)}
      <3>1. v \in Threads /\ p = done[<<b, v>>] /\ v[1] \in Nat /\ p \in Nat
        BY <1>1
      <3>2. Offset(v, s) \in Nat
        <4>1. s \in Nat
          BY <2>1 DEF Positive
        <4> HIDE DEF s
        <4>2. QED
          BY <3>1, <4>1 DEF Offset
      <3>3. Active(v, s) => Offset(v, s) + s < blockDim
        <4>1. Active(v, s) => Offset(v, s) + s \in 0 .. blockDim - 1
          BY <2>1, <3>1, PairsApart
        <4>2. QED
          BY <1>1, <2>1, <3>2, <4>1 DEF Positive
      <3> HIDE DEF s
      <3>4. EffectOf(b, v) =
                 IF Fits(v)
                 THEN Effect({at(v), far(v)},
                             Cell(at(v), Value(at(v)) \cup Value(far(v))), <<>>)
                 ELSE Effect({}, Nothing, <<>>)
        BY <1>3, <2>1, <3>1, <3>2, <3>3, RoundEffect DEF s
      <3> HIDE DEF at, far, Fits
      <3>5. QED
        BY <3>4 DEF Effect, Cell, Nothing
    <2>3. ASSUME Fits(t), Fits(u) PROVE at(t) # at(u) /\ at(t) # far(u)
      <3>1. Offset(t, s) \in Nat /\ Offset(u, s) \in Nat
        BY <2>1, <2>3, PairsApart
      <3>2. Offset(t, s) # Offset(u, s) /\ Offset(t, s) # Offset(u, s) + s
        <4>1. u \in Threads \ {t} /\ Active(t, s) /\ Active(u, s)
          BY <2>3
        <4> HIDE DEF s
        <4>2. QED
          BY <2>1, <4>1, PairsApart
      <3> HIDE DEF s
      <3>3. \A i, j \in Nat : CellAt(b, i) = CellAt(b, j) => i = j
        BY <1>1 DEF CellAt, Arr, Shared
      <3>4. Offset(u, s) + s \in Nat
        BY <2>1, <3>1 DEF Positive
      <3>5. QED
        BY <3>1, <3>2, <3>3, <3>4
    <2> HIDE DEF Fits, at, far, s
    <2>4. QED
      BY <2>2, <2>3
  <1>4. CASE Loads(p)
    <2>1. t[1] # u[1]
      BY <1>1
    <2>2. Shared(b, t[1]) # Shared(b, u[1])
      BY <2>1 DEF Shared
    <2>3. \A v \in {t, u} :
              EffectOf(b, v) =
                  Effect({Arr(b[1] * blockDim + v[1])},
                         Cell(Shared(b, v[1]), Value(Arr(b[1] * blockDim + v[1]))), <<>>)
      BY <1>4, LoadEffect
    <2>4. \A v \in {t, u} : /\ EffectOf(b, v).reads = {Arr(b[1] * blockDim + v[1])}
                            /\ DOMAIN EffectOf(b, v).writes = {Shared(b, v[1])}
      BY <2>3 DEF Effect, Cell
    <2>5. QED
      BY <1>2, <2>2, <2>4
  <1>5. CASE Ends(p)
    <2>1. t[1] # 0 \/ u[1] # 0
      BY <1>1
    <2>2. \A v \in {t, u} :
              EffectOf(b, v) =
                  IF v[1] = 0
                  THEN Effect({CellAt(b, 0)}, Cell(Output(b[1]), Value(CellAt(b, 0))), <<>>)
                  ELSE Effect({}, Nothing, <<>>)
      BY <1>5, EndEffect
    <2>3. \A v \in {t, u} : v[1] # 0 => /\ EffectOf(b, v).reads = {}
                                        /\ DOMAIN EffectOf(b, v).writes = {}
      BY <2>2 DEF Effect, Nothing
    <2>4. \A v \in {t, u} : v[1] = 0 => DOMAIN EffectOf(b, v).writes = {Output(b[1])}
                                       /\ EffectOf(b, v).reads = {CellAt(b, 0)}
      BY <2>2 DEF Effect, Cell
    <2>5. CellAt(b, 0) # Output(b[1])
      BY <1>2 DEF CellAt, IsMax, LaunchOK, Arr, Output, Shared
    <2>6. QED
      BY <2>1, <2>3, <2>4, <2>5
  <1>6. QED
    BY <1>3, <1>4, <1>5, MaxPhase

\* No race in the maximum.
LEMMA MaxNoRace ==
    ASSUME IsMax, GridOK PROVE NoRace
  <1> SUFFICES ASSUME NEW g \in Ready(Phases), NEW h \in Ready(Phases), g # h
               PROVE  DOMAIN EffectOf(g[1], g[2]).writes
                      \cap (EffectOf(h[1], h[2]).reads
                            \cup DOMAIN EffectOf(h[1], h[2]).writes) = {}
    BY DEF NoRace
  <1>1. /\ g = <<g[1], g[2]>> /\ g[1] \in Blocks /\ g[2] \in Threads
        /\ h = <<h[1], h[2]>> /\ h[1] \in Blocks /\ h[2] \in Threads
        /\ g \in Grid /\ h \in Grid /\ done[g] < Phases /\ done[h] < Phases
    BY DEF Ready, Grid
  <1>2. done[g] \in Nat /\ done[h] \in Nat
    BY <1>1 DEF GridOK
  <1>3. CASE g[1] = h[1]
    <2>1. done[g] = done[h]
      BY <1>1, <1>3, SamePhase
    <2>2. QED
      BY <1>1, <1>2, <1>3, <2>1, MaxApart
  <1>4. CASE g[1] # h[1]
    <2>1. Foot(g[1]) \cap Foot(h[1]) = {}
      BY <1>1, <1>4, FootAlone
    <2>2. DOMAIN EffectOf(g[1], g[2]).writes \subseteq Foot(g[1])
      BY <1>1, <1>2, MaxTouches
    <2>3. EffectOf(h[1], h[2]).reads \cup DOMAIN EffectOf(h[1], h[2]).writes
            \subseteq Foot(h[1])
      BY <1>1, <1>2, MaxTouches
    <2>4. QED
      BY <2>1, <2>2, <2>3
  <1>5. QED
    BY <1>3, <1>4
-----------------------------------------------------------------------------
(***************************************************************************)
(* Every launch is one that the lemmas are about.                          *)
(***************************************************************************)
TypesInv == JobOK /\ LaunchOK /\ GridOK

\* Values that there are, take a block.
LEMMA SomeBlocks ==
    ASSUME JobOK, NEW size \in Positive
    PROVE  num_blocks(size) \in Positive
  <1> DEFINE d == blockDim
             n == (size + d) - 1
             k == n \div d
  <1>1. d \in Positive
    BY DEF JobOK, blockDim
  <1>2. (size + d) - 1 = (size - 1) + d /\ num_blocks(size) = k
    BY <1>1 DEF Positive, num_blocks
  <1> HIDE DEF d
  <1>3. n \in Nat /\ n >= d
    BY <1>1 DEF Positive
  <1> HIDE DEF n
  <1>4. n = d * k + (n % d) /\ n % d \in 0 .. d - 1 /\ k \in Int
    BY <1>1, <1>3 DEF Positive
  <1> HIDE DEF k
  <1>5. k > 0
    <2> SUFFICES ASSUME k <= 0 PROVE FALSE
      BY <1>4
    <2>1. 0 - k \in Nat /\ d \in Nat
      BY <1>1, <1>4 DEF Positive
    <2>2. d * (0 - k) \in Nat
      BY <2>1
    <2>3. d * (0 - k) = 0 - (d * k)
      BY <1>1, <1>4 DEF Positive
    <2>4. d * k \in Int
      BY <1>1, <1>4 DEF Positive
    <2>5. QED
      BY <1>1, <1>3, <1>4, <2>2, <2>3, <2>4 DEF Positive
  <1>6. QED
    BY <1>2, <1>4, <1>5 DEF Positive

\* A launch begins with threads that have done nothing.
LEMMA FreshGrid ==
    ASSUME NEW grid PROVE Fresh(grid) \in [Pairs(grid) \X Threads -> Nat]
  BY DEF Fresh

\* The jobs of the hosts launch a grid that covers the matrix or the values.
LEMMA TypesInit == Init => TypesInv
  <1> SUFFICES ASSUME Init PROVE TypesInv
    OBVIOUS
  <1>1. GridOK
    BY FreshGrid DEF Init, GridOK, Grid, Blocks
  <1>2. CASE MatrixInit
    <2>1. PICK j \in MatrixJobs, version \in MatrixVersions :
              job = [kernel |-> version, size |-> j[1], block |-> [x |-> j[2], y |-> j[3]],
                     resident |-> j[4]]
      BY <1>2 DEF MatrixInit
    <2>2. /\ j[1] \in Positive /\ j[2] \in Positive
          /\ j[3] \in Positive /\ j[4] \in Positive
          /\ j[1] % j[2] = 0 /\ j[1] % j[3] = 0
      <3>1. 1 \in 1 .. 4 /\ 2 \in 1 .. 4 /\ 3 \in 1 .. 4 /\ 4 \in 1 .. 4
        OBVIOUS
      <3>2. QED
        BY <2>1, <3>1, JobsAssumption DEF Positive
    <2>3. job.kernel \in MatrixVersions /\ job.kernel \notin MaxVersions
      BY <2>1 DEF MatrixVersions, MaxVersions
    <2>4. JobOK
      BY <2>1, <2>2, <2>3 DEF JobOK
    <2>5. LaunchOK
      BY <1>2, <2>3 DEF LaunchOK, MatrixInit
    <2>6. QED
      BY <1>1, <2>4, <2>5 DEF TypesInv
  <1>3. CASE MaxInit
    <2>1. PICK j \in MaxJobs, version \in MaxVersions :
              job = [kernel |-> version, size |-> j[1], block |-> [x |-> j[2], y |-> 1],
                     resident |-> j[3]]
      BY <1>3 DEF MaxInit
    <2>2. /\ j[1] \in Positive /\ j[2] \in Positive /\ j[3] \in Positive
          /\ \E r \in Nat : j[2] = Doubled[r]
      <3>1. 1 \in 1 .. 3 /\ 2 \in 1 .. 3 /\ 3 \in 1 .. 3
        OBVIOUS
      <3>2. j[1] \in Positive /\ j[2] \in Positive /\ j[3] \in Positive
        BY <2>1, <3>1, JobsAssumption DEF Positive
      <3>3. \E r \in 0 .. j[2] : j[2] = Doubled[r]
        BY <2>1, JobsAssumption
      <3>4. QED
        BY <3>2, <3>3
    <2>3. job.kernel \in MaxVersions /\ job.kernel \notin MatrixVersions
      BY <2>1 DEF MatrixVersions, MaxVersions
    <2>4. JobOK
      BY <2>1, <2>2, <2>3 DEF JobOK, Positive
    <2>5. num_blocks(job.size) \in Positive /\ job.size \in Positive
      BY <2>4, SomeBlocks DEF JobOK
    <2>6. LaunchOK
      BY <1>3, <2>3, <2>5 DEF LaunchOK, MaxInit
    <2>7. QED
      BY <1>1, <2>4, <2>6 DEF TypesInv
  <1>4. QED
    BY <1>2, <1>3 DEF Init

\* Threads leave the launch alone; the next launch is on the values left.
LEMMA TypesStep == TypesInv /\ [Next]_vars => TypesInv'
  <1> SUFFICES ASSUME TypesInv, [Next]_vars PROVE TypesInv'
    OBVIOUS
  <1>1. ASSUME NEW g \in Grid, Step(g) PROVE TypesInv'
    <2>1. UNCHANGED <<job, launch>>
      BY <1>1 DEF Step
    <2>2. (JobOK /\ LaunchOK)'
      BY <2>1 DEF TypesInv, JobOK, LaunchOK, MatrixGrid, MATRIX_SIZE, num_blocks, blockDim
    <2>3. done \in [Grid -> Nat] /\ done' = [done EXCEPT ![g] = @ + 1] /\ Grid' = Grid
      BY <1>1, <2>1 DEF Step, TypesInv, GridOK, Grid, Blocks, Threads, Pairs
    <2>4. GridOK'
      <3>1. done' \in [Grid -> Nat]
        BY <2>3
      <3>2. QED
        BY <2>3, <3>1 DEF GridOK
    <2>5. QED
      BY <2>2, <2>4 DEF TypesInv
  <1>2. CASE Relaunch
    <2> DEFINE size == launch.grid.x
               next == [grid |-> [x |-> num_blocks(size), y |-> 1], size |-> size,
                        arr |-> launch.output, output |-> launch.arr]
    <2>1. /\ job.kernel \in MaxVersions /\ job' = job
          /\ launch' = next /\ done' = Fresh(next.grid)
      BY <1>2 DEF Relaunch
    <2>2. JobOK /\ JobOK' /\ job.kernel \notin MatrixVersions
      BY <2>1 DEF TypesInv, JobOK, MatrixVersions, MaxVersions
    <2>3. /\ launch.arr \in {"arr_device", "output_device"}
          /\ launch.output \in {"arr_device", "output_device"}
          /\ launch.arr # launch.output /\ size \in Positive
      BY <2>1 DEF TypesInv, LaunchOK
    <2>4. num_blocks(size) \in Positive
      BY <2>2, <2>3, SomeBlocks
    <2>5. LaunchOK'
      BY <2>1, <2>2, <2>3, <2>4 DEF LaunchOK, num_blocks, blockDim
    <2>6. GridOK'
      <3>1. Grid' = Pairs(next.grid) \X Threads
        BY <2>1 DEF Grid, Blocks, Threads, Pairs
      <3> HIDE DEF next
      <3>2. done' \in [Pairs(next.grid) \X Threads -> Nat]
        BY <2>1, FreshGrid
      <3>3. QED
        BY <3>1, <3>2 DEF GridOK
    <2>7. QED
      BY <2>2, <2>5, <2>6 DEF TypesInv
  <1>3. CASE UNCHANGED <<job, launch, done>>
    BY <1>3 DEF TypesInv, JobOK, LaunchOK, GridOK, MatrixGrid, MATRIX_SIZE, num_blocks,
                blockDim, Grid, Blocks, Threads, Pairs
  <1>4. QED
    BY <1>1, <1>2, <1>3 DEF Next, Return, Exit, vars, device

\* Whatever a host of assignment-4 launches has a block for every value of its
\* job, one that divides the matrix or is a power of two, and two buffers.
THEOREM Invariant == Safety => []TypesInv
  BY TypesInit, TypesStep, PTL DEF Safety

\* In such a launch no two threads race, whichever of them can run.
LEMMA TypesNoRace == TypesInv => NoRace
  <1> SUFFICES ASSUME TypesInv PROVE NoRace
    OBVIOUS
  <1>1. CASE job.kernel \in MatrixVersions
    BY <1>1, MatrixNoRace DEF TypesInv, IsMatrix
  <1>2. CASE job.kernel \in MaxVersions
    BY <1>2, MaxNoRace DEF TypesInv, IsMax
  <1>3. QED
    BY <1>1, <1>2 DEF TypesInv, JobOK

\* NoRace, for matrices and blocks of any size that divides them, any number of
\* values, and blocks of any power of two: the barriers of the seven kernels are
\* enough, and no two blocks touch one cell.
THEOREM RaceFree == Safety => []NoRace
  BY Invariant, TypesNoRace, PTL
-----------------------------------------------------------------------------
(***************************************************************************)
(* What a step does.                                                       *)
(***************************************************************************)
\* No thread goes further than the last phase, and threads of a block are a phase
\* apart at most.
RunInv ==
    /\ \A g \in Grid : done[g] <= Phases
    /\ \A b \in Blocks : \A t, u \in Threads : done[<<b, u>>] <= done[<<b, t>>] + 1
    /\ result = [g \in Grid |-> result[g]]

\* A thread of block b that runs its next phase, p.
Runs(b, t, p) ==
    /\ b \in Blocks /\ t \in Threads /\ p \in Nat /\ p < Phases /\ p = done[<<b, t>>]
    /\ \A u \in Threads : done[<<b, u>>] \in {p, p + 1}
    /\ mem' = Written(EffectOf(b, t).writes, mem)
    /\ done'[<<b, t>>] = p + 1
    /\ result'[<<b, t>>] = EffectOf(b, t).result
    /\ \A h \in Grid : h # <<b, t>> => done'[h] = done[h] /\ result'[h] = result[h]
    /\ job' = job /\ launch' = launch /\ res' = res

\* A kernel has a number of phases.
LEMMA PhasesNat == TypesInv => Phases \in Nat
  <1> SUFFICES ASSUME TypesInv PROVE Phases \in Nat
    OBVIOUS
  <1>1. CASE job.kernel \in MatrixVersions
    <2>1. MATRIX_SIZE \in Positive /\ job.block.y \in Positive
          /\ job.size % job.block.y = 0
      BY <1>1 DEF TypesInv, JobOK, MATRIX_SIZE
    <2>2. Tiles \in Nat
      BY <2>1, Divides DEF Tiles, MATRIX_SIZE, Positive
    <2>3. QED
      BY <1>1, <2>2 DEF Phases, MatrixVersions
  <1>2. CASE job.kernel \in MaxVersions
    <2>1. Rounds \in Nat
      BY <1>2, RoundsFacts DEF TypesInv, IsMax
    <2>2. QED
      BY <1>2, <2>1 DEF Phases, MaxVersions
  <1>3. QED
    BY <1>1, <1>2 DEF TypesInv, JobOK

\* The step of a thread that the barriers let run.
LEMMA StepRuns ==
    ASSUME TypesInv, RunInv, NEW g \in Grid, Step(g)
    PROVE  /\ g = <<g[1], g[2]>>
           /\ Runs(g[1], g[2], done[g])
  <1>1. /\ g = <<g[1], g[2]>> /\ g[1] \in Blocks /\ g[2] \in Threads
    BY DEF Grid
  <1>2. \A h \in Grid : done[h] \in Nat
    BY DEF TypesInv, GridOK
  <1>3. /\ done[g] < Phases /\ \A u \in Threads : done[<<g[1], u>>] >= done[g]
    BY DEF Step, Ready
  <1>4. \A u \in Threads : <<g[1], u>> \in Grid /\ done[<<g[1], u>>] <= done[g] + 1
    BY <1>1 DEF RunInv, Grid
  <1>5. \A u \in Threads : done[<<g[1], u>>] \in {done[g], done[g] + 1}
    BY <1>2, <1>3, <1>4
  <1>6. /\ mem' = Written(EffectOf(g[1], g[2]).writes, mem)
        /\ result' = [result EXCEPT ![g] = EffectOf(g[1], g[2]).result]
        /\ done' = [done EXCEPT ![g] = @ + 1]
        /\ job' = job /\ launch' = launch /\ res' = res
    BY DEF Step
  <1>7. DOMAIN done = Grid /\ DOMAIN result = Grid
    BY DEF TypesInv, GridOK, RunInv
  <1>8. QED
    BY <1>1, <1>2, <1>3, <1>5, <1>6, <1>7 DEF Runs

\* What is written is there afterwards, and all else is as it was.
LEMMA RunsWrites ==
    ASSUME NEW b, NEW t, NEW p, Runs(b, t, p)
    PROVE  LET w == EffectOf(b, t).writes
           IN  /\ DOMAIN mem' = DOMAIN w \cup DOMAIN mem
               /\ \A c \in DOMAIN w : mem'[c] = w[c]
               /\ \A c \in DOMAIN mem : c \notin DOMAIN w => mem'[c] = mem[c]
  BY DEF Runs, Written

\* A step of a thread leaves the grid as it is.
LEMMA SameGrid ==
    ASSUME job' = job, launch' = launch
    PROVE  /\ Grid' = Grid /\ Blocks' = Blocks /\ Threads' = Threads /\ Phases' = Phases
  BY DEF Grid, Blocks, Threads, Pairs, Phases, Tiles, MATRIX_SIZE, Rounds, blockDim

\* At first no thread has ended a phase.
LEMMA RunInit == Init /\ TypesInv => RunInv
  <1> SUFFICES ASSUME Init, TypesInv PROVE RunInv
    OBVIOUS
  <1>1. done = [g \in Grid |-> 0] /\ result = [g \in Grid |-> <<>>]
    BY DEF Init, Fresh, Grid, Blocks
  <1>2. \A b \in Blocks : \A t \in Threads : <<b, t>> \in Grid
    BY DEF Grid
  <1>3. QED
    BY <1>1, <1>2, PhasesNat DEF RunInv

\* The barriers keep the threads of a block together, and a new launch starts afresh.
LEMMA RunStep == TypesInv /\ TypesInv' /\ RunInv /\ [Next]_vars => RunInv'
  <1>0. (TypesInv => Phases \in Nat)'
    BY PhasesNat, PTL
  <1> SUFFICES ASSUME TypesInv, TypesInv', RunInv, [Next]_vars PROVE RunInv'
    OBVIOUS
  <1>1. ASSUME NEW g \in Grid, Step(g) PROVE RunInv'
    <2> DEFINE b == g[1]
               t == g[2]
    <2>1. g = <<b, t>> /\ Runs(b, t, done[g])
      BY <1>1, StepRuns
    <2>2. /\ Grid' = Grid /\ Blocks' = Blocks /\ Threads' = Threads /\ Phases' = Phases
      BY <2>1, SameGrid DEF Runs
    <2>3. \A h \in Grid : done[h] \in Nat /\ done'[h] = IF h = g THEN done[g] + 1 ELSE done[h]
      BY <2>1 DEF Runs, TypesInv, GridOK
    <2>4. Phases \in Nat /\ done[g] < Phases
      BY <2>1, PhasesNat DEF Runs
    <2>5. \A h \in Grid : done'[h] <= Phases
      BY <2>3, <2>4 DEF RunInv
    <2>6. ASSUME NEW c \in Blocks, NEW u \in Threads, NEW v \in Threads
          PROVE  done'[<<c, v>>] <= done'[<<c, u>>] + 1
      <3>1. <<c, u>> \in Grid /\ <<c, v>> \in Grid
        BY DEF Grid
      <3>2. done[<<c, v>>] <= done[<<c, u>>] + 1
        BY DEF RunInv
      <3>3. c = b => /\ done[<<c, u>>] \in {done[g], done[g] + 1}
                     /\ done[<<c, v>>] \in {done[g], done[g] + 1}
        BY <2>1 DEF Runs
      <3>4. c # b => <<c, u>> # g /\ <<c, v>> # g
        BY <2>1
      <3>5. QED
        BY <2>3, <3>1, <3>2, <3>3, <3>4
    <2>7. result' = [h \in Grid |-> result'[h]]
      BY <1>1 DEF Step, RunInv
    <2>8. QED
      BY <2>2, <2>5, <2>6, <2>7 DEF RunInv
  <1>2. CASE Relaunch
    <2> DEFINE size == launch.grid.x
               next == [grid |-> [x |-> num_blocks(size), y |-> 1], size |-> size,
                        arr |-> launch.output, output |-> launch.arr]
    <2>1. /\ job' = job /\ launch' = next /\ done' = Fresh(next.grid)
          /\ result' = [g \in Pairs(next.grid) \X Threads |-> <<>>]
      BY <1>2 DEF Relaunch
    <2>2. Grid' = Pairs(next.grid) \X Threads /\ Grid' = Blocks' \X Threads'
      BY <2>1 DEF Grid, Blocks, Threads, Pairs
    <2> HIDE DEF next
    <2>3. done' = [g \in Grid' |-> 0] /\ result' = [g \in Grid' |-> <<>>]
      BY <2>1, <2>2 DEF Fresh
    <2>4. Phases' \in Nat
      BY <1>0
    <2>5. \A c \in Blocks', u \in Threads' : <<c, u>> \in Grid'
      BY <2>2
    <2>6. QED
      BY <2>3, <2>4, <2>5 DEF RunInv
  <1>3. CASE UNCHANGED <<job, launch, done, result>>
    BY <1>3, SameGrid DEF RunInv
  <1>4. QED
    BY <1>1, <1>2, <1>3 DEF Next, Return, Exit, vars, device
-----------------------------------------------------------------------------
(***************************************************************************)
(* What the matrix product computes.                                       *)
(***************************************************************************)
Tiled  == job.kernel \in {"matrix_2", "matrix_3"}
Narrow == job.kernel = "matrix_3" /\ job.block.x < job.block.y

\* The first n products of an element.
Products(r, c, n) == [k \in 1 .. n |-> <<A(r, k - 1), B(k - 1, c)>>]

Holds(c, v) == c \in DOMAIN mem /\ mem[c] = v

\* The tile that a thread has loaded last, in its own cells.
TileOK(b, t, p) ==
    LET i == Index(t[1], t[2])
        n == Base(p - 1)
    IN  /\ job.kernel = "matrix_2" => Holds(Shared(b, i), B(n + t[2], Col(b, t)))
        /\ job.kernel = "matrix_3" =>
               /\ Holds(Shared(b, i), A(Row(b, t), n + t[1]))
               /\ Holds(Shared(b, job.block.y * job.block.x + i),
                        B(n + t[2], Col(b, t)))

\* The first thread of the first block.
First(b, t) == b = <<0, 0>> /\ t = <<0, 0>>

\* Where a narrow block goes wrong: the tile of A ends, and the next row begins.
Wrong(s) == s[job.block.x + 1][1] = A(1, 0)

\* A sequence of length n.
Long(s, n) == s = [k \in 1 .. n |-> s[k]]

\* The sum of the products so far.
SumOK(b, t, p) ==
    LET s == result[<<b, t>>]
    IN  /\ Long(s, Base(p))
        /\ ~Narrow => s = Products(Row(b, t), Col(b, t), Base(p))
        /\ Narrow /\ First(b, t) /\ p >= 2 => Wrong(s)

StoreOK(b, t) ==
    LET c == C(Row(b, t), Col(b, t))
    IN  /\ c \in DOMAIN mem
        /\ ~Narrow => mem[c] = serial_version(Row(b, t), Col(b, t))
        /\ Narrow /\ First(b, t) => Wrong(mem[c])

ThreadOK(b, t, p) ==
    /\ Tiled /\ p \in 1 .. 2 * Tiles => TileOK(b, t, p)
    /\ Tiled /\ p <= 2 * Tiles => SumOK(b, t, p)
    /\ p = Phases => StoreOK(b, t)

MatrixOK ==
    job.kernel \in MatrixVersions =>
        \A b \in Blocks, t \in Threads : ThreadOK(b, t, done[<<b, t>>])

\* A tile after another: loads and additions take turns.
LEMMA BaseFacts ==
    ASSUME IsMatrix
    PROVE  /\ Tiles \in Positive /\ Base(0) = 0 /\ Base(2 * Tiles) = MATRIX_SIZE
           /\ \A p \in Nat :
                  /\ Base(p) \in Nat
                  /\ p % 2 = 0 => Base(p + 1) = Base(p)
                  /\ p % 2 # 0 => /\ Base(p + 1) = Base(p) + job.block.y
                                  /\ p >= 1 /\ Base(p - 1) = Base(p)
                  /\ p >= 2 => Base(p) >= job.block.y
  <1> DEFINE h == job.block.y
  <1>1. h \in Positive /\ MATRIX_SIZE \in Positive /\ MATRIX_SIZE % h = 0
    BY DEF IsMatrix, JobOK, MATRIX_SIZE
  <1>2. MATRIX_SIZE = Tiles * h /\ Tiles \in Nat
    BY <1>1, Divides DEF Tiles, Positive
  <1> HIDE DEF h
  <1>3. Tiles # 0
    BY <1>1, <1>2 DEF Positive
  <1>4. \A p \in Nat : Base(p) = (p \div 2) * h
    BY DEF Base, h
  <1>5. Base(0) = 0
    <2>1. 0 \div 2 = 0
      OBVIOUS
    <2>2. QED
      BY <1>1, <1>4, <2>1 DEF Positive
  <1>6. Base(2 * Tiles) = MATRIX_SIZE
    <2>1. (2 * Tiles) \div 2 = Tiles /\ 2 * Tiles \in Nat
      BY <1>2
    <2>2. QED
      BY <1>2, <1>4, <2>1
  <1>7. ASSUME NEW p \in Nat
        PROVE  /\ Base(p) \in Nat
               /\ p % 2 = 0 => Base(p + 1) = Base(p)
               /\ p % 2 # 0 => /\ Base(p + 1) = Base(p) + h
                               /\ p >= 1 /\ Base(p - 1) = Base(p)
               /\ p >= 2 => Base(p) >= h
    <2> DEFINE q == p \div 2
    <2>1. q \in Nat /\ p = 2 * q + (p % 2) /\ p % 2 \in {0, 1}
      OBVIOUS
    <2>2. p % 2 = 0 => (p + 1) \div 2 = q
      BY <2>1
    <2>3. p % 2 # 0 => (p + 1) \div 2 = q + 1 /\ p >= 1 /\ (p - 1) \div 2 = q
      BY <2>1
    <2>4. p >= 2 => q - 1 \in Nat
      BY <2>1
    <2> HIDE DEF q
    <2>5. Base(p) = q * h /\ q * h \in Nat /\ (q + 1) * h = q * h + h
      BY <1>1, <1>4, <2>1 DEF q, Positive
    <2>6. p >= 2 => (q - 1) * h \in Nat /\ q * h = (q - 1) * h + h
      BY <1>1, <2>1, <2>4 DEF Positive
    <2>7. p + 1 \in Nat /\ (p >= 1 => p - 1 \in Nat)
      OBVIOUS
    <2>8. p % 2 = 0 => Base(p + 1) = Base(p)
      BY <1>4, <2>2, <2>5, <2>7
    <2>9. p % 2 # 0 => /\ Base(p + 1) = Base(p) + h
                       /\ p >= 1 /\ Base(p - 1) = Base(p)
      BY <1>4, <2>3, <2>5, <2>7
    <2>10. p >= 2 => Base(p) >= h
      BY <1>1, <2>5, <2>6 DEF Positive
    <2>11. QED
      BY <2>5, <2>8, <2>9, <2>10
  <1>8. QED
    BY <1>2, <1>3, <1>5, <1>6, <1>7 DEF h, Positive

\* One sequence behind another.
LEMMA Behind ==
    ASSUME NEW m \in Nat, NEW n \in Nat, NEW r, NEW s, Long(r, m), Long(s, n)
    PROVE  /\ r \o s = [k \in 1 .. m + n |-> IF k <= m THEN r[k] ELSE s[k - m]]
           /\ Long(r \o s, m + n)
  <1>1. Len(r) = m /\ Len(s) = n
    <2>1. \A k \in Nat : \A q : q = [j \in 1 .. k |-> q[j]] => Len(q) = k
      OBVIOUS
    <2>2. QED
      BY <2>1 DEF Long
  <1>2. r \o s = [k \in 1 .. Len(r) + Len(s) |-> IF k <= Len(r) THEN r[k] ELSE s[k - Len(r)]]
    BY DEF Long
  <1>3. r \o s = [k \in 1 .. m + n |-> IF k <= m THEN r[k] ELSE s[k - m]]
    BY <1>1, <1>2
  <1>4. \A q : q = [k \in 1 .. m + n |-> IF k <= m THEN r[k] ELSE s[k - m]]
                   => Long(q, m + n)
    BY DEF Long
  <1>5. QED
    BY <1>3, <1>4, Zenon

\* The names of cells and rows do not change with a step.
LEMMA SameNames ==
    ASSUME job' = job
    PROVE  /\ MATRIX_SIZE' = MATRIX_SIZE /\ Tiles' = Tiles
           /\ Tiled' = Tiled /\ Narrow' = Narrow
           /\ \A r, c : A(r, c)' = A(r, c) /\ B(r, c)' = B(r, c) /\ C(r, c)' = C(r, c)
           /\ \A r, c : serial_version(r, c)' = serial_version(r, c)
           /\ \A r, c, n : Products(r, c, n)' = Products(r, c, n)
           /\ \A b, t : Row(b, t)' = Row(b, t) /\ Col(b, t)' = Col(b, t)
           /\ \A p : Base(p)' = Base(p)
           /\ \A x, y : Index(x, y)' = Index(x, y)
           /\ \A s : Wrong(s)' = Wrong(s)
           /\ \A s, n : Long(s, n)' = Long(s, n)
  <1>1. MATRIX_SIZE' = MATRIX_SIZE /\ Tiles' = Tiles /\ Tiled' = Tiled /\ Narrow' = Narrow
    BY DEF MATRIX_SIZE, Tiles, Tiled, Narrow
  <1>2. \A r, c : A(r, c)' = A(r, c) /\ B(r, c)' = B(r, c) /\ C(r, c)' = C(r, c)
    BY <1>1 DEF A, B, C
  <1>3. \A r, c : serial_version(r, c)' = serial_version(r, c)
    BY <1>1, <1>2 DEF serial_version
  <1>4. \A r, c, n : Products(r, c, n)' = Products(r, c, n)
    BY <1>2 DEF Products
  <1>5. QED
    BY <1>1, <1>2, <1>3, <1>4 DEF Row, Col, Base, Index, Wrong, Long

\* What a thread has, no other takes away.
LEMMA OthersKept ==
    ASSUME IsMatrix, NEW b, NEW t, NEW p, Runs(b, t, p),
           NEW c \in Blocks, NEW u \in Threads, NEW q, <<c, u>> # <<b, t>>,
           ThreadOK(c, u, q)
    PROVE  ThreadOK(c, u, q)'
  <1>1. b \in Blocks /\ t \in Threads /\ job' = job /\ launch' = launch
    BY DEF Runs
  <1>2. Own(c, u) \cap DOMAIN EffectOf(b, t).writes = {}
    <2>1. Own(b, t) \cap Own(c, u) = {}
      BY <1>1, OwnAlone
    <2>2. DOMAIN EffectOf(b, t).writes \subseteq Own(b, t)
      BY <1>1, MatrixTouches
    <2>3. QED
      BY <2>1, <2>2
  <1>3. ASSUME NEW x \in Own(c, u), x \in DOMAIN mem
        PROVE  x \in DOMAIN mem' /\ mem'[x] = mem[x]
    <2> DEFINE w == EffectOf(b, t).writes
    <2>1. x \notin DOMAIN w /\ EffectOf(b, t).writes = w
      BY <1>2
    <2> HIDE DEF w
    <2>2. QED
      BY <1>3, <2>1, RunsWrites
  <1>4. result'[<<c, u>>] = result[<<c, u>>]
    BY DEF Runs, Grid
  <1>5. Phases' = Phases
    BY <1>1, SameGrid
  <1>6. job.block' = job.block /\ job.kernel' = job.kernel
    BY <1>1
  <1>7. TileOK(c, u, q) => TileOK(c, u, q)'
    BY <1>1, <1>3, <1>6, SameNames DEF TileOK, Holds, Own, Shared
  <1>8. SumOK(c, u, q) => SumOK(c, u, q)'
    BY <1>1, <1>4, SameNames DEF SumOK, First
  <1>9. StoreOK(c, u) => StoreOK(c, u)'
    <2>1. C(Row(c, u), Col(c, u)) \in Own(c, u)
      BY DEF Own
    <2>2. QED
      BY <1>1, <1>3, <2>1, SameNames DEF StoreOK, First
  <1>10. QED
    BY <1>1, <1>5, <1>7, <1>8, <1>9, SameNames DEF ThreadOK

\* cuda_1, and the last phase of the others: an element is stored.
LEMMA StoreStep ==
    ASSUME IsMatrix, NEW b, NEW t, NEW p, Runs(b, t, p), ThreadOK(b, t, p),
           ~Tiled \/ p = 2 * Tiles
    PROVE  ThreadOK(b, t, p + 1)'
  <1> DEFINE c == C(Row(b, t), Col(b, t))
             v == IF Tiled THEN result[<<b, t>>] ELSE serial_version(Row(b, t), Col(b, t))
  <1>0. Tiled => p = 2 * Tiles /\ p <= 2 * Tiles
    <2>1. 2 * Tiles \in Nat
      BY BaseFacts DEF Positive
    <2>2. QED
      BY <2>1
  <1>1. b \in Blocks /\ t \in Threads /\ job' = job /\ launch' = launch /\ p \in Nat
        /\ p < Phases /\ p = done[<<b, t>>]
        /\ mem' = Written(EffectOf(b, t).writes, mem)
    BY DEF Runs
  <1>2. job.kernel \in {"matrix_1", "matrix_2", "matrix_3"}
    BY DEF IsMatrix, MatrixVersions
  <1>3. EffectOf(b, t).writes = Cell(c, v)
    <2>1. CASE job.kernel = "matrix_1"
      BY <2>1 DEF EffectOf, MatrixKernel1, Effect, Tiled, serial_version
    <2>2. CASE job.kernel = "matrix_2"
      BY <1>1, <2>2 DEF EffectOf, MatrixKernel2, Effect, Tiled, Store
    <2>3. CASE job.kernel = "matrix_3"
      BY <1>1, <2>3 DEF EffectOf, MatrixKernel3, Effect, Tiled, Store
    <2>4. QED
      BY <1>2, <2>1, <2>2, <2>3
  <1> HIDE DEF c, v
  <1>4. c \in DOMAIN mem' /\ mem'[c] = v
    <2> DEFINE w == Cell(c, v)
    <2>1. c \in DOMAIN w /\ w[c] = v /\ EffectOf(b, t).writes = w
      BY <1>3 DEF Cell
    <2> HIDE DEF w
    <2>2. DOMAIN mem' = DOMAIN w \cup DOMAIN mem /\ \A x \in DOMAIN w : mem'[x] = w[x]
      BY <2>1, RunsWrites
    <2>3. QED
      BY <2>1, <2>2
  <1>5. ~Narrow => v = serial_version(Row(b, t), Col(b, t))
    <2>1. CASE Tiled
      <3>1. SumOK(b, t, p) /\ p = 2 * Tiles
        BY <1>0, <2>1 DEF ThreadOK
      <3>2. Base(p) = MATRIX_SIZE
        BY <3>1, BaseFacts
      <3>3. QED
        BY <2>1, <3>1, <3>2 DEF SumOK, Products, serial_version, v
    <2>2. QED
      BY <2>1 DEF v
  <1>6. Narrow /\ First(b, t) => Wrong(v)
    <2> SUFFICES ASSUME Narrow, First(b, t) PROVE Wrong(v)
      OBVIOUS
    <2>1. Tiled
      BY DEF Narrow, Tiled
    <2>2. SumOK(b, t, p) /\ p = 2 * Tiles
      BY <1>0, <2>1 DEF ThreadOK
    <2>3. p >= 2
      BY <2>2, BaseFacts DEF Positive
    <2>4. QED
      BY <2>1, <2>2, <2>3 DEF SumOK, v
  <1>7. StoreOK(b, t)'
    BY <1>1, <1>4, <1>5, <1>6, SameNames DEF StoreOK, First, c
  <1>8. ~(Tiled /\ p + 1 <= 2 * Tiles)
    <2>1. Tiles \in Nat
      BY BaseFacts DEF Positive
    <2>2. QED
      BY <1>1, <2>1
  <1>9. p + 1 \notin 1 .. 2 * Tiles \/ ~Tiled
    <2>1. Tiles \in Nat
      BY BaseFacts DEF Positive
    <2>2. QED
      BY <1>1, <1>8, <2>1
  <1>10. QED
    BY <1>1, <1>7, <1>8, <1>9, SameNames DEF ThreadOK

\* A tile is loaded.
LEMMA LoadStep ==
    ASSUME IsMatrix, NEW b, NEW t, NEW p, Runs(b, t, p), ThreadOK(b, t, p),
           Tiled, p # 2 * Tiles, p % 2 = 0
    PROVE  ThreadOK(b, t, p + 1)'
  <1> DEFINE x == t[1]
             y == t[2]
             i == Index(x, y)
             n == Base(p)
             a == Shared(b, i)
             d == Shared(b, job.block.y * job.block.x + i)
             va == A(Row(b, t), n + x)
             vb == B(n + y, Col(b, t))
  <1>1. b \in Blocks /\ t \in Threads /\ job' = job /\ launch' = launch /\ p \in Nat
        /\ p < Phases /\ p = done[<<b, t>>]
        /\ mem' = Written(EffectOf(b, t).writes, mem)
        /\ result'[<<b, t>>] = EffectOf(b, t).result
    BY DEF Runs
  <1>2. Phases = 2 * Tiles + 1 /\ Tiles \in Nat /\ Base(p + 1) = Base(p)
        /\ Base((p + 1) - 1) = n
    <2>1. (p + 1) - 1 = p
      BY <1>1
    <2>2. QED
      BY <1>1, <2>1, BaseFacts DEF Phases, Tiled, Positive
  <1>3. SumOK(b, t, p)
    BY <1>1, <1>2 DEF ThreadOK
  <1>4. EffectOf(b, t).result = result[<<b, t>>]
    <2>1. CASE job.kernel = "matrix_2"
      BY <1>1, <2>1 DEF EffectOf, MatrixKernel2, Effect
    <2>2. CASE job.kernel = "matrix_3"
      BY <1>1, <2>2 DEF EffectOf, MatrixKernel3, Effect
    <2>3. QED
      BY <2>1, <2>2 DEF Tiled
  <1>5. TileOK(b, t, p + 1)'
    <2>1. CASE job.kernel = "matrix_2"
      <3>1. EffectOf(b, t).writes = Cell(a, vb)
        BY <1>1, <2>1 DEF EffectOf, MatrixKernel2, Effect
      <3> HIDE DEF a, vb
      <3> DEFINE w == Cell(a, vb)
      <3>2. a \in DOMAIN w /\ w[a] = vb /\ EffectOf(b, t).writes = w
        BY <3>1 DEF Cell
      <3> HIDE DEF w
      <3>3. a \in DOMAIN mem' /\ mem'[a] = vb
        <4>1. DOMAIN mem' = DOMAIN w \cup DOMAIN mem /\ \A c \in DOMAIN w : mem'[c] = w[c]
          BY <3>2, RunsWrites
        <4>2. QED
          BY <3>2, <4>1
      <3>4. QED
        BY <1>1, <1>2, <2>1, <3>3, SameNames DEF TileOK, Holds, Shared, a, vb
    <2>2. CASE job.kernel = "matrix_3"
      <3>1. EffectOf(b, t).writes = Written(Cell(a, va), Cell(d, vb))
        BY <1>1, <2>2 DEF EffectOf, MatrixKernel3, Effect
      <3>2. a # d
        <4>1. job.block.y * job.block.x \in Nat \ {0} /\ i \in Nat
          <5>1. /\ job.block.y \in Positive /\ job.block.x \in Positive
                /\ i \in 0 .. (job.block.y * job.block.x) - 1
            BY <1>1, MatrixPlaces
          <5> HIDE DEF i
          <5>2. QED
            BY <5>1 DEF Positive
        <4> HIDE DEF i
        <4>2. QED
          BY <4>1 DEF Shared
      <3> HIDE DEF a, d, va, vb
      <3>3. /\ DOMAIN Cell(a, va) = {a} /\ Cell(a, va)[a] = va
            /\ DOMAIN Cell(d, vb) = {d} /\ Cell(d, vb)[d] = vb
        BY DEF Cell
      <3> DEFINE w == Written(Cell(a, va), Cell(d, vb))
      <3>4. /\ DOMAIN w = {a, d} /\ w[a] = va /\ w[d] = vb
            /\ EffectOf(b, t).writes = w
        BY <3>1, <3>2, <3>3 DEF Written
      <3> HIDE DEF w
      <3>5. /\ a \in DOMAIN mem' /\ mem'[a] = va
            /\ d \in DOMAIN mem' /\ mem'[d] = vb
        <4>1. /\ EffectOf(b, t).writes[a] = va /\ EffectOf(b, t).writes[d] = vb
              /\ a \in DOMAIN EffectOf(b, t).writes /\ d \in DOMAIN EffectOf(b, t).writes
          BY <3>4
        <4>2. /\ DOMAIN mem' = DOMAIN EffectOf(b, t).writes \cup DOMAIN mem
              /\ \A q \in DOMAIN EffectOf(b, t).writes : mem'[q] = EffectOf(b, t).writes[q]
          BY RunsWrites
        <4>3. QED
          BY <4>1, <4>2
      <3>6. QED
        BY <1>1, <1>2, <2>2, <3>5, SameNames DEF TileOK, Holds, Shared, a, d, va, vb
    <2>3. QED
      BY <2>1, <2>2 DEF Tiled
  <1>6. SumOK(b, t, p + 1)'
    <2>1. p >= 2 \/ p + 1 < 2
      BY <1>1
    <2>2. QED
      BY <1>1, <1>2, <1>3, <1>4, <2>1, SameNames DEF SumOK, First
  <1>7. p + 1 # Phases
    BY <1>1, <1>2
  <1>8. Phases' = Phases
    BY <1>1, SameGrid
  <1>9. QED
    BY <1>5, <1>6, <1>7, <1>8 DEF ThreadOK

\* The products that a phase adds.
Added(b, t, p) ==
    LET x == t[1]
        y == t[2]
    IN  [k \in 1 .. job.block.y |->
            <<IF job.kernel = "matrix_2" THEN A(Row(b, t), Base(p) + k - 1)
              ELSE Element(Shared(b, Index(k - 1, y))),
              Element(Shared(b, IF job.kernel = "matrix_2" THEN Index(x, k - 1)
                                ELSE job.block.y * job.block.x + Index(x, k - 1)))>>]

\* Both kernels with tiles add, and write nothing, in the phases between two loads.
LEMMA AddEffect ==
    ASSUME IsMatrix, NEW b, NEW t, NEW p, Runs(b, t, p), Tiled, p # 2 * Tiles, p % 2 # 0
    PROVE  /\ EffectOf(b, t).writes = Nothing
           /\ EffectOf(b, t).result = result[<<b, t>>] \o Added(b, t, p)
  <1>1. p = done[<<b, t>>]
    BY DEF Runs
  <1>2. CASE job.kernel = "matrix_2"
    BY <1>1, <1>2 DEF EffectOf, MatrixKernel2, Effect, Added
  <1>3. CASE job.kernel = "matrix_3"
    BY <1>1, <1>3 DEF EffectOf, MatrixKernel3, Effect, Added
  <1>4. QED
    BY <1>2, <1>3 DEF Tiled

\* When a thread adds, all threads of its block have loaded the same tile.
LEMMA TilesLoaded ==
    ASSUME IsMatrix, MatrixOK, NEW b, NEW t, NEW p, Runs(b, t, p),
           Tiled, p # 2 * Tiles, p % 2 # 0, NEW u \in Threads
    PROVE  TileOK(b, u, p)
  <1>1. b \in Blocks /\ p \in Nat /\ p < Phases /\ done[<<b, u>>] \in {p, p + 1}
    BY DEF Runs
  <1>2. Phases = 2 * Tiles + 1 /\ Tiles \in Nat
    BY BaseFacts DEF Phases, Tiled, Positive
  <1>3. p >= 1 /\ Base(p - 1) = Base(p)
    BY <1>1, BaseFacts
  <1>4. ThreadOK(b, u, done[<<b, u>>])
    BY <1>1 DEF MatrixOK, IsMatrix
  <1>5. CASE done[<<b, u>>] = p
    <2>1. p \in 1 .. 2 * Tiles
      BY <1>1, <1>2, <1>3
    <2>2. QED
      BY <1>4, <1>5, <2>1 DEF ThreadOK
  <1>6. CASE done[<<b, u>>] = p + 1
    <2>1. p + 1 \in 1 .. 2 * Tiles /\ (p + 1) - 1 = p
      BY <1>1, <1>2
    <2>2. TileOK(b, u, p + 1)
      BY <1>4, <1>6, <2>1 DEF ThreadOK
    <2>3. QED
      BY <1>3, <2>1, <2>2 DEF TileOK
  <1>7. QED
    BY <1>1, <1>5, <1>6

\* What is found in the places of a tile that threads have loaded.
LEMMA AddedAre ==
    ASSUME IsMatrix, MatrixOK, NEW b, NEW t, NEW p, Runs(b, t, p),
           Tiled, p # 2 * Tiles, p % 2 # 0, NEW k \in 1 .. job.block.y
    PROVE  /\ Added(b, t, p)[k][2] = B(Base(p) + k - 1, Col(b, t))
           /\ job.kernel = "matrix_2" \/ k <= job.block.x =>
                  Added(b, t, p)[k][1] = A(Row(b, t), Base(p) + k - 1)
           /\ Added(b, t, p)[k] = <<Added(b, t, p)[k][1], Added(b, t, p)[k][2]>>
  <1>1. /\ job.block.x \in Positive /\ job.block.y \in Positive
        /\ t[1] \in 0 .. job.block.x - 1 /\ t[2] \in 0 .. job.block.y - 1
        /\ Base(p) \in Nat /\ Base(p - 1) = Base(p)
    BY MatrixPlaces, BaseFacts DEF Runs
  <1> DEFINE u == <<t[1], k - 1>>
             v == <<k - 1, t[2]>>
             a == IF job.kernel = "matrix_2" THEN A(Row(b, t), Base(p) + k - 1)
                  ELSE Element(Shared(b, Index(k - 1, t[2])))
             e == Element(Shared(b, IF job.kernel = "matrix_2" THEN Index(t[1], k - 1)
                                ELSE job.block.y * job.block.x + Index(t[1], k - 1)))
  <1>2. Added(b, t, p)[k] = <<a, e>>
    BY DEF Added
  <1>3. u \in Threads /\ u[1] = t[1] /\ u[2] = k - 1 /\ Col(b, u) = Col(b, t)
    BY <1>1 DEF Threads, Pairs, Col, Positive
  <1>4. TileOK(b, u, p)
    BY <1>3, TilesLoaded
  <1>5. Base(p) + (k - 1) = Base(p) + k - 1
    BY <1>1
  <1>6. e = B(Base(p) + k - 1, Col(b, t))
    BY <1>1, <1>3, <1>4, <1>5 DEF TileOK, Holds, Element, Read, Tiled
  <1>7. k <= job.block.x => v \in Threads /\ v[1] = k - 1 /\ v[2] = t[2] /\ Row(b, v) = Row(b, t)
    BY <1>1 DEF Threads, Pairs, Row, Positive
  <1>8. k <= job.block.x => TileOK(b, v, p)
    BY <1>7, TilesLoaded
  <1>9. job.kernel = "matrix_2" \/ k <= job.block.x => a = A(Row(b, t), Base(p) + k - 1)
    BY <1>1, <1>5, <1>7, <1>8 DEF TileOK, Holds, Element, Read, Tiled
  <1> HIDE DEF a, e
  <1>10. QED
    BY <1>2, <1>6, <1>9

\* The place of the tile of A behind its first row: the next row has it.
LEMMA AddedWrong ==
    ASSUME IsMatrix, MatrixOK, NEW b, NEW t, NEW p, Runs(b, t, p),
           Tiled, p = 1, p # 2 * Tiles, Narrow, First(b, t)
    PROVE  /\ job.block.x + 1 \in 1 .. job.block.y
           /\ Wrong(Added(b, t, p))
  <1> DEFINE u == <<0, 1>>
             k == job.block.x + 1
  <1>1. /\ job.block.x \in Positive /\ job.block.y \in Positive
        /\ job.block.x < job.block.y /\ job.kernel = "matrix_3"
        /\ b = <<0, 0>> /\ t = <<0, 0>> /\ 1 % 2 # 0
    BY MatrixPlaces DEF Runs, Narrow, First
  <1>2. k \in 1 .. job.block.y /\ k - 1 = job.block.x
    BY <1>1 DEF Positive
  <1>3. Base(1) = 0 /\ Base(1 - 1) = 0
    <2>1. 0 % 2 = 0 /\ 0 + 1 = 1 /\ 1 - 1 = 0 /\ 0 \in Nat
      OBVIOUS
    <2>2. QED
      BY <2>1, BaseFacts
  <1>4. u \in Threads /\ u[1] = 0 /\ u[2] = 1
    BY <1>1 DEF Threads, Pairs, Positive
  <1>5. TileOK(b, u, 1)
    BY <1>1, <1>4, TilesLoaded
  <1>6. Row(b, u) = 1 /\ Index(0, 1) = Index(job.block.x, 0)
    BY <1>1, <1>4 DEF Row, Index, Positive
  <1>7. Holds(Shared(b, Index(0, 1)), A(1, 0))
    <2>1. Holds(Shared(b, Index(u[1], u[2])), A(Row(b, u), Base(1 - 1) + u[1]))
      BY <1>1, <1>5 DEF TileOK
    <2>2. QED
      BY <1>3, <1>4, <1>6, <2>1
  <1>8. Added(b, t, 1)[k][1] = Element(Shared(b, Index(k - 1, t[2])))
    BY <1>1, <1>2 DEF Added
  <1>9. Added(b, t, 1)[k][1] = A(1, 0)
    BY <1>1, <1>2, <1>6, <1>7, <1>8 DEF Holds, Element, Read
  <1>10. QED
    BY <1>2, <1>9 DEF Wrong

\* The products of a tile are added.
LEMMA AddStep ==
    ASSUME IsMatrix, MatrixOK, NEW b, NEW t, NEW p, Runs(b, t, p), ThreadOK(b, t, p),
           Tiled, p # 2 * Tiles, p % 2 # 0
    PROVE  ThreadOK(b, t, p + 1)'
  <1> DEFINE h == job.block.y
             m == Base(p)
             s == result[<<b, t>>]
             d == Added(b, t, p)
             row == Row(b, t)
             col == Col(b, t)
  <1>1. b \in Blocks /\ t \in Threads /\ job' = job /\ launch' = launch /\ p \in Nat
        /\ p < Phases /\ p = done[<<b, t>>]
        /\ result'[<<b, t>>] = s \o d
    BY AddEffect DEF Runs
  <1>2. Phases = 2 * Tiles + 1 /\ Tiles \in Nat /\ h \in Positive
        /\ m \in Nat /\ Base(p + 1) = m + h /\ Base((p + 1) - 1) = m
        /\ p >= 1 /\ Base(p - 1) = m /\ (p >= 2 => m >= h)
    <2>1. (p + 1) - 1 = p
      BY <1>1
    <2>2. QED
      BY <1>1, <2>1, BaseFacts, MatrixPlaces DEF Phases, Tiled, Positive
  <1>3. SumOK(b, t, p) /\ TileOK(b, t, p)
    <2>1. p \in 1 .. 2 * Tiles /\ p <= 2 * Tiles
      BY <1>1, <1>2
    <2>2. QED
      BY <2>1 DEF ThreadOK
  <1>4. \A c : c \in DOMAIN mem => c \in DOMAIN mem' /\ mem'[c] = mem[c]
    <2>1. DOMAIN EffectOf(b, t).writes = {}
      BY AddEffect DEF Nothing
    <2>2. QED
      BY <2>1, RunsWrites
  <1>5. TileOK(b, t, p + 1)'
    BY <1>1, <1>2, <1>3, <1>4, SameNames DEF TileOK, Holds
  <1>6. Long(s, m) /\ Long(d, h)
    BY <1>3 DEF SumOK, Added, Long
  <1>7. h \in Nat /\ h = job.block.y /\ job.block.x \in Nat
    BY <1>1, MatrixPlaces DEF Positive
  <1> HIDE DEF s, d, h, m
  <1>8. /\ s \o d = [k \in 1 .. m + h |-> IF k <= m THEN s[k] ELSE d[k - m]]
        /\ Long(s \o d, m + h)
    BY <1>2, <1>6, <1>7, Behind
  <1>9. ~Narrow => s \o d = Products(row, col, m + h)
    <2> SUFFICES ASSUME ~Narrow PROVE s \o d = Products(row, col, m + h)
      OBVIOUS
    <2>1. s = Products(row, col, m)
      BY <1>3 DEF SumOK, s, m
    <2>2. ASSUME NEW k \in 1 .. m + h
          PROVE  (IF k <= m THEN s[k] ELSE d[k - m]) = <<A(row, k - 1), B(k - 1, col)>>
      <3>1. CASE k <= m
        <4>1. k \in 1 .. m
          BY <1>2, <1>7, <3>1
        <4>2. QED
          BY <2>1, <3>1, <4>1 DEF Products
      <3>2. CASE ~(k <= m)
        <4> DEFINE j == k - m
        <4>1. j \in 1 .. h /\ m + j - 1 = k - 1
          BY <1>2, <1>7, <3>2
        <4>2. job.kernel = "matrix_2" \/ j <= job.block.x
          <5>1. job.kernel = "matrix_2" \/ h <= job.block.x
            BY <1>7 DEF Narrow, Tiled
          <5>2. QED
            BY <1>7, <4>1, <5>1
        <4> HIDE DEF j
        <4>3. /\ d[j][2] = B(m + j - 1, col) /\ d[j][1] = A(row, m + j - 1)
              /\ d[j] = <<d[j][1], d[j][2]>>
          BY <4>1, <4>2, AddedAre DEF d, h, m
        <4>4. d[j] = <<A(row, k - 1), B(k - 1, col)>>
          BY <4>1, <4>3
        <4>5. QED
          BY <3>2, <4>4 DEF j
      <3>3. QED
        BY <3>1, <3>2
    <2>3. QED
      BY <1>8, <2>2 DEF Products
  <1>10. Narrow /\ First(b, t) => Wrong(s \o d)
    <2> SUFFICES ASSUME Narrow, First(b, t) PROVE Wrong(s \o d)
      OBVIOUS
    <2> DEFINE k == job.block.x + 1
    <2>1. k \in 1 .. h
      BY <1>7 DEF Narrow
    <2>2. CASE p = 1
      <3>1. m = 0
        <4>1. Base(0) = 0 /\ p - 1 = 0
          BY <2>2, BaseFacts
        <4>2. QED
          BY <1>2, <4>1 DEF m
      <3>2. Wrong(d)
        BY <2>2, AddedWrong DEF d
      <3>3. (s \o d)[k] = d[k]
        <4>1. k \in 1 .. m + h /\ ~(k <= m) /\ k - m = k
          BY <1>7, <2>1, <3>1
        <4>2. QED
          BY <1>8, <4>1
      <3>4. QED
        BY <3>2, <3>3 DEF Wrong
    <2>3. CASE p # 1
      <3>1. p >= 2
        BY <1>1, <1>2, <2>3
      <3>2. Wrong(s)
        BY <1>3, <3>1 DEF SumOK, s
      <3>3. k \in 1 .. m + h /\ k <= m
        BY <1>2, <1>7, <2>1, <3>1
      <3>4. (s \o d)[k] = s[k]
        BY <1>8, <3>3
      <3>5. QED
        BY <3>2, <3>4 DEF Wrong
    <2>4. QED
      BY <2>2, <2>3
  <1>11. SumOK(b, t, p + 1)'
    <2> DEFINE z == s \o d
               n == m + h
    <2>1. Base(p + 1)' = n /\ result'[<<b, t>>] = z
      BY <1>1, <1>2, SameNames DEF s, d, m, h
    <2> HIDE DEF z, n
    <2>2. Long(z, n)
      BY <1>8 DEF z, n
    <2>3. ~Narrow => z = Products(row, col, n)
      BY <1>9 DEF z, n
    <2>4. Narrow /\ First(b, t) => Wrong(z)
      BY <1>10 DEF z
    <2>5. QED
      BY <1>1, <2>1, <2>2, <2>3, <2>4, SameNames DEF SumOK, First
  <1>12. p + 1 # Phases
    BY <1>1, <1>2
  <1>13. Phases' = Phases
    BY <1>1, SameGrid
  <1>14. QED
    BY <1>5, <1>11, <1>12, <1>13 DEF ThreadOK

\* A step of a thread: what it has is as it should be, and so is what others have.
LEMMA MatrixStep ==
    ASSUME IsMatrix, MatrixOK, NEW b, NEW t, NEW p, Runs(b, t, p)
    PROVE  MatrixOK'
  <1>1. /\ b \in Blocks /\ t \in Threads /\ job' = job /\ launch' = launch /\ p \in Nat
        /\ p < Phases /\ p = done[<<b, t>>] /\ done'[<<b, t>>] = p + 1
        /\ \A h \in Grid : h # <<b, t>> => done'[h] = done[h]
    BY DEF Runs
  <1>2. ThreadOK(b, t, p) /\ job.kernel \in MatrixVersions
    BY <1>1 DEF MatrixOK, IsMatrix
  <1>3. ThreadOK(b, t, p + 1)'
    BY <1>2, StoreStep, LoadStep, AddStep
  <1>4. ASSUME NEW c \in Blocks, NEW u \in Threads PROVE ThreadOK(c, u, done[<<c, u>>])'
    <2>1. CASE <<c, u>> = <<b, t>>
      <3>1. c = b /\ u = t /\ done'[<<c, u>>] = p + 1
        BY <1>1, <2>1
      <3>2. QED
        BY <1>3, <3>1
    <2>2. CASE <<c, u>> # <<b, t>>
      <3> DEFINE q == done[<<c, u>>]
      <3>1. done'[<<c, u>>] = q
        BY <1>1, <2>2 DEF Grid
      <3>2. ThreadOK(c, u, q)
        BY <1>2 DEF MatrixOK
      <3> HIDE DEF q
      <3>3. QED
        BY <2>2, <3>1, <3>2, OthersKept
    <2>3. QED
      BY <2>1, <2>2
  <1>5. Blocks' = Blocks /\ Threads' = Threads
    BY <1>1, SameGrid
  <1>6. QED
    BY <1>4, <1>5 DEF MatrixOK

\* At first nothing has been added.
LEMMA MatrixStart == Init /\ TypesInv => MatrixOK
  <1> SUFFICES ASSUME Init, TypesInv, IsMatrix, NEW b \in Blocks, NEW t \in Threads
               PROVE  ThreadOK(b, t, done[<<b, t>>])
    BY DEF MatrixOK, IsMatrix, TypesInv
  <1>1. done[<<b, t>>] = 0 /\ result[<<b, t>>] = <<>>
    BY DEF Init, Fresh, Grid, Blocks
  <1>2. Base(0) = 0 /\ Tiles \in Nat /\ Phases # 0
    <2>1. Phases = 1 \/ Phases = 2 * Tiles + 1
      BY DEF Phases, IsMatrix, MatrixVersions
    <2>2. QED
      BY <2>1, BaseFacts DEF Positive
  <1>3. Long(<<>>, 0) /\ Products(Row(b, t), Col(b, t), 0) = <<>>
    BY DEF Long, Products
  <1>4. SumOK(b, t, 0)
    BY <1>1, <1>2, <1>3 DEF SumOK
  <1>5. QED
    BY <1>1, <1>2, <1>4 DEF ThreadOK

\* A number in two digits.
LEMMA Digits ==
    ASSUME NEW n \in Nat, NEW d \in Positive, n % d = 0, NEW a \in 0 .. n - 1
    PROVE  /\ a \div d \in 0 .. (n \div d) - 1 /\ a % d \in 0 .. d - 1
           /\ (a \div d) * d + (a % d) = a
  <1> DEFINE q == a \div d
             m == n \div d
             e == a % d
  <1>1. m \in Nat /\ n = m * d
    BY Divides
  <1>2. q \in Nat /\ e \in 0 .. d - 1 /\ a = d * q + e
    BY DEF Positive
  <1> HIDE DEF q, m, e
  <1>3. d * q = q * d /\ q * d \in Nat
    BY <1>2 DEF Positive
  <1>4. q < m
    <2>1. SUFFICES ASSUME q >= m PROVE FALSE
      BY <1>1, <1>2
    <2>2. q - m \in Nat /\ (q - m) * d \in Nat /\ q * d = (q - m) * d + m * d
      BY <1>1, <1>2, <2>1 DEF Positive
    <2>3. q * d >= n
      BY <1>1, <2>2
    <2>4. QED
      BY <1>1, <1>2, <1>3, <2>3 DEF Positive
  <1>5. q \in 0 .. m - 1 /\ e \in 0 .. d - 1 /\ q * d + e = a
    BY <1>1, <1>2, <1>3, <1>4
  <1>6. QED
    BY <1>5 DEF q, m, e

\* Each element has its thread.
LEMMA ThreadOf ==
    ASSUME IsMatrix, NEW r \in 0 .. MATRIX_SIZE - 1, NEW c \in 0 .. MATRIX_SIZE - 1
    PROVE  \E b \in Blocks, t \in Threads : Row(b, t) = r /\ Col(b, t) = c
  <1> DEFINE w == job.block.x
             h == job.block.y
             n == MATRIX_SIZE
             b == <<c \div w, r \div h>>
             t == <<c % w, r % h>>
  <1>1. /\ w \in Positive /\ h \in Positive /\ n \in Positive
        /\ n % w = 0 /\ n % h = 0
    BY DEF IsMatrix, JobOK, MATRIX_SIZE
  <1>2. launch.grid = [x |-> n \div w, y |-> n \div h]
    BY DEF IsMatrix, LaunchOK, MatrixGrid
  <1>3. /\ r \div h \in 0 .. (n \div h) - 1 /\ r % h \in 0 .. h - 1
        /\ (r \div h) * h + (r % h) = r
        /\ c \div w \in 0 .. (n \div w) - 1 /\ c % w \in 0 .. w - 1
        /\ (c \div w) * w + (c % w) = c
    <2>1. n \in Nat /\ r \in 0 .. n - 1 /\ c \in 0 .. n - 1
      BY <1>1 DEF Positive
    <2> HIDE DEF n, w, h
    <2>2. QED
      BY <1>1, <2>1, Digits
  <1>4. b \in Blocks
    BY <1>1, <1>2, <1>3 DEF Blocks, Pairs
  <1>5. t \in Threads
    BY <1>1, <1>3 DEF Threads, Pairs
  <1>6. Row(b, t) = r /\ Col(b, t) = c
    BY <1>3 DEF Row, Col
  <1> HIDE DEF b, t
  <1>7. QED
    BY <1>4, <1>5, <1>6

\* At the end each element is right, unless the blocks are narrow.
LEMMA MatrixEnd ==
    ASSUME IsMatrix, MatrixOK, Over PROVE AsSerial <=> ~Narrow
  <1>1. job.kernel \in MatrixVersions
    BY DEF IsMatrix
  <1>2. ASSUME NEW b \in Blocks, NEW t \in Threads PROVE StoreOK(b, t)
    <2>1. <<b, t>> \in Grid /\ done[<<b, t>>] = Phases
      BY DEF Grid, Over
    <2>2. QED
      BY <1>1, <2>1 DEF MatrixOK, ThreadOK
  <1>3. ASSUME ~Narrow, NEW r \in 0 .. MATRIX_SIZE - 1, NEW c \in 0 .. MATRIX_SIZE - 1
        PROVE  C(r, c) \in DOMAIN mem /\ mem[C(r, c)] = serial_version(r, c)
    <2>1. PICK b \in Blocks, t \in Threads : Row(b, t) = r /\ Col(b, t) = c
      BY ThreadOf
    <2>2. StoreOK(b, t)
      BY <1>2
    <2>3. QED
      BY <1>3, <2>1, <2>2 DEF StoreOK
  <1>4. ASSUME Narrow, AsSerial PROVE FALSE
    <2> DEFINE o == <<0, 0>>
               n == MATRIX_SIZE
               w == job.block.x
    <2>1. /\ w \in Positive /\ job.block.y \in Positive /\ w < job.block.y
          /\ n \in Positive /\ n % job.block.y = 0
      BY <1>4 DEF IsMatrix, JobOK, MATRIX_SIZE, Narrow
    <2>2. n >= job.block.y
      <3>1. n \in Nat /\ job.block.y \in Nat /\ n # 0 /\ (n < job.block.y => n % job.block.y = n)
        BY <2>1 DEF Positive
      <3>2. QED
        BY <2>1, <3>1
    <2>3. PICK b \in Blocks, t \in Threads : Row(b, t) = 0 /\ Col(b, t) = 0
      <3>1. 0 \in 0 .. MATRIX_SIZE - 1
        BY <2>1 DEF Positive
      <3>2. QED
        BY <3>1, ThreadOf
    <2>4. b = o /\ t = o
      <3> DEFINE h == job.block.y
      <3>1. /\ b = <<b[1], b[2]>> /\ t = <<t[1], t[2]>> /\ b[1] \in Nat /\ b[2] \in Nat
            /\ t[1] \in 0 .. w - 1 /\ t[2] \in 0 .. h - 1
        BY MatrixPlaces
      <3>2. b[1] * w \in Nat /\ b[2] * h \in Nat
        BY <2>1, <3>1 DEF Positive
      <3>3. b[2] * h = 0 /\ b[1] * w = 0 /\ t[1] = 0 /\ t[2] = 0
        BY <2>3, <3>1, <3>2 DEF Row, Col
      <3>4. \A k \in Nat, d \in Positive : k * d = 0 => k = 0
        BY DEF Positive
      <3>5. b[1] = 0 /\ b[2] = 0
        BY <2>1, <3>1, <3>3, <3>4
      <3>6. QED
        BY <3>1, <3>3, <3>5
    <2>5. C(0, 0) \in DOMAIN mem /\ Wrong(mem[C(0, 0)])
      BY <1>2, <1>4, <2>3, <2>4 DEF StoreOK, First
    <2>6. mem[C(0, 0)] = serial_version(0, 0)
      BY <1>1, <1>4, <2>1 DEF AsSerial, Positive
    <2>7. serial_version(0, 0)[w + 1] = <<A(0, w), B(w, 0)>>
      <3>1. w + 1 \in 1 .. n /\ (w + 1) - 1 = w
        BY <2>1, <2>2 DEF Positive
      <3>2. QED
        BY <3>1 DEF serial_version
    <2>8. A(0, w) = A(1, 0)
      BY <2>5, <2>6, <2>7 DEF Wrong
    <2>9. w = n
      BY <2>1, <2>8 DEF A, Positive
    <2>10. QED
      BY <2>1, <2>2, <2>9 DEF Positive
  <1>5. QED
    BY <1>1, <1>3, <1>4 DEF AsSerial

-----------------------------------------------------------------------------
(***************************************************************************)
(* What the maximum is of.  A value that a block has is never lost: the    *)
(* thread that takes it out of a place keeps it in another, which no       *)
(* thread has taken from yet.                                              *)
(***************************************************************************)
\* The inputs.
Inputs == 0 .. job.size - 1

\* The numbers that a block has values for, and where they are.
Within(b)   == {i \in 0 .. blockDim - 1 : b[1] * blockDim + i < launch.size}
Place(b, i) == IF InGlobal \/ done[<<b, <<i, 0>>>>] = 0 THEN Arr(b[1] * blockDim + i)
               ELSE Shared(b, i)

\* The thread that takes the value with number i, in which phase.
Takes(t, p, i) ==
    InRounds(p) /\ Active(t, Stride(p)) /\ i = Offset(t, Stride(p)) + Stride(p)

\* It has been taken.
Taken(b, i) == \E t \in Threads, p \in Nat : p < done[<<b, t>>] /\ Takes(t, p, i)

Delivered(b) == done[<<b, <<0, 0>>>>] = Phases

\* A block has v: it has delivered it, or it still has it in some place.
Has(b, v) ==
    IF Delivered(b) THEN v \in Value(Output(b[1]))
    ELSE \E i \in Within(b) : ~Taken(b, i) /\ v \in Value(Place(b, i))

\* A block has inputs only.
BlockOK(b) ==
    /\ \A i \in Within(b) : Value(Place(b, i)) \subseteq Inputs
    /\ Delivered(b) => Value(Output(b[1])) \subseteq Inputs

MaxOK ==
    job.kernel \in MaxVersions =>
        /\ res \in {{}, Inputs}
        /\ \A b \in Blocks : BlockOK(b)
        /\ \A v \in Inputs : \E b \in Blocks : Has(b, v)
-----------------------------------------------------------------------------
\* The strides are powers of two.
Power(p) == IF job.kernel = "max_4" THEN Rounds - p ELSE IF InGlobal THEN p ELSE p - 1

\* Which power the stride of a round is.
LEMMA StridePower ==
    ASSUME IsMax, NEW p \in Nat, InRounds(p)
    PROVE  /\ Power(p) \in 0 .. Rounds
           /\ Stride(p) = Doubled[Power(p)] /\ Stride(p) \in Positive
           /\ job.kernel # "max_4" => Power(p) < Rounds
  <1>1. Rounds \in Nat /\ blockDim = Doubled[Rounds]
    BY RoundsFacts
  <1>2. job.kernel \in {"max_1", "max_2", "max_3", "max_4"}
    BY DEF IsMax, MaxVersions
  <1>3. Power(p) \in 0 .. Rounds /\ (job.kernel # "max_4" => Power(p) < Rounds)
    BY <1>1, <1>2 DEF InRounds, InGlobal, Power
  <1>4. Stride(p) = Doubled[Power(p)]
    <2>1. CASE job.kernel = "max_4"
      <3>1. p \in 1 .. Rounds /\ Stride(p) = blockDim \div Doubled[p] /\ Power(p) = Rounds - p
        BY <2>1 DEF InRounds, InGlobal, Stride, Down, Power
      <3>2. Rounds - p \in Nat /\ p + (Rounds - p) = Rounds
        BY <1>1, <3>1
      <3>3. /\ Doubled[Rounds] = Doubled[p] * Doubled[Rounds - p]
            /\ Doubled[p] \in Nat \ {0} /\ Doubled[Rounds - p] \in Nat \ {0}
        BY <3>2, DoubledDivides
      <3>4. \A a \in Nat \ {0}, c \in Nat \ {0} : (a * c) \div a = c
        OBVIOUS
      <3>5. QED
        BY <1>1, <3>1, <3>3, <3>4
    <2>2. CASE job.kernel # "max_4"
      <3>1. (p + 1) - 1 = p
        OBVIOUS
      <3>2. QED
        BY <1>2, <2>2, <3>1 DEF Stride, Up, Power, InGlobal
    <2>3. QED
      BY <2>1, <2>2
  <1>5. QED
    BY <1>3, <1>4, <1>1, DoubledFacts DEF Positive

\* But in cuda_4, a thread's number is a multiple of two strides.
LEMMA OffsetMultiple ==
    ASSUME IsMax, job.kernel # "max_4", NEW s \in Positive,
           NEW u \in Threads, Active(u, s)
    PROVE  \E k \in Nat : Offset(u, s) = k * (2 * s)
  <1>1. u[1] \in Nat
    BY MaxPlaces
  <1>2. CASE job.kernel = "max_1"
    <2>1. u[1] % (2 * s) = 0 /\ Offset(u, s) = u[1]
      BY <1>2 DEF Active, Offset
    <2>2. 2 * s \in Positive
      BY DEF Positive
    <2>3. u[1] = (u[1] \div (2 * s)) * (2 * s) /\ u[1] \div (2 * s) \in Nat
      BY <1>1, <2>1, <2>2, Divides
    <2>4. QED
      BY <2>1, <2>3
  <1>3. CASE job.kernel # "max_1"
    <2>1. Offset(u, s) = 2 * s * u[1]
      BY <1>3 DEF Offset
    <2>2. 2 * s * u[1] = u[1] * (2 * s)
      BY <1>1 DEF Positive
    <2>3. QED
      BY <1>1, <2>1, <2>2
  <1>4. QED
    BY <1>2, <1>3

\* A value that a thread has folded others into has not been taken before.
LEMMA NotTaken ==
    ASSUME IsMax, NEW p \in Nat, InRounds(p), NEW t \in Threads, Active(t, Stride(p)),
           NEW q \in Nat, q <= p, NEW u \in Threads
    PROVE  ~Takes(u, q, Offset(t, Stride(p)))
  <1> SUFFICES ASSUME InRounds(q), Active(u, Stride(q)),
                      Offset(t, Stride(p)) = Offset(u, Stride(q)) + Stride(q)
               PROVE  FALSE
    BY DEF Takes
  <1>1. /\ Stride(p) = Doubled[Power(p)] /\ Stride(p) \in Positive /\ Power(p) \in 0 .. Rounds
        /\ Stride(q) = Doubled[Power(q)] /\ Stride(q) \in Positive /\ Power(q) \in 0 .. Rounds
        /\ Rounds \in Nat
    BY StridePower, RoundsFacts
  <1>2. CASE job.kernel = "max_4"
    <2>1. Power(p) = Rounds - p /\ Power(q) = Rounds - q
      BY <1>2 DEF Power
    <2>2. p - q \in Nat /\ Rounds - p \in Nat /\ (Rounds - p) + (p - q) = Rounds - q
      BY <1>1, <2>1
    <2>3. /\ Doubled[Rounds - q] = Doubled[Rounds - p] * Doubled[p - q]
          /\ Doubled[p - q] \in Nat \ {0}
      BY <2>2, DoubledDivides
    <2>4. \A a \in Nat, c \in Nat \ {0} : a * c >= a
      <3> SUFFICES ASSUME NEW a \in Nat, NEW c \in Nat \ {0} PROVE a * c >= a
        OBVIOUS
      <3>1. c - 1 \in Nat
        OBVIOUS
      <3>2. a * (c - 1) \in Nat /\ a * c = a + a * (c - 1)
        BY <3>1
      <3>3. QED
        BY <3>2
    <2>5. Stride(q) >= Stride(p)
      BY <1>1, <2>1, <2>3, <2>4 DEF Positive
    <2>6. t[1] < Stride(p) /\ t[1] = u[1] + Stride(q) /\ u[1] \in Nat /\ t[1] \in Nat
      BY <1>2, MaxPlaces DEF Active, Offset, Positive
    <2>7. QED
      BY <1>1, <2>5, <2>6 DEF Positive
  <1>3. CASE job.kernel # "max_4"
    <2> DEFINE s == Stride(q)
               e == Power(p) - Power(q)
    <2>1. PICK k \in Nat : Offset(t, Stride(p)) = k * (2 * Stride(p))
      BY <1>1, <1>3, OffsetMultiple
    <2>2. PICK l \in Nat : Offset(u, Stride(q)) = l * (2 * s)
      BY <1>1, <1>3, OffsetMultiple
    <2>3. e \in Nat /\ Power(q) + e = Power(p) /\ Power(q) \in Nat
      BY <1>1, <1>3 DEF Power
    <2> HIDE DEF e
    <2>4. Stride(p) = s * Doubled[e] /\ Doubled[e] \in Nat
      <3>1. /\ Doubled[Power(q) + e] = Doubled[Power(q)] * Doubled[e]
            /\ Doubled[e] \in Nat \ {0}
        BY <2>3, DoubledDivides
      <3>2. QED
        BY <1>1, <2>3, <3>1
    <2> DEFINE d == Doubled[e]
               j == k * d
    <2> HIDE DEF s
    <2>5. d \in Nat /\ j \in Nat /\ s \in Positive
      BY <1>1, <2>4 DEF s
    <2>6. k * (2 * (s * d)) = j * (2 * s)
      BY <2>5 DEF Positive
    <2> HIDE DEF d, j
    <2>7. j * (2 * s) = l * (2 * s) + s
      BY <2>1, <2>2, <2>4, <2>6 DEF s, d
    <2>8. j * (2 * s) < (j + 1) * (2 * s) /\ j + 1 \in Nat
      BY <2>5 DEF Positive
    <2>9. QED
      BY <2>5, <2>7, <2>8, DoubleStrides
  <1>4. QED
    BY <1>2, <1>3

\* A multiple leaves no remainder.
LEMMA Multiple ==
    ASSUME NEW a \in Nat, NEW d \in Positive PROVE (a * d) % d = 0
  <1> DEFINE n == a * d
             q == n \div d
             r == n % d
  <1>1. n \in Nat /\ q \in Nat /\ r \in 0 .. d - 1 /\ n = d * q + r
    BY DEF Positive
  <1>2. r = 0
    <2> HIDE DEF q, r
    <2>1. q * d + r = a * d + 0 /\ 0 \in 0 .. d - 1
      BY <1>1 DEF Positive
    <2>2. q \in Int /\ a \in Int /\ r \in 0 .. d - 1
      BY <1>1
    <2>3. QED
      BY <2>1, <2>2, TwoDigits
  <1>3. QED
    BY <1>2

\* Every number but 0 is taken in some round.
LEMMA AllTaken ==
    ASSUME IsMax, NEW i \in 1 .. blockDim - 1
    PROVE  \E t \in Threads, p \in Nat : Takes(t, p, i)
  <1> DEFINE Gone == \E t \in Threads, p \in Nat : Takes(t, p, i)
  <1>1. /\ Rounds \in Nat /\ blockDim = Doubled[Rounds] /\ blockDim \in Positive
        /\ i \in Nat /\ i # 0 /\ i < blockDim
    BY RoundsFacts, MaxPlaces DEF Positive
  <1>2. job.kernel \in {"max_1", "max_2", "max_3", "max_4"}
    BY DEF IsMax, MaxVersions
  <1>3. \A a \in 0 .. blockDim - 1 : <<a, 0>> \in Threads
    BY DEF Threads, Pairs, IsMax, JobOK, blockDim
  <1>4. CASE job.kernel = "max_4"
    <2> DEFINE S == {e \in Nat : e <= Rounds => Gone \/ i < Doubled[Rounds - e]}
    <2>1. 0 \in S
      BY <1>1
    <2>2. ASSUME NEW e \in Nat, e \in S PROVE e + 1 \in S
      <3> SUFFICES ASSUME e + 1 <= Rounds, ~Gone PROVE i < Doubled[Rounds - (e + 1)]
        OBVIOUS
      <3> DEFINE s == Doubled[Rounds - (e + 1)]
                 t == <<i - s, 0>>
                 p == e + 1
      <3>1. i < Doubled[Rounds - e]
        BY <1>1, <2>2
      <3>2. Rounds - (e + 1) \in Nat /\ (Rounds - (e + 1)) + 1 = Rounds - e
        BY <1>1
      <3>3. Doubled[Rounds - e] = 2 * s /\ s \in Positive
        BY <3>2, DoubledFacts DEF Positive
      <3>4. InRounds(p) /\ p \in Nat
        BY <1>1, <1>4 DEF InRounds, InGlobal
      <3>5. Stride(p) = s
        BY <1>4, <3>4, StridePower DEF Power
      <3> HIDE DEF s
      <3>6. SUFFICES ASSUME i >= s PROVE FALSE
        BY <1>1, <3>3 DEF s, Positive
      <3>7. i - s \in 0 .. blockDim - 1 /\ i - s < s /\ (i - s) + s = i
        BY <1>1, <3>1, <3>3, <3>6 DEF Positive
      <3>8. t \in Threads /\ t[1] = i - s
        BY <1>3, <3>7
      <3> HIDE DEF t, p
      <3>9. Takes(t, p, i)
        BY <1>4, <3>4, <3>5, <3>7, <3>8 DEF Takes, Active, Offset
      <3>10. QED
        BY <3>4, <3>8, <3>9
    <2>3. Nat \subseteq S
      <3> HIDE DEF S
      <3>1. QED
        BY <2>1, <2>2, Induction
    <2>4. Gone \/ i < Doubled[Rounds - Rounds]
      BY <1>1, <2>3
    <2>5. Rounds - Rounds = 0 /\ Doubled[0] = 1
      BY <1>1, DoubledFacts
    <2>6. QED
      BY <1>1, <2>4, <2>5
  <1>5. CASE job.kernel # "max_4"
    <2> DEFINE S == {e \in Nat : e <= Rounds =>
                        Gone \/ \E k \in Nat : i = k * Doubled[e]}
    <2>1. 0 \in S
      BY <1>1, DoubledFacts
    <2>2. ASSUME NEW e \in Nat, e \in S PROVE e + 1 \in S
      <3> SUFFICES ASSUME e + 1 <= Rounds, ~Gone
                   PROVE  \E k \in Nat : i = k * Doubled[e + 1]
        OBVIOUS
      <3> DEFINE s == Doubled[e]
                 p == IF InGlobal THEN e ELSE e + 1
      <3>1. PICK k \in Nat : i = k * s
        BY <1>1, <2>2
      <3>2. Doubled[e + 1] = 2 * s /\ s \in Positive
        BY DoubledFacts DEF Positive
      <3> DEFINE j == k \div 2
      <3>3. j \in Nat /\ (k = 2 * j \/ k = 2 * j + 1)
        OBVIOUS
      <3>4. InRounds(p) /\ p \in Nat
        BY <1>1 DEF InRounds
      <3>5. Stride(p) = s
        <4>1. Power(p) = e
          BY <1>5 DEF Power
        <4> HIDE DEF p
        <4>2. QED
          BY <3>4, <4>1, StridePower
      <3> HIDE DEF s, p, j
      <3>6. CASE k = 2 * j
        <4>1. i = j * (2 * s)
          BY <3>1, <3>2, <3>3, <3>6 DEF Positive
        <4>2. QED
          BY <3>2, <3>3, <4>1 DEF s
      <3>7. CASE k = 2 * j + 1
        <4> DEFINE o == j * (2 * s)
                   t == <<IF job.kernel = "max_1" THEN o ELSE j, 0>>
        <4>1. o \in Nat /\ i = o + s /\ j <= o
          <5>1. o \in Nat /\ j * (2 * s - 1) \in Nat
            BY <3>2, <3>3 DEF Positive
          <5>2. o = j + j * (2 * s - 1) /\ i = o + s
            BY <3>1, <3>2, <3>3, <3>7 DEF Positive
          <5>3. QED
            BY <3>3, <5>1, <5>2
        <4>2. o \in 0 .. blockDim - 1 /\ j \in 0 .. blockDim - 1
          BY <1>1, <3>2, <3>3, <4>1 DEF Positive
        <4>3. t \in Threads /\ t[1] = IF job.kernel = "max_1" THEN o ELSE j
          BY <1>3, <4>2
        <4>4. job.kernel = "max_1" => o % (2 * s) = 0
          <5>1. 2 * s \in Positive
            BY <3>2 DEF Positive
          <5>2. QED
            BY <3>3, <5>1, Multiple
        <4>5. 2 * s * j = o
          BY <3>2, <3>3 DEF Positive
        <4> HIDE DEF o, t
        <4>6. Active(t, s) /\ Offset(t, s) = o
          <5>1. CASE job.kernel = "max_1"
            BY <4>3, <4>4, <5>1 DEF Active, Offset
          <5>2. CASE job.kernel \in {"max_2", "max_3"}
            <6>1. t[1] = j /\ job.kernel # "max_1" /\ job.kernel # "max_4"
              BY <4>3, <5>2
            <6>2. 2 * s * t[1] = o
              BY <4>5, <6>1
            <6>3. o < blockDim
              BY <4>2, <1>1 DEF Positive
            <6>4. Active(t, s) <=> 2 * s * t[1] < blockDim
              BY <5>2, <6>1 DEF Active
            <6>5. Offset(t, s) = 2 * s * t[1]
              BY <6>1 DEF Offset
            <6>6. QED
              BY <6>2, <6>3, <6>4, <6>5
          <5>3. QED
            BY <1>2, <1>5, <5>1, <5>2
        <4>7. Takes(t, p, i)
          BY <3>4, <3>5, <4>1, <4>6 DEF Takes
        <4>8. QED
          BY <3>4, <4>3, <4>7
      <3>8. QED
        BY <3>3, <3>6, <3>7
    <2>3. Nat \subseteq S
      <3> HIDE DEF S
      <3>1. QED
        BY <2>1, <2>2, Induction
    <2>4. Gone \/ \E k \in Nat : i = k * Doubled[Rounds]
      BY <1>1, <2>3
    <2>5. ASSUME NEW k \in Nat, i = k * blockDim PROVE FALSE
      <3>1. k # 0 /\ k - 1 \in Nat
        BY <1>1, <2>5 DEF Positive
      <3>2. (k - 1) * blockDim \in Nat /\ i = (k - 1) * blockDim + blockDim
        BY <1>1, <2>5, <3>1 DEF Positive
      <3>3. QED
        BY <1>1, <3>2 DEF Positive
    <2>6. QED
      BY <1>1, <2>4, <2>5
  <1>6. QED
    BY <1>4, <1>5

\* The names do not change with a step.
LEMMA MaxNames ==
    ASSUME job' = job, launch' = launch
    PROVE  /\ blockDim' = blockDim /\ Inputs' = Inputs /\ InGlobal' = InGlobal
           /\ Rounds' = Rounds /\ Phases' = Phases
           /\ Blocks' = Blocks /\ Threads' = Threads /\ Grid' = Grid
           /\ \A i : Arr(i)' = Arr(i) /\ Output(i)' = Output(i)
           /\ \A b : Within(b)' = Within(b)
           /\ \A t, p, i : Takes(t, p, i)' = Takes(t, p, i)
  <1>1. /\ blockDim' = blockDim /\ Inputs' = Inputs /\ InGlobal' = InGlobal
        /\ Rounds' = Rounds
    BY DEF blockDim, Inputs, InGlobal, Rounds
  <1>2. \A p : Stride(p)' = Stride(p)
    BY <1>1 DEF Stride, Up, Down
  <1>3. \A t, s : Active(t, s)' = Active(t, s) /\ Offset(t, s)' = Offset(t, s)
    BY <1>1 DEF Active, Offset
  <1>4. \A p : InRounds(p)' = InRounds(p)
    BY <1>1 DEF InRounds
  <1>5. \A t, p, i : Takes(t, p, i)' = Takes(t, p, i)
    BY <1>2, <1>3, <1>4 DEF Takes
  <1>6. QED
    BY <1>1, <1>5, SameGrid DEF Arr, Output, Within

\* Cells have the values that were written, or those that they had.
LEMMA Values ==
    ASSUME NEW b, NEW t, NEW p, Runs(b, t, p)
    PROVE  \A x : Value(x)' = IF x \in DOMAIN EffectOf(b, t).writes
                              THEN EffectOf(b, t).writes[x] ELSE Value(x)
  BY DEF Value, Read, Runs, Written

\* A thread that runs is in one of three kinds of phases, and the others of its
\* block are in it or a phase ahead.
LEMMA MaxRuns ==
    ASSUME IsMax, NEW b, NEW t, NEW p, Runs(b, t, p)
    PROVE  /\ b \in Blocks /\ t \in Threads /\ p \in Nat /\ p = done[<<b, t>>]
           /\ p < Phases /\ Phases = (IF InGlobal THEN Rounds ELSE Rounds + 1) + 1
           /\ Rounds \in Nat
           /\ (InRounds(p) /\ ~Ends(p)) \/ (Loads(p) /\ ~Ends(p)) \/ Ends(p)
           /\ InRounds(p) => p + 1 < Phases
           /\ \A u \in Threads : /\ done[<<b, u>>] \in {p, p + 1}
                                 /\ <<b, u>> \in Grid
                                 /\ done'[<<b, u>>] = IF u = t THEN p + 1 ELSE done[<<b, u>>]
           /\ \A c \in Blocks \ {b} : \A u \in Threads : done'[<<c, u>>] = done[<<c, u>>]
  <1>1. b \in Blocks /\ t \in Threads /\ p \in Nat /\ p = done[<<b, t>>] /\ p < Phases
    BY DEF Runs
  <1>2. Rounds \in Nat /\ Phases = (IF InGlobal THEN Rounds ELSE Rounds + 1) + 1
    BY RoundsFacts DEF IsMax, MaxVersions, Phases, InGlobal
  <1>3. InRounds(p) => p + 1 < Phases
    BY <1>1, <1>2 DEF InRounds
  <1>4. (InRounds(p) /\ ~Ends(p)) \/ (Loads(p) /\ ~Ends(p)) \/ Ends(p)
    BY <1>1, MaxPhase
  <1>5. \A c \in Blocks : \A u \in Threads : <<c, u>> \in Grid
    BY DEF Grid
  <1>6. QED
    BY <1>1, <1>2, <1>3, <1>4, <1>5 DEF Runs

\* The names of the places of a block are its own.
LEMMA PlaceInFoot ==
    ASSUME IsMax, NEW b \in Blocks
    PROVE  /\ \A i \in Within(b) : Place(b, i) \in Foot(b) /\ Place(b, i) # Output(b[1])
           /\ \A i \in Within(b) : \A j \in Within(b) : i # j => Place(b, i) # Place(b, j)
           /\ Output(b[1]) \in Foot(b)
           /\ 0 \in Within(b) /\ <<0, 0>> \in Threads
           /\ \A i \in Within(b) : i \in Nat /\ <<i, 0>> \in Threads
           /\ \A i \in Nat : i \in Within(b) <=> i < SharedSize(b)
  <1>1. /\ blockDim \in Positive /\ launch.size \in Positive
        /\ b[1] \in 0 .. launch.grid.x - 1 /\ b[1] * blockDim \in Nat
        /\ launch.grid.x = num_blocks(launch.size) /\ launch.grid.x \in Positive
        /\ launch.arr # launch.output
        /\ launch.arr \in {"arr_device", "output_device"}
        /\ launch.output \in {"arr_device", "output_device"}
    BY MaxPlaces DEF IsMax, LaunchOK
  <1>2. \A i \in Within(b) : Place(b, i) \in Foot(b) /\ Place(b, i) # Output(b[1])
    BY <1>1 DEF Within, Place, Foot, Arr, Output, Shared
  <1>3. \A i \in Within(b) : \A j \in Within(b) : i # j => Place(b, i) # Place(b, j)
    BY <1>1 DEF Within, Place, Arr, Shared
  <1>4. b[1] * blockDim < launch.size
    <2> DEFINE d == blockDim
               n == launch.size + d - 1
               k == n \div d
               x == b[1]
               y == (k - 1) - x
    <2>1. launch.grid.x = k
      <3>1. launch.grid.x = num_blocks(launch.size)
        BY <1>1
      <3>2. QED
        BY <3>1 DEF num_blocks
    <2>2. d \in Positive /\ n \in Nat
      BY <1>1 DEF Positive
    <2>3. k \in Nat /\ d * k <= n
      <3> HIDE DEF n, d
      <3>1. QED
        BY <2>2 DEF Positive
    <2> HIDE DEF k
    <2>4. x \in Nat /\ y \in Nat /\ k = y + x + 1
      BY <1>1, <2>1, <2>3 DEF Positive
    <2> HIDE DEF d, x, y
    <2>5. y * d \in Nat /\ x * d \in Nat /\ d * k = (y * d) + (x * d) + d
      BY <2>2, <2>4 DEF Positive
    <2>6. x * d < launch.size
      BY <1>1, <2>2, <2>3, <2>5 DEF Positive
    <2>7. QED
      BY <2>6 DEF x, d
  <1>5. \A a \in 0 .. blockDim - 1 : <<a, 0>> \in Threads
    BY DEF Threads, Pairs, IsMax, JobOK, blockDim
  <1>6. 0 \in Within(b)
    BY <1>1, <1>4 DEF Within, Positive
  <1>7. \A i \in Within(b) : i \in 0 .. blockDim - 1
    BY DEF Within
  <1>8. \A i \in Nat : i \in Within(b) <=> i < SharedSize(b)
    BY <1>1 DEF Within, SharedSize, Positive
  <1>9. QED
    BY <1>2, <1>3, <1>5, <1>6, <1>7, <1>8 DEF Foot

\* Other blocks keep what they have.
LEMMA OtherBlock ==
    ASSUME IsMax, NEW b, NEW t, NEW p, Runs(b, t, p), NEW c \in Blocks, c # b
    PROVE  /\ BlockOK(c) => BlockOK(c)'
           /\ \A v : Has(c, v) => Has(c, v)'
  <1>1. /\ b \in Blocks /\ t \in Threads /\ p = done[<<b, t>>] /\ p \in Nat /\ p < Phases
        /\ \A u \in Threads : done'[<<c, u>>] = done[<<c, u>>]
    BY MaxRuns
  <1>2. \A x \in Foot(c) : Value(x)' = Value(x)
    <2>1. DOMAIN EffectOf(b, t).writes \subseteq Foot(b)
      BY <1>1, MaxTouches
    <2>2. Foot(b) \cap Foot(c) = {}
      BY <1>1, FootAlone
    <2>3. QED
      BY <2>1, <2>2, Values
  <1>3. job' = job /\ launch' = launch
    BY DEF Runs
  <1>4. \A i \in Within(c) : Place(c, i)' = Place(c, i)
    BY <1>1, <1>3, PlaceInFoot, MaxNames DEF Place
  <1>5. \A i \in Within(c) : Value(Place(c, i))' = Value(Place(c, i))
    <2> SUFFICES ASSUME NEW i \in Within(c)
                 PROVE  Value(Place(c, i))' = Value(Place(c, i))
      OBVIOUS
    <2>1. Place(c, i) \in Foot(c) /\ Place(c, i)' = Place(c, i)
      BY <1>4, PlaceInFoot
    <2>2. Value(Place(c, i))' = Value(Place(c, i))
      BY <1>2, <2>1 DEF Value, Read
    <2>3. QED
      BY <2>2
  <1>6. Value(Output(c[1]))' = Value(Output(c[1]))
    <2>1. Output(c[1]) \in Foot(c) /\ Output(c[1])' = Output(c[1])
      BY <1>3, PlaceInFoot, MaxNames
    <2>2. QED
      BY <1>2, <2>1 DEF Value, Read
  <1>7. Delivered(c)' = Delivered(c)
    BY <1>1, <1>3, PlaceInFoot, MaxNames DEF Delivered
  <1>8. \A i : Taken(c, i)' = Taken(c, i)
    BY <1>1, <1>3, MaxNames DEF Taken
  <1>9. Within(c)' = Within(c) /\ Inputs' = Inputs
    BY <1>3, MaxNames
  <1>10. QED
    BY <1>5, <1>6, <1>7, <1>8, <1>9 DEF BlockOK, Has

\* Nothing that counts changes when a value is loaded.
LEMMA LoadOwn ==
    ASSUME IsMax, NEW b, NEW t, NEW p, Runs(b, t, p), Loads(p), ~Ends(p)
    PROVE  /\ BlockOK(b) => BlockOK(b)'
           /\ \A v : Has(b, v) => Has(b, v)'
  <1>1. /\ b \in Blocks /\ t \in Threads /\ p \in Nat /\ p = done[<<b, t>>]
        /\ p = 0 /\ ~InGlobal /\ p + 1 < Phases
        /\ \A u \in Threads : /\ done[<<b, u>>] \in {0, 1}
                              /\ done'[<<b, u>>] = IF u = t THEN 1 ELSE done[<<b, u>>]
        /\ job' = job /\ launch' = launch
    <2>1. p = 0 /\ ~InGlobal
      BY DEF Loads
    <2>2. p # Rounds + 1
      BY <2>1 DEF Ends
    <2>3. p + 1 < Phases /\ 0 + 1 = 1
      <3>1. Rounds \in Nat
        BY MaxRuns
      <3>2. Phases = (IF InGlobal THEN Rounds ELSE Rounds + 1) + 1
        BY MaxRuns
      <3>3. QED
        BY <2>1, <3>1, <3>2
    <2>4. \A u \in Threads : /\ done[<<b, u>>] \in {p, p + 1}
                             /\ done'[<<b, u>>] = IF u = t THEN p + 1 ELSE done[<<b, u>>]
      BY MaxRuns
    <2>5. job' = job /\ launch' = launch
      BY DEF Runs
    <2>6. QED
      BY <2>1, <2>3, <2>4, <2>5, MaxRuns
  <1>2. t = <<t[1], 0>>
    BY <1>1, MaxPlaces
  <1> DEFINE a == Arr(b[1] * blockDim + t[1])
             c == Shared(b, t[1])
  <1>3. \A x : Value(x)' = IF x = c THEN Value(a) ELSE Value(x)
    <2>1. EffectOf(b, t).writes = Cell(c, Value(a))
      <3>1. Loads(done[<<b, t>>])
        BY <1>1
      <3>2. EffectOf(b, t) = Effect({a}, Cell(c, Value(a)), <<>>)
        BY <1>1, <3>1, LoadEffect
      <3> HIDE DEF a, c
      <3>3. QED
        BY <3>2 DEF Effect
    <2> HIDE DEF a, c
    <2>2. /\ DOMAIN EffectOf(b, t).writes = {c}
          /\ EffectOf(b, t).writes[c] = Value(a)
      BY <2>1 DEF Cell
    <2>3. QED
      BY <2>2, Values
  <1>4. ASSUME NEW i \in Within(b)
        PROVE  Value(Place(b, i))' = Value(Place(b, i))
    <2> DEFINE u == <<i, 0>>
               o == Arr(b[1] * blockDim + i)
    <2>1. u \in Threads /\ o # c
      BY PlaceInFoot, <1>1, MaxPlaces DEF IsMax, LaunchOK, Arr, Shared
    <2>2. /\ Place(b, i) = IF done[<<b, u>>] = 0 THEN o ELSE Shared(b, i)
          /\ Place(b, i)' = IF done'[<<b, u>>] = 0 THEN o ELSE Shared(b, i)
      BY <1>1, MaxNames DEF Place, Shared
    <2>3. CASE i = t[1]
      <3>1. u = t /\ o = a /\ Shared(b, i) = c
        BY <1>2, <2>3
      <3>2. done[<<b, t>>] = 0 /\ done'[<<b, t>>] # 0
        BY <1>1
      <3> HIDE DEF a, c, u, o
      <3>3. Place(b, i) = a /\ Place(b, i)' = c
        BY <2>2, <3>1, <3>2
      <3>4. Value(c)' = Value(a)
        BY <1>3
      <3>5. QED
        BY <3>3, <3>4 DEF Value, Read
    <2>4. CASE i # t[1]
      <3>1. u # t /\ Shared(b, i) # c
        BY <1>2, <2>4 DEF Shared
      <3>2. Place(b, i)' = Place(b, i) /\ Place(b, i) # c
        BY <1>1, <2>1, <2>2, <3>1
      <3>3. Value(Place(b, i))' = Value(Place(b, i))
        BY <1>3, <3>2 DEF Value, Read
      <3>4. QED
        BY <3>3
    <2>5. QED
      BY <2>3, <2>4
  <1>5. ~Delivered(b) /\ ~Delivered(b)'
    BY <1>1, PlaceInFoot, MaxNames DEF Delivered
  <1>6. ASSUME NEW i, Taken(b, i)' PROVE Taken(b, i)
    <2>1. PICK u \in Threads, q \in Nat : q < done'[<<b, u>>] /\ Takes(u, q, i)
      BY <1>1, <1>6, MaxNames DEF Taken
    <2>2. q = 0 /\ InRounds(q)
      BY <1>1, <2>1 DEF Takes
    <2>3. QED
      BY <1>1, <2>2 DEF InRounds
  <1>7. Within(b)' = Within(b) /\ Inputs' = Inputs
    BY <1>1, MaxNames
  <1>8. QED
    BY <1>4, <1>5, <1>6, <1>7 DEF BlockOK, Has

\* Once all are loaded, places stay where they are.
LEMMA AfterLoads ==
    ASSUME IsMax, NEW b, NEW t, NEW p, Runs(b, t, p), InGlobal \/ p # 0,
           NEW i \in Within(b)
    PROVE  Place(b, i) = CellAt(b, i) /\ Place(b, i)' = Place(b, i)
  <1>1. /\ b \in Blocks /\ p \in Nat /\ job' = job /\ launch' = launch
        /\ \A u \in Threads : /\ done[<<b, u>>] \in {p, p + 1}
                              /\ done'[<<b, u>>] = IF u = t THEN p + 1 ELSE done[<<b, u>>]
    BY MaxRuns DEF Runs
  <1>2. <<i, 0>> \in Threads
    BY <1>1, PlaceInFoot
  <1>3. InGlobal \/ (done[<<b, <<i, 0>>>>] # 0 /\ done'[<<b, <<i, 0>>>>] # 0)
    <2>1. p # 0 => p + 1 # 0
      BY <1>1
    <2>2. QED
      BY <1>1, <1>2, <2>1
  <1>4. QED
    BY <1>1, <1>3, MaxNames DEF Place, CellAt, Shared

\* A round gives a place the values of another, that is taken.
LEMMA RoundOwn ==
    ASSUME IsMax, NEW b, NEW t, NEW p, Runs(b, t, p), InRounds(p),
           NEW s \in Positive, s = Stride(p), NEW o \in Nat, o = Offset(t, s),
           Active(t, s) => o + s \in 0 .. blockDim - 1
    PROVE  /\ BlockOK(b) => BlockOK(b)'
           /\ \A v : Has(b, v) => Has(b, v)'
  <1> DEFINE folds == Active(t, s) /\ o + s < SharedSize(b)
             c == CellAt(b, o)
             d == CellAt(b, o + s)
  <1>1. /\ b \in Blocks /\ t \in Threads /\ p \in Nat /\ p = done[<<b, t>>]
        /\ p + 1 < Phases
        /\ \A u \in Threads : /\ done[<<b, u>>] \in {p, p + 1}
                              /\ done'[<<b, u>>] = IF u = t THEN p + 1 ELSE done[<<b, u>>]
        /\ job' = job /\ launch' = launch
    BY MaxRuns DEF Runs
  <1>2. SharedSize(b) \in Int
    BY <1>1, MaxPlaces DEF IsMax, LaunchOK, SharedSize, Positive
  <1>3. Active(t, s) => o + s < blockDim
    BY MaxPlaces DEF Positive
  <1>4. EffectOf(b, t) = IF folds THEN Effect({c, d}, Cell(c, Value(c) \cup Value(d)), <<>>)
                         ELSE Effect({}, Nothing, <<>>)
    BY <1>1, <1>3, RoundEffect
  <1>5. \A x : Value(x)' = IF folds /\ x = c THEN Value(c) \cup Value(d) ELSE Value(x)
    <2> HIDE DEF c, d, folds
    <2>1. EffectOf(b, t).writes = IF folds THEN Cell(c, Value(c) \cup Value(d)) ELSE Nothing
      BY <1>4 DEF Effect
    <2>2. CASE folds
      <3>1. /\ DOMAIN EffectOf(b, t).writes = {c}
            /\ EffectOf(b, t).writes[c] = Value(c) \cup Value(d)
        BY <2>1, <2>2 DEF Cell
      <3>2. QED
        BY <2>2, <3>1, Values
    <2>3. CASE ~folds
      <3>1. DOMAIN EffectOf(b, t).writes = {}
        BY <2>1, <2>3 DEF Nothing
      <3>2. QED
        BY <2>3, <3>1, Values
    <2>4. QED
      BY <2>2, <2>3
  <1>6. ASSUME NEW i \in Within(b)
        PROVE  Place(b, i) = CellAt(b, i) /\ Place(b, i)' = Place(b, i)
    BY <1>1, AfterLoads DEF InRounds
  <1>7. folds => /\ o \in Within(b) /\ o + s \in Within(b)
                 /\ Place(b, o) = c /\ Place(b, o + s) = d
    <2>1. folds => o + s \in Nat /\ o + s < SharedSize(b) /\ SharedSize(b) \in Int
                   /\ o < SharedSize(b)
      BY <1>2 DEF Positive
    <2>2. folds => o \in Within(b) /\ o + s \in Within(b)
      BY <1>1, <2>1, PlaceInFoot
    <2>3. QED
      BY <1>6, <2>2
  <1>8. ASSUME NEW i \in Within(b)
        PROVE  Value(Place(b, i))' = IF folds /\ i = o THEN Value(c) \cup Value(d)
                                     ELSE Value(Place(b, i))
    <2> HIDE DEF folds, c, d
    <2>1. Value(Place(b, i))' = IF folds /\ Place(b, i) = c THEN Value(c) \cup Value(d)
                                ELSE Value(Place(b, i))
      <3>1. Place(b, i)' = Place(b, i)
        BY <1>6
      <3>2. \A x : Place(b, i)' = x => Value(Place(b, i))' = Value(x)'
        BY DEF Value, Read
      <3>3. QED
        BY <1>5, <3>1, <3>2
    <2>2. folds /\ i # o => Place(b, i) # c
      BY <1>1, <1>7, PlaceInFoot
    <2>3. QED
      BY <1>7, <2>1, <2>2
  <1>9. ~Delivered(b) /\ ~Delivered(b)'
    BY <1>1, PlaceInFoot, MaxNames DEF Delivered
  <1>10. ASSUME NEW i, Taken(b, i)', ~Taken(b, i)
         PROVE  Active(t, s) /\ i = o + s
    <2>1. PICK u \in Threads, q \in Nat : q < done'[<<b, u>>] /\ Takes(u, q, i)
      BY <1>1, <1>10, MaxNames DEF Taken
    <2>2. ~(q < done[<<b, u>>])
      BY <1>10, <2>1 DEF Taken
    <2>3. u = t /\ q = p
      BY <1>1, <2>1, <2>2
    <2>4. QED
      BY <2>1, <2>3 DEF Takes
  <1>11. Active(t, s) => ~Taken(b, o)'
    <2> SUFFICES ASSUME Active(t, s), Taken(b, o)' PROVE FALSE
      OBVIOUS
    <2>1. PICK u \in Threads, q \in Nat : q < done'[<<b, u>>] /\ Takes(u, q, o)
      BY <1>1, MaxNames DEF Taken
    <2>2. q <= p
      BY <1>1, <2>1
    <2>3. QED
      BY <1>1, <2>1, <2>2, NotTaken
  <1>12. Within(b)' = Within(b) /\ Inputs' = Inputs
    BY <1>1, MaxNames
  <1>13. BlockOK(b) => BlockOK(b)'
    BY <1>7, <1>8, <1>9, <1>12 DEF BlockOK
  <1>14. ASSUME NEW v, Has(b, v) PROVE Has(b, v)'
    <2>1. PICK i \in Within(b) : ~Taken(b, i) /\ v \in Value(Place(b, i))
      BY <1>9, <1>14 DEF Has
    <2>2. CASE Taken(b, i)'
      <3>1. Active(t, s) /\ i = o + s
        BY <1>10, <2>1, <2>2
      <3>2. folds
        BY <1>1, <2>1, <3>1, PlaceInFoot DEF Positive
      <3>3. o \in Within(b) /\ v \in Value(Place(b, o))'
        BY <1>7, <1>8, <2>1, <3>1, <3>2
      <3>4. QED
        BY <1>9, <1>11, <1>12, <3>1, <3>3 DEF Has
    <2>3. CASE ~Taken(b, i)'
      <3>1. v \in Value(Place(b, i))'
        BY <1>7, <1>8, <2>1
      <3>2. QED
        BY <1>9, <1>12, <2>3, <3>1 DEF Has
    <2>4. QED
      BY <2>2, <2>3
  <1>15. QED
    BY <1>13, <1>14

\* In the end one value is left, and the first thread delivers it.
LEMMA EndOwn ==
    ASSUME IsMax, NEW b, NEW t, NEW p, Runs(b, t, p), Ends(p)
    PROVE  /\ BlockOK(b) => BlockOK(b)'
           /\ \A v : Has(b, v) => Has(b, v)'
  <1> DEFINE c == CellAt(b, 0)
             d == Output(b[1])
             first == t = <<0, 0>>
  <1>1. /\ b \in Blocks /\ t \in Threads /\ p \in Nat /\ p = done[<<b, t>>]
        /\ p + 1 = Phases /\ p < Phases
        /\ \A u \in Threads : /\ done[<<b, u>>] \in {p, p + 1}
                              /\ done'[<<b, u>>] = IF u = t THEN p + 1 ELSE done[<<b, u>>]
        /\ job' = job /\ launch' = launch
    <2>1. p + 1 = Phases
      BY MaxRuns DEF Ends
    <2>2. job' = job /\ launch' = launch
      BY DEF Runs
    <2>3. QED
      BY <2>1, <2>2, MaxRuns
  <1>2. (InGlobal \/ p # 0) /\ \A q : InRounds(q) => q < p /\ q \in Nat
    BY RoundsFacts DEF Ends, InRounds
  <1>3. \A x : Value(x)' = IF first /\ x = d THEN Value(c) ELSE Value(x)
    <2>1. first <=> t[1] = 0
      BY <1>1, MaxPlaces
    <2>2. EffectOf(b, t) = IF t[1] = 0 THEN Effect({c}, Cell(d, Value(c)), <<>>)
                           ELSE Effect({}, Nothing, <<>>)
      <3>1. Ends(done[<<b, t>>])
        BY <1>1
      <3>2. QED
        BY <1>1, <3>1, EndEffect
    <2> HIDE DEF c, d, first
    <2>3. EffectOf(b, t).writes = IF first THEN Cell(d, Value(c)) ELSE Nothing
      BY <2>1, <2>2 DEF Effect
    <2>4. CASE first
      <3>1. /\ DOMAIN EffectOf(b, t).writes = {d}
            /\ EffectOf(b, t).writes[d] = Value(c)
        BY <2>3, <2>4 DEF Cell
      <3>2. QED
        BY <2>4, <3>1, Values
    <2>5. CASE ~first
      <3>1. DOMAIN EffectOf(b, t).writes = {}
        BY <2>3, <2>5 DEF Nothing
      <3>2. QED
        BY <2>5, <3>1, Values
    <2>6. QED
      BY <2>4, <2>5
  <1>4. ASSUME NEW i \in Within(b)
        PROVE  /\ Place(b, i) = CellAt(b, i)
               /\ Value(Place(b, i))' = Value(Place(b, i))
    <2>1. Place(b, i) = CellAt(b, i) /\ Place(b, i)' = Place(b, i)
      BY <1>2, AfterLoads
    <2>2. Place(b, i) # d
      BY <1>1, PlaceInFoot
    <2> HIDE DEF c, d, first
    <2>3. Value(Place(b, i))' = Value(Place(b, i))
      BY <1>3, <2>1, <2>2 DEF Value, Read
    <2>4. QED
      BY <2>1, <2>3
  <1>5. ASSUME NEW i PROVE Taken(b, i)' => Taken(b, i)
    <2> SUFFICES ASSUME Taken(b, i)' PROVE Taken(b, i)
      OBVIOUS
    <2>1. PICK u \in Threads, q \in Nat : q < done'[<<b, u>>] /\ Takes(u, q, i)
      BY <1>1, MaxNames DEF Taken
    <2>2. q < p
      BY <1>2, <2>1 DEF Takes
    <2>3. q < done[<<b, u>>]
      BY <1>1, <2>2
    <2>4. QED
      BY <2>1, <2>3 DEF Taken
  <1>6. Within(b)' = Within(b) /\ Inputs' = Inputs /\ Phases' = Phases /\ d' = d
    BY <1>1, MaxNames
  <1>7. CASE first
    <2>1. 0 \in Within(b) /\ <<0, 0>> \in Threads
      BY <1>1, PlaceInFoot
    <2>2. ~Delivered(b) /\ Delivered(b)'
      BY <1>1, <1>6, <1>7, <2>1 DEF Delivered
    <2>3. Value(d)' = Value(Place(b, 0))
      <3>1. Value(d)' = Value(c)
        BY <1>3, <1>6, <1>7 DEF Value, Read
      <3>2. QED
        BY <1>4, <2>1, <3>1
    <2>4. BlockOK(b) => BlockOK(b)'
      BY <1>4, <1>6, <2>1, <2>3 DEF BlockOK
    <2>5. ASSUME NEW v, Has(b, v) PROVE Has(b, v)'
      <3>1. PICK i \in Within(b) : ~Taken(b, i) /\ v \in Value(Place(b, i))
        BY <2>2, <2>5 DEF Has
      <3>2. i = 0
        <4> SUFFICES ASSUME i # 0 PROVE FALSE
          OBVIOUS
        <4>1. i \in 1 .. blockDim - 1
          BY <3>1 DEF Within
        <4>2. PICK u \in Threads, q \in Nat : Takes(u, q, i)
          BY <4>1, AllTaken
        <4>3. q < p
          BY <1>2, <4>2 DEF Takes
        <4>4. q < done[<<b, u>>]
          BY <1>1, <4>3
        <4>5. QED
          BY <3>1, <4>2, <4>4 DEF Taken
      <3>3. QED
        BY <2>2, <2>3, <3>1, <3>2 DEF Has
    <2>6. QED
      BY <2>4, <2>5
  <1>8. CASE ~first
    <2>1. <<0, 0>> \in Threads
      BY <1>1, PlaceInFoot
    <2>2. Delivered(b)' <=> Delivered(b)
      BY <1>1, <1>6, <1>8, <2>1 DEF Delivered
    <2>3. Value(d)' = Value(d)
      BY <1>3, <1>6, <1>8 DEF Value, Read
    <2>4. QED
      BY <1>4, <1>5, <1>6, <2>2, <2>3 DEF BlockOK, Has
  <1>9. QED
    BY <1>7, <1>8

\* A step of a thread.
LEMMA MaxStep ==
    ASSUME IsMax, MaxOK, NEW b, NEW t, NEW p, Runs(b, t, p)
    PROVE  MaxOK'
  <1>1. b \in Blocks /\ t \in Threads /\ p \in Nat /\ p = done[<<b, t>>]
        /\ job' = job /\ launch' = launch /\ res' = res
    BY DEF Runs
  <1>2. job.kernel \in MaxVersions
    BY DEF IsMax
  <1>3. (BlockOK(b) => BlockOK(b)') /\ \A v : Has(b, v) => Has(b, v)'
    <2>1. CASE Loads(p) /\ ~Ends(p)
      BY <2>1, LoadOwn
    <2>2. CASE Ends(p)
      BY <2>2, EndOwn
    <2>3. CASE InRounds(p)
      <3> DEFINE s == Stride(p)
                 o == Offset(t, s)
      <3>1. PICK m \in Positive : s \in Positive /\ blockDim = 2 * (s * m)
        BY <1>1, <2>3, StrideFacts
      <3>2. t[1] \in Nat
        BY <1>1, MaxPlaces
      <3>3. o \in Nat
        <4>1. s \in Nat
          BY <3>1 DEF Positive
        <4> HIDE DEF s
        <4>2. QED
          BY <3>2, <4>1 DEF Offset
      <3>4. Active(t, s) => o + s \in 0 .. blockDim - 1
        BY <1>1, <3>1, PairsApart
      <3>5. ASSUME NEW r \in Positive, r = s, NEW q \in Nat, q = o
            PROVE  (BlockOK(b) => BlockOK(b)') /\ \A v : Has(b, v) => Has(b, v)'
        <4>1. r = Stride(p) /\ q = Offset(t, r)
          BY <3>5
        <4>2. Active(t, r) => q + r \in 0 .. blockDim - 1
          BY <3>4, <3>5
        <4>3. QED
          BY <2>3, <4>1, <4>2, RoundOwn
      <3> HIDE DEF s, o
      <3>6. QED
        BY <3>1, <3>3, <3>5
    <2>4. QED
      BY <2>1, <2>2, <2>3, MaxRuns
  <1>4. \A c \in Blocks : (BlockOK(c) => BlockOK(c)') /\ \A v : Has(c, v) => Has(c, v)'
    BY <1>3, OtherBlock
  <1>5. Blocks' = Blocks /\ Inputs' = Inputs
    BY <1>1, MaxNames
  <1>6. QED
    BY <1>1, <1>2, <1>4, <1>5 DEF MaxOK

\* The values that a launch finds are those of inputs, and of all of them.
ArrOK ==
    /\ \A j \in 0 .. launch.size - 1 : Value(Arr(j)) \subseteq Inputs
    /\ \A v \in Inputs : \E j \in 0 .. launch.size - 1 : v \in Value(Arr(j))

\* Each value has its block.
LEMMA BlockOf ==
    ASSUME IsMax, NEW j \in 0 .. launch.size - 1
    PROVE  \E b \in Blocks : \E i \in Within(b) : b[1] * blockDim + i = j
  <1> DEFINE d == blockDim
             n == launch.size + d - 1
             k == n \div d
             q == j \div d
             r == j % d
             b == <<q, 0>>
  <1>1. /\ d \in Positive /\ launch.size \in Positive /\ launch.grid.y = 1
        /\ launch.grid.x = num_blocks(launch.size)
    BY MaxPlaces DEF IsMax, LaunchOK
  <1>2. launch.grid.x = k
    <2>1. launch.grid.x = num_blocks(launch.size)
      BY <1>1
    <2>2. QED
      BY <2>1 DEF num_blocks
  <1>3. n \in Nat /\ n = launch.size + (d - 1) /\ j \in Nat /\ j <= launch.size - 1
    BY <1>1 DEF Positive
  <1>4. /\ k \in Nat /\ n < d * k + d
        /\ q \in Nat /\ r \in 0 .. d - 1 /\ j = d * q + r
    <2> HIDE DEF n, d
    <2>1. n = d * (n \div d) + (n % d) /\ n % d < d /\ n % d \in Nat /\ k \in Nat
      BY <1>1, <1>3 DEF Positive
    <2>2. q \in Nat /\ r \in 0 .. d - 1 /\ j = d * q + r
      BY <1>1, <1>3 DEF Positive
    <2>3. d * k \in Nat /\ d \in Nat
      BY <1>1, <2>1 DEF Positive
    <2> HIDE DEF q, r
    <2>4. n < d * k + d
      BY <1>3, <2>1, <2>3
    <2>5. QED
      BY <2>1, <2>2, <2>4
  <1> HIDE DEF n, k, q, r, d
  <1>5. q < k
    <2>1. SUFFICES ASSUME q >= k PROVE FALSE
      BY <1>4
    <2>2. q - k \in Nat /\ (q - k) * d \in Nat /\ d * q = (q - k) * d + d * k
      BY <1>1, <1>4, <2>1 DEF Positive
    <2>3. d * k \in Nat /\ d * q \in Nat /\ d \in Nat /\ launch.size \in Nat
      BY <1>1, <1>4 DEF Positive
    <2>4. QED
      BY <1>3, <1>4, <2>2, <2>3
  <1>6. b \in Blocks
    BY <1>1, <1>2, <1>4, <1>5 DEF Blocks, Pairs
  <1>7. b[1] * d + r = j
    <2>1. q * d = d * q
      BY <1>1, <1>4 DEF Positive
    <2>2. QED
      BY <1>4, <2>1
  <1>8. r \in Within(b)
    BY <1>1, <1>3, <1>4, <1>7 DEF Within, d, Positive
  <1> HIDE DEF b
  <1>9. QED
    BY <1>6, <1>7, <1>8 DEF d

\* A launch that has just begun.
LEMMA FreshOK ==
    IsMax /\ done = [g \in Grid |-> 0] /\ res = {} /\ ArrOK => MaxOK
  <1> SUFFICES ASSUME IsMax, done = [g \in Grid |-> 0], res = {}, ArrOK PROVE MaxOK
    OBVIOUS
  <1>1. \A b \in Blocks : \A t \in Threads : done[<<b, t>>] = 0
    BY DEF Grid
  <1>2. Phases # 0
    BY RoundsFacts DEF IsMax, MaxVersions, Phases
  <1>3. ASSUME NEW b \in Blocks
        PROVE  /\ ~Delivered(b) /\ \A i : ~Taken(b, i)
               /\ \A i \in Within(b) : /\ b[1] * blockDim + i \in 0 .. launch.size - 1
                                       /\ Place(b, i) = Arr(b[1] * blockDim + i)
    <2>1. /\ <<0, 0>> \in Threads
          /\ \A i \in Within(b) : i \in Nat /\ <<i, 0>> \in Threads
      BY PlaceInFoot
    <2>2. ~Delivered(b)
      <3>1. done[<<b, <<0, 0>>>>] = 0
        BY <1>1, <2>1
      <3>2. QED
        BY <1>2, <3>1 DEF Delivered
    <2>3. \A i : ~Taken(b, i)
      <3> SUFFICES ASSUME NEW i, NEW t \in Threads, NEW p \in Nat, p < done[<<b, t>>]
                   PROVE  FALSE
        BY DEF Taken
      <3>1. QED
        BY <1>1
    <2>4. ASSUME NEW i \in Within(b)
          PROVE  /\ b[1] * blockDim + i \in 0 .. launch.size - 1
                 /\ Place(b, i) = Arr(b[1] * blockDim + i)
      <3>1. b[1] * blockDim \in Nat /\ i \in Nat /\ launch.size \in Nat
            /\ b[1] * blockDim + i < launch.size
        BY <2>1, MaxPlaces DEF Within, Positive
      <3>2. b[1] * blockDim + i \in 0 .. launch.size - 1
        BY <3>1
      <3>3. QED
        BY <1>1, <2>1, <3>2 DEF Place
    <2>5. QED
      BY <2>2, <2>3, <2>4
  <1>4. \A b \in Blocks : BlockOK(b)
    BY <1>3 DEF BlockOK, ArrOK
  <1>5. ASSUME NEW v \in Inputs PROVE \E b \in Blocks : Has(b, v)
    <2>1. PICK j \in 0 .. launch.size - 1 : v \in Value(Arr(j))
      BY DEF ArrOK
    <2>2. PICK b \in Blocks : \E i \in Within(b) : b[1] * blockDim + i = j
      BY BlockOf
    <2>3. PICK i \in Within(b) : b[1] * blockDim + i = j
      BY <2>2
    <2>4. v \in Value(Place(b, i))
      BY <1>3, <2>1, <2>3
    <2>5. QED
      BY <1>3, <2>4 DEF Has
  <1>6. QED
    BY <1>4, <1>5 DEF MaxOK

\* Before the first launch, each cell of the first buffer has its input.
LEMMA MaxStart == Init /\ TypesInv => MaxOK
  <1> SUFFICES ASSUME Init, TypesInv, job.kernel \in MaxVersions PROVE MaxOK
    BY DEF MaxOK
  <1>1. IsMax
    BY DEF TypesInv, IsMax
  <1>2. MaxInit
    <2>1. MatrixInit => job.kernel \in MatrixVersions
      <3> SUFFICES ASSUME MatrixInit PROVE job.kernel \in MatrixVersions
        OBVIOUS
      <3>1. PICK j \in MatrixJobs, version \in MatrixVersions :
              job = [kernel |-> version, size |-> j[1], block |-> [x |-> j[2], y |-> j[3]],
                     resident |-> j[4]]
        BY DEF MatrixInit
      <3>2. QED
        BY <3>1
    <2>2. QED
      BY <2>1 DEF Init, MatrixVersions, MaxVersions
  <1>3. /\ launch.size = job.size /\ launch.arr = "arr_device"
        /\ mem = [c \in {"arr_device"} \X (0 .. job.size - 1) |-> {c[2]}]
    BY <1>2 DEF MaxInit
  <1>4. \A j \in 0 .. launch.size - 1 : Value(Arr(j)) = {j}
    <2> SUFFICES ASSUME NEW j \in 0 .. launch.size - 1 PROVE Value(Arr(j)) = {j}
      OBVIOUS
    <2>1. Arr(j) = <<"arr_device", j>>
      BY <1>3 DEF Arr
    <2>2. <<"arr_device", j>> \in DOMAIN mem /\ mem[<<"arr_device", j>>] = {j}
      BY <1>3
    <2>3. QED
      BY <2>1, <2>2 DEF Value, Read
  <1>5. ArrOK
    BY <1>3, <1>4 DEF ArrOK, Inputs
  <1>6. done = [g \in Grid |-> 0] /\ res = {}
    BY DEF Init, Fresh, Grid, Blocks
  <1>7. QED
    BY <1>1, <1>5, <1>6, FreshOK

\* When all have ended, each block has delivered.
LEMMA AllDelivered ==
    ASSUME IsMax, Over, NEW b \in Blocks PROVE Delivered(b)
  <1>1. <<b, <<0, 0>>>> \in Grid
    BY PlaceInFoot DEF Grid
  <1>2. QED
    BY <1>1 DEF Over, Delivered

\* The values that the blocks have delivered are those of the next launch.
LEMMA RelaunchOK == TypesInv /\ TypesInv' /\ MaxOK /\ Relaunch => MaxOK'
  <1>0. (IsMax /\ done = [g \in Grid |-> 0] /\ res = {} /\ ArrOK => MaxOK)'
    BY FreshOK, PTL
  <1> SUFFICES ASSUME TypesInv, TypesInv', MaxOK, Relaunch PROVE MaxOK'
    OBVIOUS
  <1>1. /\ job.kernel \in MaxVersions /\ Over /\ res = {} /\ job' = job /\ res' = {}
        /\ launch'.size = launch.grid.x /\ launch'.arr = launch.output
        /\ done' = Fresh(launch'.grid)
        /\ mem' = [c \in {c \in DOMAIN mem : c[1] # "shared"} |-> mem[c]]
    BY DEF Relaunch
  <1>2. IsMax /\ IsMax'
    BY <1>1 DEF TypesInv, IsMax
  <1>3. done' = [g \in Grid' |-> 0]
    BY <1>1 DEF Fresh, Grid, Blocks, Threads
  <1>4. Inputs' = Inputs
    BY <1>1 DEF Inputs
  <1>5. \A j : Value(Arr(j))' = Value(Output(j))
    <2> SUFFICES ASSUME NEW j PROVE Value(Arr(j))' = Value(Output(j))
      OBVIOUS
    <2>1. Arr(j)' = Output(j)
      BY <1>1 DEF Arr, Output
    <2>2. Output(j)[1] # "shared"
      BY <1>2 DEF Output, IsMax, LaunchOK
    <2>3. Output(j) \in DOMAIN mem <=> Output(j) \in DOMAIN mem'
      BY <1>1, <2>2
    <2>4. Output(j) \in DOMAIN mem => mem'[Output(j)] = mem[Output(j)]
      BY <1>1, <2>2
    <2>5. QED
      BY <2>1, <2>3, <2>4 DEF Value, Read
  <1>6. \A b \in Blocks : b[1] \in 0 .. launch.grid.x - 1
    BY <1>2, MaxPlaces
  <1>7. \A j \in 0 .. launch.grid.x - 1 : <<j, 0>> \in Blocks /\ <<j, 0>>[1] = j
    BY <1>2 DEF Blocks, Pairs, IsMax, LaunchOK
  <1>8. \A b \in Blocks : Delivered(b)
    BY <1>1, <1>2, AllDelivered
  <1>9. \A j \in 0 .. launch.grid.x - 1 : Value(Output(j)) \subseteq Inputs
    <2> SUFFICES ASSUME NEW j \in 0 .. launch.grid.x - 1
                 PROVE  Value(Output(j)) \subseteq Inputs
      OBVIOUS
    <2> DEFINE b == <<j, 0>>
    <2>1. b \in Blocks /\ b[1] = j
      BY <1>7
    <2> HIDE DEF b
    <2>2. QED
      BY <1>1, <1>8, <2>1 DEF MaxOK, BlockOK
  <1>10. \A v \in Inputs : \E j \in 0 .. launch.grid.x - 1 : v \in Value(Output(j))
    BY <1>1, <1>6, <1>8 DEF MaxOK, Has
  <1>11. ArrOK'
    BY <1>1, <1>4, <1>5, <1>9, <1>10 DEF ArrOK
  <1>12. QED
    BY <1>0, <1>1, <1>2, <1>3, <1>11

\* What blocks have depends on the job, the launch and the device.
LEMMA SameMax ==
    ASSUME UNCHANGED <<job, launch, device>>
    PROVE  /\ \A b : BlockOK(b)' = BlockOK(b)
           /\ \A b, v : Has(b, v)' = Has(b, v)
           /\ Blocks' = Blocks /\ Inputs' = Inputs
  <1>1. job' = job /\ launch' = launch /\ done' = done /\ mem' = mem
    BY DEF device
  <1>2. \A x : Value(x)' = Value(x)
    BY <1>1 DEF Value, Read
  <1>3. \A b, i : Place(b, i)' = Place(b, i)
    BY <1>1, MaxNames DEF Place, Shared
  <1>4. \A b, i : Value(Place(b, i))' = Value(Place(b, i))
    BY <1>2, <1>3 DEF Value, Read
  <1>5. \A b : Value(Output(b[1]))' = Value(Output(b[1]))
    BY <1>1, <1>2, MaxNames DEF Value, Read
  <1>6. \A b : Delivered(b)' = Delivered(b)
    BY <1>1, MaxNames DEF Delivered
  <1>7. \A b, i : Taken(b, i)' = Taken(b, i)
    BY <1>1, MaxNames DEF Taken
  <1>8. QED
    BY <1>1, <1>4, <1>5, <1>6, <1>7, MaxNames DEF BlockOK, Has

\* One block has delivered the maximum of all inputs.
LEMMA ReturnOK == TypesInv /\ MaxOK /\ Return => MaxOK'
  <1> SUFFICES ASSUME TypesInv, MaxOK, Return PROVE MaxOK'
    OBVIOUS
  <1>1. /\ job.kernel \in MaxVersions /\ Over /\ launch.grid.x <= 1
        /\ res' = Value(Output(0)) /\ UNCHANGED <<job, launch, device>> /\ job' = job
    BY DEF Return, Output
  <1>2. IsMax
    BY <1>1 DEF TypesInv, IsMax
  <1>3. launch.grid.x = 1 /\ launch.grid.y = 1
    BY <1>1, <1>2 DEF IsMax, LaunchOK, Positive
  <1>4. \A b \in Blocks : b[1] = 0 /\ Delivered(b)
    BY <1>1, <1>2, <1>3, MaxPlaces, AllDelivered
  <1>5. <<0, 0>> \in Blocks
    BY <1>3 DEF Blocks, Pairs
  <1>6. Value(Output(0)) \subseteq Inputs
    BY <1>1, <1>4, <1>5 DEF MaxOK, BlockOK
  <1>7. Inputs \subseteq Value(Output(0))
    BY <1>1, <1>4 DEF MaxOK, Has
  <1>8. res' = Inputs
    BY <1>1, <1>6, <1>7
  <1>9. QED
    BY <1>1, <1>8, SameMax DEF MaxOK

-----------------------------------------------------------------------------
\* The strengthening of SameAsSerial.
ValueInv == RunInv /\ MatrixOK /\ MaxOK

\* The strengthening holds at first ...
LEMMA ValueInit == Init /\ TypesInv => ValueInv
  BY RunInit, MatrixStart, MaxStart DEF ValueInv

\* ... is kept by every step ...
LEMMA ValueStep == TypesInv /\ TypesInv' /\ ValueInv /\ [Next]_vars => ValueInv'
  <1> SUFFICES ASSUME TypesInv, TypesInv', ValueInv, [Next]_vars PROVE ValueInv'
    OBVIOUS
  <1>1. RunInv'
    BY RunStep DEF ValueInv
  <1>2. ASSUME NEW g \in Grid, Step(g) PROVE MatrixOK' /\ MaxOK'
    <2> DEFINE b == g[1]
               t == g[2]
               p == done[g]
    <2>1. Runs(b, t, p)
      BY <1>2, StepRuns DEF ValueInv
    <2>2. job' = job
      BY <2>1 DEF Runs
    <2>3. ASSUME NEW c, NEW u, NEW q, Runs(c, u, q) PROVE MatrixOK' /\ MaxOK'
      <3>1. CASE job.kernel \in MatrixVersions
        <4>1. IsMatrix /\ job.kernel \notin MaxVersions
          BY <3>1 DEF TypesInv, IsMatrix, MatrixVersions, MaxVersions
        <4>2. MatrixOK'
          BY <2>3, <4>1, MatrixStep DEF ValueInv
        <4>3. QED
          BY <2>2, <4>1, <4>2 DEF MaxOK
      <3>2. CASE job.kernel \in MaxVersions
        <4>1. IsMax /\ job.kernel \notin MatrixVersions
          BY <3>2 DEF TypesInv, IsMax, MatrixVersions, MaxVersions
        <4>2. MaxOK'
          BY <2>3, <4>1, MaxStep DEF ValueInv
        <4>3. QED
          BY <2>2, <4>1, <4>2 DEF MatrixOK
      <3>3. QED
        BY <3>1, <3>2 DEF TypesInv, JobOK
    <2> HIDE DEF b, t, p
    <2>4. QED
      BY <2>1, <2>3
  <1>3. CASE Relaunch
    <2>1. MaxOK'
      BY <1>3, RelaunchOK DEF ValueInv
    <2>2. job' = job /\ job.kernel \notin MatrixVersions
      BY <1>3 DEF Relaunch, MatrixVersions, MaxVersions
    <2>3. QED
      BY <1>1, <2>1, <2>2 DEF ValueInv, MatrixOK
  <1>4. CASE Return
    <2>1. MaxOK'
      BY <1>4, ReturnOK DEF ValueInv
    <2>2. job' = job /\ job.kernel \notin MatrixVersions
      BY <1>4 DEF Return, MatrixVersions, MaxVersions
    <2>3. QED
      BY <1>1, <2>1, <2>2 DEF ValueInv, MatrixOK
  <1>5. CASE UNCHANGED vars
    <2>1. /\ job' = job /\ launch' = launch /\ done' = done /\ mem' = mem
          /\ result' = result /\ res' = res /\ UNCHANGED <<job, launch, device>>
      BY <1>5 DEF vars, device
    <2>2. MaxOK'
      BY <2>1, SameMax DEF MaxOK, ValueInv
    <2>3. \A b, t, p : ThreadOK(b, t, p)' = ThreadOK(b, t, p)
      BY <2>1, SameNames, SameGrid
         DEF ThreadOK, TileOK, SumOK, StoreOK, Holds, Shared, First
    <2>4. MatrixOK'
      BY <2>1, <2>3, SameGrid DEF MatrixOK, ValueInv
    <2>5. QED
      BY <1>1, <2>2, <2>4 DEF ValueInv
  <1>6. QED
    BY <1>1, <1>2, <1>3, <1>4, <1>5 DEF Next, Exit, ValueInv

\* ... and gives the results of the serial versions in the end.
LEMMA ValueSame == TypesInv /\ ValueInv => SameAsSerial
  <1> SUFFICES ASSUME TypesInv, ValueInv, Finished
               PROVE  AsSerial <=> ~(job.kernel = "matrix_3" /\ job.block.x < job.block.y)
    BY DEF SameAsSerial
  <1>1. CASE job.kernel \in MatrixVersions
    <2>1. IsMatrix /\ MatrixOK /\ Over
      BY <1>1 DEF TypesInv, ValueInv, IsMatrix, Finished
    <2>2. QED
      BY <2>1, MatrixEnd DEF Narrow
  <1>2. CASE job.kernel \in MaxVersions
    <2>1. res = Inputs
      BY <1>2 DEF ValueInv, MaxOK, Finished
    <2>2. job.kernel # "matrix_3" /\ job.kernel \notin MatrixVersions
      BY <1>2 DEF MatrixVersions, MaxVersions
    <2>3. QED
      BY <2>1, <2>2 DEF AsSerial, Inputs
  <1>3. QED
    BY <1>1, <1>2 DEF TypesInv, JobOK

\* SameAsSerial, for the sizes of RaceFree: the elements of C are the sums of the
\* same products in the same order as the serial version's, the maximum is that of
\* all the inputs and of nothing else; and cuda_3 of p1 is wrong for every narrow
\* block.
THEOREM SerialSame == Safety => []SameAsSerial
  <1>1. Init => TypesInv /\ ValueInv
    BY TypesInit, ValueInit
  <1>2. (TypesInv /\ ValueInv) /\ [Next]_vars => (TypesInv /\ ValueInv)'
    BY TypesStep, ValueStep
  <1>3. QED
    BY <1>1, <1>2, ValueSame, PTL DEF Safety
=============================================================================
