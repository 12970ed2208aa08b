-------------------------- MODULE WorkSharingProofs --------------------------
(***************************************************************************)
(* What TLC checks of the OpenMP programs for a team of up to three and    *)
(* five iterations, proved for any number of threads, words and tasks for  *)
(* which the programs' arithmetic on them fits an int (Fits): each         *)
(* iteration that counts goes into one result, once, whichever thread runs *)
(* it and whenever; the report is that of the serial program, and the      *)
(* lines of the output are whole.                                          *)
(*                                                                         *)
(* Without Fits this is false of the code: example2_mystatic has 10^8      *)
(* tasks, and from 22 threads on (tid + 1) * N is no int any more, so that *)
(* the last block is lost.                                                 *)
(*                                                                         *)
(* The invariant says where each iteration is: with the thread it was      *)
(* handed to (Handed), either among those it still holds or in its result  *)
(* (OnceInv), and nowhere else; and none that counts gets lost (KeptInv).  *)
(***************************************************************************)
EXTENDS WorkSharing, FiniteSetTheorems, FunctionTheorems, WellFoundedInduction, TLAPS

\* No value twice, and in order.
Ascending(s) == \A j, k \in DOMAIN s : j < k => s[j] < s[k]

\* The iterations that went into the result of a thread, and those with the
\* ones it still holds.
Added(t) == {i \in Tasks : local[t][i] = 1}
Has(t)   == ToSet(mine[t]) \cup Added(t)

\* What has been handed to a thread of a loop: the share of it alone, or all
\* that anybody has been given.
Handed(t, k) ==
    IF SharedOut(Loops[k]) THEN Loops[k].lo .. next - 1
    ELSE IF loop[t] > k \/ (loop[t] = k /\ given[t]) THEN ToSet(Share(t, Loops[k]))
    ELSE {}

\* What the programs compute from the size of the team stays within an int:
\* (tid + 1) * N for blocks, and i += jump, past the last i, for the others.
FitsInt(l) ==
    /\ l.schedule = "blocks" => tnum * l.hi <= MaxInt
    /\ l.schedule = "cyclic" => l.hi + tnum * chunk_size - 1 <= MaxInt

Fits == \A k \in DOMAIN Loops : FitsInt(Loops[k])

\* The loops follow one another, those with static shares first, and what
\* counts is in one of them.
LoopOK(l) ==
    /\ l.lo \in Nat /\ l.hi \in Nat /\ l.lo <= l.hi /\ l.hi <= MaxTasks
    /\ \/ SharedOut(l) \/ l.schedule = "static"
       \/ l.schedule = "blocks" /\ l.lo = 0
       \/ l.schedule = "cyclic" /\ l.lo = 0 /\ chunk_size = 1
    /\ FitsInt(l)

RegionOK ==
    /\ Len(Loops) \in {1, 2} /\ DOMAIN Loops = 1 .. Len(Loops)
    /\ \A k \in DOMAIN Loops : LoopOK(Loops[k])
    /\ Len(Loops) = 2 => Loops[1].hi <= Loops[2].lo /\ ~SharedOut(Loops[1])
    /\ program.counts \subseteq UNION {Loops[k].lo .. Loops[k].hi - 1 : k \in DOMAIN Loops}
    /\ program.output \in {"none", "critical", "afterwards"}
    /\ pairs >= 0 => pairs = Cardinality(program.counts)

TypeOK ==
    /\ tnum \in 1..thread_cnt
    /\ loop \in [Threads -> 1..Past]
    /\ mine \in [Threads -> Seq(Tasks)]
    /\ given \in [Threads -> BOOLEAN]
    /\ next \in Nat
    /\ local \in [Threads -> [Tasks -> 0..1]]
    /\ writing \in Team \cup {-1}
    /\ palin_cnt \in Nat \cup {-1}

\* Where a thread is in its loop.
PlaceInv ==
    /\ \A t \in Threads : Ascending(mine[t])
    /\ \A t \in Threads \ Team : mine[t] = <<>> /\ Added(t) = {}
    /\ \A t \in Team : mine[t] # <<>> => loop[t] # Past
    /\ \A t \in Team, k \in DOMAIN Loops :
           /\ loop[t] = k /\ ~given[t] /\ ~SharedOut(Loops[k]) => mine[t] = <<>>
           /\ SharedOut(Loops[k]) =>
                  /\ next \in Loops[k].lo .. Loops[k].hi
                  /\ loop[t] > k => next = Loops[k].hi

\* An iteration is with one thread at most, once, and was handed to it.
OnceInv ==
    /\ \A t, u \in Team : t # u => Has(t) \cap Has(u) = {}
    /\ \A t \in Team : /\ ToSet(mine[t]) \cap Added(t) = {}
                       /\ Added(t) \subseteq program.counts
                       /\ Has(t) \subseteq UNION {Handed(t, k) : k \in DOMAIN Loops}

\* And none that counts is lost.
KeptInv ==
    \A t \in Team, k \in DOMAIN Loops : \A i \in Handed(t, k) \cap program.counts :
        \E u \in Team : i \in Has(u)

\* The lines, while they are written and in the end.
Counted == UNION {Added(t) : t \in Team}

OutputInv ==
    /\ writing # -1 => /\ program.output = "critical"
                       /\ mine[writing] # <<>> /\ Head(mine[writing]) \in program.counts
                       /\ ofs # <<>> /\ ofs[Len(ofs)] = <<Head(mine[writing]), 1>>
    /\ ofs \in Seq(Tasks \X {1, 2})
    /\ \A k \in DOMAIN ofs : k % 2 = 0 => ofs[k] = <<ofs[k - 1][1], 2>>
    /\ program.output = "critical" =>
           /\ Len(ofs) = 2 * Cardinality(Counted) + (IF writing = -1 THEN 0 ELSE 1)
           /\ ToSet(ofs) = (Counted \X {1, 2})
                           \cup (IF writing = -1 THEN {} ELSE {<<Head(mine[writing]), 1>>})
    /\ program.output # "critical" /\ palin_cnt = -1 => ofs = <<>>
    /\ program.output = "afterwards" /\ palin_cnt # -1 =>
           /\ Len(ofs) = 2 * Cardinality(Counted)
           /\ ToSet(ofs) = Counted \X {1, 2}

\* What main reports.
ReportInv == palin_cnt # -1 => Joined /\ palin_cnt = Cardinality(Counted)

IndInv == RegionOK /\ TypeOK /\ PlaceInv /\ OnceInv /\ KeptInv /\ OutputInv /\ ReportInv

\* A set of numbers has a least one, and induction in the form the proofs below
\* use it: on the set of the numbers something holds for.
LEMMA Least ==
    ASSUME NEW T \in SUBSET Nat, T # {}
    PROVE  \E m \in T : \A k \in T : m <= k
  <1> DEFINE R == OpToRel(<, Nat)
  <1>1. \A k, m \in Nat : k < m => <<k, m>> \in R
    BY DEF OpToRel
  <1>2. IsWellFoundedOn(R, Nat)
    BY NatLessThanWellFounded, Zenon
  <1> HIDE DEF R
  <1>3. PICK m \in T : \A k \in T : ~(<<k, m>> \in R)
    BY <1>2, WFMin
  <1>4. ASSUME NEW k \in T PROVE m <= k
    <2>1. k \in Nat /\ m \in Nat
      OBVIOUS
    <2>2. ~(k < m)
      BY <1>1, <1>3, <2>1
    <2>3. QED
      BY <2>1, <2>2
  <1>5. QED
    BY <1>4

LEMMA Induction ==
    ASSUME NEW S, 0 \in S, \A n \in Nat : n \in S => n + 1 \in S
    PROVE  Nat \subseteq S
  <1> SUFFICES ASSUME Nat \ S # {} PROVE FALSE
    OBVIOUS
  <1>1. PICK m \in Nat \ S : \A k \in Nat \ S : m <= k
    BY Least
  <1>2. m - 1 \in Nat /\ ~(m <= m - 1) /\ m = (m - 1) + 1
    BY <1>1
  <1>3. m - 1 \in S
    BY <1>1, <1>2
  <1>4. QED
    BY <1>1, <1>2, <1>3

Ones(f, s) == {x \in s : f[x] = 1}
Sums(f, S, g) ==
    g = [s \in SUBSET S |-> IF s = {} THEN 0
                            ELSE f[CHOOSE x \in s : TRUE] + g[s \ {CHOOSE x \in s : TRUE}]]

\* How many of the values are 1, and what one more makes of it.
LEMMA OnesCounted ==
    ASSUME NEW S, IsFiniteSet(S), NEW f \in [S -> 0..1]
    PROVE  /\ \A s \in SUBSET S : Cardinality(Ones(f, s)) \in Nat
           /\ Cardinality(Ones(f, {})) = 0
           /\ \A s \in SUBSET S : \A x \in s :
                  Cardinality(Ones(f, s)) = f[x] + Cardinality(Ones(f, s \ {x}))
  <1>1. ASSUME NEW s \in SUBSET S
        PROVE  IsFiniteSet(Ones(f, s)) /\ Cardinality(Ones(f, s)) \in Nat
    <2>1. Ones(f, s) \in SUBSET S
      BY DEF Ones
    <2>2. QED
      BY <2>1, FS_Subset, FS_CardinalityType
  <1>2. ASSUME NEW s \in SUBSET S, NEW x \in s
        PROVE  Cardinality(Ones(f, s)) = f[x] + Cardinality(Ones(f, s \ {x}))
    <2>1. Ones(f, s \ {x}) = Ones(f, s) \ {x}
      BY DEF Ones
    <2>2. x \in Ones(f, s) <=> f[x] = 1
      BY DEF Ones
    <2>3. f[x] \in 0..1
      OBVIOUS
    <2>4. IsFiniteSet(Ones(f, s)) /\ Cardinality(Ones(f, s)) \in Nat
      BY <1>1
    <2>5. Cardinality(Ones(f, s) \ {x}) = IF x \in Ones(f, s) THEN Cardinality(Ones(f, s)) - 1
                                          ELSE Cardinality(Ones(f, s))
      BY <2>4, FS_RemoveElement
    <2>6. f[x] = IF x \in Ones(f, s) THEN 1 ELSE 0
      BY <2>2, <2>3
    <2>7. Cardinality(Ones(f, s \ {x})) = Cardinality(Ones(f, s) \ {x})
      BY <2>1, Zenon
    <2>8. QED
      BY <2>4, <2>5, <2>6, <2>7
  <1>3. Ones(f, {}) = {}
    BY DEF Ones
  <1>4. QED
    BY <1>1, <1>2, <1>3, FS_EmptySet

\* The recursion of FoldFunction counts the ones, by induction on the size.
LEMMA SumsOnes ==
    ASSUME NEW S, IsFiniteSet(S), NEW f \in [S -> 0..1],
           NEW g, Sums(f, S, g), NEW s \in SUBSET S
    PROVE  g[s] = Cardinality(Ones(f, s))
  <1> DEFINE P == {n \in Nat : \A u \in SUBSET S : Cardinality(u) = n =>
                                   g[u] = Cardinality(Ones(f, u))}
  <1>0. \A u \in SUBSET S : IsFiniteSet(u) /\ Cardinality(u) \in Nat
    BY FS_Subset, FS_CardinalityType
  <1>1. \A u \in SUBSET S : g[u] = IF u = {} THEN 0
             ELSE f[CHOOSE x \in u : TRUE] + g[u \ {CHOOSE x \in u : TRUE}]
    BY Zenon DEF Sums
  <1>2. 0 \in P
    <2>1. \A u \in SUBSET S : Cardinality(u) = 0 => u = {}
      BY <1>0, FS_EmptySet
    <2>2. QED
      BY <1>1, <2>1, OnesCounted
  <1>3. ASSUME NEW n \in Nat, n \in P PROVE n + 1 \in P
    <2>1. ASSUME NEW u \in SUBSET S, Cardinality(u) = n + 1
          PROVE  g[u] = Cardinality(Ones(f, u))
      <3>1. u # {}
        BY <2>1, FS_EmptySet
      <3> DEFINE x == CHOOSE x \in u : TRUE
      <3>2. x \in u
        BY <3>1
      <3>3. g[u] = f[x] + g[u \ {x}]
        BY <1>1, <3>1
      <3> HIDE DEF x
      <3>4. Cardinality(u \ {x}) = n
        <4>1. IsFiniteSet(u)
          BY <1>0
        <4>2. Cardinality(u \ {x}) = Cardinality(u) - 1
          BY <3>2, <4>1, FS_RemoveElement
        <4>3. QED
          BY <2>1, <4>2
      <3>5. g[u \ {x}] = Cardinality(Ones(f, u \ {x}))
        BY <1>3, <3>4
      <3>6. QED
        BY <3>2, <3>3, <3>5, OnesCounted
    <2>2. QED
      BY <2>1
  <1> HIDE DEF P
  <1>4. Cardinality(s) \in P
    BY <1>0, <1>2, <1>3, Induction
  <1>5. QED
    BY <1>4 DEF P

\* The sum of zeros and ones is the number of the ones.
LEMMA SumOfOnes ==
    ASSUME NEW S, IsFiniteSet(S), NEW f \in [S -> 0..1]
    PROVE  FoldFunction(+, 0, f) = Cardinality(Ones(f, S))
  <1> DEFINE h == [s \in SUBSET S |-> Cardinality(Ones(f, s))]
             g == CHOOSE g : Sums(f, S, g)
  <1>1. Sums(f, S, h)
    <2>1. ASSUME NEW s \in SUBSET S
          PROVE  h[s] = IF s = {} THEN 0
                        ELSE f[CHOOSE x \in s : TRUE] + h[s \ {CHOOSE x \in s : TRUE}]
      <3>1. CASE s = {}
        BY <3>1, OnesCounted
      <3>2. CASE s # {}
        <4> DEFINE x == CHOOSE x \in s : TRUE
        <4>1. x \in s
          BY <3>2
        <4> HIDE DEF x
        <4>2. h[s] = f[x] + h[s \ {x}]
          BY <4>1, OnesCounted
        <4>3. QED
          BY <3>2, <4>2 DEF x
      <3>3. QED
        BY <3>1, <3>2
    <2> HIDE DEF h
    <2>2. h = [s \in SUBSET S |-> h[s]]
      BY DEF h
    <2>3. QED
      BY <2>1, <2>2 DEF Sums
  <1>2. Sums(f, S, g)
    BY <1>1, Zenon
  <1>3. FoldFunction(+, 0, f) = g[S]
    BY DEF FoldFunction, FoldFunctionOnSet, MapThenFoldSet, Sums
  <1> HIDE DEF g
  <1>4. g[S] = Cardinality(Ones(f, S))
    BY <1>2, SumsOnes
  <1>5. QED
    BY <1>3, <1>4, Zenon
-----------------------------------------------------------------------------
(***************************************************************************)
(* The shares: every iteration of a loop with a static schedule is in the  *)
(* share of one thread of the team, once.                                  *)
(***************************************************************************)
\* Rows and the sets of their values.
LEMMA SeqWidens ==
    ASSUME NEW S, NEW T, S \subseteq T, NEW s \in Seq(S) PROVE s \in Seq(T)
  OBVIOUS

LEMMA SeqValues ==
    ASSUME NEW S, NEW s \in Seq(S) PROVE ToSet(s) \subseteq S
  BY DEF ToSet

\* From counts up.
LEMMA FromFacts ==
    ASSUME NEW lo \in Int, NEW hi \in Int
    PROVE  /\ From(lo, hi) \in Seq(lo .. hi - 1)
           /\ ToSet(From(lo, hi)) = lo .. hi - 1
           /\ Ascending(From(lo, hi))
  <1> DEFINE n == IF hi >= lo THEN hi - lo ELSE 0
  <1>1. n \in Nat /\ 1 .. (hi - lo) = 1 .. n
    OBVIOUS
  <1>2. From(lo, hi) = [k \in 1 .. n |-> lo + k - 1]
    BY <1>1 DEF From
  <1>3. \A k \in 1 .. n : lo + k - 1 \in lo .. hi - 1
    OBVIOUS
  <1>4. \A i \in lo .. hi - 1 : i - lo + 1 \in 1 .. n /\ i = lo + (i - lo + 1) - 1
    OBVIOUS
  <1>5. \A j, k \in 1 .. n : j < k => lo + j - 1 < lo + k - 1
    OBVIOUS
  <1> HIDE DEF n
  <1>6. From(lo, hi) \in Seq(lo .. hi - 1)
    BY <1>1, <1>2, <1>3
  <1>7. ToSet(From(lo, hi)) = lo .. hi - 1
    <2>1. \A k \in 1 .. n : From(lo, hi)[k] = lo + k - 1
      BY <1>2
    <2>2. DOMAIN From(lo, hi) = 1 .. n
      BY <1>2
    <2>3. ToSet(From(lo, hi)) = {lo + k - 1 : k \in 1 .. n}
      BY <2>1, <2>2 DEF ToSet
    <2>4. QED
      BY <1>3, <1>4, <2>3
  <1>8. Ascending(From(lo, hi))
    BY <1>2, <1>5 DEF Ascending
  <1>9. QED
    BY <1>6, <1>7, <1>8

\* Cuts that go up from the first to the last part what is between them.
Cuts(b, n, lo, hi) ==
    /\ b \in [0..n -> Int] /\ b[0] = lo /\ b[n] = hi
    /\ \A t \in 0 .. n - 1 : b[t] <= b[t + 1]

\* They go up over any distance, not only from one to the next.
LEMMA CutsAscend ==
    ASSUME NEW n \in Nat, NEW b, NEW lo, NEW hi, Cuts(b, n, lo, hi)
    PROVE  \A t, u \in 0..n : t <= u => b[t] <= b[u]
  <1> DEFINE S == {d \in Nat : \A t, u \in 0..n : u = t + d => b[t] <= b[u]}
  <1>1. 0 \in S
    BY DEF Cuts
  <1>2. ASSUME NEW d \in Nat, d \in S PROVE d + 1 \in S
    <2>1. ASSUME NEW t \in 0..n, NEW u \in 0..n, u = t + (d + 1) PROVE b[t] <= b[u]
      <3>1. u - 1 \in 0 .. n - 1 /\ u - 1 \in 0..n /\ u - 1 = t + d /\ (u - 1) + 1 = u
        BY <2>1
      <3>2. b[t] <= b[u - 1]
        BY <1>2, <3>1
      <3>3. b[u - 1] <= b[u]
        BY <3>1 DEF Cuts
      <3>4. b[t] \in Int /\ b[u] \in Int /\ b[u - 1] \in Int
        BY <3>1 DEF Cuts
      <3>5. QED
        BY <3>2, <3>3, <3>4
    <2>2. QED
      BY <2>1
  <1> HIDE DEF S
  <1>3. Nat \subseteq S
    BY <1>1, <1>2, Induction
  <1>4. ASSUME NEW t \in 0..n, NEW u \in 0..n, t <= u PROVE b[t] <= b[u]
    <2>1. u - t \in Nat /\ u = t + (u - t)
      BY <1>4
    <2>2. u - t \in S
      BY <1>3, <2>1
    <2>3. QED
      BY <2>1, <2>2 DEF S
  <1>5. QED
    BY <1>4

\* What is between the first and the last is between two neighbours.
LEMMA CutsCover ==
    ASSUME NEW n \in Nat, NEW b, NEW lo, NEW hi, Cuts(b, n, lo, hi),
           NEW i \in lo .. hi - 1, lo \in Int, hi \in Int
    PROVE  \E t \in 0 .. n - 1 : b[t] <= i /\ i < b[t + 1]
  <1> DEFINE S == {t \in 0..n : i < b[t]}
  <1>1. n \in S /\ S \in SUBSET Nat
    BY DEF Cuts
  <1>2. PICK u \in S : \A k \in S : u <= k
    BY <1>1, Least
  <1>3. u # 0
    BY <1>2 DEF Cuts
  <1>4. u - 1 \in 0 .. n - 1 /\ (u - 1) + 1 = u /\ u - 1 \notin S
    BY <1>2, <1>3
  <1>5. b[u - 1] <= i
    BY <1>4 DEF Cuts
  <1>6. QED
    BY <1>2, <1>4, <1>5

\* What is to be shown of the shares of a loop.
SharedOnce(l) ==
    /\ \A t \in Team : Share(t, l) \in Seq(l.lo .. l.hi - 1) /\ Ascending(Share(t, l))
    /\ \A t, u \in Team : t # u => ToSet(Share(t, l)) \cap ToSet(Share(u, l)) = {}
    /\ l.lo .. l.hi - 1 \subseteq UNION {ToSet(Share(t, l)) : t \in Team}

\* Shares that go from one cut to the next.
LEMMA CutShares ==
    ASSUME tnum \in Nat \ {0}, NEW l, l.lo \in Int, l.hi \in Int,
           NEW b, Cuts(b, tnum, l.lo, l.hi),
           \A t \in Team : Share(t, l) = From(b[t], b[t + 1])
    PROVE  SharedOnce(l)
  <1>1. ASSUME NEW t \in Team
        PROVE  /\ t \in 0..tnum /\ t + 1 \in 0..tnum
               /\ b[t] \in Int /\ b[t + 1] \in Int
               /\ l.lo <= b[t] /\ b[t + 1] <= l.hi
    <2>1. t \in 0..tnum /\ t + 1 \in 0..tnum /\ 0 \in 0..tnum /\ tnum \in 0..tnum
      BY DEF Team
    <2>2. b[0] <= b[t] /\ b[t + 1] <= b[tnum]
      BY <2>1, CutsAscend
    <2>3. QED
      BY <2>1, <2>2 DEF Cuts
  <1>2. ASSUME NEW t \in Team
        PROVE  /\ Share(t, l) \in Seq(b[t] .. b[t + 1] - 1)
               /\ ToSet(Share(t, l)) = b[t] .. b[t + 1] - 1
               /\ Ascending(Share(t, l))
    BY <1>1, FromFacts
  <1>3. ASSUME NEW t \in Team PROVE Share(t, l) \in Seq(l.lo .. l.hi - 1)
    <2>1. b[t] .. b[t + 1] - 1 \subseteq l.lo .. l.hi - 1
      BY <1>1
    <2>2. QED
      BY <1>2, <2>1, SeqWidens
  <1>4. ASSUME NEW t \in Team, NEW u \in Team, t < u
        PROVE  ToSet(Share(t, l)) \cap ToSet(Share(u, l)) = {}
    <2>1. t + 1 <= u
      BY <1>4 DEF Team
    <2>2. b[t + 1] <= b[u]
      BY <1>1, <2>1, CutsAscend
    <2>3. \A p, q, v, w \in Int : q <= v => (p .. q - 1) \cap (v .. w - 1) = {}
      OBVIOUS
    <2>4. (b[t] .. b[t + 1] - 1) \cap (b[u] .. b[u + 1] - 1) = {}
      BY <1>1, <2>2, <2>3
    <2>5. QED
      BY <1>2, <2>4, Zenon
  <1>5. ASSUME NEW i \in l.lo .. l.hi - 1
        PROVE  \E t \in Team : i \in ToSet(Share(t, l))
    <2>1. PICK t \in 0 .. tnum - 1 : b[t] <= i /\ i < b[t + 1]
      BY CutsCover
    <2>2. t \in Team
      BY DEF Team
    <2>3. i \in b[t] .. b[t + 1] - 1
      BY <1>1, <2>1, <2>2
    <2>4. QED
      BY <1>2, <2>2, <2>3
  <1>6. \A t, u \in Team : t # u => t < u \/ u < t
    BY DEF Team
  <1>7. \A t, u \in Team : t # u => ToSet(Share(t, l)) \cap ToSet(Share(u, l)) = {}
    BY <1>4, <1>6
  <1>8. QED
    BY <1>2, <1>3, <1>5, <1>7 DEF SharedOnce

\* Division keeps the order.
LEMMA DivAscends ==
    ASSUME NEW d \in Nat \ {0}, NEW x \in Nat, NEW y \in Nat, x <= y
    PROVE  x \div d <= y \div d /\ x \div d \in Nat
  <1>1. x = d * (x \div d) + (x % d) /\ x % d \in 0 .. d - 1 /\ x \div d \in Nat
    OBVIOUS
  <1>2. y = d * (y \div d) + (y % d) /\ y % d \in 0 .. d - 1 /\ y \div d \in Nat
    OBVIOUS
  <1>3. ASSUME NEW p \in Nat, NEW q \in Nat, p > q PROVE d * p >= d * q + d
    <2>1. p - q - 1 \in Nat /\ d * (p - q - 1) \in Nat
      BY <1>3
    <2>2. d * p = d * q + d + d * (p - q - 1)
      BY <1>3
    <2>3. QED
      BY <2>1, <2>2
  <1>4. ASSUME x \div d > y \div d PROVE FALSE
    <2>1. d * (x \div d) >= d * (y \div d) + d
      BY <1>1, <1>2, <1>3, <1>4
    <2>2. QED
      BY <1>1, <1>2, <2>1
  <1>5. QED
    BY <1>1, <1>2, <1>4

\* What is at least 0 and fits an int, int arithmetic leaves.
LEMMA WrapKeeps ==
    ASSUME NEW x \in 0..MaxInt PROVE Wrap(x) = x
  <1> DEFINE m == MaxInt + 1
             y == x + m
  <1>1. MaxInt \in Nat /\ x \in Nat /\ m \in Nat \ {0}
    BY SizesAssumption
  <1>2. y \in Nat /\ y < 2 * m /\ y - m = x
    BY <1>1
  <1>3. Wrap(x) = (y % (2 * m)) - m
    BY <1>1 DEF Wrap
  <1> HIDE DEF y, m
  <1>4. y % (2 * m) = y
    BY <1>1, <1>2
  <1>5. QED
    BY <1>2, <1>3, <1>4

LEMMA NextMultiple ==
    ASSUME NEW t \in Nat, NEW n \in Nat
    PROVE  t * n \in Nat /\ (t + 1) * n = t * n + n
  OBVIOUS

\* start and end of the blocks.
LEMMA BlockShares ==
    ASSUME tnum \in Nat \ {0}, NEW l, l.schedule = "blocks",
           l.lo = 0, l.hi \in Nat, tnum * l.hi <= MaxInt
    PROVE  SharedOnce(l)
  <1> DEFINE N == l.hi
             b == [t \in 0..tnum |-> (t * N) \div tnum]
  <1>1. \A t \in 0..tnum : t * N \in Nat /\ b[t] \in Int
    OBVIOUS
  <1>2. b[0] = 0 /\ b[tnum] = N
    <2>1. 0 * N = 0 /\ 0 \div tnum = 0 /\ (tnum * N) \div tnum = N
      OBVIOUS
    <2>2. QED
      BY <2>1
  <1>3. ASSUME NEW t \in 0 .. tnum - 1 PROVE b[t] <= b[t + 1]
    <2>1. t \in 0..tnum /\ t + 1 \in 0..tnum
      OBVIOUS
    <2> DEFINE x == t * N
               y == (t + 1) * N
    <2>2. x \in Nat /\ y = x + N /\ N \in Nat
      BY <2>1, NextMultiple
    <2>3. b[t] = x \div tnum /\ b[t + 1] = y \div tnum
      BY <2>1
    <2> HIDE DEF x, y, N, b
    <2>4. y \in Nat /\ x <= y
      BY <2>2
    <2>5. x \div tnum <= y \div tnum
      BY <2>2, <2>4, DivAscends
    <2>6. QED
      BY <2>3, <2>5
  <1>4. Cuts(b, tnum, l.lo, l.hi)
    BY <1>1, <1>2, <1>3 DEF Cuts
  <1>5. ASSUME NEW t \in Team PROVE Share(t, l) = From(b[t], b[t + 1])
    <2>1. t \in 0..tnum /\ t + 1 \in 0..tnum
      BY DEF Team
    <2>2. Share(t, l) = Blocks(t, N)
      BY DEF Share
    <2>3. ASSUME NEW u \in 0..tnum PROVE Edge(u, N) = b[u]
      <3>1. N \in Nat /\ u \in Nat /\ tnum - u \in Nat /\ MaxInt \in Nat
        BY SizesAssumption
      <3> HIDE DEF N
      <3>2. u * N \in Nat /\ (tnum - u) * N \in Nat /\ tnum * N = u * N + (tnum - u) * N
        BY <3>1
      <3>3. tnum * N <= MaxInt
        BY DEF N
      <3>4. u * N \in 0..MaxInt
        BY <3>1, <3>2, <3>3
      <3>5. Wrap(u * N) = u * N
        BY <3>4, WrapKeeps
      <3>6. b[u] = (u * N) \div tnum
        BY DEF N
      <3>7. ~(u * N < 0)
        BY <3>2
      <3>8. Edge(u, N) = Quotient(u * N, tnum)
        BY <3>5 DEF Edge
      <3>9. QED
        BY <3>6, <3>7, <3>8 DEF Quotient
    <2> HIDE DEF b, N
    <2>4. QED
      BY <2>1, <2>2, <2>3 DEF Blocks
  <1> HIDE DEF b, N
  <1>6. QED
    BY <1>4, <1>5, CutShares

\* OpenMP's static schedule: the first shares are longer by one.
LEMMA StaticShares ==
    ASSUME tnum \in Nat \ {0}, NEW l, l.schedule = "static",
           l.lo \in Nat, l.hi \in Nat, l.lo <= l.hi
    PROVE  SharedOnce(l)
  <1> DEFINE q == (l.hi - l.lo) \div tnum
             r == (l.hi - l.lo) % tnum
             b == [t \in 0..tnum |-> l.lo + t * q + (IF t < r THEN t ELSE r)]
  <1>1. q \in Nat /\ r \in 0 .. tnum - 1 /\ l.hi - l.lo = tnum * q + r
    OBVIOUS
  <1> HIDE DEF q, r
  <1>2. \A t \in 0..tnum : t * q \in Nat /\ b[t] \in Int
    BY <1>1
  <1>3. b[0] = l.lo /\ b[tnum] = l.hi
    BY <1>1
  <1>4. ASSUME NEW t \in 0 .. tnum - 1
        PROVE  b[t + 1] = b[t] + q + (IF t < r THEN 1 ELSE 0)
    <2>1. t \in 0..tnum /\ t + 1 \in 0..tnum /\ (t + 1) * q = t * q + q /\ t * q \in Nat
      BY <1>1
    <2>2. (IF t + 1 < r THEN t + 1 ELSE r) = (IF t < r THEN t ELSE r) + (IF t < r THEN 1 ELSE 0)
      BY <1>1
    <2>3. QED
      BY <1>1, <2>1, <2>2
  <1>5. Cuts(b, tnum, l.lo, l.hi)
    <2>1. ASSUME NEW t \in 0 .. tnum - 1 PROVE b[t] <= b[t + 1]
      <3>1. t \in 0..tnum
        OBVIOUS
      <3> HIDE DEF b
      <3>2. b[t] \in Int /\ b[t + 1] = b[t] + q + (IF t < r THEN 1 ELSE 0)
        BY <1>2, <1>4, <3>1
      <3>3. QED
        BY <1>1, <3>2
    <2>2. QED
      BY <1>2, <1>3, <2>1 DEF Cuts
  <1>6. ASSUME NEW t \in Team PROVE Share(t, l) = From(b[t], b[t + 1])
    <2>1. t \in 0..tnum /\ t \in 0 .. tnum - 1
      BY DEF Team
    <2>2. Share(t, l) = Static(t, l.lo, l.hi)
      BY DEF Share
    <2>3. Static(t, l.lo, l.hi) = From(b[t], b[t] + q + (IF t < r THEN 1 ELSE 0))
      BY <2>1 DEF Static, q, r
    <2>4. QED
      BY <1>4, <2>1, <2>2, <2>3
  <1> HIDE DEF b
  <1>7. QED
    BY <1>5, <1>6, CutShares
\* Multiplication keeps the order, and the distance.
LEMMA MultiplesAscend ==
    ASSUME NEW d \in Nat \ {0}, NEW p \in Int, NEW q \in Int
    PROVE  /\ d * p \in Int /\ d * q \in Int
           /\ p <= q => d * p <= d * q
           /\ p < q => d * p + d <= d * q
  <1>1. d * p \in Int /\ d * q \in Int /\ d * (q - p) = d * q - d * p
    OBVIOUS
  <1>2. p <= q => d * (q - p) >= 0
    OBVIOUS
  <1>3. p < q => d * (q - p) >= d
    <2>1. p < q => d * (q - p - 1) \in Nat /\ d * (q - p) = d * (q - p - 1) + d
      OBVIOUS
    <2>2. QED
      BY <2>1
  <1>4. QED
    BY <1>1, <1>2, <1>3

\* A multiple of d and a remainder determine a number.
LEMMA RemainderUnique ==
    ASSUME NEW d \in Nat \ {0}, NEW a \in 0 .. d - 1, NEW c \in 0 .. d - 1,
           NEW p \in Int, NEW q \in Int, d * p + a = d * q + c
    PROVE  a = c /\ p = q
  <1>1. p < q => d * p + d <= d * q
    BY MultiplesAscend
  <1>2. q < p => d * q + d <= d * p
    BY MultiplesAscend
  <1>3. d * p \in Int /\ d * q \in Int
    OBVIOUS
  <1>4. p = q
    BY <1>1, <1>2, <1>3
  <1>5. QED
    BY <1>3, <1>4

\* The cyclic shares of chunks of one iteration: thread t has t, t + tnum, ...
LEMMA CyclicTurns ==
    ASSUME tnum \in Nat \ {0}, chunk_size = 1, NEW t \in Team, NEW N \in Nat
    PROVE  \E m \in Nat :
               /\ Cyclic(t, N) = [k \in 1..m |-> t + tnum * (k - 1)]
               /\ \A k \in 1..m : t + tnum * (k - 1) \in 0 .. N - 1
               /\ \A a \in Nat : t + tnum * a < N => a + 1 \in 1..m
  <1> DEFINE m == IF t < N THEN (N - 1 - t) \div tnum + 1 ELSE 0
             S == {i \in t .. N - 1 : (i - t) % (tnum * chunk_size) = 0}
             f == [k \in 1..m |-> t + tnum * (k - 1)]
  <1>0. t \in Nat /\ t < tnum
    BY DEF Team
  <1>1. m \in Nat
    BY <1>0
  <1>2. \A a \in Nat : tnum * a \in Nat
    OBVIOUS
  <1>3. ASSUME NEW a \in Nat PROVE t + tnum * a < N <=> a + 1 \in 1..m
    <2>1. CASE t < N
      <3> DEFINE d == (N - 1 - t) \div tnum
                 e == (N - 1 - t) % tnum
                 x == tnum * a
                 y == tnum * d
      <3>1. N - 1 - t = y + e /\ d \in Nat /\ e \in 0 .. tnum - 1 /\ y \in Nat /\ x \in Nat
        BY <1>0, <1>2, <2>1
      <3>2. /\ a <= d => x <= y
            /\ d + 1 <= a => y + tnum <= x
        <4> HIDE DEF d
        <4>1. a \in Int /\ d \in Int
          BY <3>1
        <4>2. /\ a <= d => tnum * a <= tnum * d
              /\ d < a => tnum * d + tnum <= tnum * a
          BY <4>1, MultiplesAscend
        <4>3. d + 1 <= a => d < a
          BY <4>1
        <4>4. QED
          BY <4>2, <4>3
      <3>4. m = d + 1
        BY <2>1
      <3> HIDE DEF x, y, d, e, m
      <3>5. t + x < N <=> a + 1 \in 1..m
        BY <1>0, <3>1, <3>2, <3>4
      <3>6. QED
        BY <3>5 DEF x
    <2>2. CASE ~(t < N)
      BY <1>0, <1>2, <2>2
    <2>3. QED
      BY <2>1, <2>2
  <1> HIDE DEF m
  <1>4. \A k \in 1..m : k - 1 \in Nat /\ (k - 1) + 1 = k /\ tnum * (k - 1) \in Nat
    BY <1>1, <1>2
  <1>5. \A k \in 1..m : t + tnum * (k - 1) \in t .. N - 1
    BY <1>0, <1>3, <1>4
  <1>6. tnum * chunk_size = tnum
    OBVIOUS
  <1>7. ASSUME NEW k \in 1..m PROVE ((t + tnum * (k - 1)) - t) % tnum = 0
    <2>1. k - 1 \in Nat /\ tnum * (k - 1) \in Nat /\ tnum * (k - 1) = (t + tnum * (k - 1)) - t
      BY <1>0, <1>4
    <2>2. (tnum * (k - 1)) % tnum = 0
      BY <2>1
    <2>3. QED
      BY <2>1, <2>2
  <1>8. f \in [1..m -> S]
    <2>1. ASSUME NEW k \in 1..m PROVE t + tnum * (k - 1) \in S
      <3> DEFINE v == t + tnum * (k - 1)
      <3>1. v \in t .. N - 1 /\ (v - t) % tnum = 0
        BY <1>5, <1>7
      <3> HIDE DEF v
      <3>2. v \in S
        BY <1>6, <3>1
      <3>3. QED
        BY <3>2 DEF v
    <2> HIDE DEF S
    <2>2. QED
      BY <2>1
  <1>9. ASSUME NEW i \in S PROVE \E k \in 1..m : f[k] = i
    <2> DEFINE a == (i - t) \div tnum
    <2>1. i - t \in Nat /\ (i - t) % tnum = 0 /\ i < N
      BY <1>0, <1>6
    <2>2. i - t = tnum * a + ((i - t) % tnum) /\ a \in Nat
      BY <2>1
    <2> HIDE DEF a
    <2>3. i = t + tnum * a
      BY <1>0, <1>2, <2>1, <2>2
    <2>4. a + 1 \in 1..m
      BY <1>3, <2>1, <2>2, <2>3
    <2>5. (a + 1) - 1 = a
      BY <2>2
    <2>6. QED
      BY <2>3, <2>4, <2>5
  <1>10. ASSUME NEW j \in 1..m, NEW k \in 1..m, f[j] = f[k] PROVE j = k
    <2>1. j - 1 \in Int /\ k - 1 \in Int /\ 0 \in 0 .. tnum - 1
      BY <1>1
    <2>2. tnum * (j - 1) + 0 = tnum * (k - 1) + 0
      BY <1>0, <1>4, <1>10
    <2>3. j - 1 = k - 1
      BY <2>1, <2>2, RemainderUnique
    <2>4. QED
      BY <2>3
  <1> HIDE DEF S, f
  <1>11. f \in Bijection(1..m, S)
    BY <1>8, <1>9, <1>10, Fun_IsBij
  <1>12. Cardinality(S) = m
    <2>1. IsFiniteSet(1..m) /\ Cardinality(1..m) = m
      BY <1>1, FS_Interval
    <2>2. ExistsBijection(1..m, S)
      BY <1>11 DEF ExistsBijection
    <2>3. QED
      BY <2>1, <2>2, FS_Bijection
  <1>13. Cyclic(t, N) = [k \in 1 .. Cardinality(S) * chunk_size |->
             t + ((k - 1) \div chunk_size) * (tnum * chunk_size) + ((k - 1) % chunk_size)]
    BY DEF Cyclic, S
  <1>14. Cardinality(S) * chunk_size = m
    BY <1>1, <1>12
  <1>15. ASSUME NEW k \in 1..m
         PROVE  t + ((k - 1) \div chunk_size) * (tnum * chunk_size) + ((k - 1) % chunk_size)
                = t + tnum * (k - 1)
    <2>1. k - 1 \in Nat
      BY <1>4
    <2>2. (k - 1) \div 1 = k - 1 /\ (k - 1) % 1 = 0 /\ (k - 1) * tnum = tnum * (k - 1)
      BY <2>1
    <2>3. QED
      BY <1>0, <1>4, <1>6, <2>1, <2>2
  <1>16. Cyclic(t, N) = [k \in 1..m |-> t + tnum * (k - 1)]
    BY <1>13, <1>14, <1>15
  <1>17. \A k \in 1..m : t + tnum * (k - 1) \in 0 .. N - 1
    BY <1>0, <1>5
  <1>18. QED
    BY <1>1, <1>3, <1>16, <1>17

\* The loops of example2_mystatic share a loop out once when chunk_size is 1.
LEMMA CyclicShares ==
    ASSUME tnum \in Nat \ {0}, chunk_size = 1,
           NEW l, l.schedule = "cyclic", l.lo = 0, l.hi \in Nat
    PROVE  SharedOnce(l)
  <1> DEFINE N == l.hi
             Runs(t, m) == /\ Share(t, l) = [k \in 1..m |-> t + tnum * (k - 1)]
                           /\ \A k \in 1..m : t + tnum * (k - 1) \in 0 .. N - 1
                           /\ \A a \in Nat : t + tnum * a < N => a + 1 \in 1..m
  <1>1. ASSUME NEW t \in Team PROVE \E m \in Nat : Runs(t, m)
    <2>1. Share(t, l) = Cyclic(t, N)
      BY DEF Share
    <2>2. QED
      BY <2>1, CyclicTurns
  <1>2. ASSUME NEW t \in Team PROVE t \in Nat /\ t \in 0 .. tnum - 1
    BY DEF Team
  <1>3. ASSUME NEW t \in Team PROVE Share(t, l) \in Seq(0 .. N - 1) /\ Ascending(Share(t, l))
    <2>1. PICK m \in Nat : Runs(t, m)
      BY <1>1
    <2>2. Share(t, l) \in Seq(0 .. N - 1)
      BY <2>1
    <2>3. ASSUME NEW j \in 1..m, NEW k \in 1..m, j < k
          PROVE  t + tnum * (j - 1) < t + tnum * (k - 1)
      <3>1. j - 1 \in Int /\ k - 1 \in Int /\ j - 1 < k - 1
        BY <2>3
      <3>2. tnum * (j - 1) + tnum <= tnum * (k - 1)
        BY <3>1, MultiplesAscend
      <3>3. tnum * (j - 1) \in Int /\ tnum * (k - 1) \in Int
        BY <3>1
      <3>4. QED
        BY <1>2, <3>2, <3>3
    <2>4. DOMAIN Share(t, l) = 1..m /\ \A k \in 1..m : Share(t, l)[k] = t + tnum * (k - 1)
      BY <2>1
    <2>5. Ascending(Share(t, l))
      <3>1. \A j, k \in 1..m : j < k => Share(t, l)[j] < Share(t, l)[k]
        BY <2>3, <2>4
      <3>2. QED
        BY <2>4, <3>1, Zenon DEF Ascending
    <2>6. QED
      BY <2>2, <2>5
  <1>4. ASSUME NEW t \in Team, NEW i \in ToSet(Share(t, l))
        PROVE  \E a \in Nat : i = tnum * a + t
    <2>1. PICK m \in Nat : Runs(t, m)
      BY <1>1
    <2>2. PICK k \in 1..m : i = t + tnum * (k - 1)
      BY <2>1 DEF ToSet
    <2>3. k - 1 \in Nat /\ tnum * (k - 1) \in Nat
      OBVIOUS
    <2>4. i = tnum * (k - 1) + t
      BY <1>2, <2>2, <2>3
    <2>5. QED
      BY <2>3, <2>4
  <1>5. ASSUME NEW t \in Team, NEW u \in Team, t # u
        PROVE  ToSet(Share(t, l)) \cap ToSet(Share(u, l)) = {}
    <2> SUFFICES ASSUME NEW i \in ToSet(Share(t, l)), i \in ToSet(Share(u, l))
                 PROVE  FALSE
      OBVIOUS
    <2>1. PICK a \in Nat : i = tnum * a + t
      BY <1>4
    <2>2. PICK c \in Nat : i = tnum * c + u
      BY <1>4
    <2>3. /\ a \in Int /\ c \in Int /\ tnum * a + t = tnum * c + u
          /\ t \in 0 .. tnum - 1 /\ u \in 0 .. tnum - 1
      BY <1>2, <2>1, <2>2
    <2>4. t = u
      BY <2>3, RemainderUnique
    <2>5. QED
      BY <1>5, <2>4
  <1>6. ASSUME NEW i \in 0 .. N - 1 PROVE \E t \in Team : i \in ToSet(Share(t, l))
    <2> DEFINE t == i % tnum
               a == i \div tnum
    <2>1. t \in 0 .. tnum - 1 /\ a \in Nat /\ i = tnum * a + t /\ tnum * a \in Nat
      OBVIOUS
    <2> HIDE DEF t, a
    <2>2. t \in Team /\ i = t + tnum * a /\ i < N
      BY <2>1 DEF Team
    <2>3. PICK m \in Nat : Runs(t, m)
      BY <1>1, <2>2
    <2>4. a + 1 \in 1..m /\ (a + 1) - 1 = a
      BY <2>1, <2>2, <2>3
    <2>5. DOMAIN Share(t, l) = 1..m /\ Share(t, l)[a + 1] = t + tnum * a
      BY <2>3, <2>4
    <2>6. i \in ToSet(Share(t, l))
      BY <2>2, <2>4, <2>5 DEF ToSet
    <2>7. QED
      BY <2>2, <2>6
  <1> HIDE DEF Runs
  <1>7. QED
    BY <1>3, <1>5, <1>6 DEF SharedOnce

\* So it is for every loop of a region that is shared out beforehand.
LEMMA Shares ==
    ASSUME tnum \in Nat \ {0}, NEW l, LoopOK(l), ~SharedOut(l) PROVE SharedOnce(l)
  BY BlockShares, StaticShares, CyclicShares DEF LoopOK, FitsInt
-----------------------------------------------------------------------------
(***************************************************************************)
(* The regions: what counts is in their loops, and the palindrome programs *)
(* count as many pairs as the serial ones.                                 *)
(***************************************************************************)
\* A list of words, its indices and how many there are.
LEMMA WordFacts ==
    ASSUME NEW words \in WordLists
    PROVE  /\ Len(words) \in 0..MaxWords /\ Len(words) \in 0..MaxTasks
           /\ IsFiniteSet(Indices(words)) /\ Cardinality(Indices(words)) = Len(words)
           /\ \A i \in Indices(words) :
                  /\ i \in Nat /\ i + 1 \in DOMAIN words
                  /\ Word(words, i) \in DOMAIN Backwards /\ Word(words, i) \in Nat
                  /\ Backwards[Word(words, i)] \in Nat
                  /\ Backwards[Backwards[Word(words, i)]] = Word(words, i)
  <1>1. PICK n \in 0..MaxWords : words \in [1..n -> DOMAIN Backwards]
    BY DEF WordLists
  <1>2. n \in Nat /\ Len(words) = n /\ DOMAIN words = 1..n /\ n \in 0..MaxTasks
    BY <1>1, SizesAssumption
  <1>3. Indices(words) = 0 .. n - 1
    BY <1>2 DEF Indices
  <1>4. IsFiniteSet(0 .. n - 1) /\ Cardinality(0 .. n - 1) = n
    <2>1. n - 1 \in Int /\ (IF 0 > n - 1 THEN 0 ELSE (n - 1) - 0 + 1) = n
      BY <1>2
    <2>2. QED
      BY <2>1, FS_Interval
  <1>5. ASSUME NEW i \in 0 .. n - 1
        PROVE  /\ i \in Nat /\ i + 1 \in 1..n
               /\ Word(words, i) \in DOMAIN Backwards
    BY <1>1, <1>2 DEF Word
  <1>6. QED
    BY <1>1, <1>2, <1>3, <1>4, <1>5, BackwardsAssumption

\* Words without repetitions: as many as their set has.
LEMMA WordSet ==
    ASSUME NEW words \in WordLists
    PROVE  LET word_set == {Word(words, i) : i \in Indices(words)}
           IN  /\ Cardinality(word_set) \in 0 .. Len(words)
               /\ Distinct(words) => Cardinality(word_set) = Len(words)
  <1> DEFINE word_set == {Word(words, i) : i \in Indices(words)}
             f == [i \in Indices(words) |-> Word(words, i)]
  <1>1. f \in Surjection(Indices(words), word_set)
    <2>1. f \in [Indices(words) -> word_set]
      OBVIOUS
    <2>2. \A w \in word_set : \E i \in Indices(words) : f[i] = w
      OBVIOUS
    <2>3. QED
      BY <2>1, <2>2, Fun_IsSurj
  <1>2. Distinct(words) => f \in Injection(Indices(words), word_set)
    <2> SUFFICES ASSUME Distinct(words) PROVE f \in Injection(Indices(words), word_set)
      OBVIOUS
    <2>1. f \in [Indices(words) -> word_set]
      OBVIOUS
    <2>2. ASSUME NEW i \in Indices(words), NEW j \in Indices(words), f[i] = f[j]
          PROVE  i = j
      <3>1. words[i + 1] = words[j + 1]
        BY <2>2 DEF Word
      <3>2. i + 1 = j + 1 /\ i \in Nat /\ j \in Nat
        BY <3>1, WordFacts DEF Distinct
      <3>3. QED
        BY <3>2
    <2>3. QED
      BY <2>1, <2>2, Fun_IsInj
  <1> HIDE DEF f, word_set
  <1>3. IsFiniteSet(Indices(words)) /\ Cardinality(Indices(words)) = Len(words)
    BY WordFacts
  <1>4. IsFiniteSet(word_set) /\ Cardinality(word_set) <= Len(words)
        /\ (f \in Injection(Indices(words), word_set) => Cardinality(word_set) = Len(words))
    BY <1>1, <1>3, FS_Surjection
  <1>5. Cardinality(word_set) \in Nat /\ Len(words) \in Nat
    BY <1>4, FS_CardinalityType, WordFacts
  <1>6. Cardinality(word_set) \in 0 .. Len(words)
    BY <1>4, <1>5
  <1>7. QED
    BY <1>2, <1>4, <1>6 DEF word_set

\* What bst_parallel counts.
ParallelPairs(words) ==
    {i \in Indices(words) : LET reverse == Backwards[Word(words, i)]
                            IN  /\ reverse \in {Word(words, j) : j \in Indices(words)}
                                /\ reverse >= Word(words, i)}

\* Each pair of words is counted once by either program: by the one at its
\* later word, by the other at its smaller word.
LEMMA SamePairs ==
    ASSUME NEW words \in WordLists, Distinct(words)
    PROVE  Cardinality(bst_serial(words)) = Cardinality(ParallelPairs(words))
  <1> DEFINE I == Indices(words)
             w(i) == Word(words, i)
             r(i) == Backwards[w(i)]
             S == bst_serial(words)
             P == ParallelPairs(words)
             Partner(i) == CHOOSE j \in I : w(j) = r(i)
             f == [i \in S |-> IF r(i) >= w(i) THEN i ELSE Partner(i)]
  <1>1. \A i \in I : /\ w(i) \in Nat /\ r(i) \in Nat /\ Backwards[r(i)] = w(i)
                     /\ i \in Nat /\ \A j \in 0..i : j \in I
    <2>1. \A i \in I : \A j \in 0..i : j \in I
      BY WordFacts DEF Indices
    <2>2. QED
      BY <2>1, WordFacts
  <1>2. \A i, j \in I : w(i) = w(j) => i = j
    <2>1. ASSUME NEW i \in I, NEW j \in I, w(i) = w(j) PROVE i = j
      <3>1. words[i + 1] = words[j + 1] /\ i + 1 \in DOMAIN words /\ j + 1 \in DOMAIN words
        BY <2>1, WordFacts DEF Word
      <3>2. i + 1 = j + 1
        BY <3>1 DEF Distinct
      <3>3. QED
        BY <1>1, <3>2
    <2>2. QED
      BY <2>1
  <1>3. \A i \in I : (\E j \in I : w(j) = r(i)) => Partner(i) \in I /\ w(Partner(i)) = r(i)
    OBVIOUS
  <1>4. \A i \in S : i \in I /\ \E j \in I : w(j) = r(i) /\ j <= i
    BY <1>1 DEF bst_serial
  <1>5. \A i \in I, j \in I : w(j) = r(i) /\ j <= i => i \in S
    BY <1>1 DEF bst_serial
  <1>6. \A i \in P : i \in I /\ r(i) >= w(i) /\ \E j \in I : w(j) = r(i)
    BY DEF ParallelPairs
  <1>7. \A i, j \in I : w(j) = r(i) /\ r(i) >= w(i) => i \in P
    BY DEF ParallelPairs
  <1>8. S \subseteq I /\ P \subseteq I
    BY DEF bst_serial, ParallelPairs
  <1> HIDE DEF I, w, r, S, P, Partner
  \* The partner's partner is the word itself.
  <1>9. \A i, j \in I : w(j) = r(i) => r(j) = w(i)
    <2>1. \A i, j \in I : w(j) = r(i) => r(j) = Backwards[r(i)]
      BY DEF r
    <2>2. QED
      BY <1>1, <2>1
  <1>10. ASSUME NEW i \in S
         PROVE  /\ r(i) < w(i) => /\ Partner(i) \in P /\ Partner(i) <= i
                                  /\ w(Partner(i)) = r(i)
                /\ r(i) >= w(i) => i \in P
    <2>1. PICK j \in I : w(j) = r(i) /\ j <= i
      BY <1>4
    <2>2. i \in I
      BY <1>8
    <2>3. Partner(i) = j
      BY <1>2, <1>3, <2>1, <2>2
    <2>4. r(j) = w(i)
      BY <1>9, <2>1, <2>2
    <2>5. r(i) < w(i) => r(j) >= w(j)
      BY <1>1, <2>1, <2>2, <2>4
    <2>6. r(i) < w(i) => j \in P
      BY <1>7, <2>2, <2>4, <2>5
    <2>7. r(i) >= w(i) => i \in P
      BY <1>7, <2>1, <2>2
    <2>8. QED
      BY <2>1, <2>3, <2>6, <2>7
  <1>11. \A i \in S : r(i) < w(i) \/ r(i) >= w(i)
    BY <1>1, <1>8
  <1>12. f \in [S -> P]
    BY <1>1, <1>8, <1>10, <1>11
  <1>13. ASSUME NEW i \in S, NEW k \in S, f[i] = f[k] PROVE i = k
    <2>0. i \in I /\ k \in I
      BY <1>8
    <2>1. CASE r(i) >= w(i) /\ r(k) >= w(k)
      BY <1>13, <2>1
    <2>2. CASE r(i) < w(i) /\ r(k) < w(k)
      <3>1. Partner(i) = Partner(k)
        BY <1>1, <1>13, <2>0, <2>2
      <3>2. r(i) = r(k)
        BY <1>10, <2>2, <3>1
      <3>3. w(i) = w(k)
        BY <1>1, <2>0, <3>2
      <3>4. QED
        BY <1>2, <2>0, <3>3
    <2>3. ASSUME NEW a \in S, NEW c \in S, r(a) >= w(a), r(c) < w(c), a = Partner(c)
          PROVE  FALSE
      <3>1. a \in I /\ c \in I /\ a <= c /\ w(a) = r(c)
        BY <1>8, <1>10, <2>3
      <3>2. r(a) = w(c)
        BY <1>9, <3>1
      <3>3. PICK j \in I : w(j) = r(a) /\ j <= a
        BY <1>4
      <3>4. j = c
        BY <1>2, <3>1, <3>2, <3>3
      <3>5. a = c
        BY <1>1, <3>1, <3>3, <3>4
      <3>6. QED
        BY <1>1, <2>3, <3>1, <3>5
    <2>4. CASE r(i) >= w(i) /\ r(k) < w(k)
      <3>1. f[i] = i /\ f[k] = Partner(k)
        BY <1>1, <2>0, <2>4
      <3>2. QED
        BY <1>13, <2>3, <2>4, <3>1
    <2>5. CASE r(i) < w(i) /\ r(k) >= w(k)
      <3>1. f[k] = k /\ f[i] = Partner(i)
        BY <1>1, <2>0, <2>5
      <3>2. QED
        BY <1>13, <2>3, <2>5, <3>1
    <2>6. QED
      BY <1>11, <2>1, <2>2, <2>4, <2>5
  <1>14. ASSUME NEW p \in P PROVE \E i \in S : f[i] = p
    <2>1. PICK j \in I : w(j) = r(p)
      BY <1>6
    <2>2. p \in I /\ r(p) >= w(p) /\ r(j) = w(p)
      BY <1>6, <1>9, <2>1
    <2>3. CASE j <= p
      <3>1. p \in S
        BY <1>5, <2>1, <2>2, <2>3
      <3>2. f[p] = p
        BY <2>2, <3>1
      <3>3. QED
        BY <3>1, <3>2
    <2>4. CASE ~(j <= p)
      <3>1. p <= j /\ p # j
        BY <1>1, <2>1, <2>2, <2>4
      <3>2. j \in S
        BY <1>5, <2>1, <2>2, <3>1
      <3>3. w(j) # w(p)
        BY <1>2, <2>1, <2>2, <3>1
      <3>4. r(j) < w(j)
        BY <1>1, <2>1, <2>2, <3>3
      <3>5. w(Partner(j)) = r(j) /\ Partner(j) \in I
        BY <1>8, <1>10, <3>2, <3>4
      <3>6. Partner(j) = p
        BY <1>2, <2>2, <3>5
      <3>7. f[j] = p
        BY <1>1, <2>1, <3>2, <3>4, <3>6
      <3>8. QED
        BY <3>2, <3>7
    <2>5. QED
      BY <2>3, <2>4
  <1> HIDE DEF f
  <1>15. f \in Bijection(S, P)
    BY <1>12, <1>13, <1>14, Fun_IsBij
  <1>16. IsFiniteSet(S)
    <2>1. IsFiniteSet(I)
      BY WordFacts DEF I
    <2>2. QED
      BY <1>8, <2>1, FS_Subset
  <1>17. ExistsBijection(S, P)
    BY <1>15 DEF ExistsBijection
  <1>18. Cardinality(P) = Cardinality(S)
    BY <1>16, <1>17, FS_Bijection
  <1>19. QED
    BY <1>18 DEF S, P

\* Regions of one loop, and of two.
LEMMA OneLoop ==
    ASSUME Fits, NEW n \in 0..MaxTasks, NEW schedule, NEW nowait, NEW counts, NEW output,
           program = Region(<<Loop(0, n, schedule, nowait)>>, counts, output),
           \/ schedule \in {"dynamic", "guided", "static", "blocks"}
           \/ schedule = "cyclic" /\ chunk_size = 1,
           counts \subseteq 0 .. n - 1,
           output \in {"none", "critical", "afterwards"},
           pairs >= 0 => pairs = Cardinality(counts)
    PROVE  RegionOK
  <1> DEFINE l == Loop(0, n, schedule, nowait)
  <1>1. Loops = <<l>> /\ program.counts = counts /\ program.output = output
    BY DEF Region, Loops
  <1>2. l.lo = 0 /\ l.hi = n /\ l.schedule = schedule
    BY DEF Loop
  <1> HIDE DEF l
  <1>3. Len(Loops) = 1 /\ DOMAIN Loops = {1} /\ Loops[1] = l /\ 1 .. 1 = {1}
    BY <1>1
  <1>4. LoopOK(l)
    <2>1. FitsInt(l)
      BY <1>3 DEF Fits
    <2>2. QED
      BY <1>2, <2>1, SizesAssumption DEF LoopOK, SharedOut
  <1>5. counts \subseteq UNION {Loops[k].lo .. Loops[k].hi - 1 : k \in DOMAIN Loops}
    BY <1>2, <1>3
  <1>6. Len(Loops) \in {1, 2} /\ DOMAIN Loops = 1 .. Len(Loops) /\ Len(Loops) # 2
    BY <1>3
  <1>7. \A k \in DOMAIN Loops : LoopOK(Loops[k])
    BY <1>3, <1>4
  <1>8. QED
    BY <1>1, <1>5, <1>6, <1>7, Zenon DEF RegionOK

\* The regions of p2 with a static first half.
LEMMA TwoLoops ==
    ASSUME NEW n \in 0..MaxTasks, NEW schedule \in {"dynamic", "guided"},
           program = Region(<<Loop(0, n \div 2, "static", TRUE),
                              Loop(n \div 2, n, schedule, FALSE)>>, 0 .. n - 1, "none"),
           pairs = -1
    PROVE  RegionOK
  <1> DEFINE h == n \div 2
             l == Loop(0, h, "static", TRUE)
             m == Loop(h, n, schedule, FALSE)
  <1>1. n \in Nat /\ h \in 0..n /\ MaxTasks \in Nat
    BY SizesAssumption
  <1> HIDE DEF h
  <1>2. Loops = <<l, m>> /\ program.counts = 0 .. n - 1 /\ program.output = "none"
    BY DEF Region, Loops, h
  <1>3. l.lo = 0 /\ l.hi = h /\ m.lo = h /\ m.hi = n
        /\ l.schedule = "static" /\ m.schedule = schedule
    BY DEF Loop
  <1> HIDE DEF l, m
  <1>4. LoopOK(l) /\ LoopOK(m) /\ ~SharedOut(l)
    BY <1>1, <1>3 DEF LoopOK, SharedOut, FitsInt
  <1>5. Len(Loops) = 2 /\ DOMAIN Loops = {1, 2} /\ Loops[1] = l /\ Loops[2] = m
    BY <1>2
  <1>6. ASSUME NEW i \in 0 .. n - 1
        PROVE  i \in UNION {Loops[k].lo .. Loops[k].hi - 1 : k \in DOMAIN Loops}
    <2>1. i \in 0 .. h - 1 \/ i \in h .. n - 1
      BY <1>1
    <2>2. QED
      BY <1>3, <1>5, <2>1
  <1>7. Len(Loops) \in {1, 2} /\ DOMAIN Loops = 1 .. Len(Loops)
    BY <1>5
  <1>8. Loops[1].hi <= Loops[2].lo /\ ~SharedOut(Loops[1])
    BY <1>1, <1>3, <1>4, <1>5
  <1>9. \A k \in DOMAIN Loops : LoopOK(Loops[k])
    BY <1>4, <1>5
  <1>10. program.counts \subseteq UNION {Loops[k].lo .. Loops[k].hi - 1 : k \in DOMAIN Loops}
    BY <1>2, <1>6
  <1>11. program.output \in {"none", "critical", "afterwards"} /\ ~(pairs >= 0)
    BY <1>2
  <1>12. QED
    BY <1>7, <1>8, <1>9, <1>10, <1>11, Zenon DEF RegionOK

\* Every region the programs start with is as RegionOK says.
LEMMA RegionInit ==
    ASSUME Chunks \subseteq {0, 1}, Fits, Init PROVE RegionOK
  <1>1. CASE PalindromeInputs
    <2>1. PICK words \in WordLists :
              /\ \/ program = vec_parallel(words) /\ pairs = Cardinality(vec_serial(words))
                 \/ program = vec_parallel_optimized(words)
                        /\ pairs = Cardinality(vec_serial(words))
                 \/ /\ program = bst_parallel(words)
                    /\ pairs = IF Distinct(words) THEN Cardinality(bst_serial(words)) ELSE -1
              /\ chunk_size = 0
      BY <1>1 DEF PalindromeInputs
    <2>2. Len(words) \in 0..MaxTasks /\ Indices(words) = 0 .. Len(words) - 1
      BY WordFacts DEF Indices
    <2>3. CASE program = vec_parallel(words) /\ pairs = Cardinality(vec_serial(words))
      <3>1. program = Region(<<Loop(0, Len(words), "dynamic", FALSE)>>,
                             vec_serial(words), "critical")
        BY <2>3 DEF vec_parallel, vec_serial
      <3>2. vec_serial(words) \subseteq 0 .. Len(words) - 1
        BY <2>2 DEF vec_serial
      <3>3. QED
        BY <2>2, <2>3, <3>1, <3>2, OneLoop
    <2>4. CASE program = vec_parallel_optimized(words)
                   /\ pairs = Cardinality(vec_serial(words))
      <3>1. program = Region(<<Loop(0, Len(words), "dynamic", FALSE)>>,
                             vec_serial(words), "afterwards")
        BY <2>4 DEF vec_parallel_optimized, vec_serial
      <3>2. vec_serial(words) \subseteq 0 .. Len(words) - 1
        BY <2>2 DEF vec_serial
      <3>3. QED
        BY <2>2, <2>4, <3>1, <3>2, OneLoop
    <2>5. CASE /\ program = bst_parallel(words)
               /\ pairs = IF Distinct(words) THEN Cardinality(bst_serial(words)) ELSE -1
      <3> DEFINE word_set == {Word(words, i) : i \in Indices(words)}
                 N == Cardinality(word_set)
                 counts == {i \in 0 .. N - 1 :
                               LET reverse == Backwards[Word(words, i)]
                               IN  /\ reverse \in word_set
                                   /\ reverse >= Word(words, i)}
      <3>1. program = Region(<<Loop(0, N, "blocks", TRUE)>>, counts, "critical")
        BY <2>5 DEF bst_parallel
      <3>2. N \in 0..MaxTasks
        BY <2>2, WordSet, SizesAssumption
      <3>3. counts \subseteq 0 .. N - 1
        OBVIOUS
      <3>4. Distinct(words) => pairs = Cardinality(counts)
        <4>1. Distinct(words) => 0 .. N - 1 = Indices(words)
          BY <2>2, WordSet
        <4>2. Distinct(words) => counts = ParallelPairs(words)
          BY <4>1 DEF ParallelPairs
        <4>3. QED
          BY <2>5, <4>2, SamePairs
      <3>5. pairs >= 0 => pairs = Cardinality(counts)
        BY <2>5, <3>4
      <3> HIDE DEF counts, N
      <3>6. QED
        BY <3>1, <3>2, <3>3, <3>5, OneLoop
    <2>6. QED
      BY <2>1, <2>3, <2>4, <2>5
  <1>2. CASE TaskInputs
    <2>1. PICK n \in 0..MaxTasks, c \in Chunks, schedule \in {"static", "dynamic", "guided"} :
              /\ program \in {example2_mystatic(n, c), example2_myschd(n), example3_myschd(n),
                              example_myschd(n), example2_omp(n, schedule),
                              example3_omp(n, schedule), example_omp(n, schedule)}
              /\ chunk_size = c
              /\ pairs = -1
      BY <1>2 DEF TaskInputs
    <2>2. ~(pairs >= 0)
      BY <2>1
    <2>3. CASE program = example2_mystatic(n, c)
      <3> DEFINE s == IF c > 0 THEN "cyclic" ELSE "blocks"
      <3>1. program = Region(<<Loop(0, n, s, TRUE)>>, 0 .. n - 1, "none")
        BY <2>3 DEF example2_mystatic
      <3>2. s = "blocks" \/ (s = "cyclic" /\ chunk_size = 1)
        BY <2>1
      <3> HIDE DEF s
      <3>3. QED
        BY <2>2, <3>1, <3>2, OneLoop
    <2>4. CASE program = example2_myschd(n)
      BY <2>1, <2>4, TwoLoops DEF example2_myschd
    <2>5. CASE program = example3_myschd(n)
      BY <2>1, <2>5, TwoLoops DEF example3_myschd
    <2>6. CASE program = example2_omp(n, schedule)
      <3>1. program = Region(<<Loop(0, n, schedule, FALSE)>>, 0 .. n - 1, "none")
        BY <2>6 DEF example2_omp
      <3>2. QED
        BY <2>2, <3>1, OneLoop
    <2>7. QED
      BY <2>1, <2>3, <2>4, <2>5, <2>6
         DEF example_myschd, example3_omp, example_omp
  <1>3. QED
    BY <1>1, <1>2 DEF Init
-----------------------------------------------------------------------------
(***************************************************************************)
(* The invariant at the start, and what every step keeps.                  *)
(***************************************************************************)
\* Of the loops, the last alone is shared out while it runs, and no iteration
\* is in two of them.
LEMMA LoopFacts ==
    ASSUME RegionOK
    PROVE  /\ Past \in Nat /\ Past \notin DOMAIN Loops /\ 1 \in DOMAIN Loops
           /\ Len(Loops) \in DOMAIN Loops /\ 1 .. Past = DOMAIN Loops \cup {Past}
           /\ \A k \in DOMAIN Loops :
                  /\ k \in Nat \ {0} /\ k < Past /\ k + 1 \in 1 .. Past
                  /\ LoopOK(Loops[k])
                  /\ Loops[k].lo .. Loops[k].hi - 1 \subseteq Tasks
                  /\ SharedOut(Loops[k]) => k = Len(Loops)
           /\ \A j, k \in DOMAIN Loops :
                  (Loops[j].lo .. Loops[j].hi - 1) \cap (Loops[k].lo .. Loops[k].hi - 1) # {}
                      => j = k
  <1>1. Len(Loops) \in {1, 2} /\ DOMAIN Loops = 1 .. Len(Loops)
    BY DEF RegionOK
  <1>2. \A k \in DOMAIN Loops : /\ k = 1 \/ (k = 2 /\ Len(Loops) = 2)
                                /\ k \in Nat \ {0} /\ k < Past /\ k + 1 \in 1 .. Past
    BY <1>1 DEF Past
  <1>3. ASSUME NEW k \in DOMAIN Loops
        PROVE  LoopOK(Loops[k]) /\ Loops[k].lo .. Loops[k].hi - 1 \subseteq Tasks
    <2>1. LoopOK(Loops[k])
      BY DEF RegionOK
    <2>2. QED
      BY <2>1, SizesAssumption DEF LoopOK, Tasks
  <1>4. \A k \in DOMAIN Loops : SharedOut(Loops[k]) => k = Len(Loops)
    BY <1>1, <1>2 DEF RegionOK
  <1>5. ASSUME Len(Loops) = 2
        PROVE  (Loops[1].lo .. Loops[1].hi - 1) \cap (Loops[2].lo .. Loops[2].hi - 1) = {}
    <2>1. Loops[1].hi <= Loops[2].lo /\ 1 \in DOMAIN Loops /\ 2 \in DOMAIN Loops
      BY <1>1, <1>5 DEF RegionOK
    <2>2. Loops[1].hi \in Nat /\ Loops[2].lo \in Nat
      BY <1>3, <2>1 DEF LoopOK
    <2>3. QED
      BY <2>1, <2>2
  <1>6. \A j, k \in DOMAIN Loops :
            (Loops[j].lo .. Loops[j].hi - 1) \cap (Loops[k].lo .. Loops[k].hi - 1) # {}
                => j = k
    BY <1>2, <1>5
  <1>7. /\ Past \in Nat /\ Past \notin DOMAIN Loops /\ 1 \in DOMAIN Loops
        /\ Len(Loops) \in DOMAIN Loops /\ 1 .. Past = DOMAIN Loops \cup {Past}
    BY <1>1 DEF Past
  <1>8. QED
    BY <1>2, <1>3, <1>4, <1>6, <1>7

\* What a thread has been handed is in the loop.
LEMMA HandedRange ==
    ASSUME RegionOK, PlaceInv, tnum \in Nat \ {0},
           NEW t \in Team, NEW k \in DOMAIN Loops, NEW i \in Handed(t, k)
    PROVE  i \in Loops[k].lo .. Loops[k].hi - 1
  <1>0. LoopOK(Loops[k])
    BY LoopFacts
  <1>1. LoopOK(Loops[k]) /\ Loops[k].lo \in Int /\ Loops[k].hi \in Int
    BY <1>0 DEF LoopOK
  <1>2. CASE SharedOut(Loops[k])
    <2>1. next \in Loops[k].lo .. Loops[k].hi
      BY <1>2 DEF PlaceInv
    <2>2. QED
      BY <1>1, <1>2, <2>1 DEF Handed
  <1>3. CASE ~SharedOut(Loops[k])
    <2>1. Share(t, Loops[k]) \in Seq(Loops[k].lo .. Loops[k].hi - 1)
      BY <1>1, <1>3, Shares DEF SharedOnce
    <2>2. i \in ToSet(Share(t, Loops[k]))
      BY <1>3 DEF Handed
    <2>3. QED
      BY <2>1, <2>2, SeqValues
  <1>4. QED
    BY <1>2, <1>3

\* The team and its sizes.
LEMMA TeamFacts ==
    ASSUME TypeOK
    PROVE  /\ tnum \in Nat \ {0} /\ Team \subseteq Threads /\ 0 \in Team
           /\ IsFiniteSet(Team) /\ IsFiniteSet(Tasks) /\ IsFiniteSet(Threads)
           /\ -1 \notin Threads
  <1>1. tnum \in Nat \ {0} /\ thread_cnt \in Nat /\ MaxTasks \in Nat /\ tnum <= thread_cnt
    BY SizesAssumption DEF TypeOK
  <1>2. tnum - 1 \in Int /\ thread_cnt - 1 \in Int
    BY <1>1
  <1>3. IsFiniteSet(Team) /\ IsFiniteSet(Tasks) /\ IsFiniteSet(Threads)
    BY <1>1, <1>2, FS_Interval DEF Team, Tasks, Threads
  <1>4. QED
    BY <1>1, <1>3 DEF Team, Threads

\* Nobody has been handed anything yet.
LEMMA InitInv ==
    ASSUME Chunks \subseteq {0, 1}, Fits, Init PROVE IndInv
  <1>1. RegionOK
    BY RegionInit
  <1>2. /\ \A t \in Threads : mine[t] = <<>> /\ given[t] = FALSE /\ loop[t] = 1
        /\ \A t \in Threads, i \in Tasks : local[t][i] = 0
        /\ writing = -1 /\ palin_cnt = -1 /\ ofs = <<>>
        /\ next = Loops[Len(Loops)].lo
    BY DEF Init, Loops
  <1>3. TypeOK
    <2>1. 1 \in 1 .. Past /\ next \in Nat
      BY <1>1, <1>2, LoopFacts DEF LoopOK
    <2>2. <<>> \in Seq(Tasks) /\ 0 \in 0..1
      OBVIOUS
    <2>3. QED
      BY <1>2, <2>1, <2>2 DEF TypeOK, Init
  <1>4. Team \subseteq Threads
    BY <1>3, TeamFacts
  <1>5. \A t \in Threads : Added(t) = {}
    BY <1>2 DEF Added
  <1>6. \A t \in Team : Has(t) = {}
    BY <1>2, <1>4, <1>5 DEF Has, ToSet
  <1>7. PlaceInv
    <2>1. \A t \in Threads : Ascending(mine[t])
      BY <1>2 DEF Ascending
    <2>2. ASSUME NEW t \in Team, NEW k \in DOMAIN Loops, SharedOut(Loops[k])
          PROVE  next \in Loops[k].lo .. Loops[k].hi /\ ~(loop[t] > k)
      <3>1. k = Len(Loops) /\ LoopOK(Loops[k]) /\ k \in Nat \ {0}
        BY <1>1, <2>2, LoopFacts
      <3>2. QED
        BY <1>2, <1>4, <3>1 DEF LoopOK
    <2>3. QED
      BY <1>2, <1>4, <1>5, <2>1, <2>2 DEF PlaceInv
  <1>8. ASSUME NEW t \in Team, NEW k \in DOMAIN Loops PROVE Handed(t, k) = {}
    <2>1. k \in Nat \ {0} /\ (SharedOut(Loops[k]) => k = Len(Loops))
          /\ LoopOK(Loops[k])
      BY <1>1, LoopFacts
    <2>2. SharedOut(Loops[k]) => next = Loops[k].lo /\ next \in Nat
      BY <1>2, <2>1 DEF LoopOK
    <2>3. ~(loop[t] > k) /\ ~given[t]
      BY <1>2, <1>4, <2>1
    <2>4. SharedOut(Loops[k]) => Loops[k].lo .. next - 1 = {}
      BY <2>2
    <2>5. QED
      BY <2>3, <2>4 DEF Handed
  <1>9. OnceInv
    BY <1>2, <1>4, <1>5, <1>6, <1>8 DEF OnceInv, ToSet
  <1>10. KeptInv
    BY <1>8 DEF KeptInv
  <1>11. OutputInv
    <2>1. Counted = {} /\ Cardinality(Counted) = 0
      BY <1>4, <1>5, FS_EmptySet DEF Counted
    <2>2. ofs \in Seq(Tasks \X {1, 2}) /\ Len(ofs) = 0 /\ DOMAIN ofs = {} /\ ToSet(ofs) = {}
      BY <1>2 DEF ToSet
    <2>3. QED
      BY <1>2, <2>1, <2>2 DEF OutputInv
  <1>12. ReportInv
    BY <1>2 DEF ReportInv
  <1>13. QED
    BY <1>1, <1>3, <1>7, <1>9, <1>10, <1>11, <1>12 DEF IndInv

\* The inputs stay as they are, and with them the region and the shares.
LEMMA Fixed ==
    ASSUME UNCHANGED inputs
    PROVE  /\ Loops' = Loops /\ Past' = Past /\ Team' = Team
           /\ program.counts' = program.counts /\ program.output' = program.output
           /\ Fits' = Fits /\ (RegionOK => RegionOK')
           /\ \A t, k : Share(t, Loops[k])' = Share(t, Loops[k])
  <1>1. program' = program /\ tnum' = tnum /\ chunk_size' = chunk_size /\ pairs' = pairs
    BY DEF inputs
  <1>2. Loops' = Loops /\ Past' = Past /\ Team' = Team
    BY <1>1 DEF Loops, Past, Team
  <1>3. Fits' = Fits /\ (RegionOK => RegionOK')
    BY <1>1, <1>2 DEF Fits, RegionOK, LoopOK, FitsInt
  <1>4. \A t, k : Share(t, Loops[k])' = Share(t, Loops[k])
    BY <1>1, <1>2 DEF Share, Blocks, Edge, Quotient, Wrap, Cyclic, Static
  <1>5. QED
    BY <1>1, <1>2, <1>3, <1>4

\* While a thread can take a step main has not reported.
LEMMA Busy ==
    ASSUME IndInv, NEW t \in Threads, Inside(t) \/ mine[t] # <<>>
    PROVE  /\ t \in Team /\ loop[t] \in DOMAIN Loops /\ palin_cnt = -1
  <1>1. t \in Team /\ loop[t] \in DOMAIN Loops
    <2>1. CASE Inside(t)
      BY <2>1 DEF Inside, IndInv, RegionOK
    <2>2. CASE mine[t] # <<>>
      <3>1. t \in Team /\ loop[t] # Past
        BY <2>2 DEF IndInv, PlaceInv
      <3>2. loop[t] \in 1 .. Past
        BY DEF IndInv, TypeOK
      <3>3. QED
        BY <3>1, <3>2, LoopFacts DEF IndInv
    <2>3. QED
      BY <2>1, <2>2
  <1>2. loop[t] # Past
    BY <1>1, LoopFacts DEF IndInv
  <1>3. QED
    BY <1>1, <1>2 DEF IndInv, ReportInv, Joined

\* A step that writes nothing and adds nothing keeps the output.
LEMMA OutputKept ==
    ASSUME OutputInv, UNCHANGED <<inputs, local, writing, ofs, palin_cnt>>,
           writing # -1 => mine'[writing] = mine[writing]
    PROVE  OutputInv'
  <1>1. program' = program /\ Team' = Team
    BY DEF inputs, Team
  <1>2. Counted' = Counted
    BY <1>1 DEF Counted, Added
  <1>3. QED
    BY <1>1, <1>2 DEF OutputInv
-----------------------------------------------------------------------------
(***************************************************************************)
(* Work is given out, and done.                                            *)
(***************************************************************************)
\* The shared part of TakeShare and TakeNext: iterations that nobody has go to
\* a thread that has none left.
LEMMA GiveInv ==
    ASSUME IndInv, UNCHANGED <<inputs, loop, local, writing, ofs, palin_cnt>>,
           NEW t \in Team, Inside(t), mine[t] = <<>>,
           NEW s \in Seq(Tasks), Ascending(s), mine' = [mine EXCEPT ![t] = s],
           \A u \in Team : ToSet(s) \cap Has(u) = {},
           \A u \in Team, k \in DOMAIN Loops :
               /\ Handed(u, k) \subseteq Handed(u, k)'
               /\ Handed(u, k)' \subseteq Handed(u, k) \cup ToSet(s),
           \E k \in DOMAIN Loops : ToSet(s) \subseteq Handed(t, k)',
           given' \in [Threads -> BOOLEAN], next' \in Nat,
           \A u \in Team, k \in DOMAIN Loops :
               /\ loop[u] = k /\ ~given'[u] /\ ~SharedOut(Loops[k]) => u # t /\ ~given[u]
               /\ SharedOut(Loops[k]) =>
                      /\ next' \in Loops[k].lo .. Loops[k].hi
                      /\ loop[u] > k => next' = Loops[k].hi
    PROVE  IndInv'
  <1>0. /\ Loops' = Loops /\ Past' = Past /\ Team' = Team /\ tnum' = tnum
        /\ program' = program /\ RegionOK' /\ loop' = loop /\ local' = local
    BY Fixed DEF IndInv, inputs
  <1>1. /\ t \in Threads /\ Team \subseteq Threads /\ palin_cnt = -1
        /\ loop[t] \in DOMAIN Loops
    BY Busy, TeamFacts DEF IndInv
  <1>2. \A u \in Threads : u # t => mine'[u] = mine[u]
    BY <1>1 DEF IndInv, TypeOK
  <1>3. mine'[t] = s
    BY <1>1 DEF IndInv, TypeOK
  <1>4. \A u \in Threads : Added(u)' = Added(u)
    BY <1>0 DEF Added
  <1>5. Has(t)' = ToSet(s) \cup Has(t)
    <2>1. ToSet(mine[t]) = {}
      BY DEF ToSet
    <2>2. QED
      BY <1>1, <1>3, <1>4, <2>1 DEF Has
  <1>6. \A u \in Team : u # t => Has(u)' = Has(u)
    BY <1>1, <1>2, <1>4 DEF Has
  <1>7. TypeOK'
    <2>1. mine' \in [Threads -> Seq(Tasks)]
      BY DEF IndInv, TypeOK
    <2>2. QED
      BY <1>0, <2>1 DEF IndInv, TypeOK
  <1>8. PlaceInv'
    <2>1. \A u \in Threads : Ascending(mine'[u])
      BY <1>2, <1>3 DEF IndInv, PlaceInv
    <2>2. \A u \in Threads \ Team : mine'[u] = <<>> /\ Added(u)' = {}
      BY <1>1, <1>2, <1>4 DEF IndInv, PlaceInv
    <2>3. \A u \in Team : mine'[u] # <<>> => loop[u] # Past
      <3>1. loop[t] # Past
        BY <1>1, LoopFacts DEF IndInv
      <3>2. QED
        BY <1>1, <1>2, <3>1 DEF IndInv, PlaceInv
    <2>4. ASSUME NEW u \in Team, NEW k \in DOMAIN Loops
          PROVE  /\ loop[u] = k /\ ~given'[u] /\ ~SharedOut(Loops[k]) => mine'[u] = <<>>
                 /\ SharedOut(Loops[k]) =>
                        /\ next' \in Loops[k].lo .. Loops[k].hi
                        /\ loop[u] > k => next' = Loops[k].hi
      BY <1>1, <1>2 DEF IndInv, PlaceInv
    <2>5. QED
      BY <1>0, <2>1, <2>2, <2>3, <2>4 DEF PlaceInv, SharedOut
  <1>9. OnceInv'
    <2>1. ASSUME NEW u \in Team, NEW v \in Team, u # v
          PROVE  Has(u)' \cap Has(v)' = {}
      <3>1. Has(u) \cap Has(v) = {} /\ ToSet(s) \cap Has(u) = {} /\ ToSet(s) \cap Has(v) = {}
        BY <2>1 DEF IndInv, OnceInv
      <3>2. QED
        BY <1>5, <1>6, <2>1, <3>1
    <2>2. ASSUME NEW u \in Team
          PROVE  /\ ToSet(mine'[u]) \cap Added(u)' = {}
                 /\ Added(u)' \subseteq program.counts
      <3>1. ToSet(s) \cap Added(u) = {}
        BY DEF Has
      <3>2. ToSet(mine[u]) \cap Added(u) = {} /\ Added(u) \subseteq program.counts
        BY DEF IndInv, OnceInv
      <3>3. QED
        BY <1>1, <1>2, <1>3, <1>4, <3>1, <3>2
    <2>3. ASSUME NEW u \in Team
          PROVE  Has(u)' \subseteq UNION {Handed(u, k)' : k \in DOMAIN Loops}
      <3>1. ASSUME NEW i \in Has(u) PROVE \E k \in DOMAIN Loops : i \in Handed(u, k)'
        <4>1. \E k \in DOMAIN Loops : i \in Handed(u, k)
          BY DEF IndInv, OnceInv
        <4>2. QED
          BY <4>1
      <3>2. ASSUME NEW i \in ToSet(s) PROVE \E k \in DOMAIN Loops : i \in Handed(t, k)'
        OBVIOUS
      <3>3. QED
        BY <1>5, <1>6, <3>1, <3>2
    <2>4. QED
      BY <1>0, <2>1, <2>2, <2>3 DEF OnceInv
  <1>10. KeptInv'
    <2>1. ASSUME NEW u \in Team, NEW k \in DOMAIN Loops,
                 NEW i \in Handed(u, k)' \cap program.counts
          PROVE  \E v \in Team : i \in Has(v)'
      <3>1. CASE i \in ToSet(s)
        BY <1>5, <3>1
      <3>2. CASE i \in Handed(u, k)
        <4>1. PICK v \in Team : i \in Has(v)
          BY <2>1, <3>2 DEF IndInv, KeptInv
        <4>2. QED
          BY <1>5, <1>6, <4>1
      <3>3. QED
        BY <2>1, <3>1, <3>2
    <2>2. QED
      BY <1>0, <2>1 DEF KeptInv
  <1>11. OutputInv'
    <2>1. writing # -1 => writing \in Threads /\ writing # t
      BY <1>1 DEF IndInv, TypeOK, OutputInv
    <2>2. writing # -1 => mine'[writing] = mine[writing]
      BY <1>2, <2>1
    <2>3. QED
      BY <2>2, OutputKept DEF IndInv
  <1>12. ReportInv'
    BY <1>1 DEF ReportInv
  <1>13. QED
    BY <1>0, <1>7, <1>8, <1>9, <1>10, <1>11, <1>12 DEF IndInv

\* A static share: nobody else's share of the loop has any of it.
LEMMA TakeShareInv ==
    ASSUME IndInv, NEW t \in Threads, TakeShare(t) PROVE IndInv'
  <1>a. t \in Team /\ loop[t] \in DOMAIN Loops /\ palin_cnt = -1
    BY Busy DEF TakeShare
  <1>b. PICK k \in DOMAIN Loops : k = loop[t]
    BY <1>a
  <1>c. PICK s : s = Share(t, Loops[k])
    OBVIOUS
  <1>0. /\ Inside(t) /\ ~SharedOut(Loops[k]) /\ ~given[t]
        /\ given' = [given EXCEPT ![t] = TRUE] /\ mine' = [mine EXCEPT ![t] = s]
        /\ UNCHANGED <<inputs, loop, next, local, writing, ofs, palin_cnt>>
    BY <1>b, <1>c DEF TakeShare
  <1>1. /\ t \in Team /\ k \in DOMAIN Loops /\ palin_cnt = -1 /\ RegionOK /\ TypeOK
    BY <1>a DEF IndInv
  <1>2. /\ tnum \in Nat \ {0} /\ Team \subseteq Threads
    BY <1>1, TeamFacts
  <1>3. SharedOnce(Loops[k])
    BY <1>0, <1>1, <1>2, LoopFacts, Shares
  <1>4. mine[t] = <<>>
    BY <1>0, <1>1, <1>b DEF IndInv, PlaceInv
  <1>5. s \in Seq(Tasks) /\ Ascending(s)
    <2>1. Loops[k].lo .. Loops[k].hi - 1 \subseteq Tasks
      BY <1>1, LoopFacts
    <2>2. s \in Seq(Loops[k].lo .. Loops[k].hi - 1) /\ Ascending(s)
      BY <1>1, <1>3, <1>c DEF SharedOnce
    <2>3. s \in Seq(Tasks)
      BY <2>1, <2>2, SeqWidens
    <2>4. QED
      BY <2>2, <2>3
  <1>6. \A u, j : Share(u, Loops[j])' = Share(u, Loops[j])
    BY <1>0, Fixed
  <1>7. Loops' = Loops /\ loop' = loop /\ next' = next
    BY <1>0, Fixed
  <1>8. \A u \in Team : u # t => given'[u] = given[u]
    BY <1>0, <1>2 DEF TypeOK, IndInv
  <1>9. given'[t] = TRUE /\ given' \in [Threads -> BOOLEAN]
    BY <1>0, <1>1 DEF TypeOK
  <1>10. ASSUME NEW u \in Team, NEW j \in DOMAIN Loops
         PROVE  Handed(u, j)' = IF u = t /\ j = k THEN ToSet(s) ELSE Handed(u, j)
    <2>1. SharedOut(Loops[j])' = SharedOut(Loops[j])
      BY <1>7 DEF SharedOut
    <2>2. CASE u # t
      BY <1>6, <1>7, <1>8, <2>1, <2>2 DEF Handed
    <2>3. CASE u = t /\ j # k
      BY <1>b, <1>6, <1>7, <1>9, <2>1, <2>3 DEF Handed
    <2>4. CASE u = t /\ j = k
      BY <1>b, <1>c, <1>0, <1>6, <1>7, <1>9, <2>1, <2>4 DEF Handed
    <2>5. QED
      BY <2>2, <2>3, <2>4
  <1>11. Handed(t, k) = {}
    <2>1. k \in Nat
      BY <1>1, LoopFacts
    <2>2. ~(k > k)
      BY <2>1
    <2>3. QED
      BY <1>0, <1>b, <2>2 DEF Handed
  <1>12. ASSUME NEW u \in Team, NEW i \in ToSet(s), i \in Has(u) PROVE FALSE
    <2>1. PICK j \in DOMAIN Loops : i \in Handed(u, j)
      BY <1>12 DEF IndInv, OnceInv
    <2>2. i \in Loops[j].lo .. Loops[j].hi - 1
      BY <1>1, <1>2, <2>1, HandedRange DEF IndInv
    <2>3. i \in Loops[k].lo .. Loops[k].hi - 1
      <3>1. s \in Seq(Loops[k].lo .. Loops[k].hi - 1)
        BY <1>1, <1>3, <1>c DEF SharedOnce
      <3>2. QED
        BY <3>1, SeqValues
    <2>4. j = k
      BY <1>1, <2>2, <2>3, LoopFacts
    <2>5. u # t
      BY <1>11, <2>1, <2>4
    <2>6. i \in ToSet(Share(u, Loops[k]))
      BY <1>0, <2>1, <2>4 DEF Handed
    <2>7. QED
      BY <1>1, <1>3, <1>c, <2>5, <2>6 DEF SharedOnce
  <1>13. \A u \in Team : ToSet(s) \cap Has(u) = {}
    BY <1>12
  <1>14. \A u \in Team, j \in DOMAIN Loops :
             /\ Handed(u, j) \subseteq Handed(u, j)'
             /\ Handed(u, j)' \subseteq Handed(u, j) \cup ToSet(s)
    BY <1>10, <1>11
  <1>15. ToSet(s) \subseteq Handed(t, k)'
    BY <1>1, <1>10
  <1>16. \A u \in Team, j \in DOMAIN Loops :
             /\ loop[u] = j /\ ~given'[u] /\ ~SharedOut(Loops[j]) => u # t /\ ~given[u]
             /\ SharedOut(Loops[j]) =>
                    /\ next' \in Loops[j].lo .. Loops[j].hi
                    /\ loop[u] > j => next' = Loops[j].hi
    BY <1>7, <1>8, <1>9 DEF IndInv, PlaceInv
  <1>19. \E j \in DOMAIN Loops : ToSet(s) \subseteq Handed(t, j)'
    BY <1>1, <1>15
  <1>17. next' \in Nat
    BY <1>1, <1>7 DEF TypeOK
  <1>18. QED
    BY <1>0, <1>1, <1>4, <1>5, <1>9, <1>13, <1>14, <1>16, <1>17, <1>19, GiveInv

\* The share of the loop that is handed out is not empty and not more than is
\* left.
LEMMA HandfulFits ==
    ASSUME tnum \in Nat \ {0}, next \in Nat, NEW l, l.hi \in Nat, next < l.hi
    PROVE  Handful(l) \in Nat \ {0} /\ next + Handful(l) <= l.hi
  <1> DEFINE d == l.hi - next
             q == ((d + tnum) - 1) \div tnum
             m == ((d + tnum) - 1) % tnum
  <1>1. d \in Nat \ {0} /\ d + tnum - 1 \in Nat
    OBVIOUS
  <1>2. (d + tnum) - 1 = (tnum * q) + m /\ m \in 0 .. tnum - 1 /\ q \in Nat
    <2> DEFINE x == (d + tnum) - 1
    <2>1. x \in Nat
      BY <1>1
    <2> HIDE DEF x
    <2>2. x = (tnum * (x \div tnum)) + (x % tnum) /\ x % tnum \in 0 .. tnum - 1
          /\ x \div tnum \in Nat
      BY <2>1
    <2>3. QED
      BY <2>2 DEF x
  <1>3. tnum + tnum - 1 >= tnum /\ l.hi - next + tnum - 1 = d + tnum - 1
    OBVIOUS
  <1>4. Handful(l) = 1 \/ Handful(l) = q
    BY <1>3 DEF Handful
  <1> HIDE DEF d, q, m
  <1>5. q # 0
    <2>1. q = 0 => tnum * q = 0
      OBVIOUS
    <2>2. QED
      BY <1>1, <1>2, <2>1
  <1>6. q <= d
    <2>1. d + 1 <= q => tnum * (d + 1) <= tnum * q
      BY <1>1, <1>2, MultiplesAscend
    <2>2. tnum * (d + 1) = tnum * d + tnum /\ tnum * d >= d /\ tnum * d \in Nat
      <3>1. d * 1 <= d * tnum
        BY <1>1, MultiplesAscend
      <3>2. d * tnum = tnum * d /\ d * 1 = d
        BY <1>1
      <3>3. QED
        BY <1>1, <3>1, <3>2
    <2>3. QED
      BY <1>1, <1>2, <2>1, <2>2
  <1>7. next + d = l.hi
    BY DEF d
  <1>8. QED
    BY <1>1, <1>2, <1>4, <1>5, <1>6, <1>7

\* A handful from the shared counter: nobody has been given these yet.
LEMMA TakeNextInv ==
    ASSUME IndInv, NEW t \in Threads, TakeNext(t) PROVE IndInv'
  <1>a. t \in Team /\ loop[t] \in DOMAIN Loops /\ palin_cnt = -1
    BY Busy DEF TakeNext
  <1>b. PICK k \in DOMAIN Loops : k = loop[t]
    BY <1>a
  <1>c. PICK n, h : n = next /\ h = Handful(Loops[k])
    OBVIOUS
  <1> DEFINE s == From(n, n + h)
  <1>0. /\ Inside(t) /\ SharedOut(Loops[k]) /\ mine[t] = <<>> /\ next < Loops[k].hi
        /\ mine' = [mine EXCEPT ![t] = s] /\ next' = next + h
        /\ UNCHANGED <<inputs, loop, given, local, writing, ofs, palin_cnt>>
    BY <1>b, <1>c DEF TakeNext
  <1>1. /\ t \in Team /\ k \in DOMAIN Loops /\ palin_cnt = -1 /\ RegionOK /\ TypeOK
    BY <1>a DEF IndInv
  <1>2. /\ tnum \in Nat \ {0} /\ Team \subseteq Threads
    BY <1>1, TeamFacts
  <1>3. /\ Loops[k].lo \in Nat /\ Loops[k].hi \in Nat /\ next \in Nat
        /\ next \in Loops[k].lo .. Loops[k].hi
        /\ Loops[k].lo .. Loops[k].hi - 1 \subseteq Tasks
    <2>1. LoopOK(Loops[k])
      BY <1>1, LoopFacts
    <2>2. QED
      BY <1>0, <1>1, <2>1, LoopFacts DEF IndInv, PlaceInv, LoopOK, TypeOK
  <1>4. h \in Nat \ {0} /\ next + h <= Loops[k].hi
    BY <1>0, <1>2, <1>3, <1>c, HandfulFits
  <1>5. next + h \in Loops[k].lo .. Loops[k].hi
    BY <1>3, <1>4
  <1>6. s \in Seq(next .. (next + h) - 1) /\ ToSet(s) = next .. (next + h) - 1 /\ Ascending(s)
    <2>1. n \in Int /\ n + h \in Int
      BY <1>3, <1>4, <1>c
    <2> HIDE DEF s
    <2>2. s \in Seq(n .. (n + h) - 1) /\ ToSet(s) = n .. (n + h) - 1 /\ Ascending(s)
      BY <2>1, FromFacts DEF s
    <2>3. QED
      BY <2>2, <1>c
  <1>7. s \in Seq(Tasks)
    <2>1. next .. (next + h) - 1 \subseteq Loops[k].lo .. Loops[k].hi - 1
      BY <1>3, <1>4
    <2> HIDE DEF s
    <2>2. next .. (next + h) - 1 \subseteq Tasks
      BY <1>3, <2>1
    <2>3. QED
      BY <1>6, <2>2, SeqWidens
  <1>8. \A u, j : Share(u, Loops[j])' = Share(u, Loops[j])
    BY <1>0, Fixed
  <1>9. Loops' = Loops /\ loop' = loop /\ given' = given
    BY <1>0, Fixed
  <1>10. \A j \in DOMAIN Loops : SharedOut(Loops[j]) => j = k
    BY <1>0, <1>1, LoopFacts
  <1>11. ASSUME NEW u \in Team, NEW j \in DOMAIN Loops
         PROVE  Handed(u, j)' = IF j = k THEN Loops[k].lo .. (next + h) - 1 ELSE Handed(u, j)
    <2>1. SharedOut(Loops[j])' = SharedOut(Loops[j])
      BY <1>9 DEF SharedOut
    <2>2. CASE j = k
      BY <1>0, <1>9, <1>c, <2>1, <2>2 DEF Handed
    <2>3. CASE j # k
      BY <1>8, <1>9, <1>10, <2>1, <2>3 DEF Handed
    <2>4. QED
      BY <2>2, <2>3
  <1>12. \A u \in Team : Handed(u, k) = Loops[k].lo .. next - 1
    BY <1>0 DEF Handed
  <1>13. ASSUME NEW u \in Team, NEW i \in ToSet(s), i \in Has(u) PROVE FALSE
    <2>1. PICK j \in DOMAIN Loops : i \in Handed(u, j)
      BY <1>13 DEF IndInv, OnceInv
    <2>2. i \in Loops[j].lo .. Loops[j].hi - 1
      BY <1>1, <1>2, <2>1, HandedRange DEF IndInv
    <2>3. i \in Loops[k].lo .. Loops[k].hi - 1 /\ i >= next /\ i \in Int
      BY <1>3, <1>4, <1>6, <1>13
    <2>4. j = k
      BY <1>1, <2>2, <2>3, LoopFacts
    <2>5. i \in Loops[k].lo .. next - 1
      BY <1>12, <2>1, <2>4
    <2>6. QED
      BY <1>3, <2>3, <2>5
  <1>14. /\ Loops[k].lo .. (next + h) - 1 = (Loops[k].lo .. next - 1) \cup (next .. (next + h) - 1)
    BY <1>3, <1>4
  <1> HIDE DEF s
  <1>15. \A u \in Team : ToSet(s) \cap Has(u) = {}
    BY <1>13
  <1>16. ASSUME NEW u \in Team, NEW j \in DOMAIN Loops
         PROVE  /\ Handed(u, j) \subseteq Handed(u, j)'
                /\ Handed(u, j)' \subseteq Handed(u, j) \cup ToSet(s)
    <2>1. CASE j = k
      BY <1>6, <1>11, <1>12, <1>14, <2>1
    <2>2. CASE j # k
      BY <1>11, <2>2
    <2>3. QED
      BY <2>1, <2>2
  <1>17. ToSet(s) \subseteq Handed(t, k)'
    BY <1>1, <1>6, <1>11, <1>14
  <1>18. ASSUME NEW u \in Team, NEW j \in DOMAIN Loops
         PROVE  /\ loop[u] = j /\ ~given'[u] /\ ~SharedOut(Loops[j]) => u # t /\ ~given[u]
                /\ SharedOut(Loops[j]) =>
                       /\ next' \in Loops[j].lo .. Loops[j].hi
                       /\ loop[u] > j => next' = Loops[j].hi
    <2>1. loop[t] = k
      BY <1>b
    <2>2. SharedOut(Loops[j]) => j = k
      BY <1>10
    <2>3. SharedOut(Loops[j]) => ~(loop[u] > j)
      <3>1. SharedOut(Loops[j]) /\ loop[u] > j => next = Loops[k].hi
        BY <2>2 DEF IndInv, PlaceInv
      <3>2. QED
        BY <1>0, <1>3, <3>1
    <2>4. QED
      BY <1>0, <1>5, <1>9, <2>1, <2>2, <2>3
  <1>19. next' \in Nat /\ given' \in [Threads -> BOOLEAN]
    BY <1>0, <1>1, <1>3, <1>4, <1>9 DEF TypeOK
  <1>20. \E j \in DOMAIN Loops : ToSet(s) \subseteq Handed(t, j)'
    BY <1>1, <1>17
  <1>21. mine' = [mine EXCEPT ![t] = s]
    BY <1>0
  <1>22. Ascending(s)
    BY <1>6
  <1>23. QED
    BY <1>0, <1>1, <1>7, <1>15, <1>16, <1>18, <1>19, <1>20, <1>21, <1>22, GiveInv

\* A thread does the first of its iterations: it is not among the others.
LEMMA FirstOfRow ==
    ASSUME NEW S \in SUBSET Int, NEW s \in Seq(S), s # <<>>, Ascending(s)
    PROVE  /\ Head(s) \in S /\ Tail(s) \in Seq(S) /\ Ascending(Tail(s))
           /\ Head(s) \in ToSet(s) /\ ToSet(Tail(s)) = ToSet(s) \ {Head(s)}
  <1>1. /\ Len(s) \in Nat \ {0} /\ Head(s) = s[1] /\ 1 \in DOMAIN s
        /\ Tail(s) \in Seq(S) /\ DOMAIN s = 1 .. Len(s)
    OBVIOUS
  <1>2. /\ DOMAIN Tail(s) = 1 .. Len(s) - 1
        /\ \A k \in 1 .. Len(s) - 1 : Tail(s)[k] = s[k + 1] /\ k + 1 \in DOMAIN s
    BY <1>1
  <1>3. Ascending(Tail(s))
    <2>1. ASSUME NEW j \in 1 .. Len(s) - 1, NEW k \in 1 .. Len(s) - 1, j < k
          PROVE  s[j + 1] < s[k + 1]
      BY <1>1, <2>1 DEF Ascending
    <2>2. QED
      BY <1>2, <2>1 DEF Ascending
  <1>4. ASSUME NEW k \in DOMAIN s PROVE s[k] \in Int /\ (k # 1 => s[1] < s[k])
    <2>1. s[k] \in S
      BY <1>1
    <2>2. k # 1 => 1 < k
      BY <1>1
    <2>3. k # 1 => s[1] < s[k]
      BY <1>1, <2>2 DEF Ascending
    <2>4. QED
      BY <2>1, <2>3
  <1>5. ASSUME NEW i \in ToSet(Tail(s)) PROVE i \in ToSet(s) \ {Head(s)}
    <2>1. PICK k \in 1 .. Len(s) - 1 : i = s[k + 1]
      BY <1>2 DEF ToSet
    <2>2. k + 1 \in DOMAIN s /\ k + 1 # 1
      BY <1>1
    <2>3. s[1] < s[k + 1] /\ s[1] \in Int /\ s[k + 1] \in Int
      BY <1>1, <1>4, <2>2
    <2>4. QED
      BY <1>1, <2>1, <2>2, <2>3 DEF ToSet
  <1>6. ASSUME NEW i \in ToSet(s) \ {Head(s)} PROVE i \in ToSet(Tail(s))
    <2>1. PICK k \in 1 .. Len(s) : i = s[k] /\ k # 1
      BY <1>1 DEF ToSet
    <2>2. k - 1 \in 1 .. Len(s) - 1 /\ (k - 1) + 1 = k
      BY <1>1, <2>1
    <2>3. Tail(s)[k - 1] = i
      BY <1>2, <2>1, <2>2
    <2>4. QED
      BY <1>2, <2>2, <2>3 DEF ToSet
  <1>7. Head(s) \in ToSet(s) /\ Head(s) \in S
    BY <1>1 DEF ToSet
  <1>8. ToSet(Tail(s)) = ToSet(s) \ {Head(s)}
    BY <1>5, <1>6, Zenon
  <1>9. QED
    BY <1>1, <1>3, <1>7, <1>8, Zenon

\* What Iterate and EndCritical have in common.
Done(t) ==
    /\ mine[t] # <<>>
    /\ mine' = [mine EXCEPT ![t] = Tail(@)]
    /\ local' = IF Head(mine[t]) \in program.counts
                THEN [local EXCEPT ![t][Head(mine[t])] = @ + 1] ELSE local
    /\ UNCHANGED <<inputs, loop, given, next, palin_cnt>>

\* The iteration leaves mine and, when it counts, goes into the thread's result.
LEMMA DoneFacts ==
    ASSUME IndInv, NEW t \in Threads, Done(t), NEW i, i = Head(mine[t])
    PROVE  /\ t \in Team /\ palin_cnt = -1 /\ Team \subseteq Threads
           /\ loop[t] \in DOMAIN Loops
           /\ \A u \in Threads : u # t => mine'[u] = mine[u] /\ Added(u)' = Added(u)
           /\ mine'[t] \in Seq(Tasks) /\ Ascending(mine'[t])
           /\ i \in ToSet(mine[t]) /\ ToSet(mine'[t]) = ToSet(mine[t]) \ {i}
           /\ i \in Tasks /\ i \notin Counted
           /\ local' \in [Threads -> [Tasks -> 0..1]]
           /\ Added(t)' = Added(t) \cup ({i} \cap program.counts)
           /\ Counted' = Counted \cup ({i} \cap program.counts)
  <1>1. t \in Team /\ palin_cnt = -1 /\ loop[t] \in DOMAIN Loops
    BY Busy DEF Done
  <1>2. Team \subseteq Threads
    BY TeamFacts DEF IndInv
  <1>3. mine[t] \in Seq(Tasks) /\ Ascending(mine[t]) /\ mine[t] # <<>>
    BY DEF IndInv, TypeOK, PlaceInv, Done
  <1>4. Tasks \in SUBSET Int
    BY SizesAssumption DEF Tasks
  <1>5. /\ i \in Tasks /\ Tail(mine[t]) \in Seq(Tasks) /\ Ascending(Tail(mine[t]))
        /\ i \in ToSet(mine[t]) /\ ToSet(Tail(mine[t])) = ToSet(mine[t]) \ {i}
    BY <1>3, <1>4, FirstOfRow
  <1>6. mine'[t] = Tail(mine[t]) /\ \A u \in Threads : u # t => mine'[u] = mine[u]
    BY DEF Done, IndInv, TypeOK
  <1>7. i \notin Added(t)
    BY <1>1, <1>5 DEF IndInv, OnceInv
  <1>8. i \notin Counted
    <2>1. ASSUME NEW u \in Team, i \in Added(u) PROVE FALSE
      <3>1. u # t
        BY <1>7, <2>1
      <3>2. i \in Has(u) /\ i \in Has(t)
        BY <1>5, <2>1 DEF Has
      <3>3. QED
        BY <1>1, <3>1, <3>2 DEF IndInv, OnceInv
    <2>2. QED
      BY <2>1 DEF Counted
  <1>9. local[t][i] = 0
    BY <1>5, <1>7 DEF Added, IndInv, TypeOK
  <1>10. \A u \in Threads : u # t => Added(u)' = Added(u)
    <2>1. \A u \in Threads : u # t => local'[u] = local[u]
      BY DEF Done, IndInv, TypeOK
    <2>2. QED
      BY <2>1 DEF Added
  <1>11. local' \in [Threads -> [Tasks -> 0..1]]
         /\ Added(t)' = Added(t) \cup ({i} \cap program.counts)
    <2>1. CASE i \in program.counts
      <3>1. local' = [local EXCEPT ![t] = [local[t] EXCEPT ![i] = 1]]
        BY <1>9, <2>1 DEF Done
      <3>2. local \in [Threads -> [Tasks -> 0..1]]
        BY DEF IndInv, TypeOK
      <3>3. local'[t] = [local[t] EXCEPT ![i] = 1] /\ local[t] \in [Tasks -> 0..1]
        BY <3>1, <3>2
      <3>4. local' \in [Threads -> [Tasks -> 0..1]]
        <4>1. [local[t] EXCEPT ![i] = 1] \in [Tasks -> 0..1]
          <5>1. [local[t] EXCEPT ![i] = 1] = [j \in Tasks |-> IF j = i THEN 1 ELSE local[t][j]]
            BY <3>3
          <5>2. \A j \in Tasks : (IF j = i THEN 1 ELSE local[t][j]) \in 0..1
            BY <3>3
          <5>3. QED
            BY <5>1, <5>2
        <4>2. QED
          BY <3>1, <3>2, <4>1
      <3>5. \A j \in Tasks : local'[t][j] = IF j = i THEN 1 ELSE local[t][j]
        BY <3>3
      <3>6. QED
        BY <1>5, <2>1, <3>4, <3>5 DEF Added
    <2>2. CASE i \notin program.counts
      <3>1. local' = local
        BY <2>2 DEF Done
      <3>2. QED
        BY <2>2, <3>1 DEF Added, IndInv, TypeOK
    <2>3. QED
      BY <2>1, <2>2
  <1>12. Team' = Team
    BY Fixed DEF Done
  <1>13. Counted' = Counted \cup ({i} \cap program.counts)
    <2>1. Counted' = UNION {Added(u)' : u \in Team}
      BY <1>12 DEF Counted
    <2>2. QED
      BY <1>1, <1>2, <1>10, <1>11, <2>1 DEF Counted
  <1>14. QED
    BY <1>1, <1>2, <1>5, <1>6, <1>8, <1>10, <1>11, <1>13

\* All of the invariant but the output, which the two steps treat differently.
LEMMA DoneInv ==
    ASSUME IndInv, NEW t \in Threads, Done(t), OutputInv', writing' \in Team \cup {-1}
    PROVE  IndInv'
  <1>1. PICK i : i = Head(mine[t])
    OBVIOUS
  <1>2. /\ t \in Team /\ palin_cnt = -1 /\ Team \subseteq Threads
        /\ loop[t] \in DOMAIN Loops
        /\ \A u \in Threads : u # t => mine'[u] = mine[u] /\ Added(u)' = Added(u)
        /\ mine'[t] \in Seq(Tasks) /\ Ascending(mine'[t])
        /\ i \in ToSet(mine[t]) /\ ToSet(mine'[t]) = ToSet(mine[t]) \ {i}
        /\ i \in Tasks /\ i \notin Counted
        /\ local' \in [Threads -> [Tasks -> 0..1]]
        /\ Added(t)' = Added(t) \cup ({i} \cap program.counts)
    BY <1>1, DoneFacts
  <1>3. /\ Loops' = Loops /\ Past' = Past /\ Team' = Team /\ tnum' = tnum
        /\ program' = program /\ RegionOK' /\ loop' = loop /\ given' = given
        /\ next' = next /\ palin_cnt' = palin_cnt
    BY Fixed DEF Done, IndInv, inputs
  <1>4. \A u, k : Handed(u, k)' = Handed(u, k)
    <2>1. \A u, k : Share(u, Loops[k])' = Share(u, Loops[k])
      BY Fixed DEF Done
    <2>2. QED
      BY <1>3, <2>1 DEF Handed, SharedOut
  <1>5. Has(t) = Has(t)' \cup {i} /\ (i \in program.counts => i \in Has(t)')
        /\ Has(t)' \subseteq Has(t)
    BY <1>2 DEF Has
  <1>6. \A u \in Team : u # t => Has(u)' = Has(u)
    BY <1>2 DEF Has
  <1>7. TypeOK'
    <2>1. mine' \in [Threads -> Seq(Tasks)]
      <3>1. Tail(mine[t]) \in Seq(Tasks)
        BY <1>2 DEF Done, IndInv, TypeOK
      <3>2. QED
        BY <3>1 DEF Done, IndInv, TypeOK
    <2>2. QED
      BY <1>2, <1>3, <2>1 DEF IndInv, TypeOK
  <1>8. PlaceInv'
    <2>1. \A u \in Threads : Ascending(mine'[u])
      BY <1>2 DEF IndInv, PlaceInv
    <2>2. \A u \in Threads \ Team : mine'[u] = <<>> /\ Added(u)' = {}
      BY <1>2 DEF IndInv, PlaceInv
    <2>3. loop[t] # Past /\ mine[t] # <<>>
      BY <1>2, LoopFacts DEF IndInv, Done
    <2>4. \A u \in Team : mine'[u] # <<>> => loop[u] # Past
      BY <1>2, <2>3 DEF IndInv, PlaceInv
    <2>5. ASSUME NEW u \in Team, NEW k \in DOMAIN Loops
          PROVE  /\ loop[u] = k /\ ~given[u] /\ ~SharedOut(Loops[k]) => mine'[u] = <<>>
                 /\ SharedOut(Loops[k]) =>
                        /\ next \in Loops[k].lo .. Loops[k].hi
                        /\ loop[u] > k => next = Loops[k].hi
      BY <1>2, <2>3 DEF IndInv, PlaceInv
    <2>6. QED
      BY <1>3, <2>1, <2>2, <2>4, <2>5 DEF PlaceInv, SharedOut
  <1>9. OnceInv'
    <2>1. ASSUME NEW u \in Team, NEW v \in Team, u # v
          PROVE  Has(u)' \cap Has(v)' = {}
      <3>1. Has(u) \cap Has(v) = {}
        BY <2>1 DEF IndInv, OnceInv
      <3>2. QED
        BY <1>5, <1>6, <2>1, <3>1
    <2>2. ASSUME NEW u \in Team
          PROVE  /\ ToSet(mine'[u]) \cap Added(u)' = {}
                 /\ Added(u)' \subseteq program.counts
      <3>1. ToSet(mine[u]) \cap Added(u) = {} /\ Added(u) \subseteq program.counts
        BY DEF IndInv, OnceInv
      <3>2. QED
        BY <1>2, <3>1
    <2>3. ASSUME NEW u \in Team
          PROVE  Has(u)' \subseteq UNION {Handed(u, k) : k \in DOMAIN Loops}
      BY <1>5, <1>6 DEF IndInv, OnceInv
    <2>4. QED
      BY <1>3, <1>4, <2>1, <2>2, <2>3 DEF OnceInv
  <1>10. KeptInv'
    <2>1. ASSUME NEW u \in Team, NEW k \in DOMAIN Loops,
                 NEW j \in Handed(u, k) \cap program.counts
          PROVE  \E v \in Team : j \in Has(v)'
      <3>1. PICK v \in Team : j \in Has(v)
        BY DEF IndInv, KeptInv
      <3>2. QED
        BY <1>5, <1>6, <3>1
    <2>2. QED
      BY <1>3, <1>4, <2>1 DEF KeptInv
  <1>11. ReportInv'
    BY <1>2, <1>3 DEF ReportInv
  <1>12. QED
    BY <1>3, <1>7, <1>8, <1>9, <1>10, <1>11 DEF IndInv

\* The body of an iteration that writes nothing.
LEMMA IterateInv ==
    ASSUME IndInv, NEW t \in Threads, Iterate(t) PROVE IndInv'
  <1>1. PICK i : i = Head(mine[t])
    OBVIOUS
  <1>2. Done(t) /\ (i \in program.counts => program.output # "critical")
        /\ UNCHANGED <<inputs, writing, ofs, palin_cnt>>
        /\ (i \notin program.counts => UNCHANGED local)
    BY <1>1 DEF Iterate, Done, Add, Drop
  <1>3. /\ palin_cnt = -1 /\ \A u \in Threads : u # t => mine'[u] = mine[u]
        /\ Team \subseteq Threads
    BY <1>1, <1>2, DoneFacts
  <1>4. program' = program /\ Team' = Team
    BY <1>2, Fixed DEF inputs
  <1>5. OutputInv'
    <2>1. CASE i \in program.counts
      <3>1. writing = -1 /\ program.output # "critical" /\ ofs = <<>>
        BY <1>2, <1>3, <2>1 DEF IndInv, OutputInv
      <3>2. QED
        BY <1>2, <1>3, <1>4, <3>1 DEF IndInv, OutputInv
    <2>2. CASE i \notin program.counts
      <3>1. writing # -1 => writing # t /\ writing \in Threads
        BY <1>1, <1>3, <2>2 DEF IndInv, OutputInv, TypeOK
      <3>2. QED
        BY <1>2, <1>3, <2>2, <3>1, OutputKept DEF IndInv
    <2>3. QED
      BY <2>1, <2>2
  <1>6. writing' \in Team \cup {-1}
    BY <1>2 DEF IndInv, TypeOK
  <1>7. QED
    BY <1>2, <1>5, <1>6, DoneInv

\* A half of a line more.
LEMMA LineGrows ==
    ASSUME NEW S, NEW s \in Seq(S), NEW x \in S
    PROVE  /\ Append(s, x) \in Seq(S) /\ Len(Append(s, x)) = Len(s) + 1
           /\ ToSet(Append(s, x)) = ToSet(s) \cup {x}
           /\ Append(s, x)[Len(s) + 1] = x /\ Append(s, x) # <<>>
           /\ \A k \in DOMAIN s : Append(s, x)[k] = s[k]
           /\ DOMAIN Append(s, x) = DOMAIN s \cup {Len(s) + 1}
  <1>1. /\ Append(s, x) \in Seq(S) /\ Len(Append(s, x)) = Len(s) + 1
        /\ Append(s, x)[Len(s) + 1] = x /\ Append(s, x) # <<>>
        /\ \A k \in DOMAIN s : Append(s, x)[k] = s[k]
        /\ DOMAIN Append(s, x) = DOMAIN s \cup {Len(s) + 1}
    OBVIOUS
  <1>2. QED
    BY <1>1 DEF ToSet

\* The first half of a line: one more than two for each that counted.
LEMMA CriticalInv ==
    ASSUME IndInv, NEW t \in Threads, Critical(t) PROVE IndInv'
  <1>1. PICK i : i = Head(mine[t])
    OBVIOUS
  <1>2. /\ mine[t] # <<>> /\ i \in program.counts /\ program.output = "critical"
        /\ writing = -1 /\ writing' = t /\ ofs' = Append(ofs, <<i, 1>>)
        /\ UNCHANGED <<inputs, loop, mine, given, next, local, palin_cnt>>
    BY <1>1 DEF Critical
  <1>3. t \in Team /\ palin_cnt = -1
    BY <1>2, Busy
  <1>4. i \in Tasks
    <2>1. mine[t] \in Seq(Tasks)
      BY DEF IndInv, TypeOK
    <2>2. QED
      BY <1>1, <1>2, <2>1
  <1>5. /\ Loops' = Loops /\ Past' = Past /\ Team' = Team /\ tnum' = tnum
        /\ program' = program /\ RegionOK' /\ palin_cnt' = palin_cnt
        /\ \A u, k : Share(u, Loops[k])' = Share(u, Loops[k])
    BY <1>2, Fixed DEF IndInv, inputs
  <1>6. (\A u : Added(u)' = Added(u) /\ Has(u)' = Has(u)) /\ Counted' = Counted
    <2>1. \A u : Added(u)' = Added(u)
      BY <1>2 DEF Added
    <2>2. QED
      BY <1>2, <1>5, <2>1 DEF Has, Counted
  <1>7. \A u, k : Handed(u, k)' = Handed(u, k)
    BY <1>2, <1>5 DEF Handed, SharedOut
  <1>8. TypeOK'
    BY <1>2, <1>3, <1>5 DEF IndInv, TypeOK
  <1>9. PlaceInv'
    BY <1>2, <1>5, <1>6 DEF IndInv, PlaceInv, SharedOut
  <1>10. OnceInv'
    <2>1. \A u \in Team : ToSet(mine[u])' = ToSet(mine[u])
      BY <1>2
    <2>2. QED
      BY <1>5, <1>6, <1>7, <2>1 DEF IndInv, OnceInv
  <1>11. KeptInv'
    BY <1>5, <1>6, <1>7 DEF IndInv, KeptInv
  <1>12. OutputInv'
    <2>1. /\ ofs \in Seq(Tasks \X {1, 2}) /\ <<i, 1>> \in Tasks \X {1, 2}
          /\ Len(ofs) = 2 * Cardinality(Counted)
          /\ ToSet(ofs) = Counted \X {1, 2}
          /\ \A k \in DOMAIN ofs : k % 2 = 0 => ofs[k] = <<ofs[k - 1][1], 2>>
      <3>1. <<i, 1>> \in Tasks \X {1, 2}
        BY <1>4
      <3>2. OutputInv
        BY DEF IndInv
      <3>3. Cardinality(Counted) \in Nat
        <4>1. Counted \subseteq Tasks /\ IsFiniteSet(Tasks)
          BY TeamFacts DEF Counted, Added, IndInv
        <4>2. QED
          BY <4>1, FS_Subset, FS_CardinalityType
      <3>4. Len(ofs) = 2 * Cardinality(Counted) /\ ToSet(ofs) = Counted \X {1, 2}
        BY <1>2, <3>2, <3>3 DEF OutputInv
      <3>5. QED
        BY <3>1, <3>2, <3>4 DEF OutputInv
    <2>2. /\ ofs' \in Seq(Tasks \X {1, 2}) /\ Len(ofs') = Len(ofs) + 1
          /\ ToSet(ofs') = ToSet(ofs) \cup {<<i, 1>>}
          /\ ofs'[Len(ofs) + 1] = <<i, 1>> /\ ofs' # <<>>
          /\ \A k \in DOMAIN ofs : ofs'[k] = ofs[k]
          /\ DOMAIN ofs' = DOMAIN ofs \cup {Len(ofs) + 1}
      <3>1. <<i, 1>> \in Tasks \X {1, 2} /\ ofs \in Seq(Tasks \X {1, 2})
        BY <2>1
      <3>2. ofs' = Append(ofs, <<i, 1>>)
        BY <1>2
      <3>3. PICK S, x : S = Tasks \X {1, 2} /\ x = <<i, 1>>
        OBVIOUS
      <3>4. x \in S /\ ofs \in Seq(S) /\ ofs' = Append(ofs, x)
        BY <3>1, <3>2, <3>3
      <3>5. /\ ofs' \in Seq(S) /\ Len(ofs') = Len(ofs) + 1
            /\ ToSet(ofs') = ToSet(ofs) \cup {x} /\ ofs'[Len(ofs) + 1] = x
            /\ ofs' # <<>> /\ \A k \in DOMAIN ofs : ofs'[k] = ofs[k]
            /\ DOMAIN ofs' = DOMAIN ofs \cup {Len(ofs) + 1}
        BY <3>4, LineGrows
      <3>6. QED
        BY <3>3, <3>5
    <2>3. Cardinality(Counted) \in Nat
      <3>1. Counted \subseteq Tasks /\ IsFiniteSet(Tasks)
        BY TeamFacts DEF Counted, Added, IndInv
      <3>2. QED
        BY <3>1, FS_Subset, FS_CardinalityType
    <2>4. ASSUME NEW k \in DOMAIN ofs', k % 2 = 0
          PROVE  ofs'[k] = <<ofs'[k - 1][1], 2>>
      <3>1. k # Len(ofs) + 1
        <4>1. (2 * Cardinality(Counted) + 1) % 2 = 1
          BY <2>3
        <4>2. QED
          BY <2>1, <2>4, <4>1
      <3>2. k \in DOMAIN ofs /\ k - 1 \in DOMAIN ofs
        <4>1. k \in DOMAIN ofs /\ DOMAIN ofs = 1 .. Len(ofs)
          BY <2>1, <2>2, <3>1
        <4>2. k # 1
          BY <2>4
        <4>3. QED
          BY <4>1, <4>2
      <3>3. QED
        BY <2>1, <2>2, <2>4, <3>2
    <2>5. writing' # -1 /\ mine'[writing'] = mine[t] /\ Head(mine'[writing']) = i
      <3>1. t # -1
        BY TeamFacts DEF IndInv
      <3>2. QED
        BY <1>1, <1>2, <3>1
    <2>6. QED
      BY <1>2, <1>3, <1>5, <1>6, <2>1, <2>2, <2>4, <2>5 DEF OutputInv
  <1>13. ReportInv'
    BY <1>3, <1>5 DEF ReportInv
  <1>14. QED
    BY <1>5, <1>8, <1>9, <1>10, <1>11, <1>12, <1>13 DEF IndInv

\* The second half, right after the first: nobody wrote in between.
LEMMA EndCriticalInv ==
    ASSUME IndInv, NEW t \in Threads, EndCritical(t) PROVE IndInv'
  <1>1. PICK i : i = Head(mine[t])
    OBVIOUS
  <1>2. /\ writing = t /\ writing' = -1 /\ ofs' = Append(ofs, <<i, 2>>)
        /\ UNCHANGED <<inputs, palin_cnt>>
    BY <1>1 DEF EndCritical
  <1>3. writing # -1
    BY <1>2, TeamFacts DEF IndInv
  <1>4. /\ i \in program.counts /\ program.output = "critical" /\ mine[t] # <<>>
        /\ ofs # <<>> /\ ofs[Len(ofs)] = <<i, 1>>
        /\ ofs \in Seq(Tasks \X {1, 2})
        /\ Len(ofs) = 2 * Cardinality(Counted) + 1
        /\ ToSet(ofs) = (Counted \X {1, 2}) \cup {<<i, 1>>}
        /\ \A k \in DOMAIN ofs : k % 2 = 0 => ofs[k] = <<ofs[k - 1][1], 2>>
    BY <1>1, <1>2, <1>3 DEF IndInv, OutputInv
  <1>5. Done(t)
    BY <1>1, <1>4 DEF EndCritical, Done, Add, Drop
  <1>6. /\ palin_cnt = -1 /\ i \in Tasks /\ i \notin Counted
        /\ Counted' = Counted \cup {i}
    BY <1>1, <1>4, <1>5, DoneFacts
  <1>7. program' = program /\ palin_cnt' = -1
    BY <1>2, <1>6 DEF inputs
  <1>8. OutputInv'
    <2>1. /\ ofs' \in Seq(Tasks \X {1, 2}) /\ Len(ofs') = Len(ofs) + 1
          /\ ToSet(ofs') = ToSet(ofs) \cup {<<i, 2>>}
          /\ ofs'[Len(ofs) + 1] = <<i, 2>> /\ ofs' # <<>>
          /\ \A k \in DOMAIN ofs : ofs'[k] = ofs[k]
          /\ DOMAIN ofs' = DOMAIN ofs \cup {Len(ofs) + 1}
      <3>1. <<i, 2>> \in Tasks \X {1, 2} /\ ofs \in Seq(Tasks \X {1, 2})
        BY <1>4, <1>6
      <3>2. QED
        BY <1>2, <3>1, LineGrows
    <2>2. Cardinality(Counted) \in Nat /\ Cardinality(Counted') = Cardinality(Counted) + 1
      <3>1. Counted \subseteq Tasks /\ IsFiniteSet(Tasks)
        BY TeamFacts DEF Counted, Added, IndInv
      <3>2. IsFiniteSet(Counted)
        BY <3>1, FS_Subset
      <3>3. QED
        BY <1>6, <3>2, FS_AddElement, FS_CardinalityType
    <2>3. ASSUME NEW k \in DOMAIN ofs', k % 2 = 0
          PROVE  ofs'[k] = <<ofs'[k - 1][1], 2>>
      <3>1. DOMAIN ofs = 1 .. Len(ofs) /\ Len(ofs) \in Nat \ {0}
        BY <1>4
      <3>2. CASE k = Len(ofs) + 1
        <4>1. k - 1 = Len(ofs) /\ k - 1 \in DOMAIN ofs
          BY <3>1, <3>2
        <4>2. ofs'[k - 1] = <<i, 1>>
          BY <1>4, <2>1, <4>1
        <4>3. QED
          BY <2>1, <3>2, <4>2
      <3>3. CASE k # Len(ofs) + 1
        <4>1. k \in DOMAIN ofs
          BY <2>1, <3>3
        <4>2. k # 1
          BY <2>3
        <4>3. k - 1 \in DOMAIN ofs
          BY <3>1, <4>1, <4>2
        <4>4. QED
          BY <1>4, <2>1, <2>3, <4>1, <4>3
      <3>4. QED
        BY <3>2, <3>3
    <2>4. ToSet(ofs') = Counted' \X {1, 2}
      BY <1>4, <1>6, <2>1
    <2>5. Len(ofs') = 2 * Cardinality(Counted') + (IF writing' = -1 THEN 0 ELSE 1)
      BY <1>2, <1>4, <2>1, <2>2
    <2>6. QED
      BY <1>2, <1>4, <1>7, <2>1, <2>3, <2>4, <2>5 DEF OutputInv
  <1>9. QED
    BY <1>2, <1>5, <1>8, DoneInv

\* The next loop: what a thread was handed stays handed.
LEMMA EndLoopInv ==
    ASSUME IndInv, NEW t \in Threads, EndLoop(t) PROVE IndInv'
  <1>a. t \in Team /\ loop[t] \in DOMAIN Loops /\ palin_cnt = -1
    BY Busy DEF EndLoop
  <1>b. PICK k \in DOMAIN Loops : k = loop[t]
    BY <1>a
  <1>1. /\ mine[t] = <<>>
        /\ IF SharedOut(Loops[k]) THEN next >= Loops[k].hi ELSE given[t]
        /\ loop' = [loop EXCEPT ![t] = k + 1] /\ given' = [given EXCEPT ![t] = FALSE]
        /\ UNCHANGED <<inputs, mine, next, local, writing, ofs, palin_cnt>>
    BY <1>b DEF EndLoop
  <1>2. /\ Loops' = Loops /\ Past' = Past /\ Team' = Team /\ tnum' = tnum
        /\ program' = program /\ RegionOK' /\ palin_cnt' = palin_cnt
        /\ mine' = mine /\ next' = next
        /\ \A u, j : Share(u, Loops[j])' = Share(u, Loops[j])
    BY <1>1, Fixed DEF IndInv, inputs
  <1>3. Team \subseteq Threads
    BY TeamFacts DEF IndInv
  <1>4. /\ k \in Nat \ {0} /\ k + 1 \in 1 .. Past /\ k + 1 > k
        /\ \A j \in DOMAIN Loops : j \in Nat /\ (k + 1 > j <=> k >= j)
        /\ (SharedOut(Loops[k]) => next = Loops[k].hi)
    <2>1. k \in Nat \ {0} /\ k + 1 \in 1 .. Past /\ \A j \in DOMAIN Loops : j \in Nat
      BY LoopFacts DEF IndInv
    <2>2. SharedOut(Loops[k]) => next \in Loops[k].lo .. Loops[k].hi
      BY <1>a DEF IndInv, PlaceInv
    <2>3. Loops[k].hi \in Nat
      BY LoopFacts DEF IndInv, LoopOK
    <2>4. QED
      BY <1>1, <2>1, <2>2, <2>3
  <1>5. /\ loop'[t] = k + 1 /\ given'[t] = FALSE
        /\ \A u \in Threads : u # t => loop'[u] = loop[u] /\ given'[u] = given[u]
    BY <1>1 DEF IndInv, TypeOK
  <1>6. (\A u : Added(u)' = Added(u) /\ Has(u)' = Has(u)) /\ Counted' = Counted
    <2>1. \A u : Added(u)' = Added(u)
      BY <1>1 DEF Added
    <2>2. QED
      BY <1>2, <2>1 DEF Has, Counted
  <1>7. ASSUME NEW u \in Team, NEW j \in DOMAIN Loops PROVE Handed(u, j)' = Handed(u, j)
    <2>1. SharedOut(Loops[j])' = SharedOut(Loops[j])
      BY <1>2 DEF SharedOut
    <2>2. CASE SharedOut(Loops[j])
      BY <1>2, <2>1, <2>2 DEF Handed
    <2>3. CASE ~SharedOut(Loops[j]) /\ u # t
      BY <1>2, <1>3, <1>5, <2>1, <2>3 DEF Handed
    <2>4. CASE ~SharedOut(Loops[j]) /\ u = t
      <3>1. (loop'[t] > j \/ (loop'[t] = j /\ given'[t]))
                <=> (loop[t] > j \/ (loop[t] = j /\ given[t]))
        <4>1. loop'[t] > j <=> k >= j
          BY <1>4, <1>5
        <4>2. k >= j <=> (k > j \/ k = j)
          BY <1>4
        <4>3. k = j => given[t]
          BY <1>1, <2>4
        <4>4. QED
          BY <1>b, <1>5, <4>1, <4>2, <4>3
      <3>2. QED
        BY <1>2, <2>1, <2>4, <3>1 DEF Handed
    <2>5. QED
      BY <2>2, <2>3, <2>4
  <1>8. TypeOK'
    <2>1. loop' \in [Threads -> 1..Past] /\ given' \in [Threads -> BOOLEAN]
      BY <1>1, <1>4 DEF IndInv, TypeOK
    <2>2. QED
      BY <1>1, <1>2, <2>1 DEF IndInv, TypeOK
  <1>9. PlaceInv'
    <2>1. \A u \in Team : mine[u] # <<>> => loop'[u] # Past
      BY <1>1, <1>3, <1>5 DEF IndInv, PlaceInv
    <2>2. ASSUME NEW u \in Team, NEW j \in DOMAIN Loops
          PROVE  /\ loop'[u] = j /\ ~given'[u] /\ ~SharedOut(Loops[j]) => mine[u] = <<>>
                 /\ SharedOut(Loops[j]) =>
                        /\ next \in Loops[j].lo .. Loops[j].hi
                        /\ loop'[u] > j => next = Loops[j].hi
      <3>1. CASE u # t
        BY <1>3, <1>5, <3>1 DEF IndInv, PlaceInv
      <3>2. CASE u = t
        <4>1. SharedOut(Loops[j]) =>
                  /\ next \in Loops[j].lo .. Loops[j].hi
                  /\ k > j => next = Loops[j].hi
          BY <1>a, <1>b DEF IndInv, PlaceInv
        <4>2. loop'[t] > j => k > j \/ k = j
          BY <1>4, <1>5
        <4>3. QED
          BY <1>1, <1>4, <3>2, <4>1, <4>2
      <3>3. QED
        BY <3>1, <3>2
    <2>3. QED
      BY <1>2, <1>6, <2>1, <2>2 DEF IndInv, PlaceInv, SharedOut
  <1>10. OnceInv'
    <2>1. \A u \in Team : UNION {Handed(u, j)' : j \in DOMAIN Loops}
                          = UNION {Handed(u, j) : j \in DOMAIN Loops}
      BY <1>7
    <2>2. QED
      BY <1>2, <1>6, <2>1 DEF IndInv, OnceInv
  <1>11. KeptInv'
    BY <1>2, <1>6, <1>7 DEF IndInv, KeptInv
  <1>12. OutputInv'
    BY <1>1, OutputKept DEF IndInv
  <1>13. ReportInv'
    BY <1>a, <1>2 DEF ReportInv
  <1>14. QED
    BY <1>2, <1>8, <1>9, <1>10, <1>11, <1>12, <1>13 DEF IndInv
-----------------------------------------------------------------------------
(***************************************************************************)
(* The lines vec_parallel_optimized writes: rows in rising order, laid end *)
(* to end.                                                                 *)
(***************************************************************************)
\* A finite set of numbers has a row in rising order.
LEMMA RowExists ==
    ASSUME NEW S \in SUBSET Nat, IsFiniteSet(S)
    PROVE  \E row \in [1..Cardinality(S) -> S] : Ascending(row)
  <1> DEFINE P == {n \in Nat : \A T \in SUBSET Nat : IsFiniteSet(T) /\ Cardinality(T) = n =>
                                   \E row \in [1..n -> T] : Ascending(row)}
  <1>1. 0 \in P
    <2>1. ASSUME NEW T \in SUBSET Nat, IsFiniteSet(T), Cardinality(T) = 0
          PROVE  \E row \in [1..0 -> T] : Ascending(row)
      <3> DEFINE row == [k \in 1..0 |-> 0]
      <3>1. row \in [1..0 -> T] /\ DOMAIN row = {}
        OBVIOUS
      <3>2. Ascending(row)
        BY <3>1 DEF Ascending
      <3>3. QED
        BY <3>1, <3>2
    <2>2. QED
      BY <2>1
  <1>2. ASSUME NEW n \in P PROVE n + 1 \in P
    <2>1. ASSUME NEW T \in SUBSET Nat, IsFiniteSet(T), Cardinality(T) = n + 1
          PROVE  \E row \in [1..n + 1 -> T] : Ascending(row)
      <3>1. n \in Nat /\ T # {}
        BY <2>1, FS_EmptySet
      <3>2. PICK m \in T : \A k \in T : m <= k
        BY <3>1, Least
      <3>3. IsFiniteSet(T \ {m}) /\ Cardinality(T \ {m}) = n /\ T \ {m} \in SUBSET Nat
        <4>1. IsFiniteSet(T) /\ Cardinality(T) = n + 1 /\ n \in Nat
          BY <2>1, <3>1
        <4>2. IsFiniteSet(T \ {m}) /\ Cardinality(T \ {m}) = Cardinality(T) - 1
          BY <4>1, FS_RemoveElement
        <4>3. QED
          BY <4>1, <4>2
      <3>4. PICK r \in [1..n -> T \ {m}] : Ascending(r)
        BY <3>3
      <3> DEFINE row == [k \in 1..n + 1 |-> IF k = 1 THEN m ELSE r[k - 1]]
      <3>5. ASSUME NEW k \in 1..n + 1, k # 1 PROVE k - 1 \in 1..n /\ r[k - 1] \in T \ {m}
        BY <3>1, <3>5
      <3>6. row \in [1..n + 1 -> T]
        BY <3>5
      <3>7. ASSUME NEW j \in 1..n + 1, NEW k \in 1..n + 1, j < k PROVE row[j] < row[k]
        <4>1. k # 1 /\ k - 1 \in 1..n /\ r[k - 1] \in T \ {m} /\ row[k] = r[k - 1]
          BY <3>1, <3>5, <3>7
        <4>2. CASE j = 1
          <5>1. row[j] = m
            BY <4>2
          <5>2. m <= r[k - 1] /\ m # r[k - 1] /\ m \in Nat /\ r[k - 1] \in Nat
            BY <3>2, <4>1
          <5>3. QED
            BY <4>1, <5>1, <5>2
        <4>3. CASE j # 1
          <5>1. j - 1 \in 1..n /\ row[j] = r[j - 1] /\ j - 1 < k - 1
            BY <3>1, <3>5, <3>7, <4>3
          <5>2. r[j - 1] < r[k - 1]
            BY <3>4, <4>1, <5>1 DEF Ascending
          <5>3. QED
            BY <4>1, <5>1, <5>2
        <4>4. QED
          BY <4>2, <4>3
      <3>8. DOMAIN row = 1..n + 1
        OBVIOUS
      <3> HIDE DEF row
      <3>9. QED
        BY <3>6, <3>7, <3>8 DEF Ascending
    <2>2. QED
      BY <2>1
  <1>3. Cardinality(S) \in P
    <2>1. \A n \in Nat : n \in P => n + 1 \in P
      BY <1>2
    <2>2. Cardinality(S) \in Nat
      BY FS_CardinalityType
    <2> HIDE DEF P
    <2>3. QED
      BY <1>1, <2>1, <2>2, Induction
  <1>4. QED
    BY <1>3

\* The row of results[tid]: every value of the set, once.
LEMMA RisingFacts ==
    ASSUME NEW S \in SUBSET Nat, IsFiniteSet(S)
    PROVE  /\ Rising(S) \in [1..Cardinality(S) -> S] /\ Cardinality(S) \in Nat
           /\ \A j, k \in 1..Cardinality(S) : j # k => Rising(S)[j] # Rising(S)[k]
           /\ \A i \in S : \E k \in 1..Cardinality(S) : Rising(S)[k] = i
  <1> DEFINE c == Cardinality(S)
             row == Rising(S)
  <1>1. c \in Nat
    BY FS_CardinalityType
  <1>2. row \in [1..c -> S] /\ Ascending(row)
    BY RowExists DEF Rising, Ascending
  <1> HIDE DEF row
  <1>3. ASSUME NEW j \in 1..c, NEW k \in 1..c, j # k PROVE row[j] # row[k]
    <2>1. row[j] \in Nat /\ row[k] \in Nat
      BY <1>2
    <2>2. j < k \/ k < j
      BY <1>1, <1>3
    <2>3. row[j] < row[k] \/ row[k] < row[j]
      BY <1>2, <2>2 DEF Ascending
    <2>4. QED
      BY <2>1, <2>3
  <1>4. row \in Injection(1..c, S)
    BY <1>2, <1>3, Fun_IsInj
  <1>5. Cardinality(1..c) = c
    BY <1>1, FS_Interval
  <1>6. row \in Surjection(1..c, S)
    BY <1>4, <1>5, FS_Injection
  <1>7. \A i \in S : \E k \in 1..c : row[k] = i
    BY <1>6 DEF Surjection
  <1>8. QED
    BY <1>1, <1>2, <1>3, <1>7 DEF row

\* The two halves of a line for each of a set of iterations, one line after
\* the other.
Whole(s, S) ==
    /\ s \in Seq(Tasks \X {1, 2})
    /\ Len(s) = 2 * Cardinality(S) /\ ToSet(s) = S \X {1, 2}
    /\ \A k \in DOMAIN s : k % 2 = 0 => s[k] = <<s[k - 1][1], 2>>

\* No iterations, no lines; and the two halves for one.
LEMMA NoLines ==
    ASSUME NEW s, s = <<>> PROVE Whole(s, {})
  <1>1. s \in Seq(Tasks \X {1, 2}) /\ Len(s) = 0 /\ DOMAIN s = {} /\ ToSet(s) = {}
    BY DEF ToSet
  <1>2. QED
    BY <1>1, FS_EmptySet DEF Whole

LEMMA OneLine ==
    ASSUME NEW i \in Tasks PROVE Whole(<<<<i, 1>>, <<i, 2>>>>, {i})
  <1> DEFINE s == <<<<i, 1>>, <<i, 2>>>>
  <1>1. s \in Seq(Tasks \X {1, 2}) /\ Len(s) = 2 /\ DOMAIN s = {1, 2}
    OBVIOUS
  <1>2. s[1] = <<i, 1>> /\ s[2] = <<i, 2>>
    OBVIOUS
  <1> HIDE DEF s
  <1>3. ToSet(s) = {i} \X {1, 2}
    BY <1>1, <1>2 DEF ToSet
  <1>4. \A k \in DOMAIN s : k % 2 = 0 => s[k] = <<s[k - 1][1], 2>>
    BY <1>1, <1>2
  <1>5. Cardinality({i}) = 1
    BY FS_Singleton
  <1>6. Whole(s, {i})
    BY <1>1, <1>3, <1>4, <1>5 DEF Whole
  <1>7. QED
    BY <1>6 DEF s

\* Whole lines of different iterations stay whole one behind the other.
LEMMA WholeJoined ==
    ASSUME NEW s, NEW S \in SUBSET Tasks, Whole(s, S),
           NEW r, NEW R \in SUBSET Tasks, Whole(r, R),
           S \cap R = {}, IsFiniteSet(Tasks)
    PROVE  Whole(s \o r, S \cup R)
  <1> DEFINE X == Tasks \X {1, 2}
  <1>1. /\ s \in Seq(X) /\ Len(s) = 2 * Cardinality(S) /\ ToSet(s) = S \X {1, 2}
        /\ \A k \in DOMAIN s : k % 2 = 0 => s[k] = <<s[k - 1][1], 2>>
        /\ r \in Seq(X) /\ Len(r) = 2 * Cardinality(R) /\ ToSet(r) = R \X {1, 2}
        /\ \A k \in DOMAIN r : k % 2 = 0 => r[k] = <<r[k - 1][1], 2>>
    BY DEF Whole
  <1> HIDE DEF X
  <1>2. /\ IsFiniteSet(S) /\ IsFiniteSet(R)
        /\ Cardinality(S) \in Nat /\ Cardinality(R) \in Nat
    BY FS_Subset, FS_CardinalityType
  <1>3. Cardinality(S \cup R) = Cardinality(S) + Cardinality(R)
    <2>1. Cardinality(S \cup R) = Cardinality(S) + Cardinality(R) - Cardinality(S \cap R)
      BY <1>2, FS_Union
    <2>2. Cardinality(S \cap R) = 0
      BY FS_EmptySet
    <2>3. QED
      BY <1>2, <2>1, <2>2
  <1>4. /\ s \o r \in Seq(X) /\ Len(s \o r) = Len(s) + Len(r)
        /\ DOMAIN s = 1 .. Len(s) /\ DOMAIN r = 1 .. Len(r)
        /\ DOMAIN (s \o r) = 1 .. Len(s) + Len(r)
        /\ Len(s) \in Nat /\ Len(r) \in Nat
    <2>1. s \in Seq(X) /\ r \in Seq(X)
      BY <1>1
    <2>2. s \o r \in Seq(X) /\ Len(s \o r) = Len(s) + Len(r)
      BY <2>1
    <2>3. /\ DOMAIN s = 1 .. Len(s) /\ DOMAIN r = 1 .. Len(r)
          /\ Len(s) \in Nat /\ Len(r) \in Nat
      BY <2>1
    <2>4. DOMAIN (s \o r) = 1 .. Len(s \o r)
      BY <2>2
    <2>5. QED
      BY <2>2, <2>3, <2>4
  <1>5. /\ \A k \in DOMAIN s : k \in DOMAIN (s \o r) /\ (s \o r)[k] = s[k]
        /\ \A k \in DOMAIN r : /\ k + Len(s) \in DOMAIN (s \o r)
                               /\ (s \o r)[k + Len(s)] = r[k]
    BY <1>1, <1>4
  <1>6. \A k \in DOMAIN (s \o r) :
            k \in DOMAIN s \/ (k - Len(s) \in DOMAIN r /\ k = (k - Len(s)) + Len(s))
    BY <1>4
  <1>7. ToSet(s \o r) = ToSet(s) \cup ToSet(r)
    <2>1. ASSUME NEW x \in ToSet(s \o r) PROVE x \in ToSet(s) \cup ToSet(r)
      <3>1. PICK k \in DOMAIN (s \o r) : x = (s \o r)[k]
        BY DEF ToSet
      <3>2. QED
        BY <1>5, <1>6, <3>1 DEF ToSet
    <2>2. ASSUME NEW x \in ToSet(s) \cup ToSet(r) PROVE x \in ToSet(s \o r)
      BY <1>5 DEF ToSet
    <2>3. QED
      BY <2>1, <2>2
  <1>8. ASSUME NEW k \in DOMAIN (s \o r), k % 2 = 0
        PROVE  (s \o r)[k] = <<(s \o r)[k - 1][1], 2>>
    <2>1. CASE k \in DOMAIN s
      <3>1. k # 1
        BY <1>8
      <3>2. k - 1 \in DOMAIN s
        BY <1>4, <2>1, <3>1
      <3>3. QED
        BY <1>1, <1>5, <1>8, <2>1, <3>2
    <2>2. CASE k - Len(s) \in DOMAIN r /\ k = (k - Len(s)) + Len(s)
      <3>1. PICK j \in DOMAIN r : j = k - Len(s)
        BY <2>2
      <3>2. k = j + Len(s) /\ j \in Nat \ {0}
        BY <1>4, <2>2, <3>1
      <3>3. j % 2 = 0
        BY <1>1, <1>2, <1>8, <3>2
      <3>4. j # 1
        BY <3>3
      <3>5. j - 1 \in DOMAIN r /\ k - 1 = (j - 1) + Len(s)
        BY <1>4, <3>2, <3>4
      <3>6. (s \o r)[k] = r[j] /\ (s \o r)[k - 1] = r[j - 1]
        BY <1>5, <3>2, <3>5
      <3>7. QED
        BY <1>1, <3>3, <3>6
    <2>3. QED
      BY <1>6, <2>1, <2>2
  <1>9. ToSet(s \o r) = (S \cup R) \X {1, 2}
    BY <1>1, <1>7
  <1>10. Len(s \o r) = 2 * Cardinality(S \cup R)
    BY <1>1, <1>2, <1>3, <1>4
  <1>11. s \o r \in Seq(Tasks \X {1, 2})
    BY <1>4 DEF X
  <1>12. QED
    BY <1>8, <1>9, <1>10, <1>11 DEF Whole

\* FlattenSeq step by step.
Flats(seqs, n, g) ==
    g = [i \in 1..n |-> IF i = 1 THEN seqs[i] ELSE g[i - 1] \o seqs[i]]

\* The recursion of FlattenSeq has a value, whatever the rows.
LEMMA FlatsExists ==
    ASSUME NEW seqs, NEW n \in Nat PROVE \E g : Flats(seqs, n, g)
  <1> DEFINE P == {m \in Nat : \E g : Flats(seqs, m, g)}
  <1>1. 0 \in P
    <2> DEFINE g == [i \in 1..0 |-> 0]
    <2>1. Flats(seqs, 0, g)
      BY DEF Flats
    <2>2. QED
      BY <2>1
  <1>2. ASSUME NEW m \in Nat, m \in P PROVE m + 1 \in P
    <2>1. PICK g : Flats(seqs, m, g)
      BY <1>2
    <2> DEFINE x == IF m + 1 = 1 THEN seqs[m + 1] ELSE g[m] \o seqs[m + 1]
               h == [i \in 1..m + 1 |-> IF i = m + 1 THEN x ELSE g[i]]
    <2>2. \A i \in 1..m : g[i] = IF i = 1 THEN seqs[i] ELSE g[i - 1] \o seqs[i]
      BY <2>1 DEF Flats
    <2> HIDE DEF x
    <2>3. ASSUME NEW i \in 1..m + 1
          PROVE  h[i] = IF i = 1 THEN seqs[i] ELSE h[i - 1] \o seqs[i]
      <3>1. CASE i = m + 1
        <4>1. h[i] = x
          BY <3>1
        <4>2. i # 1 => i - 1 = m /\ i - 1 \in 1..m + 1 /\ i - 1 # m + 1
          BY <3>1
        <4>3. i # 1 => h[i - 1] = g[m]
          BY <4>2
        <4>4. x = IF i = 1 THEN seqs[i] ELSE g[m] \o seqs[i]
          BY <3>1 DEF x
        <4> HIDE DEF h
        <4>5. QED
          BY <4>1, <4>3, <4>4, Zenon
      <3>2. CASE i # m + 1
        <4>1. i \in 1..m /\ h[i] = g[i]
          BY <3>2
        <4>2. i # 1 => i - 1 \in 1..m + 1 /\ i - 1 # m + 1
          BY <4>1
        <4>3. i # 1 => h[i - 1] = g[i - 1]
          BY <4>2
        <4> HIDE DEF h
        <4>4. QED
          BY <2>2, <4>1, <4>3, Zenon
      <3>3. QED
        BY <3>1, <3>2
    <2>4. h = [i \in 1..m + 1 |-> h[i]]
      OBVIOUS
    <2> HIDE DEF h
    <2>5. h = [i \in 1..m + 1 |-> IF i = 1 THEN seqs[i] ELSE h[i - 1] \o seqs[i]]
      BY <2>3, <2>4
    <2>6. Flats(seqs, m + 1, h)
      BY <2>5 DEF Flats
    <2>7. QED
      BY <2>6
  <1> HIDE DEF P
  <1>3. n \in P
    BY <1>1, <1>2, Induction
  <1>4. QED
    BY <1>3 DEF P

\* Rows of whole lines for iterations of their own are whole lines, laid end
\* to end.
LEMMA FlattenWhole ==
    ASSUME NEW n \in Nat, NEW seqs, seqs = [k \in 1..n |-> seqs[k]],
           NEW D \in [1..n -> SUBSET Tasks], IsFiniteSet(Tasks),
           \A k \in 1..n : Whole(seqs[k], D[k]),
           \A j, k \in 1..n : j # k => D[j] \cap D[k] = {}
    PROVE  Whole(FlattenSeq(seqs), UNION {D[k] : k \in 1..n})
  <1>1. Len(seqs) = n /\ seqs \in Seq({seqs[k] : k \in 1..n})
    <2> DEFINE X == {seqs[k] : k \in 1..n}
    <2>1. \A k \in 1..n : seqs[k] \in X
      OBVIOUS
    <2> HIDE DEF X
    <2>2. seqs \in [1..n -> X]
      BY <2>1
    <2>3. seqs \in Seq(X) /\ Len(seqs) = n
      BY <2>2
    <2>4. QED
      BY <2>3 DEF X
  <1>2. CASE n = 0
    <2>1. FlattenSeq(seqs) = seqs /\ seqs = <<>>
      BY <1>1, <1>2 DEF FlattenSeq
    <2>2. UNION {D[k] : k \in 1..n} = {}
      BY <1>2
    <2>3. Whole(FlattenSeq(seqs), {})
      BY <2>1, NoLines
    <2>4. QED
      BY <2>2, <2>3, Zenon
  <1>3. CASE n # 0
    <2> DEFINE g == CHOOSE g : Flats(seqs, n, g)
    <2>1. FlattenSeq(seqs) = g[n]
      BY <1>1, <1>3 DEF FlattenSeq, Flats
    <2>2. Flats(seqs, n, g)
      BY FlatsExists
    <2> HIDE DEF g
    <2>3. \A i \in 1..n : g[i] = IF i = 1 THEN seqs[i] ELSE g[i - 1] \o seqs[i]
      BY <2>2 DEF Flats
    <2> DEFINE U(m) == UNION {D[k] : k \in 1..m}
               P == {m \in Nat : m \in 1..n => Whole(g[m], U(m))}
    <2>4. 0 \in P
      OBVIOUS
    <2>5. ASSUME NEW m \in Nat, m \in P, m + 1 \in 1..n PROVE Whole(g[m + 1], U(m + 1))
      <3>1. CASE m = 0
        <4>1. g[1] = seqs[1] /\ 1 \in 1..n
          BY <2>3, <2>5, <3>1
        <4>2. U(1) = D[1]
          <5>1. 1..1 = {1}
            OBVIOUS
          <5>2. QED
            BY <5>1
        <4> HIDE DEF U
        <4>3. QED
          BY <3>1, <4>1, <4>2
      <3>2. CASE m # 0
        <4>1. m \in 1..n /\ m + 1 # 1 /\ (m + 1) - 1 = m
          BY <2>5, <3>2
        <4>2. g[m + 1] = g[m] \o seqs[m + 1]
          BY <2>3, <2>5, <4>1
        <4>3. Whole(g[m], U(m)) /\ Whole(seqs[m + 1], D[m + 1])
          BY <2>5, <4>1
        <4>4. 1..m + 1 = 1..m \cup {m + 1} /\ 1..m \subseteq 1..n /\ m + 1 \notin 1..m
          BY <2>5, <4>1
        <4>5. U(m + 1) = U(m) \cup D[m + 1]
          BY <4>4
        <4>6. U(m) \in SUBSET Tasks /\ D[m + 1] \in SUBSET Tasks
          BY <2>5, <4>4
        <4>7. U(m) \cap D[m + 1] = {}
          BY <2>5, <4>4
        <4> HIDE DEF U
        <4>8. QED
          BY <4>2, <4>3, <4>5, <4>6, <4>7, WholeJoined
      <3>3. QED
        BY <3>1, <3>2
    <2> HIDE DEF U
    <2>6. ASSUME NEW m \in Nat, m \in P PROVE m + 1 \in P
      <3>1. m + 1 \in Nat /\ (m + 1 \in 1..n => Whole(g[m + 1], U(m + 1)))
        BY <2>5, <2>6
      <3>2. QED
        BY <3>1
    <2> HIDE DEF P
    <2>7. n \in P
      BY <2>4, <2>6, Induction
    <2>8. n \in 1..n
      BY <1>3
    <2>9. QED
      BY <2>1, <2>7, <2>8 DEF P, U
  <1>4. QED
    BY <1>2, <1>3
-----------------------------------------------------------------------------
(***************************************************************************)
(* What main makes of the results.                                         *)
(***************************************************************************)
\* How many iterations went in is a number.
LEMMA CountedFinite ==
    ASSUME IndInv
    PROVE  Counted \in SUBSET Tasks /\ IsFiniteSet(Counted) /\ Cardinality(Counted) \in Nat
  <1>1. Counted \in SUBSET Tasks /\ IsFiniteSet(Tasks)
    BY TeamFacts DEF Counted, Added, IndInv
  <1>2. QED
    BY <1>1, FS_Subset, FS_CardinalityType

\* An iteration that went into a result went into one, once.
LEMMA TotalFacts ==
    ASSUME IndInv, NEW i \in Tasks
    PROVE  Total(i) = IF i \in Counted THEN 1 ELSE 0
  <1> DEFINE f == [t \in Threads |-> local[t][i]]
  <1>1. f \in [Threads -> 0..1] /\ IsFiniteSet(Threads) /\ Team \subseteq Threads
    BY TeamFacts DEF IndInv, TypeOK
  <1>2. Total(i) = Cardinality(Ones(f, Threads))
    <2>1. Total(i) = FoldFunction(+, 0, f)
      BY DEF Total
    <2> HIDE DEF f
    <2>2. QED
      BY <1>1, <2>1, SumOfOnes
  <1>3. \A t \in Threads : t \in Ones(f, Threads) <=> i \in Added(t)
    BY DEF Ones, Added
  <1>4. \A t \in Threads : i \in Added(t) => t \in Team
    BY DEF IndInv, PlaceInv
  <1> HIDE DEF f
  <1>5. CASE i \in Counted
    <2>1. PICK u \in Team : i \in Added(u)
      BY <1>5 DEF Counted
    <2>2. ASSUME NEW t \in Ones(f, Threads) PROVE t = u
      <3>1. t \in Threads
        BY DEF Ones
      <3>2. t \in Team /\ i \in Added(t)
        BY <1>3, <1>4, <3>1
      <3>3. i \in Has(t) /\ i \in Has(u)
        BY <2>1, <3>2 DEF Has
      <3>4. QED
        BY <3>2, <3>3 DEF IndInv, OnceInv
    <2>3. u \in Ones(f, Threads)
      BY <1>1, <1>3, <2>1
    <2>4. Ones(f, Threads) = {u}
      BY <2>2, <2>3
    <2>5. QED
      BY <1>2, <1>5, <2>4, FS_Singleton
  <1>6. CASE i \notin Counted
    <2>1. ASSUME NEW t \in Ones(f, Threads) PROVE FALSE
      <3>1. t \in Threads
        BY DEF Ones
      <3>2. QED
        BY <1>3, <1>4, <1>6, <3>1 DEF Counted
    <2>2. Ones(f, Threads) = {}
      BY <2>1
    <2>3. QED
      BY <1>2, <1>6, <2>2, FS_EmptySet
  <1>7. QED
    BY <1>5, <1>6

\* So the sum of the counts is how many went in.
LEMMA SumFacts ==
    ASSUME IndInv
    PROVE  FoldFunction(+, 0, [i \in Tasks |-> Total(i)]) = Cardinality(Counted)
  <1> DEFINE f == [i \in Tasks |-> Total(i)]
  <1>1. f \in [Tasks -> 0..1] /\ \A i \in Tasks : f[i] = 1 <=> i \in Counted
    BY TotalFacts
  <1>2. IsFiniteSet(Tasks)
    BY TeamFacts DEF IndInv
  <1> HIDE DEF f
  <1>3. Ones(f, Tasks) = Counted
    BY <1>1, CountedFinite DEF Ones
  <1>4. FoldFunction(+, 0, f) = Cardinality(Ones(f, Tasks))
    BY <1>1, <1>2, SumOfOnes
  <1>5. FoldFunction(+, 0, f) = Cardinality(Counted)
    BY <1>3, <1>4, Zenon
  <1>6. QED
    BY <1>5 DEF f

\* The lines of the results of all threads.
LEMMA LinesFacts ==
    ASSUME IndInv PROVE Whole(Lines, Counted)
  <1> DEFINE n == thread_cnt
             D == [k \in 1..n |-> Added(k - 1)]
             row(k) == Rising({i \in Tasks : local[k - 1][i] > 0})
             rows == [k \in 1..n |-> row(k)]
             text(k) == [j \in DOMAIN rows[k] |-> <<<<rows[k][j], 1>>, <<rows[k][j], 2>>>>]
             seqs == [k \in 1..n |-> FlattenSeq(text(k))]
  <1>1. Lines = FlattenSeq(seqs)
    BY DEF Lines
  <1>2. n \in Nat /\ \A k \in 1..n : k - 1 \in Threads
    BY SizesAssumption DEF Threads
  <1>3. IsFiniteSet(Tasks) /\ Team \subseteq Threads
    BY TeamFacts DEF IndInv
  <1>4. \A t \in Threads : Added(t) \in SUBSET Tasks /\ Added(t) \in SUBSET Nat
    BY SizesAssumption DEF Added, Tasks
  <1>5. ASSUME NEW k \in 1..n PROVE Whole(seqs[k], D[k])
    <2> DEFINE A == Added(k - 1)
               c == Cardinality(A)
               r == rows[k]
               x == [j \in 1..c |-> <<<<r[j], 1>>, <<r[j], 2>>>>]
               E == [j \in 1..c |-> {r[j]}]
    <2>1. A \in SUBSET Tasks /\ A \in SUBSET Nat /\ IsFiniteSet(A)
      BY <1>2, <1>3, <1>4, FS_Subset
    <2>2. rows[k] = Rising(A)
      <3>1. \A i \in Tasks : local[k - 1][i] > 0 <=> local[k - 1][i] = 1
        BY <1>2 DEF IndInv, TypeOK
      <3>2. {i \in Tasks : local[k - 1][i] > 0} = A
        BY <3>1 DEF Added
      <3>3. rows[k] = row(k)
        OBVIOUS
      <3> HIDE DEF A, rows
      <3>4. QED
        BY <3>2, <3>3
    <2> HIDE DEF A, rows
    <2>3. /\ r \in [1..c -> A] /\ c \in Nat
          /\ \A i, j \in 1..c : i # j => r[i] # r[j]
          /\ \A i \in A : \E j \in 1..c : r[j] = i
      BY <2>1, <2>2, RisingFacts
    <2>4. seqs[k] = FlattenSeq(x)
      <3>1. seqs[k] = FlattenSeq(text(k))
        OBVIOUS
      <3>2. DOMAIN rows[k] = 1..c
        BY <2>3
      <3>3. text(k) = x
        BY <3>2
      <3> HIDE DEF text, x, seqs
      <3>4. QED
        BY <3>1, <3>3, Zenon
    <2> HIDE DEF r, c
    <2>5. \A j \in 1..c : Whole(x[j], E[j])
      <3>1. ASSUME NEW j \in 1..c PROVE Whole(x[j], E[j])
        <4>1. r[j] \in Tasks
          BY <2>1, <2>3
        <4>2. x[j] = <<<<r[j], 1>>, <<r[j], 2>>>> /\ E[j] = {r[j]}
          OBVIOUS
        <4> HIDE DEF x, E
        <4>3. Whole(<<<<r[j], 1>>, <<r[j], 2>>>>, {r[j]})
          BY <4>1, OneLine
        <4>4. QED
          BY <4>2, <4>3, Zenon
      <3>2. QED
        BY <3>1
    <2>6. E \in [1..c -> SUBSET Tasks]
      BY <2>1, <2>3
    <2>7. \A i, j \in 1..c : i # j => E[i] \cap E[j] = {}
      BY <2>3
    <2>8. UNION {E[j] : j \in 1..c} = A
      <3>1. \A i \in A : \E j \in 1..c : E[j] = {i}
        BY <2>3
      <3>2. \A j \in 1..c : E[j] \subseteq A
        BY <2>3
      <3> HIDE DEF E
      <3>3. QED
        BY <3>1, <3>2
    <2>9. x = [j \in 1..c |-> x[j]]
      OBVIOUS
    <2> HIDE DEF x, E
    <2>10. Whole(FlattenSeq(x), UNION {E[j] : j \in 1..c})
      BY <1>3, <2>3, <2>5, <2>6, <2>7, <2>9, FlattenWhole
    <2>11. D[k] = A
      BY DEF A
    <2> HIDE DEF D, seqs
    <2>12. QED
      BY <2>4, <2>8, <2>10, <2>11, Zenon
  <1>6. D \in [1..n -> SUBSET Tasks]
    BY <1>2, <1>4
  <1>7. ASSUME NEW j \in 1..n, NEW k \in 1..n, j # k PROVE D[j] \cap D[k] = {}
    <2>1. j - 1 # k - 1 /\ j - 1 \in Threads /\ k - 1 \in Threads
      BY <1>2, <1>7
    <2>2. \A t \in Threads : t \notin Team => Added(t) = {}
      BY DEF IndInv, PlaceInv
    <2>3. \A t, u \in Team : t # u => Added(t) \cap Added(u) = {}
      BY DEF IndInv, OnceInv, Has
    <2>4. Added(j - 1) \cap Added(k - 1) = {}
      BY <2>1, <2>2, <2>3
    <2>5. QED
      BY <2>4
  <1>8. UNION {D[k] : k \in 1..n} = Counted
    <2>1. \A k \in 1..n : D[k] = Added(k - 1)
      OBVIOUS
    <2>2. \A t \in Threads : t + 1 \in 1..n /\ (t + 1) - 1 = t
      BY SizesAssumption DEF Threads
    <2>3. \A t \in Threads : t \notin Team => Added(t) = {}
      BY DEF IndInv, PlaceInv
    <2> HIDE DEF D
    <2>4. ASSUME NEW i \in Counted PROVE i \in UNION {D[k] : k \in 1..n}
      <3>1. PICK t \in Team : i \in Added(t)
        BY DEF Counted
      <3>2. t + 1 \in 1..n /\ D[t + 1] = Added(t)
        BY <1>3, <2>1, <2>2
      <3>3. QED
        BY <3>1, <3>2
    <2>5. ASSUME NEW i \in UNION {D[k] : k \in 1..n} PROVE i \in Counted
      <3>1. PICK k \in 1..n : i \in Added(k - 1)
        BY <2>1
      <3>2. k - 1 \in Team
        BY <1>2, <2>3, <3>1
      <3>3. QED
        BY <3>1, <3>2 DEF Counted
    <2>6. QED
      BY <2>4, <2>5
  <1>9. seqs = [k \in 1..n |-> seqs[k]]
    OBVIOUS
  <1> HIDE DEF seqs, D, n
  <1>10. Whole(FlattenSeq(seqs), UNION {D[k] : k \in 1..n})
    BY <1>2, <1>3, <1>5, <1>6, <1>7, <1>9, FlattenWhole
  <1>11. QED
    BY <1>1, <1>8, <1>10, Zenon

\* main adds up and, for vec_parallel_optimized, writes the lines.
LEMMA ReduceInv ==
    ASSUME IndInv, Reduce PROVE IndInv'
  <1>1. /\ Joined /\ palin_cnt = -1 /\ palin_cnt' = Cardinality(Counted)
        /\ ofs' = IF program.output = "afterwards" THEN Lines ELSE ofs
        /\ UNCHANGED <<inputs, loop, mine, given, next, local, writing>>
    BY SumFacts DEF Reduce
  <1>2. /\ Loops' = Loops /\ Past' = Past /\ Team' = Team /\ tnum' = tnum
        /\ program' = program /\ RegionOK'
        /\ \A u, k : Share(u, Loops[k])' = Share(u, Loops[k])
    BY <1>1, Fixed DEF IndInv, inputs
  <1>3. (\A u : Added(u)' = Added(u) /\ Has(u)' = Has(u)) /\ Counted' = Counted
    <2>1. \A u : Added(u)' = Added(u)
      BY <1>1 DEF Added
    <2>2. QED
      BY <1>1, <1>2, <2>1 DEF Has, Counted
  <1>4. \A u, k : Handed(u, k)' = Handed(u, k)
    BY <1>1, <1>2 DEF Handed, SharedOut
  <1>5. Cardinality(Counted) \in Nat /\ Cardinality(Counted)' = Cardinality(Counted)
    BY <1>3, CountedFinite
  <1>6. TypeOK'
    BY <1>1, <1>2, <1>5 DEF IndInv, TypeOK
  <1>7. PlaceInv'
    BY <1>1, <1>2, <1>3 DEF IndInv, PlaceInv, SharedOut
  <1>8. OnceInv'
    <2>1. \A u \in Team : ToSet(mine[u])' = ToSet(mine[u])
      BY <1>1
    <2>2. QED
      BY <1>2, <1>3, <1>4, <2>1 DEF IndInv, OnceInv
  <1>9. KeptInv'
    BY <1>2, <1>3, <1>4 DEF IndInv, KeptInv
  <1>10. palin_cnt' # -1
    BY <1>1, <1>5
  <1>11. OutputInv'
    <2>1. CASE program.output = "afterwards"
      <3>1. Whole(ofs', Counted)
        BY <1>1, <2>1, LinesFacts
      <3>2. writing = -1 /\ writing' = -1
        BY <1>1, <2>1 DEF IndInv, OutputInv
      <3>3. QED
        BY <1>2, <1>3, <1>10, <2>1, <3>1, <3>2 DEF OutputInv, Whole
    <2>2. CASE program.output # "afterwards"
      <3>1. ofs' = ofs /\ writing' = writing /\ mine' = mine
        BY <1>1, <2>2
      <3>2. QED
        BY <1>2, <1>3, <1>10, <2>2, <3>1 DEF IndInv, OutputInv
    <2>3. QED
      BY <2>1, <2>2
  <1>12. ReportInv'
    <2>1. Joined'
      BY <1>1, <1>2 DEF Joined
    <2>2. QED
      BY <1>1, <1>3, <2>1 DEF ReportInv
  <1>13. QED
    BY <1>2, <1>6, <1>7, <1>8, <1>9, <1>11, <1>12 DEF IndInv

\* After the end nothing changes.
LEMMA StutterInv ==
    ASSUME IndInv, UNCHANGED vars PROVE IndInv'
  <1>1. /\ UNCHANGED <<loop, mine, given, next, local, writing, ofs, palin_cnt>>
        /\ UNCHANGED inputs
    BY DEF vars
  <1>2. /\ Loops' = Loops /\ Past' = Past /\ Team' = Team /\ tnum' = tnum
        /\ program' = program /\ RegionOK'
        /\ \A u, k : Share(u, Loops[k])' = Share(u, Loops[k])
    BY <1>1, Fixed DEF IndInv, inputs
  <1>3. (\A u : Added(u)' = Added(u) /\ Has(u)' = Has(u)) /\ Counted' = Counted
    <2>1. \A u : Added(u)' = Added(u)
      BY <1>1 DEF Added
    <2>2. QED
      BY <1>1, <1>2, <2>1 DEF Has, Counted
  <1>4. \A u, k : Handed(u, k)' = Handed(u, k)
    BY <1>1, <1>2 DEF Handed, SharedOut
  <1>5. TypeOK'
    BY <1>1, <1>2 DEF IndInv, TypeOK
  <1>6. PlaceInv'
    BY <1>1, <1>2, <1>3 DEF IndInv, PlaceInv, SharedOut
  <1>7. OnceInv'
    <2>1. \A u \in Team : ToSet(mine[u])' = ToSet(mine[u])
      BY <1>1
    <2>2. QED
      BY <1>2, <1>3, <1>4, <2>1 DEF IndInv, OnceInv
  <1>8. KeptInv'
    BY <1>2, <1>3, <1>4 DEF IndInv, KeptInv
  <1>9. OutputInv'
    BY <1>1, OutputKept DEF IndInv
  <1>10. ReportInv'
    BY <1>1, <1>2, <1>3 DEF IndInv, ReportInv, Joined
  <1>11. QED
    BY <1>2, <1>5, <1>6, <1>7, <1>8, <1>9, <1>10 DEF IndInv
-----------------------------------------------------------------------------
(***************************************************************************)
(* The theorems.                                                           *)
(***************************************************************************)
\* No step changes the team or the loops, and so none what fits.
LEMMA FitsKept ==
    ASSUME [Next]_vars PROVE Fits' = Fits
  <1>1. UNCHANGED inputs
    BY DEF Next, vars, TakeShare, TakeNext, Iterate, Critical, EndCritical, EndLoop,
           Reduce, Exit
  <1>2. QED
    BY <1>1, Fixed

\* The inductive invariant, for any team, any words and any number of tasks
\* that fit an int as Fits says, as long as example2_mystatic runs with chunks
\* of one iteration or with maximal ones (with larger chunks its loops overlap).
THEOREM Invariant ==
    ASSUME Chunks \subseteq {0, 1} PROVE Safety => [](Fits => IndInv)
  <1>1. Init => (Fits => IndInv)
    BY InitInv
  <1>2. (Fits => IndInv) /\ [Next]_vars => (Fits => IndInv)'
    <2> SUFFICES ASSUME Fits => IndInv, [Next]_vars, Fits' PROVE IndInv'
      OBVIOUS
    <2>0. IndInv
      BY FitsKept
    <2>1. ASSUME NEW t \in Threads,
                 \/ TakeShare(t) \/ TakeNext(t) \/ Iterate(t)
                 \/ Critical(t) \/ EndCritical(t) \/ EndLoop(t)
          PROVE  IndInv'
      BY <2>0, <2>1, TakeShareInv, TakeNextInv, IterateInv, CriticalInv, EndCriticalInv, EndLoopInv
    <2>2. ASSUME Reduce PROVE IndInv'
      BY <2>0, <2>2, ReduceInv
    <2>3. ASSUME UNCHANGED vars PROVE IndInv'
      BY <2>0, <2>3, StutterInv
    <2>4. QED
      BY <2>1, <2>2, <2>3, Zenon DEF Next, Exit
  <1>3. QED
    BY <1>1, <1>2, PTL DEF Safety

\* Nobody holds what another holds or what went into a result.
LEMMA HeldOnce ==
    ASSUME IndInv PROVE NoDoubleWork
  <1> DEFINE held == UNION {{t} \X DOMAIN mine[t] : t \in Team}
             H(i) == {h \in held : mine[h[1]][h[2]] = i}
  <1>1. ASSUME NEW i \in Tasks, NEW h \in H(i)
        PROVE  /\ h[1] \in Team /\ h[2] \in DOMAIN mine[h[1]] /\ h = <<h[1], h[2]>>
               /\ i \in ToSet(mine[h[1]]) /\ i \in Has(h[1])
    <2>1. PICK t \in Team : h \in {t} \X DOMAIN mine[t]
      OBVIOUS
    <2>2. h[1] = t /\ h[2] \in DOMAIN mine[t] /\ h = <<h[1], h[2]>> /\ mine[h[1]][h[2]] = i
      BY <2>1
    <2>3. QED
      BY <2>2 DEF ToSet, Has
  <1>2. ASSUME NEW i \in Tasks, NEW g \in H(i), NEW h \in H(i) PROVE g = h
    <2>1. g[1] = h[1]
      BY <1>1 DEF IndInv, OnceInv
    <2>2. PICK t \in Team : t = g[1]
      BY <1>1
    <2>3. Ascending(mine[t]) /\ mine[t] \in Seq(Tasks)
      BY TeamFacts DEF IndInv, TypeOK, PlaceInv
    <2>4. PICK j, k \in DOMAIN mine[t] : j = g[2] /\ k = h[2]
      BY <1>1, <2>1, <2>2
    <2>5. mine[t][j] = i /\ mine[t][k] = i
      BY <2>1, <2>2, <2>4
    <2>6. i \in Int /\ j \in Int /\ k \in Int
      BY <2>3, SizesAssumption DEF Tasks
    <2>7. ~(j < k) /\ ~(k < j)
      BY <2>3, <2>5, <2>6 DEF Ascending
    <2>8. j = k
      BY <2>6, <2>7
    <2>9. QED
      BY <1>1, <2>1, <2>4, <2>8
  <1>3. ASSUME NEW i \in Tasks, i \in Counted PROVE H(i) = {}
    <2>1. PICK u \in Team : i \in Added(u)
      BY <1>3 DEF Counted
    <2>2. ASSUME NEW h \in H(i) PROVE FALSE
      <3>1. h[1] = u
        BY <1>1, <2>1 DEF IndInv, OnceInv, Has
      <3>2. QED
        BY <1>1, <2>1, <3>1 DEF IndInv, OnceInv
    <2>3. QED
      BY <2>2
  <1>4. ASSUME NEW i \in Tasks PROVE Total(i) + Cardinality(H(i)) <= 1
    <2>1. Total(i) = IF i \in Counted THEN 1 ELSE 0
      BY TotalFacts
    <2>2. CASE H(i) = {}
      <3>1. Cardinality(H(i)) = 0
        BY <2>2, FS_EmptySet
      <3>2. QED
        BY <2>1, <3>1
    <2>3. CASE H(i) # {}
      <3>1. PICK h : h \in H(i)
        BY <2>3
      <3>2. H(i) = {h}
        BY <1>2, <3>1
      <3>3. Cardinality(H(i)) = 1
        BY <3>2, FS_Singleton
      <3>4. i \notin Counted
        BY <1>3, <2>3
      <3>5. QED
        BY <2>1, <3>3, <3>4
    <2>4. QED
      BY <2>2, <2>3
  <1>5. QED
    BY <1>4 DEF NoDoubleWork

\* No iteration is held by two threads, held twice, or held once more after it
\* went into a result: whoever takes work, and in whatever order, if the shares
\* are computed within an int.
THEOREM WorkOnce ==
    ASSUME Chunks \subseteq {0, 1} PROVE Safety => [](Fits => NoDoubleWork)
  <1>1. IndInv => NoDoubleWork
    BY HeldOnce
  <1>2. QED
    BY <1>1, Invariant, PTL

\* Past the barrier that ends the region nothing that counts is missing.
LEMMA AllCounted ==
    ASSUME IndInv, Finished
    PROVE  /\ Joined /\ Counted = program.counts /\ palin_cnt = Cardinality(Counted)
           /\ writing = -1
  <1>1. Joined /\ palin_cnt = Cardinality(Counted) /\ palin_cnt # -1
    BY DEF Finished, IndInv, ReportInv
  <1>2. tnum \in Nat \ {0} /\ 0 \in Team /\ Team \subseteq Threads
    BY TeamFacts DEF IndInv
  <1>3. \A t \in Team : loop[t] = Past /\ mine[t] = <<>>
    BY <1>1 DEF Joined, IndInv, PlaceInv
  <1>4. \A k \in DOMAIN Loops : Past > k
    BY LoopFacts DEF IndInv
  <1>5. ASSUME NEW i \in program.counts PROVE i \in Counted
    <2>1. PICK k \in DOMAIN Loops : i \in Loops[k].lo .. Loops[k].hi - 1
      BY DEF IndInv, RegionOK
    <2>2. LoopOK(Loops[k]) /\ Loops[k].hi \in Nat
      BY LoopFacts DEF IndInv, LoopOK
    <2>3. \E t \in Team : i \in Handed(t, k)
      <3>1. CASE SharedOut(Loops[k])
        <4>1. next = Loops[k].hi
          BY <1>2, <1>3, <1>4, <3>1 DEF IndInv, PlaceInv
        <4>2. i \in Handed(0, k)
          BY <2>1, <3>1, <4>1 DEF Handed
        <4>3. QED
          BY <1>2, <4>2
      <3>2. CASE ~SharedOut(Loops[k])
        <4>1. SharedOnce(Loops[k])
          BY <1>2, <2>2, <3>2, Shares
        <4>2. PICK t \in Team : i \in ToSet(Share(t, Loops[k]))
          BY <2>1, <4>1 DEF SharedOnce
        <4>3. i \in Handed(t, k)
          BY <1>3, <1>4, <3>2, <4>2 DEF Handed
        <4>4. QED
          BY <4>3
      <3>3. QED
        BY <3>1, <3>2
    <2>4. PICK u \in Team : i \in Has(u)
      BY <2>1, <2>3 DEF IndInv, KeptInv
    <2>5. i \in Added(u)
      BY <1>3, <2>4 DEF Has, ToSet
    <2>6. QED
      BY <2>5 DEF Counted
  <1>6. Counted \subseteq program.counts
    BY DEF IndInv, OnceInv, Counted
  <1>7. writing = -1
    BY <1>3 DEF IndInv, TypeOK, OutputInv
  <1>8. QED
    BY <1>1, <1>5, <1>6, <1>7

\* What main reports is what the serial program reports, whatever the schedule
\* and the interleaving, for a team and an input whose product fits an int.
THEOREM SerialResult ==
    ASSUME Chunks \subseteq {0, 1} PROVE Safety => [](Fits => ResultSerial)
  <1>1. IndInv => ResultSerial
    <2> SUFFICES ASSUME IndInv, Finished
                 PROVE  /\ \A i \in Tasks : Total(i) = IF i \in program.counts THEN 1 ELSE 0
                        /\ pairs >= 0 => palin_cnt = pairs
      BY DEF ResultSerial
    <2>1. Counted = program.counts /\ palin_cnt = Cardinality(Counted)
      BY AllCounted
    <2>2. \A i \in Tasks : Total(i) = IF i \in program.counts THEN 1 ELSE 0
      BY <2>1, TotalFacts
    <2>3. pairs >= 0 => palin_cnt = pairs
      BY <2>1 DEF IndInv, RegionOK
    <2>4. QED
      BY <2>2, <2>3
  <1>2. QED
    BY <1>1, Invariant, PTL

\* No line is torn by another's, and the finished output has the two halves of
\* a line for every pair and for nothing else, under the same condition.
THEOREM WholeLines ==
    ASSUME Chunks \subseteq {0, 1} PROVE Safety => [](Fits => LinesWhole)
  <1>1. IndInv => LinesWhole
    <2> SUFFICES ASSUME IndInv PROVE LinesWhole
      OBVIOUS
    <2>1. \A k \in DOMAIN ofs : k % 2 = 0 => ofs[k] = <<ofs[k - 1][1], 2>>
      BY DEF IndInv, OutputInv
    <2>2. ASSUME Finished, program.output # "none"
          PROVE  /\ ToSet(ofs) = program.counts \X {1, 2}
                 /\ Len(ofs) = 2 * Cardinality(program.counts)
      <3>1. Counted = program.counts /\ writing = -1 /\ palin_cnt # -1
        BY <2>2, AllCounted DEF Finished
      <3>2. program.output \in {"critical", "afterwards"}
        BY <2>2 DEF IndInv, RegionOK
      <3>3. Cardinality(Counted) \in Nat
        BY CountedFinite
      <3>4. ToSet(ofs) = Counted \X {1, 2} /\ Len(ofs) = 2 * Cardinality(Counted)
        <4>1. CASE program.output = "critical"
          BY <3>1, <3>3, <4>1 DEF IndInv, OutputInv
        <4>2. CASE program.output = "afterwards"
          BY <3>1, <4>2 DEF IndInv, OutputInv
        <4>3. QED
          BY <3>2, <4>1, <4>2
      <3>5. QED
        BY <3>1, <3>4
    <2>3. QED
      BY <2>1, <2>2 DEF LinesWhole
  <1>2. QED
    BY <1>1, Invariant, PTL
=============================================================================
