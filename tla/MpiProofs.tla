------------------------------ MODULE MpiProofs ------------------------------
(***************************************************************************)
(* What TLC checks of the MPI programs for a few ranks, proved for any     *)
(* number of them: of the prefix sum, that a value is always the sum of a  *)
(* run of ranks, and that of ranks 0 to r when rank r is done; of the      *)
(* programs that scatter and gather, that the result is that of the whole  *)
(* file, however it falls to the ranks.                                    *)
(***************************************************************************)
EXTENDS PrefixSum, ScatterGather, SequenceTheorems, WellFoundedInduction, TLAPS

\* Induction, said of a set of numbers: the least that is not in it is not 0,
\* and the one before it is in it.
LEMMA Induction ==
    ASSUME NEW S, 0 \in S, \A n \in Nat : n \in S => n + 1 \in S
    PROVE  Nat \subseteq S
  <1> SUFFICES ASSUME Nat \ S # {} PROVE FALSE
    OBVIOUS
  <1> DEFINE R == OpToRel(<, Nat)
  <1>1. \A k, m \in Nat : k < m => <<k, m>> \in R
    BY DEF OpToRel
  <1>2. IsWellFoundedOn(R, Nat)
    BY NatLessThanWellFounded, Zenon
  <1> HIDE DEF R
  <1>3. Nat \ S \subseteq Nat
    OBVIOUS
  <1>4. PICK m \in Nat \ S : \A k \in Nat \ S : ~(<<k, m>> \in R)
    BY <1>2, <1>3, WFMin
  <1>5. m - 1 \in Nat /\ m - 1 < m /\ m = (m - 1) + 1
    BY <1>4
  <1>6. m - 1 \in S
    BY <1>1, <1>4, <1>5
  <1>7. QED
    BY <1>4, <1>5, <1>6
-----------------------------------------------------------------------------
(***************************************************************************)
(* The prefix sum.                                                         *)
(***************************************************************************)
\* The values of jump: 1, and the double of each.
Powers == {n \in Nat \ {0} :
               \A S \in SUBSET Nat : 1 \in S /\ (\A k \in S : 2 * k \in S) => n \in S}

\* Counted from 1, the ranks at the middle of a block of 2 * l ranks are the odd
\* multiples of l, and those at its end the even ones.
Odd(x, l)  == \E q \in Nat : x = 2 * (l * q) + l
Even(x, l) == \E q \in Nat : x = 2 * (l * q)

\* The sum of the values of ranks first to r.
Run(n, first, r) == [s \in 0 .. n - 1 |-> IF s \in first .. r THEN 1 ELSE 0]

\* What rank r of n knows at a place.  On its way up it has the sum of the
\* block that ends at it, of the largest size that fits: when it is at its end
\* the block may still grow.  On its way down it has the sum of all before it
\* when it comes to a level below that of its own block.
Knows(n, r, a, v) ==
    \/ /\ a.step = "up" /\ a.jump \in Powers /\ a.jump < n
       /\ \E l \in Powers :
              /\ \/ Odd(r + 1, l) /\ l <= a.jump
                 \/ Even(r + 1, l) /\ l = a.jump
              /\ v = Run(n, r + 1 - l, r)
    \/ /\ a.step = "down" /\ a.jump \in Powers
       /\ \E l \in Powers :
              /\ Odd(r + 1, l)
              /\ v = Run(n, IF l <= a.jump THEN r + 1 - l ELSE 0, r)
    \/ a.step = "done" /\ v = Run(n, 0, r)

\* What rank r sends over a distance: on the way up its block, on the way down
\* all up to itself.  The rank itself tells which of the two it is, so the
\* receiver cannot take the one for the other.
Sent(n, r, distance, v) ==
    \/ Odd(r + 1, distance) /\ v = Run(n, r + 1 - distance, r)
    \/ Even(r + 1, distance) /\ v = Run(n, 0, r)

IndInv ==
    /\ num \in 1..MaxNum /\ room \in 0..MaxRoom
    /\ at \in [Ranks -> Turns]
    /\ val \in [Ranks -> [Ranks -> 0..1]]
    /\ net \subseteq [from : Ranks, to : Ranks, v : [Ranks -> 0..1]]
    /\ \A r \in Ranks : Knows(num, r, at[r], val[r])
    /\ \A m \in net : /\ m.to - m.from \in Powers
                      /\ Sent(num, m.from, m.to - m.from, m.v)
-----------------------------------------------------------------------------
(***************************************************************************)
(* Blocks: odd and even multiples of powers of two.                        *)
(***************************************************************************)
\* A set of numbers that 1 is in, and the double of each, has all powers.
LEMMA PowersLeast ==
    ASSUME NEW S \in SUBSET Nat, 1 \in S, \A k \in S : 2 * k \in S
    PROVE  Powers \subseteq S
  BY DEF Powers

LEMMA PowersMade == 1 \in Powers /\ \A k \in Powers : 2 * k \in Powers
  BY DEF Powers

\* A power is 1 or the double of one.
LEMMA PowerHalves ==
    ASSUME NEW j \in Powers
    PROVE  \/ j = 1
           \/ j \div 2 \in Powers /\ j = 2 * (j \div 2)
  <1> DEFINE S == {k \in Nat : k = 1 \/ \E p \in Powers : k = 2 * p}
  <1>1. 1 \in S /\ \A k \in S : 2 * k \in S
    <2>1. ASSUME NEW k \in S PROVE 2 * k \in S
      <3>1. k \in Powers
        BY PowersMade
      <3>2. QED
        BY <3>1
    <2>2. QED
      BY <2>1
  <1>2. j \in S
    BY <1>1, PowersLeast
  <1>3. ASSUME NEW p \in Powers, j = 2 * p PROVE j \div 2 = p
    <2>1. p \in Nat
      BY DEF Powers
    <2>2. QED
      BY <1>3, <2>1
  <1>4. QED
    BY <1>2, <1>3

\* No multiple is odd and even.
LEMMA OddNotEven ==
    ASSUME NEW x, NEW l \in Nat \ {0} PROVE ~(Odd(x, l) /\ Even(x, l))
  <1> SUFFICES ASSUME NEW q \in Nat, NEW p \in Nat,
                      2 * (l * q) + l = 2 * (l * p)
               PROVE  FALSE
    BY DEF Odd, Even
  <1>1. l * (2 * q + 1 - 2 * p) = 0
    OBVIOUS
  <1>2. \A b \in Int : l * b = 0 => b = 0
    OBVIOUS
  <1>3. QED
    BY <1>1, <1>2

\* A multiple of an even multiple of l is an even multiple of l.
LEMMA EvenOver ==
    ASSUME NEW x, NEW l \in Nat \ {0}, NEW k \in Nat \ {0},
           Even(k, l), Odd(x, k) \/ Even(x, k)
    PROVE  Even(x, l)
  <1>1. PICK q \in Nat : k = 2 * (l * q)
    BY DEF Even
  <1>2. CASE Odd(x, k)
    <2>1. PICK p \in Nat : x = 2 * (k * p) + k
      BY <1>2 DEF Odd
    <2>2. 2 * (q * p) + q \in Nat /\ x = 2 * (l * (2 * (q * p) + q))
      BY <1>1, <2>1
    <2>3. QED
      BY <2>2 DEF Even
  <1>3. CASE Even(x, k)
    <2>1. PICK p \in Nat : x = 2 * (k * p)
      BY <1>3 DEF Even
    <2>2. 2 * (q * p) \in Nat /\ x = 2 * (l * (2 * (q * p)))
      BY <1>1, <2>1
    <2>3. QED
      BY <2>2 DEF Even
  <1>4. QED
    BY <1>2, <1>3

\* An even multiple of l is a multiple of 2 * l.
LEMMA EvenDoubles ==
    ASSUME NEW x, NEW l \in Nat \ {0}, Even(x, l)
    PROVE  Odd(x, 2 * l) \/ Even(x, 2 * l)
  <1>1. PICK q \in Nat : x = 2 * (l * q)
    BY DEF Even
  <1>2. PICK h \in Nat : q = 2 * h \/ q = 2 * h + 1
    <2>1. q \div 2 \in Nat /\ (q = 2 * (q \div 2) \/ q = 2 * (q \div 2) + 1)
      OBVIOUS
    <2>2. QED
      BY <2>1
  <1>3. q = 2 * h => x = 2 * ((2 * l) * h)
    BY <1>1
  <1>4. q = 2 * h + 1 => x = 2 * ((2 * l) * h) + 2 * l
    BY <1>1
  <1>5. QED
    BY <1>2, <1>3, <1>4 DEF Odd, Even

\* A rank at the middle or the end of a block has the whole of its half before
\* it, or all of it; and its partner is at the end or the middle of the same.
LEMMA BlockSizes ==
    ASSUME NEW x \in Nat, NEW l \in Nat \ {0}
    PROVE  /\ Odd(x, l) => x >= l /\ Even(x - l, l) /\ (x <= 2 * l => x = l)
           /\ Even(x, l) /\ x > 0 =>
                  x >= 2 * l /\ Odd(x - l, l) /\ (x <= 2 * l => x = 2 * l)
  <1>1. ASSUME NEW q \in Nat PROVE l * q \in Nat /\ (q >= 1 => l * q >= l)
    OBVIOUS
  <1>2. ASSUME NEW q \in Nat, q >= 2 PROVE l * q >= 2 * l
    <2>1. q - 2 \in Nat /\ l * q = l * (q - 2) + 2 * l
      BY <1>2
    <2>2. l * (q - 2) \in Nat
      BY <1>1, <2>1
    <2>3. QED
      BY <2>1, <2>2
  <1>3. ASSUME NEW q \in Nat, x = 2 * (l * q) + l
        PROVE  x >= l /\ Even(x - l, l) /\ (x <= 2 * l => x = l)
    <2>1. x - l = 2 * (l * q)
      BY <1>3
    <2>2. q = 0 \/ q >= 1
      OBVIOUS
    <2>3. q = 0 => l * q = 0
      OBVIOUS
    <2>4. QED
      BY <1>1, <1>3, <2>1, <2>2, <2>3 DEF Even
  <1>4. ASSUME NEW q \in Nat, x = 2 * (l * q), x > 0
        PROVE  x >= 2 * l /\ Odd(x - l, l) /\ (x <= 2 * l => x = 2 * l)
    <2>1. q # 0
      BY <1>4
    <2>2. q - 1 \in Nat /\ x - l = 2 * (l * (q - 1)) + l
      BY <1>4, <2>1
    <2>3. q = 1 \/ q >= 2
      BY <2>1
    <2>4. q = 1 => l * q = l
      OBVIOUS
    <2>5. QED
      BY <1>1, <1>2, <1>4, <2>1, <2>2, <2>3, <2>4 DEF Odd
  <1>5. QED
    BY <1>3, <1>4 DEF Odd, Even

\* Of two powers that differ the greater is an even multiple of the other.
LEMMA PowersCompare ==
    ASSUME NEW j \in Powers, NEW l \in Powers
    PROVE  j = l \/ Even(j, l) \/ Even(l, j)
  <1> DEFINE S == {k \in Nat \ {0} :
                      \A p \in Powers : p = k \/ Even(p, k) \/ Even(k, p)}
  <1>1. \A p \in Powers : p \in Nat \ {0}
    BY DEF Powers
  <1>2. ASSUME NEW p \in Powers PROVE p = 1 \/ Even(p, 1)
    <2>1. p \div 2 \in Powers => p \div 2 \in Nat /\ 2 * (1 * (p \div 2)) = 2 * (p \div 2)
      BY <1>1
    <2>2. QED
      BY <2>1, PowerHalves DEF Even
  <1>3. ASSUME NEW k \in S PROVE 2 * k \in S
    <2> SUFFICES ASSUME NEW p \in Powers
                 PROVE  p = 2 * k \/ Even(p, 2 * k) \/ Even(2 * k, p)
      OBVIOUS
    <2>1. CASE p = 1
      <3>1. 2 * k = 2 * (1 * k)
        OBVIOUS
      <3>2. QED
        BY <2>1, <3>1 DEF Even
    <2>2. CASE p # 1
      <3>1. PICK h \in Powers : p = 2 * h
        BY <2>2, PowerHalves
      <3>2. h \in Nat \ {0} /\ k \in Nat \ {0}
        BY <1>1
      <3>3. h = k \/ Even(h, k) \/ Even(k, h)
        OBVIOUS
      <3>4. ASSUME NEW q \in Nat, h = 2 * (k * q) PROVE p = 2 * ((2 * k) * q)
        BY <3>1, <3>2, <3>4
      <3>5. ASSUME NEW q \in Nat, k = 2 * (h * q) PROVE 2 * k = 2 * (p * q)
        BY <3>1, <3>2, <3>5
      <3>6. QED
        BY <3>1, <3>3, <3>4, <3>5 DEF Even
    <2>3. QED
      BY <2>1, <2>2
  <1>4. 1 \in S
    BY <1>2
  <1>5. S \in SUBSET Nat
    OBVIOUS
  <1> HIDE DEF S
  <1>6. l \in S
    BY <1>3, <1>4, <1>5, PowersLeast
  <1>7. QED
    BY <1>6 DEF S

\* A power below another is at most its half.
LEMMA PowerBelow ==
    ASSUME NEW j \in Powers, NEW l \in Powers, l < j PROVE 2 * l <= j /\ Even(j, l)
  <1>1. j \in Nat \ {0} /\ l \in Nat \ {0}
    BY DEF Powers
  <1>2. ~Even(l, j)
    BY <1>1, BlockSizes
  <1>3. Even(j, l)
    BY <1>1, <1>2, PowersCompare
  <1>4. QED
    BY <1>1, <1>3, BlockSizes

\* A number is the odd multiple of one power alone, and at lower levels no
\* multiple at all.
LEMMA OneLevel ==
    ASSUME NEW x, NEW j \in Powers, NEW l \in Powers, Odd(x, l)
    PROVE  /\ Odd(x, j) => j = l
           /\ Even(x, j) => j < l
  <1>1. j \in Nat \ {0} /\ l \in Nat \ {0}
    BY DEF Powers
  <1>2. ~Even(x, l)
    BY <1>1, OddNotEven
  <1>3. Odd(x, j) \/ Even(x, j) => ~Even(j, l)
    BY <1>1, <1>2, EvenOver
  <1>4. Odd(x, j) => ~Even(l, j)
    BY <1>1, EvenOver, OddNotEven
  <1>5. Even(x, j) => j # l
    BY <1>2
  <1>6. l < j => Even(j, l)
    BY PowerBelow
  <1>7. QED
    BY <1>1, <1>3, <1>4, <1>5, <1>6, PowersCompare
-----------------------------------------------------------------------------
(***************************************************************************)
(* A turn of a loop.                                                       *)
(***************************************************************************)
\* What a turn's tests say of the rank counted from 1.
LEMMA Tests ==
    ASSUME NEW r \in Nat, NEW a, a.jump \in Nat \ {0}
    PROVE  /\ AtMiddle(r, a) <=> Odd(r + 1, a.jump)
           /\ AtEnd(r, a) <=> Even(r + 1, a.jump)
  <1> DEFINE j == a.jump
             size == 2 * j
  <1>1. size \in Int /\ size > 0
    OBVIOUS
  <1> HIDE DEF size
  <1>2. r = (r \div size) * size + (r % size) /\ r \div size \in Int
    BY <1>1
  <1>3. r \div size \in Nat
    BY <1>1
  <1> USE DEF size
  <1>4. ASSUME r % size = j - 1 PROVE Odd(r + 1, j)
    <2>1. r + 1 = 2 * (j * (r \div size)) + j
      BY <1>2, <1>4
    <2>2. QED
      BY <1>3, <2>1 DEF Odd
  <1>5. ASSUME r % size = size - 1 PROVE Even(r + 1, j)
    <2>1. r + 1 = 2 * (j * (r \div size + 1))
      BY <1>2, <1>5
    <2>2. r \div size + 1 \in Nat
      BY <1>3
    <2>3. QED
      BY <2>1, <2>2 DEF Even
  <1>6. ASSUME NEW q \in Int, NEW m \in 0 .. size - 1, r = size * q + m
        PROVE  r % size = m
    <2> HIDE DEF size
    <2>1. QED
      BY <1>1, <1>6
  <1>7. ASSUME NEW q \in Nat, r + 1 = 2 * (j * q) + j PROVE r % size = j - 1
    <2>1. j - 1 \in 0 .. size - 1
      OBVIOUS
    <2> DEFINE b == j * q
               k == size * q
    <2>2. b \in Int /\ k \in Int /\ j \in Int /\ r \in Int
      OBVIOUS
    <2>3. k = 2 * b /\ r + 1 = 2 * b + j
      BY <1>7
    <2> HIDE DEF b, k, j
    <2>4. r = k + (j - 1)
      BY <2>2, <2>3
    <2>5. QED
      BY <1>6, <2>1, <2>4 DEF k, j
  <1>8. ASSUME NEW q \in Nat, r + 1 = 2 * (j * q) PROVE r % size = size - 1
    <2>1. size - 1 \in 0 .. size - 1 /\ r = size * (q - 1) + (size - 1)
      BY <1>8
    <2>2. QED
      BY <1>6, <2>1, q - 1 \in Int
  <1>9. QED
    BY <1>4, <1>5, <1>7, <1>8 DEF AtMiddle, AtEnd, Odd, Even

\* The jumps of a rank stay powers: the loop of step 2 starts, as it goes on, at
\* half the jump of the turn before.
LEMMA Jumps ==
    ASSUME num \in Nat, NEW a, a.jump \in Powers
    PROVE  After(a) = IF a.step = "up" /\ 2 * a.jump < num
                      THEN [step |-> "up", jump |-> 2 * a.jump]
                      ELSE IF a.jump = 1 THEN [step |-> "done", jump |-> 0]
                      ELSE [step |-> "down", jump |-> a.jump \div 2]
  <1>1. a.jump \in Nat \ {0}
    BY DEF Powers
  <1>2. (a.jump * 2) \div 4 = a.jump \div 2 /\ a.jump * 2 = 2 * a.jump
    BY <1>1
  <1>3. a.jump = 1 => a.jump \div 2 = 0
    OBVIOUS
  <1>4. a.jump # 1 => a.jump \div 2 >= 1
    BY <1>1
  <1>5. QED
    BY <1>2, <1>3, <1>4 DEF After, Up, Down

\* Two runs that follow each other add up to one.
LEMMA RunsAdd ==
    ASSUME NEW n \in Nat, NEW first \in Int, NEW k \in Int, NEW r \in Int,
           first <= k + 1, k <= r
    PROVE  Run(n, first, r) =
               [s \in 0 .. n - 1 |-> Run(n, k + 1, r)[s] + Run(n, first, k)[s]]
  BY DEF Run

\* A rank that goes down a level knows the sum of its block, and once it is
\* below the level of its block that of all before it.
LEMMA Lower ==
    ASSUME num \in Nat, NEW r, NEW a, NEW v, a.jump \in Powers,
           a.step = "up" => ~(2 * a.jump < num),
           NEW l \in Powers, Odd(r + 1, l),
           v = Run(num, IF l < a.jump THEN r + 1 - l ELSE 0, r)
    PROVE  Knows(num, r, After(a), v)
  <1>1. a.jump \in Nat \ {0} /\ l \in Nat \ {0}
    BY DEF Powers
  <1>2. CASE a.jump = 1
    <2>1. After(a) = [step |-> "done", jump |-> 0]
      BY <1>2, Jumps
    <2>2. v = Run(num, 0, r)
      BY <1>1, <1>2
    <2>3. QED
      BY <2>1, <2>2 DEF Knows
  <1>3. CASE a.jump # 1
    <2> DEFINE h == a.jump \div 2
    <2>1. After(a) = [step |-> "down", jump |-> h]
      BY <1>3, Jumps
    <2>2. h \in Powers /\ a.jump = 2 * h /\ h \in Nat \ {0}
      BY <1>3, PowerHalves DEF Powers
    <2>3. l < a.jump <=> l <= h
      BY <1>1, <2>2, PowerBelow
    <2>4. QED
      BY <2>1, <2>2, <2>3 DEF Knows
  <1>4. QED
    BY <1>2, <1>3

\* A rank that is not at an end of its block on the way up, and that receives
\* nothing, knows what it should at its next place.
LEMMA Passed ==
    ASSUME num \in Nat, NEW r \in Ranks, NEW a, NEW v, Knows(num, r, a, v),
           a.step # "done", ~Receives(r, a)
    PROVE  Knows(num, r, After(a), v)
  <1>1. r \in Nat /\ r + 1 <= num /\ r + 1 \in Nat
    BY DEF Ranks
  <1>2. CASE a.step = "up"
    <2>1. a.jump \in Powers /\ a.jump \in Nat \ {0}
      BY <1>2 DEF Knows, Powers
    <2>2. ~Even(r + 1, a.jump)
      BY <1>1, <1>2, <2>1, Tests DEF Receives
    <2>3. PICK l \in Powers : /\ Odd(r + 1, l) /\ l <= a.jump
                              /\ v = Run(num, r + 1 - l, r)
      BY <1>2, <2>2 DEF Knows
    <2>4. l \in Nat \ {0}
      BY DEF Powers
    <2>5. CASE 2 * a.jump < num
      <3>1. After(a) = [step |-> "up", jump |-> 2 * a.jump]
        BY <1>2, <2>1, <2>5, Jumps
      <3>2. 2 * a.jump \in Powers /\ l <= 2 * a.jump
        BY <2>1, <2>3, <2>4, PowersMade
      <3>3. QED
        BY <2>3, <2>5, <3>1, <3>2 DEF Knows
    <2>6. CASE ~(2 * a.jump < num)
      <3>1. l = a.jump => r + 1 = l
        BY <1>1, <2>1, <2>3, <2>6, BlockSizes
      <3>2. v = Run(num, IF l < a.jump THEN r + 1 - l ELSE 0, r)
        BY <1>1, <2>1, <2>3, <2>4, <3>1
      <3>3. QED
        BY <2>1, <2>3, <2>6, <3>2, Lower
    <2>7. QED
      BY <2>5, <2>6
  <1>3. CASE a.step = "down"
    <2>1. a.jump \in Powers /\ a.jump \in Nat \ {0}
      BY <1>3 DEF Knows, Powers
    <2>2. PICK l \in Powers :
              /\ Odd(r + 1, l)
              /\ v = Run(num, IF l <= a.jump THEN r + 1 - l ELSE 0, r)
      BY <1>3 DEF Knows
    <2>3. l \in Nat \ {0}
      BY DEF Powers
    <2>4. l = a.jump => r + 1 = l
      <3>1. l = a.jump => r - a.jump < 0
        BY <1>1, <1>3, <2>1, <2>2, Tests DEF Receives
      <3>2. r + 1 >= l
        BY <1>1, <2>2, <2>3, BlockSizes
      <3>3. QED
        BY <1>1, <2>1, <3>1, <3>2
    <2>5. v = Run(num, IF l < a.jump THEN r + 1 - l ELSE 0, r)
      BY <1>1, <2>1, <2>2, <2>3, <2>4
    <2>6. QED
      BY <1>3, <2>1, <2>2, <2>5, Lower
  <1>4. QED
    BY <1>2, <1>3 DEF Knows

\* A rank that sends has a value for the distance, and receives nothing.
LEMMA SentRight ==
    ASSUME num \in Nat, NEW r \in Ranks, NEW a, NEW v, Knows(num, r, a, v),
           Sends(r, a)
    PROVE  /\ a.jump \in Powers /\ Sent(num, r, a.jump, v)
           /\ a.step # "done" /\ ~Receives(r, a)
  <1>1. r \in Nat /\ r + 1 \in Nat
    BY DEF Ranks
  <1>2. a.step \in {"up", "down"}
    BY DEF Sends
  <1>3. a.jump \in Powers /\ a.jump \in Nat \ {0}
    BY <1>2 DEF Knows, Powers
  <1>4. ~(Odd(r + 1, a.jump) /\ Even(r + 1, a.jump))
    BY <1>3, OddNotEven
  <1>5. ~Receives(r, a)
    BY <1>1, <1>3, <1>4, Tests DEF Sends, Receives
  <1>6. CASE a.step = "up"
    <2>1. Odd(r + 1, a.jump)
      BY <1>1, <1>3, <1>6, Tests DEF Sends
    <2>2. PICK l \in Powers : /\ Odd(r + 1, l)
                              /\ v = Run(num, r + 1 - l, r)
      BY <1>4, <1>6, <2>1 DEF Knows
    <2>3. l = a.jump
      BY <1>3, <2>1, <2>2, OneLevel
    <2>4. QED
      BY <1>2, <1>3, <1>5, <2>1, <2>2, <2>3 DEF Sent
  <1>7. CASE a.step = "down"
    <2>1. Even(r + 1, a.jump)
      BY <1>1, <1>3, <1>7, Tests DEF Sends
    <2>2. PICK l \in Powers :
              /\ Odd(r + 1, l)
              /\ v = Run(num, IF l <= a.jump THEN r + 1 - l ELSE 0, r)
      BY <1>7 DEF Knows
    <2>3. l \in Nat /\ ~(l <= a.jump)
      BY <1>3, <2>1, <2>2, OneLevel DEF Powers
    <2>4. QED
      BY <1>2, <1>3, <1>5, <2>1, <2>2, <2>3 DEF Sent
  <1>8. QED
    BY <1>2, <1>6, <1>7

\* A rank that receives adds a run that ends where its own begins, and knows
\* what it should at its next place.
LEMMA Taken ==
    ASSUME num \in Nat, NEW r \in Ranks, NEW a, NEW v, Knows(num, r, a, v),
           Receives(r, a), NEW w, Sent(num, r - a.jump, a.jump, w)
    PROVE  Knows(num, r, After(a), [s \in Ranks |-> v[s] + w[s]])
  <1> DEFINE sum == [s \in Ranks |-> v[s] + w[s]]
  <1>1. r \in Nat /\ r + 1 \in Nat /\ r + 1 > 0 /\ r + 1 <= num
    BY DEF Ranks
  <1>2. a.step \in {"up", "down"}
    BY DEF Receives
  <1>3. a.jump \in Powers /\ a.jump \in Nat \ {0}
    BY <1>2 DEF Knows, Powers
  <1>4. (r - a.jump) + 1 = r + 1 - a.jump
    BY <1>1, <1>3
  <1>5. CASE a.step = "up"
    <2>1. Even(r + 1, a.jump)
      BY <1>1, <1>3, <1>5, Tests DEF Receives
    <2>2. ASSUME NEW l \in Powers, Odd(r + 1, l), l <= a.jump PROVE FALSE
      <3>1. l \in Nat
        BY DEF Powers
      <3>2. QED
        BY <1>3, <2>1, <2>2, <3>1, OneLevel
    <2>3. v = Run(num, r + 1 - a.jump, r)
      BY <1>5, <2>2 DEF Knows
    <2>4. Odd(r + 1 - a.jump, a.jump) /\ r + 1 >= 2 * a.jump
      BY <1>1, <1>3, <2>1, BlockSizes
    <2>5. ~Even(r + 1 - a.jump, a.jump)
      BY <1>3, <2>4, OddNotEven
    <2>6. w = Run(num, r + 1 - a.jump - a.jump, r - a.jump)
      BY <1>1, <1>3, <1>4, <2>5 DEF Sent
    <2>7. sum = Run(num, r + 1 - 2 * a.jump, r)
      <3>1. r + 1 - 2 * a.jump = r + 1 - a.jump - a.jump
        BY <1>1, <1>3
      <3>2. r + 1 - 2 * a.jump <= (r - a.jump) + 1 /\ r - a.jump <= r
        BY <1>1, <1>3
      <3>3. r - a.jump \in Int /\ r + 1 - 2 * a.jump \in Int
        BY <1>1, <1>3
      <3>4. QED
        BY <1>1, <1>4, <2>3, <2>6, <3>1, <3>2, <3>3, RunsAdd DEF Ranks
    <2>8. Odd(r + 1, 2 * a.jump) \/ Even(r + 1, 2 * a.jump)
      BY <1>3, <2>1, EvenDoubles
    <2>9. 2 * a.jump \in Powers
      BY <1>3, PowersMade
    <2> HIDE DEF sum
    <2>10. CASE 2 * a.jump < num
      <3>1. After(a) = [step |-> "up", jump |-> 2 * a.jump]
        BY <1>3, <1>5, <2>10, Jumps
      <3>2. 2 * a.jump <= 2 * a.jump
        BY <1>3
      <3>3. Knows(num, r, After(a), sum)
        BY <2>7, <2>8, <2>9, <2>10, <3>1, <3>2 DEF Knows
      <3>4. QED
        BY <3>3 DEF sum
    <2>11. CASE ~(2 * a.jump < num)
      <3>1. r + 1 = 2 * a.jump
        BY <1>1, <1>3, <2>1, <2>11, BlockSizes
      <3>2. Odd(r + 1, 2 * a.jump)
        <4>1. r + 1 = 2 * ((2 * a.jump) * 0) + 2 * a.jump
          BY <1>1, <1>3, <3>1
        <4>2. QED
          BY <4>1 DEF Odd
      <3>3. ~(2 * a.jump < a.jump) /\ r + 1 - 2 * a.jump = 0
        BY <1>1, <1>3, <3>1
      <3>4. sum = Run(num, IF 2 * a.jump < a.jump THEN r + 1 - 2 * a.jump ELSE 0, r)
        BY <2>7, <3>3
      <3>5. Knows(num, r, After(a), sum)
        BY <1>3, <2>9, <2>11, <3>2, <3>4, Lower
      <3>6. QED
        BY <3>5 DEF sum
    <2>12. QED
      BY <2>10, <2>11
  <1>6. CASE a.step = "down"
    <2>1. Odd(r + 1, a.jump) /\ r - a.jump >= 0
      BY <1>1, <1>3, <1>6, Tests DEF Receives
    <2>2. PICK l \in Powers :
              /\ Odd(r + 1, l)
              /\ v = Run(num, IF l <= a.jump THEN r + 1 - l ELSE 0, r)
      BY <1>6 DEF Knows
    <2>3. l = a.jump
      BY <1>3, <2>1, <2>2, OneLevel
    <2>4. v = Run(num, r + 1 - a.jump, r)
      BY <1>3, <2>2, <2>3
    <2>5. Even(r + 1 - a.jump, a.jump)
      BY <1>1, <1>3, <2>1, BlockSizes
    <2>6. ~Odd(r + 1 - a.jump, a.jump)
      BY <1>3, <2>5, OddNotEven
    <2>7. w = Run(num, 0, r - a.jump)
      BY <1>4, <2>6 DEF Sent
    <2>8. sum = Run(num, 0, r)
      <3>1. 0 <= (r - a.jump) + 1 /\ r - a.jump <= r /\ r - a.jump \in Int
        BY <1>1, <1>3, <2>1
      <3>2. QED
        BY <1>1, <1>4, <2>4, <2>7, <3>1, RunsAdd DEF Ranks
    <2> HIDE DEF sum
    <2>9. sum = Run(num, IF l < a.jump THEN r + 1 - l ELSE 0, r)
      BY <1>3, <2>3, <2>8
    <2>10. Knows(num, r, After(a), sum)
      BY <1>3, <1>6, <2>2, <2>9, Lower
    <2>11. QED
      BY <2>10 DEF sum
  <1>7. QED
    BY <1>2, <1>5, <1>6
-----------------------------------------------------------------------------
(***************************************************************************)
(* Arrive.  It is a recursive function: that there is one, and what it     *)
(* keeps, is by induction on the number of turns that are left.            *)
(***************************************************************************)
\* A bound on the turns that are left at a turn.
TurnsLeft(b) == IF b.step = "up" THEN 2 * num + 1 - b.jump ELSE b.jump

LEMMA FewerLeft ==
    ASSUME num \in Nat \ {0}, NEW b \in Turns
    PROVE  /\ TurnsLeft(b) \in Nat /\ TurnsLeft(b) <= 2 * num
           /\ b.step # "done" =>
                  After(b) \in Turns /\ TurnsLeft(After(b)) < TurnsLeft(b)
  <1>1. CASE b.step = "up"
    <2>1. b.jump \in 1 .. num
      BY <1>1 DEF Turns
    <2>2. CASE b.jump * 2 < num
      <3>1. After(b) = [step |-> "up", jump |-> b.jump * 2]
        BY <1>1, <2>2 DEF After, Up
      <3>2. QED
        BY <1>1, <2>1, <2>2, <3>1 DEF Turns, TurnsLeft
    <2>3. CASE ~(b.jump * 2 < num)
      <3> DEFINE j == (b.jump * 2) \div 4
      <3>1. After(b) = [step |-> IF j >= 1 THEN "down" ELSE "done", jump |-> j]
        BY <1>1, <2>3 DEF After, Up, Down
      <3>2. j \in 0 .. num
        BY <2>1
      <3> HIDE DEF j
      <3>3. After(b) \in Turns
        BY <3>1, <3>2 DEF Turns
      <3>4. QED
        BY <1>1, <2>1, <3>1, <3>2, <3>3 DEF TurnsLeft
    <2>4. QED
      BY <2>2, <2>3
  <1>2. CASE b.step = "down"
    <2>1. b.jump \in 1 .. num
      BY <1>2 DEF Turns
    <2> DEFINE j == b.jump \div 2
    <2>2. After(b) = [step |-> IF j >= 1 THEN "down" ELSE "done", jump |-> j]
      BY <1>2 DEF After, Down
    <2>3. j \in 0 .. num /\ j < b.jump
      BY <2>1
    <2> HIDE DEF j
    <2>4. After(b) \in Turns
      BY <2>2, <2>3 DEF Turns
    <2>5. QED
      BY <1>2, <2>1, <2>2, <2>3, <2>4 DEF TurnsLeft
  <1>3. CASE b.step = "done"
    BY <1>3 DEF Turns, TurnsLeft
  <1>4. QED
    BY <1>1, <1>2, <1>3 DEF Turns

\* The function that Arrive computes for rank r.
Halts(r, b) == b.step = "done" \/ Sends(r, b) \/ Receives(r, b)
Stop(r, f, b) == IF Halts(r, b) THEN b ELSE f[After(b)]
Stops(r, f) == f = [b \in Turns |-> Stop(r, f, b)]

LEMMA StopsExists ==
    ASSUME num \in Nat \ {0}, NEW r PROVE \E f : Stops(r, f)
  <1> DEFINE Upto(f, n) ==
                 \A b \in Turns : TurnsLeft(b) < n => f[b] = Stop(r, f, b)
             S == {n \in Nat : \E f : Upto(f, n)}
  <1>1. 0 \in S
    <2>1. \A b \in Turns : ~(TurnsLeft(b) < 0)
      BY FewerLeft
    <2>2. QED
      BY <2>1
  <1>2. ASSUME NEW n \in Nat, n \in S PROVE n + 1 \in S
    <2>1. PICK f : Upto(f, n)
      BY <1>2
    <2> DEFINE g == [b \in Turns |->
                        IF TurnsLeft(b) < n THEN f[b] ELSE Stop(r, f, b)]
    <2>2. ASSUME NEW b \in Turns, TurnsLeft(b) < n + 1 PROVE g[b] = Stop(r, g, b)
      <3>1. g[b] = Stop(r, f, b)
        BY <2>1
      <3>2. ~Halts(r, b) => f[After(b)] = g[After(b)]
        <4>1. ~Halts(r, b) => After(b) \in Turns /\ TurnsLeft(After(b)) < TurnsLeft(b)
          BY FewerLeft DEF Halts
        <4>2. ~Halts(r, b) => After(b) \in Turns /\ TurnsLeft(After(b)) < n
          BY <2>2, <4>1, FewerLeft
        <4>3. QED
          BY <4>2
      <3>3. QED
        BY <3>1, <3>2 DEF Stop
    <2> HIDE DEF g
    <2>3. Upto(g, n + 1)
      BY <2>2
    <2>4. QED
      BY <2>3
  <1>3. 2 * num + 1 \in S
    <2> HIDE DEF S
    <2>1. Nat \subseteq S
      BY <1>1, <1>2, Induction
    <2>2. QED
      BY <2>1
  <1>4. PICK f : Upto(f, 2 * num + 1)
    BY <1>3
  <1>5. \A b \in Turns : TurnsLeft(b) < 2 * num + 1
    BY FewerLeft
  <1>6. \A b \in Turns : f[b] = Stop(r, f, b)
    BY <1>4, <1>5
  <1> DEFINE g == [b \in Turns |-> f[b]]
  <1>7. ASSUME NEW b \in Turns PROVE g[b] = Stop(r, g, b)
    BY <1>6, FewerLeft DEF Stop, Halts
  <1>8. Stops(r, g)
    BY <1>7 DEF Stops
  <1>9. QED
    BY <1>8

LEMMA ArriveStops ==
    ASSUME num \in Nat \ {0}, NEW r
    PROVE  \E f : Stops(r, f) /\ \A a : Arrive(r, a) = f[a]
  <1> DEFINE f == CHOOSE f : Stops(r, f)
  <1>1. Stops(r, f)
    BY StopsExists, Zenon
  <1>2. \A a : Arrive(r, a) = f[a]
    BY DEF Arrive, Stops, Stop, Halts
  <1>3. QED
    BY <1>1, <1>2

\* A rank that goes on without a message knows what it should where it stops.
LEMMA Arrived ==
    ASSUME num \in Nat \ {0}, NEW r \in Ranks, NEW v,
           NEW a \in Turns, Knows(num, r, a, v)
    PROVE  Arrive(r, a) \in Turns /\ Knows(num, r, Arrive(r, a), v)
  <1>1. PICK f : Stops(r, f) /\ \A b : Arrive(r, b) = f[b]
    BY ArriveStops
  <1>2. \A b \in Turns : f[b] = Stop(r, f, b)
    BY <1>1, Zenon DEF Stops
  <1> DEFINE Right(b) == Knows(num, r, b, v) =>
                             f[b] \in Turns /\ Knows(num, r, f[b], v)
             S == {n \in Nat : \A b \in Turns : TurnsLeft(b) < n => Right(b)}
  <1>3. 0 \in S
    <2>1. \A b \in Turns : ~(TurnsLeft(b) < 0)
      BY FewerLeft
    <2>2. QED
      BY <2>1
  <1>4. ASSUME NEW n \in Nat, n \in S PROVE n + 1 \in S
    <2>1. ASSUME NEW b \in Turns, TurnsLeft(b) < n + 1, Knows(num, r, b, v)
          PROVE  f[b] \in Turns /\ Knows(num, r, f[b], v)
      <3>1. CASE Halts(r, b)
        BY <1>2, <2>1, <3>1 DEF Stop
      <3>2. CASE ~Halts(r, b)
        <4>1. f[b] = f[After(b)]
          BY <1>2, <3>2 DEF Stop
        <4>2. After(b) \in Turns /\ TurnsLeft(After(b)) < n
          BY <2>1, <3>2, FewerLeft DEF Halts
        <4>3. Knows(num, r, After(b), v)
          BY <2>1, <3>2, Passed DEF Halts
        <4>4. QED
          BY <1>4, <4>1, <4>2, <4>3
      <3>3. QED
        BY <3>1, <3>2
    <2>2. QED
      BY <2>1
  <1>5. 2 * num + 1 \in S
    <2> HIDE DEF S
    <2>1. Nat \subseteq S
      BY <1>3, <1>4, Induction
    <2>2. QED
      BY <2>1
  <1>6. TurnsLeft(a) < 2 * num + 1
    BY FewerLeft
  <1>7. QED
    BY <1>1, <1>5, <1>6
-----------------------------------------------------------------------------
(***************************************************************************)
(* The program.                                                            *)
(***************************************************************************)
\* Every rank starts with its own value, the sum of a block of one.
LEMMA InitInv == Init => IndInv
  <1> SUFFICES ASSUME Init PROVE IndInv
    OBVIOUS
  <1>1. num \in 1..MaxNum /\ room \in 0..MaxRoom /\ num \in Nat \ {0}
    BY PrefixSumAssumption DEF Init
  <1>2. ASSUME NEW r \in Ranks PROVE Up(1) \in Turns /\ Knows(num, r, Up(1), val[r])
    <2>1. r \in Nat /\ r + 1 \in Nat
      BY DEF Ranks
    <2>2. val[r] = Run(num, r, r)
      BY <2>1 DEF Init, Run, Ranks
    <2>3. CASE 1 < num
      <3>1. Up(1) = [step |-> "up", jump |-> 1]
        BY <2>3 DEF Up
      <3>2. Odd(r + 1, 1) \/ Even(r + 1, 1)
        <4>1. PICK q \in Nat : r + 1 = 2 * q \/ r + 1 = 2 * q + 1
          <5>1. (r + 1) \div 2 \in Nat
            BY <2>1
          <5>2. r + 1 = 2 * ((r + 1) \div 2) \/ r + 1 = 2 * ((r + 1) \div 2) + 1
            BY <2>1
          <5>3. QED
            BY <5>1, <5>2
        <4>2. 1 * q = q
          OBVIOUS
        <4>3. QED
          BY <4>1, <4>2 DEF Odd, Even
      <3>3. r + 1 - 1 = r
        BY <2>1
      <3>4. QED
        BY <1>1, <2>2, <2>3, <3>1, <3>2, <3>3, PowersMade DEF Knows, Turns
    <2>4. CASE ~(1 < num)
      <3>1. Up(1) = [step |-> "done", jump |-> 0]
        BY <2>4 DEF Up, Down
      <3>2. r = 0
        BY <1>1, <2>4 DEF Ranks
      <3>3. QED
        BY <2>2, <3>1, <3>2 DEF Knows, Turns
    <2>5. QED
      BY <2>3, <2>4
  <1>3. \A r \in Ranks : at[r] = Arrive(r, Up(1))
    BY DEF Init
  <1>4. \A r \in Ranks : at[r] \in Turns /\ Knows(num, r, at[r], val[r])
    BY <1>1, <1>2, <1>3, Arrived
  <1>5. at \in [Ranks -> Turns]
    BY <1>4 DEF Init
  <1>6. val \in [Ranks -> [Ranks -> 0..1]]
    BY DEF Init
  <1>7. QED
    BY <1>1, <1>4, <1>5, <1>6 DEF Init, IndInv

\* The values that are sums of runs are in their type.
LEMMA RunTyped ==
    ASSUME NEW r, NEW a, NEW v, Knows(num, r, a, v) PROVE v \in [Ranks -> 0..1]
  BY DEF Knows, Run, Ranks

\* A rank that a step moves on is at a turn where it knows what it should.
LEMMA Moves ==
    ASSUME num \in Nat \ {0}, NEW r \in Ranks, NEW a \in Turns, a.step # "done",
           NEW v, Knows(num, r, After(a), v)
    PROVE  /\ Arrive(r, After(a)) \in Turns
           /\ Knows(num, r, Arrive(r, After(a)), v)
           /\ v \in [Ranks -> 0..1]
  BY FewerLeft, Arrived, RunTyped

\* MPI_Send that copies: the message has what the rank knows.
LEMMA SendInv ==
    ASSUME IndInv, NEW r \in Ranks, Send(r) PROVE IndInv'
  <1>1. /\ num \in Nat \ {0} /\ num' = num /\ room' = room /\ val' = val
        /\ Ranks' = Ranks /\ Turns' = Turns
    BY PrefixSumAssumption DEF IndInv, Send, Ranks, Turns
  <1>2. at[r] \in Turns /\ Knows(num, r, at[r], val[r]) /\ Sends(r, at[r])
    BY DEF IndInv, Send
  <1>3. /\ at[r].jump \in Powers /\ Sent(num, r, at[r].jump, val[r])
        /\ at[r].step # "done" /\ ~Receives(r, at[r])
    BY <1>1, <1>2, SentRight
  <1>4. Knows(num, r, After(at[r]), val[r])
    BY <1>1, <1>2, <1>3, Passed
  <1>5. /\ at' = [q \in Ranks |-> IF q = r THEN Arrive(r, After(at[r])) ELSE at[q]]
        /\ Arrive(r, After(at[r])) \in Turns
        /\ Knows(num, r, Arrive(r, After(at[r])), val[r])
    BY <1>1, <1>2, <1>3, <1>4, Moves DEF Send, GoOn
  <1>6. at' \in [Ranks -> Turns]
    BY <1>5 DEF IndInv
  <1>7. \A q \in Ranks : Knows(num, q, at'[q], val'[q])
    BY <1>1, <1>5 DEF IndInv
  <1> DEFINE sent == [from |-> r, to |-> r + at[r].jump, v |-> val[r]]
  <1>8. r \in Int /\ at[r].jump \in Nat /\ (r + at[r].jump) - r = at[r].jump
    BY <1>3 DEF Ranks, Powers
  <1>9. sent \in [from : Ranks, to : Ranks, v : [Ranks -> 0..1]]
    BY <1>1, <1>2, <1>8 DEF IndInv, Sends, Ranks
  <1>10. sent.to - sent.from \in Powers /\ Sent(num, sent.from, sent.to - sent.from, sent.v)
    BY <1>3, <1>8
  <1>11. net' = net \cup {sent}
    BY DEF Send
  <1> HIDE DEF sent
  <1>12. QED
    BY <1>1, <1>6, <1>7, <1>9, <1>10, <1>11 DEF IndInv

\* MPI_Recv: the message was sent over the distance the receiver waits for.
LEMMA RecvInv ==
    ASSUME IndInv, NEW r \in Ranks, Recv(r) PROVE IndInv'
  <1>1. /\ num \in Nat \ {0} /\ num' = num /\ room' = room
        /\ Ranks' = Ranks /\ Turns' = Turns
    BY PrefixSumAssumption DEF IndInv, Recv, Ranks, Turns
  <1>2. /\ at[r] \in Turns /\ Knows(num, r, at[r], val[r])
        /\ Receives(r, at[r]) /\ at[r].step # "done"
    BY DEF IndInv, Recv, Receives
  <1>3. PICK m \in net : /\ m.from = r - at[r].jump /\ m.to = r
                         /\ net' = net \ {m} /\ Add(r, m.v)
    BY DEF Recv
  <1>4. r \in Int /\ at[r].jump \in Int /\ m.to - m.from = at[r].jump
    BY <1>2, <1>3 DEF IndInv, Ranks, Turns
  <1>5. Sent(num, r - at[r].jump, at[r].jump, m.v)
    BY <1>3, <1>4 DEF IndInv
  <1> DEFINE v == [s \in Ranks |-> val[r][s] + m.v[s]]
  <1>6. Knows(num, r, After(at[r]), v)
    BY <1>1, <1>2, <1>5, Taken
  <1>7. /\ at' = [q \in Ranks |-> IF q = r THEN Arrive(r, After(at[r])) ELSE at[q]]
        /\ Arrive(r, After(at[r])) \in Turns
        /\ Knows(num, r, Arrive(r, After(at[r])), v)
        /\ v \in [Ranks -> 0..1]
    <2> HIDE DEF v
    <2>1. QED
      BY <1>1, <1>2, <1>6, Moves DEF Recv, GoOn
  <1>8. val' = [val EXCEPT ![r] = v]
    BY <1>3 DEF Add
  <1> HIDE DEF v
  <1>9. at' \in [Ranks -> Turns] /\ val' \in [Ranks -> [Ranks -> 0..1]]
    BY <1>7, <1>8 DEF IndInv
  <1>10. \A q \in Ranks : Knows(num, q, at'[q], val'[q])
    BY <1>7, <1>8 DEF IndInv
  <1>11. QED
    BY <1>1, <1>3, <1>9, <1>10 DEF IndInv

\* MPI_Send that waits for its receive: as both, with no message between.
LEMMA SendRecvInv ==
    ASSUME IndInv, NEW r \in Ranks, NEW to \in Ranks, SendRecv(r, to) PROVE IndInv'
  <1>1. /\ num \in Nat \ {0} /\ num' = num /\ room' = room /\ net' = net
        /\ Ranks' = Ranks /\ Turns' = Turns
    <2>1. num' = num /\ room' = room /\ net' = net
      BY DEF SendRecv
    <2>2. QED
      BY <2>1, PrefixSumAssumption DEF IndInv, Ranks, Turns
  <1>2. at[r] \in Turns /\ Knows(num, r, at[r], val[r]) /\ Sends(r, at[r])
    BY DEF IndInv, SendRecv
  <1>3. /\ at[r].jump \in Powers /\ Sent(num, r, at[r].jump, val[r])
        /\ at[r].step # "done" /\ ~Receives(r, at[r])
    BY <1>1, <1>2, SentRight
  <1>4. /\ at[to] \in Turns /\ Knows(num, to, at[to], val[to])
        /\ Receives(to, at[to]) /\ at[to].step # "done"
    BY DEF IndInv, SendRecv, Receives
  <1>5. r = to - at[to].jump /\ at[to].jump = at[r].jump /\ to # r
    <2>1. r \in Int /\ to \in Int /\ at[r].jump \in Nat \ {0} /\ at[to].jump \in Int
      BY <1>3, <1>4 DEF Ranks, Turns, Powers
    <2>2. to = r + at[r].jump /\ r = to - at[to].jump
      BY DEF SendRecv
    <2>3. \A k \in Nat \ {0}, l \in Int : to = r + k /\ r = to - l => l = k /\ to # r
      BY <2>1
    <2>4. QED
      BY <2>1, <2>2, <2>3
  <1> DEFINE v == [s \in Ranks |-> val[to][s] + val[r][s]]
  <1>6. Knows(num, to, After(at[to]), v)
    <2>1. Sent(num, to - at[to].jump, at[to].jump, val[r])
      BY <1>3, <1>5
    <2>2. QED
      BY <1>1, <1>4, <2>1, Taken
  <1>7. Knows(num, r, After(at[r]), val[r])
    BY <1>1, <1>2, <1>3, Passed
  <1> HIDE DEF v
  <1>8. /\ at' = [q \in Ranks |-> IF q \in {r, to} THEN Arrive(q, After(at[q]))
                                                  ELSE at[q]]
        /\ Arrive(to, After(at[to])) \in Turns
        /\ Knows(num, to, Arrive(to, After(at[to])), v)
        /\ v \in [Ranks -> 0..1]
        /\ Arrive(r, After(at[r])) \in Turns
        /\ Knows(num, r, Arrive(r, After(at[r])), val[r])
    BY <1>1, <1>2, <1>3, <1>4, <1>6, <1>7, Moves DEF SendRecv, GoOn
  <1>9. val' = [val EXCEPT ![to] = v]
    BY DEF SendRecv, Add, v
  <1>10. at' \in [Ranks -> Turns] /\ val' \in [Ranks -> [Ranks -> 0..1]]
    BY <1>8, <1>9 DEF IndInv
  <1>11. \A q \in Ranks : Knows(num, q, at'[q], val'[q])
    BY <1>5, <1>8, <1>9 DEF IndInv
  <1>12. QED
    BY <1>1, <1>10, <1>11 DEF IndInv

\* The invariant holds in every state: what a rank and a message carry is
\* determined by where they are.
THEOREM Invariant == Spec => []IndInv
  <1>1. ASSUME IndInv, [Next]_vars PROVE IndInv'
    <2>1. CASE UNCHANGED vars
      BY <1>1, <2>1 DEF vars, IndInv, Ranks, Turns
    <2>2. QED
      BY <1>1, <2>1, SendInv, RecvInv, SendRecvInv DEF Next, Finalize
  <1>2. QED
    BY <1>1, InitInv, PTL DEF Spec

\* A rank that is done has the sum of the values of ranks 0 to its own, each
\* once, for every number of ranks, a power of two or not.
THEOREM PrefixSumsRight == Spec => []PrefixSums
  <1>1. IndInv => PrefixSums
    <2> SUFFICES ASSUME IndInv, NEW r \in Ranks, at[r].step = "done"
                 PROVE  val[r] = [s \in Ranks |-> IF s <= r THEN 1 ELSE 0]
      BY DEF PrefixSums
    <2>1. val[r] = Run(num, 0, r)
      BY DEF IndInv, Knows
    <2>2. QED
      BY <2>1 DEF Run, Ranks
  <1>2. QED
    BY <1>1, Invariant, PTL

\* And at any moment every value, in a rank or on its way, is the sum of a run
\* of ranks that ends at its own.
THEOREM RunsRight == Spec => []SumsAreRuns
  <1>1. IndInv => SumsAreRuns
    <2> DEFINE IsRun(v, r) == \E first \in 0 .. r :
                   v = [s \in Ranks |-> IF s \in first .. r THEN 1 ELSE 0]
    <2> SUFFICES ASSUME IndInv
                 PROVE  /\ TypeOK
                        /\ \A r \in Ranks : IsRun(val[r], r)
                        /\ \A m \in net : IsRun(m.v, m.from)
      BY DEF SumsAreRuns
    <2>1. num \in Nat
      BY PrefixSumAssumption DEF IndInv
    <2>2. TypeOK
      <3>1. Turns \subseteq [step : {"up", "down", "done"}, jump : 0..MaxNum]
        BY PrefixSumAssumption DEF Turns, IndInv
      <3>2. QED
        BY <3>1 DEF TypeOK, IndInv
    <2>3. ASSUME NEW r \in Ranks, NEW l \in Powers, Odd(r + 1, l) \/ Even(r + 1, l)
          PROVE  r + 1 - l \in 0 .. r
      <3>1. r \in Nat /\ r + 1 \in Nat /\ r + 1 > 0 /\ l \in Nat \ {0}
        BY DEF Ranks, Powers
      <3>2. r + 1 >= l
        BY <2>3, <3>1, BlockSizes
      <3>3. QED
        BY <3>1, <3>2
    <2>4. ASSUME NEW r \in Ranks, NEW first \in 0 .. r, NEW v, v = Run(num, first, r)
          PROVE  IsRun(v, r)
      BY <2>4 DEF Run, Ranks
    <2>5. \A r \in Ranks : 0 \in 0 .. r
      BY DEF Ranks
    <2>6. ASSUME NEW r \in Ranks PROVE IsRun(val[r], r)
      <3>1. Knows(num, r, at[r], val[r])
        BY DEF IndInv
      <3> HIDE DEF IsRun
      <3>2. QED
        BY <2>3, <2>4, <2>5, <3>1 DEF Knows
    <2>7. ASSUME NEW m \in net PROVE IsRun(m.v, m.from)
      <3>1. /\ m.from \in Ranks /\ m.to - m.from \in Powers
            /\ Sent(num, m.from, m.to - m.from, m.v)
        BY DEF IndInv
      <3> HIDE DEF IsRun
      <3>2. QED
        BY <2>3, <2>4, <2>5, <3>1 DEF Sent
    <2>8. QED
      BY <2>2, <2>6, <2>7
  <1>2. QED
    BY <1>1, Invariant, PTL
-----------------------------------------------------------------------------
(***************************************************************************)
(* Loops.                                                                  *)
(***************************************************************************)
\* n steps from a value lead somewhere.
LEMMA LoopRuns ==
    ASSUME NEW V, NEW first \in V, NEW n \in Nat, NEW R \in [1 .. n -> [V -> V]]
    PROVE  \E h \in [0 .. n -> V] :
               h[0] = first /\ \A i \in 1 .. n : h[i] = R[i][h[i - 1]]
  <1> DEFINE Runs(k, h) == /\ h \in [0 .. k -> V]
                           /\ \A i \in 0 .. k : h[i] = IF i = 0 THEN first
                                                       ELSE R[i][h[i - 1]]
             S == {k \in Nat : k <= n => \E h : Runs(k, h)}
  <1>1. 0 \in S
    <2>1. Runs(0, [i \in 0 .. 0 |-> first])
      OBVIOUS
    <2>2. QED
      BY <2>1, Zenon
  <1>2. ASSUME NEW k \in Nat, k \in S PROVE k + 1 \in S
    <2> SUFFICES ASSUME k + 1 <= n PROVE \E h : Runs(k + 1, h)
      OBVIOUS
    <2>1. PICK h : Runs(k, h)
      BY <1>2
    <2> DEFINE g == [i \in 0 .. k + 1 |-> IF i = k + 1 THEN R[k + 1][h[k]] ELSE h[i]]
    <2>2. k + 1 \in 1 .. n /\ h[k] \in V
      BY <2>1
    <2>3. R[k + 1] \in [V -> V]
      BY <2>2
    <2>4. g \in [0 .. k + 1 -> V]
      <3>1. \A i \in 0 .. k + 1 : i # k + 1 => h[i] \in V
        BY <2>1
      <3>2. R[k + 1][h[k]] \in V
        BY <2>2, <2>3
      <3>3. QED
        BY <3>1, <3>2
    <2>5. ASSUME NEW i \in 0 .. k + 1
          PROVE  g[i] = IF i = 0 THEN first ELSE R[i][g[i - 1]]
      <3>1. CASE i = k + 1
        BY <3>1
      <3>2. CASE i # k + 1
        <4>1. i \in 0 .. k /\ (i # 0 => i - 1 \in 0 .. k)
          BY <3>2
        <4>2. h[i] = IF i = 0 THEN first ELSE R[i][h[i - 1]]
          BY <2>1, <4>1
        <4>3. QED
          BY <3>2, <4>1, <4>2
      <3>3. QED
        BY <3>1, <3>2
    <2> HIDE DEF g
    <2>6. QED
      BY <2>4, <2>5
  <1> HIDE DEF S
  <1>3. Nat \subseteq S
    BY <1>1, <1>2, Induction
  <1>4. PICK h : Runs(n, h)
    BY <1>3 DEF S
  <1>5. h[0] = first /\ \A i \in 1 .. n : h[i] = R[i][h[i - 1]]
    BY <1>4
  <1>6. QED
    BY <1>4, <1>5

\* And whatever takes these steps stays in V.
LEMMA LoopTyped ==
    ASSUME NEW V, NEW n \in Nat, NEW f, f[0] \in V,
           \A i \in 1 .. n : f[i - 1] \in V => f[i] \in V
    PROVE  \A i \in 0 .. n : f[i] \in V
  <1> DEFINE S == {i \in Nat : i <= n => f[i] \in V}
  <1>1. 0 \in S
    OBVIOUS
  <1>2. ASSUME NEW k \in Nat, k \in S PROVE k + 1 \in S
    <2> SUFFICES ASSUME k + 1 <= n PROVE f[k + 1] \in V
      OBVIOUS
    <2>1. k + 1 \in 1 .. n /\ (k + 1) - 1 = k /\ f[k] \in V
      BY <1>2
    <2>2. QED
      BY <2>1
  <1> HIDE DEF S
  <1>3. Nat \subseteq S
    BY <1>1, <1>2, Induction
  <1>4. QED
    BY <1>3 DEF S

\* The sum of numbers, one after the other.
LEMMA TrueSumSteps ==
    ASSUME NEW s, Len(s) \in Nat, \A i \in 1 .. Len(s) : s[i] \in Int
    PROVE  \E h \in [0 .. Len(s) -> Int] :
               /\ TrueSum(s) = h[Len(s)]
               /\ h[0] = 0
               /\ \A i \in 1 .. Len(s) : h[i] = h[i - 1] + s[i]
  <1> DEFINE n == Len(s)
             Is(f) == f = [i \in 0 .. n |-> IF i = 0 THEN 0 ELSE f[i - 1] + s[i]]
             R == [i \in 1 .. n |-> [x \in Int |-> x + s[i]]]
             V == Int
  <1>1. R \in [1 .. n -> [V -> V]]
    OBVIOUS
  <1>2. \A i \in 1 .. n : \A x \in Int : R[i][x] = x + s[i]
    OBVIOUS
  <1>3. \E h \in [0 .. n -> V] :
            h[0] = 0 /\ \A i \in 1 .. n : h[i] = R[i][h[i - 1]]
    <2>1. 0 \in V /\ n \in Nat
      OBVIOUS
    <2> HIDE DEF n, R, V
    <2>2. QED
      BY <1>1, <2>1, LoopRuns
  <1> HIDE DEF R
  <1>4. PICK h \in [0 .. n -> V] :
            h[0] = 0 /\ \A i \in 1 .. n : h[i] = R[i][h[i - 1]]
    BY <1>3
  <1>5. Is(h)
    <2> SUFFICES ASSUME NEW i \in 0 .. n, i # 0 PROVE h[i] = h[i - 1] + s[i]
      BY <1>4
    <2>1. i \in 1 .. n /\ i - 1 \in 0 .. n
      OBVIOUS
    <2>2. QED
      BY <1>2, <1>4, <2>1
  <1> DEFINE f == CHOOSE f : Is(f)
  <1>6. Is(f)
    BY <1>5, Zenon
  <1>7. TrueSum(s) = f[n]
    BY DEF TrueSum
  <1> HIDE DEF f
  <1>8. f[0] = 0 /\ \A i \in 1 .. n : f[i] = f[i - 1] + s[i]
    BY <1>6
  <1>9. \A i \in 0 .. n : f[i] \in Int
    <2>1. f[0] \in V /\ \A i \in 1 .. n : f[i - 1] \in V => f[i] \in V
      BY <1>8
    <2>2. n \in Nat
      OBVIOUS
    <2> HIDE DEF n, V
    <2>3. \A i \in 0 .. n : f[i] \in V
      BY <2>1, <2>2, LoopTyped
    <2>4. QED
      BY <2>3 DEF V
  <1>10. f \in [0 .. n -> Int]
    BY <1>6, <1>9
  <1>11. QED
    BY <1>7, <1>8, <1>10

\* Numbers in two digits.
LEMMA TwoDigits ==
    ASSUME NEW d \in Nat \ {0}, NEW a \in 0 .. d - 1, NEW c \in 0 .. d - 1,
           NEW p \in Int, NEW q \in Int, p * d + a = q * d + c
    PROVE  a = c /\ p = q
  <1>1. ASSUME NEW x \in Int, NEW y \in Int, x < y PROVE x * d + d <= y * d
    <2>1. y - x - 1 \in Nat
      BY <1>1
    <2>2. (y - x - 1) * d \in Nat
      BY <2>1
    <2>3. y * d = (x * d) + d + ((y - x - 1) * d)
      BY <1>1
    <2>4. x * d \in Int /\ y * d \in Int
      OBVIOUS
    <2>5. QED
      BY <2>2, <2>3, <2>4
  <1>2. p < q => p * d + d <= q * d
    BY <1>1
  <1>3. q < p => q * d + d <= p * d
    BY <1>1
  <1>4. p * d \in Int /\ q * d \in Int
    OBVIOUS
  <1>5. p = q
    BY <1>2, <1>3, <1>4
  <1>6. QED
    BY <1>4, <1>5

\* Division by d, of a number that is told by its digits.
LEMMA DivisionIs ==
    ASSUME NEW d \in Nat \ {0}, NEW a \in 0 .. d - 1, NEW p \in Nat
    PROVE  (p * d + a) \div d = p /\ (p * d + a) % d = a
  <1> DEFINE n == p * d + a
             k == n \div d
             e == n % d
  <1>1. n \in Nat
    <2>1. p * d \in Nat
      OBVIOUS
    <2>2. QED
      BY <2>1
  <1> HIDE DEF n
  <1>2. n = d * k + e /\ e \in 0 .. d - 1 /\ k \in Int
    BY <1>1
  <1> HIDE DEF k, e
  <1>3. k * d + e = p * d + a
    BY <1>2 DEF n
  <1>4. e = a /\ k = p
    BY <1>2, <1>3, TwoDigits
  <1>5. QED
    BY <1>4 DEF n, k, e

\* What an int holds, int arithmetic leaves.
LEMMA WrapKeeps ==
    ASSUME NEW x \in Int
    PROVE  Wrap(x) \in Ints /\ (x \in Ints => Wrap(x) = x)
  <1> DEFINE m == MaxInt + 1
             d == 2 * m
             y == x + m
  <1>1. MaxInt \in Nat \ {0} /\ m \in Nat \ {0} /\ d \in Nat \ {0} /\ y \in Int
    BY ScatterGatherAssumption
  <1>2. Wrap(x) = (y % d) - m
    BY <1>1 DEF Wrap
  <1>3. Ints = -m .. m - 1
    BY <1>1 DEF Ints
  <1> HIDE DEF d
  <1>4. y % d \in 0 .. d - 1
    <2> HIDE DEF y
    <2>1. QED
      BY <1>1
  <1>5. Wrap(x) \in Ints
    BY <1>1, <1>2, <1>3, <1>4 DEF d
  <1>6. ASSUME x \in Ints PROVE Wrap(x) = x
    <2>1. y \in 0 .. d - 1
      BY <1>1, <1>3, <1>6 DEF d
    <2> HIDE DEF y
    <2>2. (0 * d + y) % d = y /\ 0 * d + y = y
      BY <1>1, <2>1, DivisionIs
    <2>3. y % d = y
      BY <2>2, Zenon
    <2>4. QED
      BY <1>1, <1>2, <2>3 DEF y
  <1>7. QED
    BY <1>5, <1>6

\* The sum of ints, in int arithmetic.
LEMMA SumSteps ==
    ASSUME NEW s, Len(s) \in Nat, \A i \in 1 .. Len(s) : s[i] \in Int
    PROVE  \E h \in [0 .. Len(s) -> Ints] :
               /\ Sum(s) = h[Len(s)]
               /\ h[0] = 0
               /\ \A i \in 1 .. Len(s) : h[i] = Wrap(h[i - 1] + s[i])
  <1> DEFINE n == Len(s)
             Is(f) == f = [i \in 0 .. n |-> IF i = 0 THEN 0 ELSE Wrap(f[i - 1] + s[i])]
             R == [i \in 1 .. n |-> [x \in Ints |-> Wrap(x + s[i])]]
  <1>1. R \in [1 .. n -> [Ints -> Ints]]
    <2>1. \A i \in 1 .. n : \A x \in Ints : x + s[i] \in Int
      BY DEF Ints
    <2>2. QED
      BY <2>1, WrapKeeps
  <1>2. \A i \in 1 .. n : \A x \in Ints : R[i][x] = Wrap(x + s[i])
    OBVIOUS
  <1>3. 0 \in Ints
    BY ScatterGatherAssumption DEF Ints
  <1>4. \E h \in [0 .. n -> Ints] :
            h[0] = 0 /\ \A i \in 1 .. n : h[i] = R[i][h[i - 1]]
    <2>1. n \in Nat
      OBVIOUS
    <2> HIDE DEF n, R
    <2>2. QED
      BY <1>1, <1>3, <2>1, LoopRuns
  <1> HIDE DEF R
  <1>5. PICK h \in [0 .. n -> Ints] :
            h[0] = 0 /\ \A i \in 1 .. n : h[i] = R[i][h[i - 1]]
    BY <1>4
  <1>6. Is(h)
    <2> SUFFICES ASSUME NEW i \in 0 .. n, i # 0 PROVE h[i] = Wrap(h[i - 1] + s[i])
      BY <1>5
    <2>1. i \in 1 .. n /\ i - 1 \in 0 .. n
      OBVIOUS
    <2>2. QED
      BY <1>2, <1>5, <2>1
  <1> DEFINE f == CHOOSE f : Is(f)
  <1>7. Is(f)
    BY <1>6, Zenon
  <1>8. Sum(s) = f[n]
    BY DEF Sum
  <1> HIDE DEF f
  <1>9. f[0] = 0 /\ \A i \in 1 .. n : f[i] = Wrap(f[i - 1] + s[i])
    BY <1>7
  <1>10. \A i \in 0 .. n : f[i] \in Ints
    <2>1. \A i \in 1 .. n : \A x \in Ints : x + s[i] \in Int
      BY DEF Ints
    <2>2. f[0] \in Ints /\ \A i \in 1 .. n : f[i - 1] \in Ints => f[i] \in Ints
      BY <1>3, <1>9, <2>1, WrapKeeps
    <2>3. n \in Nat
      OBVIOUS
    <2> HIDE DEF n
    <2>4. QED
      BY <2>2, <2>3, LoopTyped
  <1>11. f \in [0 .. n -> Ints]
    BY <1>7, <1>10
  <1>12. QED
    BY <1>8, <1>9, <1>11
-----------------------------------------------------------------------------
(***************************************************************************)
(* The blocks.                                                             *)
(***************************************************************************)
\* Each block begins where the one before ends.
LEMMA DisplsSteps ==
    K \in Nat \ {0} /\ N[root] \in Nat =>
        /\ displs[0] = 0
        /\ \A r \in 1 .. K : displs[r] = displs[r - 1] + Count(N[root], r - 1)
  <1> DEFINE count(i) == Count(N[root], i)
             Is(f) == f = [r \in 0 .. K |-> IF r = 0 THEN 0 ELSE f[r - 1] + count(r - 1)]
             R == [i \in 1 .. K |-> [x \in Int |-> x + count(i - 1)]]
             V == Int
  <1>1. SUFFICES ASSUME K \in Nat \ {0}, N[root] \in Nat
                 PROVE  /\ displs[0] = 0
                        /\ \A r \in 1 .. K : displs[r] = displs[r - 1] + count(r - 1)
    OBVIOUS
  <1>2. \A i \in 0 .. K : count(i) \in Nat
    BY <1>1 DEF Count
  <1> HIDE DEF count
  <1>3. R \in [1 .. K -> [V -> V]]
    BY <1>1, <1>2
  <1>4. \A i \in 1 .. K : \A x \in Int : R[i][x] = x + count(i - 1)
    OBVIOUS
  <1>5. \E h \in [0 .. K -> V] :
            h[0] = 0 /\ \A i \in 1 .. K : h[i] = R[i][h[i - 1]]
    <2>1. 0 \in V /\ K \in Nat
      BY <1>1
    <2> HIDE DEF R, V
    <2>2. QED
      BY <1>3, <2>1, LoopRuns
  <1> HIDE DEF R
  <1>6. PICK h \in [0 .. K -> V] :
            h[0] = 0 /\ \A i \in 1 .. K : h[i] = R[i][h[i - 1]]
    BY <1>5
  <1>7. Is(h)
    <2> SUFFICES ASSUME NEW i \in 0 .. K, i # 0 PROVE h[i] = h[i - 1] + count(i - 1)
      BY <1>6
    <2>1. i \in 1 .. K /\ i - 1 \in 0 .. K
      BY <1>1
    <2>2. QED
      BY <1>4, <1>6, <2>1
  <1> DEFINE f == CHOOSE f : Is(f)
  <1>8. Is(f)
    BY <1>7, Zenon
  <1>9. displs = f
    BY DEF displs, count
  <1> HIDE DEF f
  <1>10. QED
    BY <1>1, <1>8, <1>9

\* Where they begin, in numbers: the first ones have an item more.  So together
\* they are all the items, in their order.
LEMMA BlocksDivide ==
    ASSUME K \in Nat \ {0}, N[root] \in Nat
    PROVE  /\ displs[0] = 0 /\ displs[K] = N[root]
           /\ \A r \in Processes :
                  /\ Count(N[root], r) \in Nat
                  /\ displs[r] \in 0 .. N[root] /\ displs[r + 1] \in 0 .. N[root]
                  /\ displs[r + 1] = displs[r] + Count(N[root], r)
  <1> DEFINE n == N[root]
             q == n \div K
             e == n % K
             least(r) == IF r < e THEN r ELSE e
  <1>1. /\ displs[0] = 0
        /\ \A r \in 1 .. K : displs[r] = displs[r - 1] + Count(n, r - 1)
    BY DisplsSteps
  <1>2. n = K * q + e /\ q \in Nat /\ e \in 0 .. K - 1
    <2>1. n \in Nat
      OBVIOUS
    <2> HIDE DEF n
    <2>2. QED
      BY <2>1
  <1>3. \A r : Count(n, r) = IF r < e THEN q + 1 ELSE q
    BY DEF Count
  <1> HIDE DEF n, q, e
  <1> DEFINE S == {r \in Nat : r <= K => displs[r] = r * q + least(r)}
  <1>4. 0 \in S
    BY <1>1, <1>2
  <1>5. ASSUME NEW r \in Nat, r \in S PROVE r + 1 \in S
    <2> SUFFICES ASSUME r + 1 <= K PROVE displs[r + 1] = (r + 1) * q + least(r + 1)
      OBVIOUS
    <2>1. r + 1 \in 1 .. K /\ (r + 1) - 1 = r /\ displs[r] = r * q + least(r)
      BY <1>5
    <2>2. displs[r + 1] = (r * q + least(r)) + Count(n, r)
      BY <1>1, <2>1
    <2>3. (r + 1) * q = (r * q) + q /\ r * q \in Nat
      BY <1>2
    <2>4. QED
      BY <1>2, <1>3, <2>2, <2>3
  <1> HIDE DEF S
  <1>6. Nat \subseteq S
    BY <1>4, <1>5, Induction
  <1>7. \A r \in 0 .. K : displs[r] = r * q + least(r)
    BY <1>6 DEF S
  <1>8. displs[K] = n
    BY <1>2, <1>7
  <1>9. \A r \in 0 .. K : displs[r] \in 0 .. n
    <2> SUFFICES ASSUME NEW r \in 0 .. K PROVE displs[r] \in 0 .. n
      OBVIOUS
    <2>1. K - r \in Nat
      OBVIOUS
    <2>2. (K - r) * q \in Nat /\ r * q \in Nat
      BY <1>2, <2>1
    <2>3. K * q = (r * q) + ((K - r) * q)
      BY <1>2
    <2>4. QED
      BY <1>2, <1>7, <2>2, <2>3
  <1>10. ASSUME NEW r \in Processes
         PROVE  /\ Count(n, r) \in Nat
                /\ displs[r] \in 0 .. n /\ displs[r + 1] \in 0 .. n
                /\ displs[r + 1] = displs[r] + Count(n, r)
    <2>1. r \in 0 .. K /\ r + 1 \in 1 .. K /\ r + 1 \in 0 .. K /\ (r + 1) - 1 = r
      BY DEF Processes
    <2>2. Count(n, r) \in Nat
      BY <1>2, <1>3
    <2>3. QED
      BY <1>1, <1>9, <2>1, <2>2
  <1>11. QED
    BY <1>1, <1>8, <1>10 DEF n

\* Every item is in a block.
LEMMA BlocksCover ==
    ASSUME K \in Nat \ {0}, N[root] \in Nat, NEW i \in 1 .. N[root]
    PROVE  \E r \in Processes : i > displs[r] /\ i <= displs[r + 1]
  <1>1. /\ displs[0] = 0 /\ displs[K] = N[root]
        /\ \A r \in Processes : displs[r] \in Int /\ displs[r + 1] \in Int
    BY BlocksDivide
  <1> DEFINE S == {r \in Nat : r <= K /\ i <= displs[r] =>
                          \E c \in Processes : i > displs[c] /\ i <= displs[c + 1]}
  <1>2. 0 \in S
    BY <1>1
  <1>3. ASSUME NEW r \in Nat, r \in S PROVE r + 1 \in S
    <2> SUFFICES ASSUME r + 1 <= K, i <= displs[r + 1]
                 PROVE  \E c \in Processes : i > displs[c] /\ i <= displs[c + 1]
      OBVIOUS
    <2>1. r \in Processes
      BY DEF Processes
    <2>2. CASE i <= displs[r]
      BY <1>3, <2>2
    <2>3. CASE ~(i <= displs[r])
      BY <1>1, <2>1, <2>3
    <2>4. QED
      BY <2>2, <2>3
  <1> HIDE DEF S
  <1>4. Nat \subseteq S
    BY <1>2, <1>3, Induction
  <1>5. K \in S /\ K <= K /\ i <= displs[K]
    BY <1>1, <1>4
  <1>6. QED
    BY <1>5 DEF S
-----------------------------------------------------------------------------
(***************************************************************************)
(* The collapse of a number.                                               *)
(***************************************************************************)
LEMMA QuotRem ==
    ASSUME NEW x \in Int
    PROVE  /\ Quot(x) \in Int /\ Rem(x) \in Int /\ x = 10 * Quot(x) + Rem(x)
           /\ x >= 0 => Quot(x) \in 0 .. x /\ Rem(x) \in 0 .. 9
           /\ x < 0 => Quot(x) \in x .. 0 /\ Rem(x) \in -9 .. 0
           /\ x > 0 => Quot(x) < x
           /\ x < 0 => x < Quot(x)
           /\ Quot(x) > 0 <=> x > 9
  BY DEF Quot, Rem

\* The digits of a number that an int holds, or is below it, can be added up.
Collapses(f, m) == \A x \in -m .. m : f[x] = IF x = 0 THEN 0 ELSE Rem(x) + f[Quot(x)]

LEMMA CollapseExists == \A m \in Nat : \E f : Collapses(f, m)
  <1> DEFINE S == {m \in Nat : \E f : Collapses(f, m)}
  <1>1. 0 \in S
    <2>1. Collapses([x \in {0} |-> 0], 0)
      BY DEF Collapses
    <2>2. QED
      BY <2>1
  <1>2. ASSUME NEW m \in Nat, m \in S PROVE m + 1 \in S
    <2>1. PICK f : Collapses(f, m)
      BY <1>2
    <2> DEFINE g == [x \in -(m + 1) .. m + 1 |->
                        IF x \in -m .. m THEN f[x] ELSE Rem(x) + f[Quot(x)]]
    <2>2. ASSUME NEW x \in -(m + 1) .. m + 1
          PROVE  g[x] = IF x = 0 THEN 0 ELSE Rem(x) + g[Quot(x)]
      <3>1. x # 0 => Quot(x) \in -m .. m /\ Quot(x) \in -(m + 1) .. m + 1
        <4>1. x \in Int /\ -(m + 1) <= x /\ x <= m + 1
          OBVIOUS
        <4> DEFINE k == Quot(x)
        <4>2. k \in Int /\ (x > 0 => 0 <= k /\ k < x) /\ (x < 0 => k <= 0 /\ x < k)
          BY <4>1, QuotRem
        <4> HIDE DEF k
        <4>3. x # 0 => -m <= k /\ k <= m
          BY <4>1, <4>2
        <4>4. QED
          BY <4>2, <4>3 DEF k
      <3>2. x # 0 => g[Quot(x)] = f[Quot(x)]
        BY <3>1
      <3>3. CASE x \in -m .. m
        BY <2>1, <3>2, <3>3 DEF Collapses
      <3>4. CASE x \notin -m .. m
        BY <3>2, <3>4
      <3>5. QED
        BY <3>3, <3>4
    <2> HIDE DEF g
    <2>3. Collapses(g, m + 1)
      BY <2>2 DEF Collapses
    <2>4. QED
      BY <2>3
  <1> HIDE DEF S
  <1>3. Nat \subseteq S
    BY <1>1, <1>2, Induction
  <1>4. QED
    BY <1>3 DEF S

LEMMA IntsAre ==
    /\ MaxInt \in Nat \ {0} /\ Ints = -(MaxInt + 1) .. MaxInt
    /\ 0 \in Ints /\ \A x \in Ints : Quot(x) \in Ints
  <1>1. MaxInt \in Nat \ {0} /\ Ints = -(MaxInt + 1) .. MaxInt
    BY ScatterGatherAssumption DEF Ints
  <1>2. ASSUME NEW x \in Ints PROVE Quot(x) \in Ints
    <2>1. x \in Int /\ -(MaxInt + 1) <= x /\ x <= MaxInt
      BY <1>1
    <2> DEFINE k == Quot(x)
    <2>2. k \in Int /\ (x >= 0 => 0 <= k /\ k <= x) /\ (x < 0 => k <= 0 /\ x <= k)
      <3>1. k \in Int /\ (x >= 0 => k \in 0 .. x) /\ (x < 0 => k \in x .. 0)
        BY <2>1, QuotRem
      <3> HIDE DEF k
      <3>2. QED
        BY <2>1, <3>1
    <2> HIDE DEF k
    <2>3. k \in Ints
      BY <1>1, <2>1, <2>2
    <2>4. QED
      BY <2>3 DEF k
  <1>3. QED
    BY <1>1, <1>2

LEMMA CollapseIs ==
    \A x \in Ints : collapse[x] = IF x = 0 THEN 0 ELSE Rem(x) + collapse[Quot(x)]
  <1> DEFINE Is(f) == f = [x \in Ints |-> IF x = 0 THEN 0 ELSE Rem(x) + f[Quot(x)]]
  <1>1. PICK f : Collapses(f, MaxInt + 1)
    <2>1. MaxInt + 1 \in Nat
      BY IntsAre
    <2>2. QED
      BY <2>1, CollapseExists
  <1> DEFINE h == [x \in Ints |-> f[x]]
  <1>2. ASSUME NEW x \in Ints PROVE h[x] = IF x = 0 THEN 0 ELSE Rem(x) + h[Quot(x)]
    <2>1. x \in -(MaxInt + 1) .. MaxInt + 1 /\ Quot(x) \in Ints
      BY IntsAre
    <2>2. h[x] = f[x] /\ h[Quot(x)] = f[Quot(x)]
      BY <2>1
    <2>3. QED
      BY <1>1, <2>1, <2>2 DEF Collapses
  <1>3. h = [x \in Ints |-> h[x]]
    OBVIOUS
  <1> HIDE DEF h
  <1>4. Is(h)
    BY <1>2, <1>3
  <1>5. Is(CHOOSE g : Is(g))
    BY <1>4, Zenon
  <1>6. Is(collapse)
    BY <1>5 DEF collapse
  <1>7. QED
    BY <1>6

\* The sum of the digits is not above the number, is not 0 unless the number
\* is, and leaves the same when divided by 9.
LEMMA CollapseFacts ==
    \A x \in Ints :
        /\ collapse[x] \in Ints
        /\ x < 0 => x <= collapse[x] /\ collapse[x] <= 0
        /\ x >= 0 => /\ 0 <= collapse[x] /\ collapse[x] <= x
                     /\ x > 0 => collapse[x] > 0
                     /\ x <= 9 => collapse[x] = x
                     /\ x > 9 => collapse[x] < x
                     /\ \E q \in Int : x = collapse[x] + 9 * q
  <1> DEFINE Good(x) ==
        /\ collapse[x] \in Int
        /\ x < 0 => x <= collapse[x] /\ collapse[x] <= 0
        /\ x >= 0 => /\ 0 <= collapse[x] /\ collapse[x] <= x
                     /\ x > 0 => collapse[x] > 0
                     /\ x <= 9 => collapse[x] = x
                     /\ x > 9 => collapse[x] < x
                     /\ \E q \in Int : x = collapse[x] + 9 * q
             S == {m \in Nat : \A x \in Ints : -m <= x /\ x <= m => Good(x)}
  <1>1. Ints \subseteq Int
    BY IntsAre
  <1>2. Good(0)
    <2>1. collapse[0] = 0
      BY CollapseIs, IntsAre
    <2>2. 0 = 0 + 9 * 0
      OBVIOUS
    <2>3. QED
      BY <2>1, <2>2
  <1>3. 0 \in S
    BY <1>1, <1>2
  <1>4. ASSUME NEW m \in Nat, m \in S PROVE m + 1 \in S
    <2> HIDE DEF Good
    <2> SUFFICES ASSUME NEW x \in Ints, -(m + 1) <= x, x <= m + 1, x # 0 PROVE Good(x)
      BY <1>2
    <2> DEFINE k == Quot(x)
               e == Rem(x)
    <2>1. /\ k \in Int /\ e \in Int /\ x \in Int /\ x = 10 * k + e
          /\ x >= 0 => k \in 0 .. x /\ e \in 0 .. 9
          /\ x < 0 => k \in x .. 0 /\ e \in -9 .. 0
          /\ x > 0 => k < x
          /\ x < 0 => x < k
      BY <1>1, QuotRem
    <2>2. collapse[x] = e + collapse[k]
      BY CollapseIs
    <2>3. k \in Ints
      BY IntsAre
    <2> HIDE DEF k, e
    <2>4. -m <= k /\ k <= m
      BY <2>1
    <2>5. Good(k)
      BY <1>4, <2>3, <2>4
    <2>6. collapse[k] \in Int /\ collapse[x] \in Int
      BY <2>1, <2>2, <2>5 DEF Good
    <2>7. x < 0 => x <= collapse[x] /\ collapse[x] <= 0
      BY <2>1, <2>2, <2>5 DEF Good
    <2>8. ASSUME x >= 0
          PROVE  /\ 0 <= collapse[x] /\ collapse[x] <= x
                 /\ x > 0 => collapse[x] > 0
                 /\ x <= 9 => collapse[x] = x
                 /\ x > 9 => collapse[x] < x
      BY <2>1, <2>2, <2>5, <2>8 DEF Good
    <2>9. ASSUME x >= 0 PROVE \E q \in Int : x = collapse[x] + 9 * q
      <3>1. PICK q \in Int : k = collapse[k] + 9 * q
        BY <2>1, <2>5, <2>9 DEF Good
      <3>2. x = collapse[x] + 9 * (q + k) /\ q + k \in Int
        BY <2>1, <2>2, <2>6, <3>1
      <3>3. QED
        BY <3>2
    <2>10. QED
      BY <2>6, <2>7, <2>8, <2>9 DEF Good
  <1> HIDE DEF S, Good
  <1>5. Nat \subseteq S
    BY <1>3, <1>4, Induction
  <1>6. \A x \in Ints : Good(x)
    <2>1. MaxInt + 1 \in S
      BY <1>5, IntsAre
    <2>2. QED
      BY <2>1, IntsAre DEF S
  <1>7. ASSUME NEW x \in Ints PROVE collapse[x] \in Ints
    <2> DEFINE c == collapse[x]
    <2>1. x \in Int /\ -(MaxInt + 1) <= x /\ x <= MaxInt
      BY IntsAre
    <2>2. c \in Int /\ (x < 0 => x <= c /\ c <= 0) /\ (x >= 0 => 0 <= c /\ c <= x)
      BY <1>6 DEF Good
    <2> HIDE DEF c
    <2>3. c \in Ints
      BY <2>1, <2>2, IntsAre
    <2>4. QED
      BY <2>3 DEF c
  <1>8. QED
    BY <1>6, <1>7 DEF Good

\* A number is collapsed until it is a digit.
Collapsed(f, m) ==
    \A x \in Ints : x <= m => f[x] = IF Quot(x) > 0 THEN f[collapse[x]] ELSE x

LEMMA Collapsing ==
    ASSUME NEW x \in Ints
    PROVE  /\ x \in Int /\ x <= MaxInt /\ (Quot(x) > 0 <=> x > 9)
           /\ collapse[x] \in Ints /\ collapse[x] \in Int
           /\ x > 9 => collapse[x] < x
  <1>1. x \in Int /\ x <= MaxInt
    BY IntsAre
  <1>2. Quot(x) > 0 <=> x > 9
    BY <1>1, QuotRem
  <1>3. collapse[x] \in Ints
    BY CollapseFacts
  <1>4. collapse[x] \in Int
    BY <1>3, IntsAre
  <1>5. x > 9 => collapse[x] < x
    <2>1. x >= 0 /\ x > 9 => collapse[x] < x
      BY CollapseFacts
    <2>2. QED
      BY <1>1, <2>1
  <1>6. QED
    BY <1>1, <1>2, <1>3, <1>4, <1>5

LEMMA CollapsedExists == \A m \in Nat : \E f : Collapsed(f, m)
  <1> DEFINE S == {m \in Nat : \E f : Collapsed(f, m)}
  <1>1. 0 \in S
    <2>1. Collapsed([x \in Ints |-> x], 0)
      BY Collapsing DEF Collapsed
    <2>2. QED
      BY <2>1
  <1>2. ASSUME NEW m \in Nat, m \in S PROVE m + 1 \in S
    <2>1. PICK f : Collapsed(f, m)
      BY <1>2
    <2> DEFINE g == [x \in Ints |->
                        IF x <= m THEN f[x]
                        ELSE IF Quot(x) > 0 THEN f[collapse[x]] ELSE x]
    <2>2. ASSUME NEW x \in Ints, x <= m + 1
          PROVE  g[x] = IF Quot(x) > 0 THEN g[collapse[x]] ELSE x
      <3>1. /\ x \in Int /\ collapse[x] \in Ints /\ collapse[x] \in Int
            /\ Quot(x) > 0 => collapse[x] < x
        BY Collapsing
      <3>2. Quot(x) > 0 => collapse[x] <= m
        BY <2>2, <3>1
      <3>3. Quot(x) > 0 => g[collapse[x]] = f[collapse[x]]
        BY <3>1, <3>2
      <3>4. CASE x <= m
        BY <2>1, <3>3, <3>4 DEF Collapsed
      <3>5. CASE ~(x <= m)
        BY <3>3, <3>5
      <3>6. QED
        BY <3>4, <3>5
    <2> HIDE DEF g
    <2>3. Collapsed(g, m + 1)
      BY <2>2 DEF Collapsed
    <2>4. QED
      BY <2>3
  <1> HIDE DEF S
  <1>3. Nat \subseteq S
    BY <1>1, <1>2, Induction
  <1>4. QED
    BY <1>3 DEF S

LEMMA UltimateIs ==
    \A x \in Ints : ultimate_collapse[x] =
                        IF Quot(x) > 0 THEN ultimate_collapse[collapse[x]] ELSE x
  <1> DEFINE Is(f) == f = [x \in Ints |-> IF Quot(x) > 0 THEN f[collapse[x]] ELSE x]
  <1>1. PICK f : Collapsed(f, MaxInt)
    <2>1. MaxInt \in Nat
      BY IntsAre
    <2>2. QED
      BY <2>1, CollapsedExists
  <1> DEFINE h == [x \in Ints |-> f[x]]
  <1>2. ASSUME NEW x \in Ints PROVE h[x] = IF Quot(x) > 0 THEN h[collapse[x]] ELSE x
    <2>1. x <= MaxInt /\ collapse[x] \in Ints
      BY Collapsing
    <2>2. h[x] = f[x] /\ h[collapse[x]] = f[collapse[x]]
      BY <2>1
    <2>3. QED
      BY <1>1, <2>1, <2>2 DEF Collapsed
  <1>3. h = [x \in Ints |-> h[x]]
    OBVIOUS
  <1> HIDE DEF h
  <1>4. Is(h)
    BY <1>2, <1>3
  <1>5. Is(CHOOSE g : Is(g))
    BY <1>4, Zenon
  <1>6. Is(ultimate_collapse)
    BY <1>5 DEF ultimate_collapse
  <1>7. QED
    BY <1>6

\* What is left is the number itself, up to 9, and else a digit that leaves the
\* same when divided by 9.  No further collapse changes it.
LEMMA UltimateFacts ==
    \A x \in Ints :
        /\ ultimate_collapse[x] \in Ints
        /\ x >= 0 => /\ 0 <= ultimate_collapse[x] /\ ultimate_collapse[x] <= 9
                     /\ ultimate_collapse[x] <= x
                     /\ x > 0 => ultimate_collapse[x] > 0
                     /\ \E q \in Int : x = ultimate_collapse[x] + 9 * q
  <1> DEFINE Good(x) ==
        /\ ultimate_collapse[x] \in Ints
        /\ x >= 0 => /\ 0 <= ultimate_collapse[x] /\ ultimate_collapse[x] <= 9
                     /\ ultimate_collapse[x] <= x
                     /\ x > 0 => ultimate_collapse[x] > 0
                     /\ \E q \in Int : x = ultimate_collapse[x] + 9 * q
             S == {m \in Nat : \A x \in Ints : x <= m => Good(x)}
  <1>1. ASSUME NEW x \in Ints, x <= 9 PROVE Good(x)
    <2>1. x \in Int /\ ultimate_collapse[x] = x
      BY <1>1, Collapsing, UltimateIs
    <2>2. x = x + 9 * 0
      BY <2>1
    <2>3. \E q \in Int : x = x + 9 * q
      BY <2>2
    <2>4. QED
      BY <1>1, <2>1, <2>3
  <1>2. 0 \in S
    <2>1. \A x \in Ints : x <= 0 => x <= 9
      BY Collapsing
    <2> HIDE DEF Good
    <2>2. QED
      BY <1>1, <2>1
  <1>3. ASSUME NEW m \in Nat, m \in S PROVE m + 1 \in S
    <2> HIDE DEF Good
    <2> SUFFICES ASSUME NEW x \in Ints, x <= m + 1, ~(x <= 9) PROVE Good(x)
      BY <1>1
    <2> DEFINE c == collapse[x]
               d == ultimate_collapse[x]
    <2>1. /\ x \in Int /\ x > 9 /\ Quot(x) > 0 /\ c \in Ints /\ c \in Int /\ c < x
      BY Collapsing
    <2>2. d = ultimate_collapse[c]
      BY <2>1, UltimateIs
    <2>3. /\ 0 <= c /\ c > 0
          /\ \E q \in Int : x = c + 9 * q
      <3>1. x >= 0 /\ x > 0
        BY <2>1
      <3>2. QED
        BY <3>1, CollapseFacts
    <2> HIDE DEF c, d
    <2>4. Good(c)
      BY <1>3, <2>1
    <2>5. d \in Ints /\ 0 <= d /\ d <= 9 /\ d <= c /\ d > 0
      BY <2>1, <2>2, <2>3, <2>4 DEF Good
    <2>6. PICK p \in Int : c = d + 9 * p
      BY <2>1, <2>2, <2>3, <2>4 DEF Good
    <2>7. PICK q \in Int : x = c + 9 * q
      BY <2>3
    <2>8. d \in Int
      BY <2>5, IntsAre
    <2>9. x = d + 9 * (p + q) /\ p + q \in Int
      BY <2>6, <2>7, <2>8
    <2>10. \E r \in Int : x = d + 9 * r
      BY <2>9
    <2>11. d <= x
      BY <2>1, <2>5, <2>8
    <2>12. QED
      BY <2>5, <2>10, <2>11 DEF Good, d
  <1> HIDE DEF S, Good
  <1>4. Nat \subseteq S
    BY <1>2, <1>3, Induction
  <1>5. MaxInt \in S
    BY <1>4, IntsAre
  <1>6. \A x \in Ints : Good(x)
    BY <1>5, Collapsing DEF S
  <1>7. QED
    BY <1>6 DEF Good

\* Such a digit is the digital root.
LEMMA DigitalRoot ==
    ASSUME NEW x \in Nat, NEW d \in Int, 0 <= d, d <= 9, x > 0 => d > 0, x = 0 => d = 0,
           NEW q \in Int, x = d + 9 * q
    PROVE  d = IF x = 0 THEN 0 ELSE 1 + ((x - 1) % 9)
  OBVIOUS
-----------------------------------------------------------------------------
(***************************************************************************)
(* Sums.                                                                   *)
(***************************************************************************)
\* The sums up to each number, which are not below 0, do not fall.
LEMMA SumsGrow ==
    ASSUME NEW n \in Nat, NEW P \in [0 .. n -> Int], NEW s, P[0] = 0,
           \A i \in 1 .. n : s[i] \in Nat /\ P[i] = P[i - 1] + s[i]
    PROVE  \A j \in 0 .. n : \A i \in 0 .. j : 0 <= P[i] /\ P[i] <= P[j]
  <1> DEFINE S == {j \in Nat : j <= n => \A i \in 0 .. j : 0 <= P[i] /\ P[i] <= P[j]}
  <1>1. 0 \in S
    OBVIOUS
  <1>2. ASSUME NEW j \in Nat, j \in S PROVE j + 1 \in S
    <2> SUFFICES ASSUME j + 1 <= n, NEW i \in 0 .. j + 1
                 PROVE  0 <= P[i] /\ P[i] <= P[j + 1]
      OBVIOUS
    <2>1. j + 1 \in 1 .. n /\ (j + 1) - 1 = j /\ j \in 0 .. j /\ j \in 0 .. n
      OBVIOUS
    <2>2. \A k \in 0 .. j : 0 <= P[k] /\ P[k] <= P[j]
      BY <1>2, <2>1
    <2>3. P[j + 1] = P[j] + s[j + 1] /\ s[j + 1] \in Nat /\ P[j] \in Int /\ P[i] \in Int
      BY <2>1
    <2>4. CASE i = j + 1
      BY <2>1, <2>2, <2>3, <2>4
    <2>5. CASE i # j + 1
      <3>1. i \in 0 .. j
        BY <2>5
      <3>2. QED
        BY <2>2, <2>3, <3>1
    <2>6. QED
      BY <2>4, <2>5
  <1> HIDE DEF S
  <1>3. Nat \subseteq S
    BY <1>1, <1>2, Induction
  <1>4. QED
    BY <1>3 DEF S

LEMMA SumTyped ==
    ASSUME NEW s, Len(s) \in Nat, \A i \in 1 .. Len(s) : s[i] \in Int
    PROVE  Sum(s) \in Ints /\ TrueSum(s) \in Int
  <1>1. Sum(s) \in Ints
    <2>1. PICK h \in [0 .. Len(s) -> Ints] : Sum(s) = h[Len(s)]
      BY SumSteps
    <2>2. QED
      BY <2>1
  <1>2. TrueSum(s) \in Int
    <2>1. PICK h \in [0 .. Len(s) -> Int] : TrueSum(s) = h[Len(s)]
      BY TrueSumSteps
    <2>2. QED
      BY <2>1
  <1>3. QED
    BY <1>1, <1>2

\* A sum that fits in an int is what int arithmetic makes.
LEMMA SumFits ==
    ASSUME NEW s, Len(s) \in Nat, \A i \in 1 .. Len(s) : s[i] \in Nat,
           TrueSum(s) <= MaxInt
    PROVE  Sum(s) = TrueSum(s) /\ TrueSum(s) \in 0 .. MaxInt
  <1> DEFINE n == Len(s)
  <1>1. PICK P \in [0 .. n -> Int] : /\ TrueSum(s) = P[n] /\ P[0] = 0
                                     /\ \A i \in 1 .. n : P[i] = P[i - 1] + s[i]
    BY TrueSumSteps
  <1>2. PICK h \in [0 .. n -> Ints] : /\ Sum(s) = h[n] /\ h[0] = 0
                                      /\ \A i \in 1 .. n : h[i] = Wrap(h[i - 1] + s[i])
    BY SumSteps
  <1>3. n \in Nat /\ \A i \in 1 .. n : s[i] \in Nat
    OBVIOUS
  <1>4. P[n] <= MaxInt
    BY <1>1
  <1> HIDE DEF n
  <1>5. \A j \in 0 .. n : \A i \in 0 .. j : 0 <= P[i] /\ P[i] <= P[j]
    BY <1>1, <1>3, SumsGrow
  <1>6. MaxInt \in Nat
    BY IntsAre
  <1>7. \A i \in 0 .. n : P[i] \in 0 .. MaxInt
    <2> SUFFICES ASSUME NEW i \in 0 .. n PROVE P[i] \in 0 .. MaxInt
      OBVIOUS
    <2>1. 0 <= P[i] /\ P[i] <= P[n] /\ P[i] \in Int /\ P[n] \in Int
      BY <1>3, <1>5
    <2>2. QED
      BY <1>4, <1>6, <2>1
  <1>8. \A i \in 0 .. n : P[i] \in Ints
    BY <1>6, <1>7, IntsAre
  <1> DEFINE S == {i \in Nat : i <= n => h[i] = P[i]}
  <1>9. 0 \in S
    BY <1>1, <1>2
  <1>10. ASSUME NEW i \in Nat, i \in S PROVE i + 1 \in S
    <2> SUFFICES ASSUME i + 1 <= n PROVE h[i + 1] = P[i + 1]
      OBVIOUS
    <2>1. i + 1 \in 1 .. n /\ (i + 1) - 1 = i /\ i + 1 \in 0 .. n
      OBVIOUS
    <2>2. h[i] = P[i]
      <3>1. i <= n
        BY <1>3
      <3>2. QED
        BY <1>10, <3>1
    <2>3. h[i + 1] = Wrap(P[i] + s[i + 1]) /\ P[i + 1] = P[i] + s[i + 1]
      BY <1>1, <1>2, <2>1, <2>2
    <2>4. P[i + 1] \in Ints /\ P[i + 1] \in Int
      BY <1>8, <2>1
    <2>5. Wrap(P[i + 1]) = P[i + 1]
      BY <2>4, WrapKeeps
    <2>6. QED
      BY <2>3, <2>5
  <1> HIDE DEF S
  <1>11. Nat \subseteq S
    BY <1>9, <1>10, Induction
  <1>12. h[n] = P[n]
    BY <1>3, <1>11 DEF S
  <1>13. QED
    BY <1>1, <1>2, <1>3, <1>7, <1>12
-----------------------------------------------------------------------------
(***************************************************************************)
(* The rows, or integers, of a rank.                                       *)
(***************************************************************************)
\* A part of a sequence, by the places of its items.
LEMMA PartIs ==
    ASSUME NEW S, NEW s \in Seq(S), NEW a \in 0 .. Len(s), NEW c \in Nat, a + c <= Len(s)
    PROVE  SubSeq(s, a + 1, a + c) = [i \in 1 .. c |-> s[a + i]]
  <1> DEFINE t == SubSeq(s, a + 1, a + c)
  <1>1. a + 1 \in 1 .. Len(s) + 1 /\ a + c \in (a + 1) - 1 .. Len(s)
    OBVIOUS
  <1>2. /\ t \in Seq(S)
        /\ Len(t) = ((a + c) - (a + 1)) + 1
        /\ \A i \in 1 .. ((a + c) - (a + 1)) + 1 : t[i] = s[((a + 1) + i) - 1]
    BY <1>1, SubSeqProperties
  <1>3. ((a + c) - (a + 1)) + 1 = c
    OBVIOUS
  <1> HIDE DEF t
  <1>4. t = [i \in 1 .. c |-> t[i]]
    BY <1>2, <1>3
  <1>5. \A i \in 1 .. c : t[i] = s[a + i]
    BY <1>2, <1>3
  <1>6. QED
    BY <1>4, <1>5 DEF t

Item == IF program = "p6" THEN Pixel ELSE Values

\* What the root has read.
FileOK ==
    /\ program \in {"p5_1", "p5_2", "p5_3", "p6"}
    /\ K \in 1 .. MaxRanks /\ width \in 1 .. MaxWidth
    /\ program # "p6" => width = 1
    /\ N[root] \in 0 .. MaxItems
    /\ input \in Seq(Item) /\ Len(input) = N[root] * width

\* What rank r gets of it.
Rows(r) == [i \in 1 .. Count(N[root], r) * width |-> input[displs[r] * width + i]]

LEMMA RowsFacts ==
    ASSUME FileOK, NEW r \in Processes
    PROVE  /\ K \in Nat \ {0} /\ N[root] \in Nat /\ width \in Nat \ {0}
           /\ Count(N[root], r) \in Nat /\ displs[r] \in Nat
           /\ Count(N[root], r) * width \in Nat /\ displs[r] * width \in Nat
           /\ displs[r] * width + Count(N[root], r) * width
                = (displs[r] + Count(N[root], r)) * width
           /\ displs[r] * width + Count(N[root], r) * width <= Len(input)
           /\ Rows(r) \in Seq(Item) /\ Len(Rows(r)) = Count(N[root], r) * width
  <1>1. K \in Nat \ {0} /\ N[root] \in Nat /\ width \in Nat \ {0}
    BY ScatterGatherAssumption DEF FileOK
  <1> DEFINE d == displs[r]
             c == Count(N[root], r)
             n == N[root]
             w == width
  <1>2. c \in Nat /\ d \in 0 .. n /\ d + c \in 0 .. n
    <2>1. /\ c \in Nat /\ d \in 0 .. n /\ displs[r + 1] \in 0 .. n
          /\ displs[r + 1] = d + c
      BY <1>1, BlocksDivide
    <2>2. QED
      BY <2>1
  <1>3. n \in Nat /\ w \in Nat /\ Len(input) = n * w /\ input \in Seq(Item)
    BY <1>1 DEF FileOK
  <1> DEFINE L == Len(input)
  <1>4. L = n * w
    BY <1>3
  <1> HIDE DEF d, c, n, w, L
  <1>5. c * w \in Nat /\ d * w \in Nat /\ d \in Nat
    BY <1>2, <1>3
  <1>6. d * w + c * w = (d + c) * w
    BY <1>2, <1>3
  <1>7. d * w + c * w <= L
    <2>1. n - (d + c) \in Nat
      BY <1>2, <1>3
    <2>2. (n - (d + c)) * w \in Nat
      BY <1>3, <2>1
    <2>3. n * w = ((d * w) + (c * w)) + ((n - (d + c)) * w)
      BY <1>2, <1>3
    <2>4. QED
      BY <1>4, <1>5, <2>2, <2>3
  <1>8. \A i \in 1 .. c * w : d * w + i \in 1 .. L
    <2>1. L \in Nat
      BY <1>3 DEF L
    <2>2. QED
      BY <1>5, <1>7, <2>1
  <1>9. Rows(r) \in Seq(Item) /\ Len(Rows(r)) = c * w
    <2>1. Rows(r) = [i \in 1 .. c * w |-> input[d * w + i]]
      BY DEF Rows, c, d, w
    <2>2. \A i \in 1 .. c * w : input[d * w + i] \in Item
      BY <1>3, <1>8 DEF L
    <2>3. QED
      BY <1>5, <2>1, <2>2
  <1>10. QED
    BY <1>1, <1>2, <1>5, <1>6, <1>7, <1>9 DEF d, c, n, w, L

\* The scatter hands them out, and a rank takes all of them.
LEMMA RowsScattered ==
    ASSUME FileOK, NEW r \in Processes, N[r] = N[root]
    PROVE  SubSeq(SubSeq(input, displs[r] * width + 1,
                         (displs[r] + Count(N[root], r)) * width),
                  1, Count(N[r], r) * width) = Rows(r)
  <1> DEFINE a == displs[r] * width
             c == Count(N[root], r) * width
             S == Item
  <1>1. /\ c \in Nat /\ a \in Nat /\ a + c <= Len(input)
        /\ a + c = (displs[r] + Count(N[root], r)) * width
        /\ Rows(r) \in Seq(S) /\ Len(Rows(r)) = c
    BY RowsFacts
  <1>2. Rows(r) = [i \in 1 .. c |-> input[a + i]]
    BY DEF Rows
  <1>3. input \in Seq(S) /\ Count(N[r], r) * width = c
    BY DEF FileOK
  <1> HIDE DEF a, c, S
  <1>4. SubSeq(input, a + 1, a + c) = [i \in 1 .. c |-> input[a + i]]
    <2>1. a \in 0 .. Len(input)
      BY <1>1, <1>3
    <2>2. QED
      BY <1>1, <1>3, <2>1, PartIs
  <1> DEFINE t == Rows(r)
  <1>5. SubSeq(t, 1, c) = t
    <2>1. t \in Seq(S) /\ Len(t) = c
      BY <1>1
    <2> HIDE DEF t
    <2>2. 0 \in 0 .. Len(t) /\ 0 + c <= Len(t) /\ 0 + 1 = 1 /\ 0 + c = c
      BY <1>1, <2>1
    <2>3. SubSeq(t, 0 + 1, 0 + c) = [i \in 1 .. c |-> t[0 + i]]
      BY <1>1, <2>1, <2>2, PartIs
    <2>4. \A i \in 1 .. c : 0 + i = i
      BY <1>1
    <2>5. [i \in 1 .. c |-> t[0 + i]] = [i \in 1 .. c |-> t[i]]
      BY <2>4
    <2>6. t = [i \in 1 .. c |-> t[i]]
      BY <2>1
    <2>7. QED
      BY <2>2, <2>3, <2>5, <2>6
  <1>6. QED
    BY <1>1, <1>2, <1>3, <1>4, <1>5 DEF a
-----------------------------------------------------------------------------
(***************************************************************************)
(* The result of p5.                                                       *)
(***************************************************************************)
\* The sum of a part is what the sums up to its end and its begin differ by.
LEMMA PartSum ==
    ASSUME NEW n \in Nat, NEW P \in [0 .. n -> Int],
           NEW a \in 0 .. n, NEW t, Len(t) \in Nat, a + Len(t) <= n,
           \A i \in 1 .. Len(t) : t[i] = P[a + i] - P[(a + i) - 1]
    PROVE  TrueSum(t) = P[a + Len(t)] - P[a]
  <1> DEFINE c == Len(t)
  <1>1. \A i \in 1 .. c : t[i] \in Int
    <2> SUFFICES ASSUME NEW i \in 1 .. c PROVE t[i] \in Int
      OBVIOUS
    <2>1. a + i \in 0 .. n /\ (a + i) - 1 \in 0 .. n
      OBVIOUS
    <2>2. P[a + i] \in Int /\ P[(a + i) - 1] \in Int
      BY <2>1
    <2>3. QED
      BY <2>2
  <1>2. PICK h \in [0 .. c -> Int] : /\ TrueSum(t) = h[c] /\ h[0] = 0
                                     /\ \A i \in 1 .. c : h[i] = h[i - 1] + t[i]
    BY <1>1, TrueSumSteps
  <1>3. c \in Nat /\ a + c <= n /\ \A i \in 1 .. c : t[i] = P[a + i] - P[(a + i) - 1]
    OBVIOUS
  <1> HIDE DEF c
  <1> DEFINE S == {i \in Nat : i <= c => h[i] = P[a + i] - P[a]}
  <1>4. 0 \in S
    <2>1. P[a] \in Int /\ a + 0 = a
      OBVIOUS
    <2>2. QED
      BY <1>2, <2>1
  <1>5. ASSUME NEW i \in Nat, i \in S PROVE i + 1 \in S
    <2> SUFFICES ASSUME i + 1 <= c PROVE h[i + 1] = P[a + (i + 1)] - P[a]
      OBVIOUS
    <2>1. /\ i + 1 \in 1 .. c /\ (i + 1) - 1 = i /\ i <= c /\ a + i \in 0 .. n
          /\ a + (i + 1) \in 1 .. n /\ (a + (i + 1)) - 1 = a + i
      BY <1>3
    <2>2. h[i] = P[a + i] - P[a]
      BY <1>5, <2>1
    <2> DEFINE x == P[a + (i + 1)]
               y == P[a + i]
               z == P[a]
    <2>3. h[i + 1] = h[i] + (x - y)
      BY <1>2, <1>3, <2>1
    <2>4. x \in Int /\ y \in Int /\ z \in Int
      BY <2>1
    <2> HIDE DEF x, y, z
    <2>5. h[i] = y - z
      BY <2>2 DEF y, z
    <2>6. h[i + 1] = x - z
      BY <2>3, <2>4, <2>5
    <2>7. QED
      BY <2>6 DEF x, z
  <1> HIDE DEF S
  <1>6. Nat \subseteq S
    BY <1>4, <1>5, Induction
  <1>7. h[c] = P[a + c] - P[a]
    BY <1>3, <1>6 DEF S
  <1>8. QED
    BY <1>2, <1>7 DEF c

\* The rows of a rank of p5 are its integers.
LEMMA BlockIs ==
    ASSUME FileOK, program # "p6", NEW r \in Processes
    PROVE  /\ Block(r) = Rows(r) /\ Len(Rows(r)) = Count(N[root], r)
           /\ \A i \in 1 .. Count(N[root], r) : Rows(r)[i] = input[displs[r] + i]
           /\ \A i \in 1 .. Count(N[root], r) : Rows(r)[i] \in Nat
  <1> DEFINE a == displs[r]
             c == Count(N[root], r)
             S == Item
  <1>1. width = 1 /\ input \in Seq(S)
    BY DEF FileOK
  <1>2. /\ c \in Nat /\ a \in Nat /\ a * 1 + c * 1 <= Len(input)
        /\ Rows(r) \in Seq(S) /\ Len(Rows(r)) = c * 1
    BY <1>1, RowsFacts
  <1>3. Rows(r) = [i \in 1 .. c * 1 |-> input[a * 1 + i]]
    BY <1>1 DEF Rows
  <1>4. S \subseteq Nat
    BY ScatterGatherAssumption DEF Item
  <1>5. Block(r) = SubSeq(input, a + 1, a + c)
    BY DEF Block
  <1> HIDE DEF a, c, S
  <1>6. c * 1 = c /\ a * 1 = a
    BY <1>2
  <1>7. Rows(r) = [i \in 1 .. c |-> input[a + i]] /\ Len(Rows(r)) = c
    BY <1>2, <1>3, <1>6
  <1>8. SubSeq(input, a + 1, a + c) = [i \in 1 .. c |-> input[a + i]]
    <2>1. a \in 0 .. Len(input) /\ a + c <= Len(input)
      BY <1>1, <1>2, <1>6
    <2>2. QED
      BY <1>1, <1>2, <2>1, PartIs
  <1>9. \A i \in 1 .. c : Rows(r)[i] \in S
    BY <1>2, <1>6
  <1>10. QED
    BY <1>4, <1>5, <1>7, <1>8, <1>9 DEF a, c

\* What a rank makes of them: the sum, or a number that leaves the same when
\* divided by 9 and that is at most the largest sum of digits.
LEMMA LocalFacts ==
    ASSUME FileOK, program # "p6", NEW D \in Nat, \A x \in 0 .. MaxInt : collapse[x] <= D,
           NEW s, Len(s) \in Nat, \A i \in 1 .. Len(s) : s[i] \in Nat,
           TrueSum(s) <= MaxInt
    PROVE  /\ TrueSum(s) \in Nat /\ Local(s) \in Nat
           /\ TrueSum(s) = 0 <=> Local(s) = 0
           /\ \E q \in Int : TrueSum(s) = Local(s) + 9 * q
           /\ program = "p5_1" => Local(s) = TrueSum(s)
           /\ program # "p5_1" => Local(s) <= D
  <1> DEFINE n == TrueSum(s)
  <1>1. Sum(s) = n /\ n \in 0 .. MaxInt
    BY SumFits
  <1>2. MaxInt \in Nat
    BY IntsAre
  <1> HIDE DEF n
  <1>3. n \in Ints /\ n \in Nat /\ n >= 0
    BY <1>1, <1>2, IntsAre
  <1>4. CASE program = "p5_1"
    <2>1. Local(s) = n
      BY <1>1, <1>4 DEF Local
    <2>2. n = n + 9 * 0
      BY <1>3
    <2>3. \E q \in Int : n = n + 9 * q
      BY <2>2
    <2>4. QED
      BY <1>3, <1>4, <2>1, <2>3 DEF n
  <1>5. CASE program = "p5_2"
    <2> DEFINE c == collapse[n]
    <2>1. Local(s) = c
      BY <1>1, <1>5 DEF Local
    <2>2. /\ c \in Ints /\ 0 <= c /\ c <= n /\ (n > 0 => c > 0)
          /\ \E q \in Int : n = c + 9 * q
      BY <1>3, CollapseFacts
    <2>3. c <= D
      BY <1>1
    <2> HIDE DEF c
    <2>4. c \in Nat
      BY <2>2, IntsAre
    <2>5. n = 0 <=> c = 0
      BY <1>3, <2>2, <2>4
    <2>6. QED
      BY <1>3, <1>5, <2>1, <2>2, <2>3, <2>4, <2>5 DEF n
  <1>6. CASE program = "p5_3"
    <2> DEFINE c == ultimate_collapse[n]
    <2>1. Local(s) = c
      BY <1>1, <1>6 DEF Local
    <2>2. /\ c \in Ints /\ 0 <= c /\ c <= 9 /\ c <= n /\ (n > 0 => c > 0)
          /\ \E q \in Int : n = c + 9 * q
      BY <1>3, UltimateFacts
    <2> HIDE DEF c
    <2>3. c \in Nat
      BY <2>2, IntsAre
    <2>4. n = 0 <=> c = 0
      BY <1>3, <2>2, <2>3
    <2>5. c \in 0 .. MaxInt
      BY <1>1, <1>2, <1>3, <2>2, <2>3
    <2>6. c <= D
      <3>1. collapse[c] <= D
        BY <2>5
      <3>2. collapse[c] = c
        BY <2>2, <2>3, CollapseFacts
      <3>3. QED
        BY <3>1, <3>2
    <2>7. QED
      BY <1>3, <1>6, <2>1, <2>2, <2>3, <2>4, <2>6 DEF n
  <1>7. QED
    BY <1>4, <1>5, <1>6 DEF FileOK

\* Merged, the results of the ranks leave what the whole sum does.
LEMMA MergeRight ==
    ASSUME FileOK, program # "p6", Fits,
           NEW D \in Nat, \A x \in 0 .. MaxInt : collapse[x] <= D, MaxRanks * D <= MaxInt
    PROVE  Merge([i \in 1 .. K |-> Local(Rows(i - 1))])
               = IF TrueSum(input) = 0 THEN 0 ELSE 1 + ((TrueSum(input) - 1) % 9)
  <1> DEFINE n == N[root]
             m == [i \in 1 .. K |-> Local(Rows(i - 1))]
             T(r) == TrueSum(Rows(r))
             B(r) == Local(Rows(r))
  <1>1. /\ K \in Nat \ {0} /\ K <= MaxRanks /\ n \in Nat
        /\ input \in Seq(Item) /\ Len(input) = n /\ Item \subseteq Nat
    <2>1. K \in Nat \ {0} /\ K <= MaxRanks /\ n \in Nat
      BY ScatterGatherAssumption DEF FileOK
    <2>2. Item \subseteq Nat
      BY ScatterGatherAssumption DEF Item
    <2>3. input \in Seq(Item) /\ width = 1 /\ Len(input) = n * width
      BY DEF FileOK
    <2> HIDE DEF n
    <2>4. QED
      BY <2>1, <2>2, <2>3
  <1>2. \A i \in 1 .. n : input[i] \in Nat
    <2> DEFINE S == Item
    <2>1. S \subseteq Nat /\ input \in Seq(S) /\ Len(input) = n /\ n \in Nat
      BY <1>1
    <2> HIDE DEF n, S
    <2>2. \A i \in 1 .. n : input[i] \in S
      BY <2>1
    <2>3. QED
      BY <2>1, <2>2
  <1>3. PICK P \in [0 .. n -> Int] :
            /\ TrueSum(input) = P[n] /\ P[0] = 0
            /\ \A i \in 1 .. n : P[i] = P[i - 1] + input[i]
    <2> HIDE DEF n
    <2>1. Len(input) \in Nat /\ \A i \in 1 .. Len(input) : input[i] \in Int
      BY <1>1, <1>2
    <2>2. QED
      BY <1>1, <2>1, TrueSumSteps
  <1>4. /\ displs[0] = 0 /\ displs[K] = n
        /\ \A r \in Processes : /\ Count(n, r) \in Nat
                               /\ displs[r] \in 0 .. n /\ displs[r + 1] \in 0 .. n
                               /\ displs[r + 1] = displs[r] + Count(n, r)
    BY <1>1, BlocksDivide
  <1>5. ASSUME NEW r \in Processes
        PROVE  T(r) = P[displs[r + 1]] - P[displs[r]]
    <2> DEFINE t == Rows(r)
               a == displs[r]
    <2>1. /\ Len(t) = Count(n, r)
          /\ \A i \in 1 .. Count(n, r) : t[i] = input[displs[r] + i]
      BY BlockIs
    <2>2. /\ a \in 0 .. n /\ Len(t) \in Nat /\ a + Len(t) = displs[r + 1] /\ a + Len(t) <= n
          /\ \A i \in 1 .. Len(t) : t[i] = input[a + i]
      BY <1>4, <2>1
    <2>3. n \in Nat
      BY <1>1
    <2> HIDE DEF t, a, n
    <2>4. \A i \in 1 .. Len(t) : t[i] = P[a + i] - P[(a + i) - 1]
      <3> SUFFICES ASSUME NEW i \in 1 .. Len(t) PROVE t[i] = P[a + i] - P[(a + i) - 1]
        OBVIOUS
      <3> DEFINE j == a + i
                 l == Len(t)
      <3>1. j \in 1 .. n /\ j \in 0 .. n /\ j - 1 \in 0 .. n /\ t[i] = input[j]
        <4>1. t[i] = input[j]
          BY <2>2
        <4>2. i \in 1 .. l /\ a \in 0 .. n /\ l \in Nat /\ a + l <= n
          BY <2>2
        <4> HIDE DEF l
        <4>3. j \in 1 .. n
          BY <2>3, <4>2
        <4> HIDE DEF j
        <4>4. QED
          BY <2>3, <4>1, <4>3
      <3> HIDE DEF j
      <3>2. P[j] = P[j - 1] + input[j] /\ input[j] \in Nat /\ P[j] \in Int /\ P[j - 1] \in Int
        BY <1>2, <1>3, <3>1
      <3>3. t[i] = P[j] - P[j - 1]
        BY <3>1, <3>2
      <3>4. QED
        BY <3>3 DEF j
    <2>5. TrueSum(t) = P[a + Len(t)] - P[a]
      BY <1>3, <2>2, <2>3, <2>4, PartSum
    <2>6. QED
      BY <2>2, <2>5 DEF t, a
  <1>6. \A j \in 0 .. n : \A i \in 0 .. j : 0 <= P[i] /\ P[i] <= P[j]
    <2>1. \A i \in 1 .. n : input[i] \in Nat /\ P[i] = P[i - 1] + input[i]
      BY <1>2, <1>3
    <2>2. n \in Nat /\ P[0] = 0
      BY <1>1, <1>3
    <2> HIDE DEF n
    <2>3. QED
      BY <2>1, <2>2, SumsGrow
  <1>7. MaxInt \in Nat /\ MaxRanks \in Nat
    BY IntsAre, ScatterGatherAssumption
  <1>8. ASSUME NEW r \in Processes PROVE T(r) <= MaxInt
    <2>1. CASE program = "p5_1"
      <3> DEFINE a == displs[r]
                 b == displs[r + 1]
      <3>1. P[n] <= MaxInt /\ a \in 0 .. n /\ b \in 0 .. n /\ n \in 0 .. n
        BY <1>1, <1>3, <1>4, <2>1 DEF Fits
      <3> HIDE DEF a, b, n
      <3>2. P[a] \in Int /\ P[b] \in Int /\ P[n] \in Int /\ 0 <= P[a] /\ P[b] <= P[n]
        <4>1. a \in 0 .. a /\ b \in 0 .. n
          BY <3>1
        <4>2. QED
          BY <1>6, <3>1, <4>1
      <3>3. T(r) = P[b] - P[a]
        BY <1>5 DEF a, b
      <3> HIDE DEF T
      <3>4. QED
        BY <1>7, <3>1, <3>2, <3>3
    <2>2. CASE program # "p5_1"
      BY <2>2, BlockIs DEF Fits
    <2>3. QED
      BY <2>1, <2>2
  <1>9. ASSUME NEW r \in Processes
        PROVE  /\ T(r) \in Nat /\ B(r) \in Nat
               /\ T(r) = 0 <=> B(r) = 0
               /\ \E q \in Int : T(r) = B(r) + 9 * q
               /\ program = "p5_1" => B(r) = T(r)
               /\ program # "p5_1" => B(r) <= D
    <2> DEFINE t == Rows(r)
    <2>1. Len(t) \in Nat /\ \A i \in 1 .. Len(t) : t[i] \in Nat
      BY <1>4, BlockIs
    <2>2. TrueSum(t) <= MaxInt
      BY <1>8
    <2> HIDE DEF t
    <2>3. /\ TrueSum(t) \in Nat /\ Local(t) \in Nat
          /\ TrueSum(t) = 0 <=> Local(t) = 0
          /\ \E q \in Int : TrueSum(t) = Local(t) + 9 * q
          /\ program = "p5_1" => Local(t) = TrueSum(t)
          /\ program # "p5_1" => Local(t) <= D
      BY <2>1, <2>2, LocalFacts
    <2>4. QED
      BY <2>3 DEF t
  <1>10. Len(m) = K /\ \A i \in 1 .. K : i - 1 \in Processes /\ m[i] = B(i - 1)
    BY <1>1 DEF Processes
  <1> HIDE DEF T, B, m, n
  <1>11. \A i \in 1 .. K : m[i] \in Nat
    BY <1>9, <1>10
  <1>12. PICK Q \in [0 .. K -> Int] :
            /\ TrueSum(m) = Q[K] /\ Q[0] = 0
            /\ \A i \in 1 .. K : Q[i] = Q[i - 1] + m[i]
    <2>1. Len(m) \in Nat /\ \A i \in 1 .. Len(m) : m[i] \in Int
      BY <1>1, <1>10, <1>11
    <2>2. QED
      BY <1>10, <2>1, TrueSumSteps
  <1> DEFINE Same(i, x, y) ==
                /\ x \in Nat /\ y \in Nat
                /\ x = 0 <=> y = 0
                /\ \E q \in Int : x = y + 9 * q
                /\ program = "p5_1" => y = x
                /\ program # "p5_1" => y <= i * D
             S == {i \in Nat : i <= K => Same(i, P[displs[i]], Q[i])}
  <1>13. 0 \in S
    <2>1. P[displs[0]] = 0 /\ Q[0] = 0
      BY <1>3, <1>4, <1>12
    <2>2. 0 = 0 + 9 * 0 /\ 0 <= 0 * D
      OBVIOUS
    <2>3. \E q \in Int : 0 = 0 + 9 * q
      BY <2>2
    <2>4. Same(0, 0, 0)
      BY <2>2, <2>3
    <2> HIDE DEF Same
    <2>5. Same(0, P[displs[0]], Q[0])
      BY <2>1, <2>4, Zenon
    <2>6. QED
      BY <2>5
  <1>14. ASSUME NEW i \in Nat, i \in S PROVE i + 1 \in S
    <2> SUFFICES ASSUME i + 1 <= K PROVE Same(i + 1, P[displs[i + 1]], Q[i + 1])
      OBVIOUS
    <2> DEFINE x == P[displs[i]]
               y == Q[i]
               u == T(i)
               v == B(i)
    <2>1. i + 1 \in 1 .. K /\ (i + 1) - 1 = i /\ i <= K /\ i \in Processes
      BY <1>1 DEF Processes
    <2>2. Same(i, x, y)
      BY <1>14, <2>1
    <2>3. Q[i + 1] = y + v
      BY <1>10, <1>12, <2>1
    <2>4. P[displs[i + 1]] = x + u
      <3>1. u = P[displs[i + 1]] - x
        BY <1>5, <2>1
      <3>2. P[displs[i + 1]] \in Int /\ x \in Int
        BY <1>4, <2>1
      <3> HIDE DEF x, u
      <3>3. QED
        BY <3>1, <3>2
    <2>5. /\ u \in Nat /\ v \in Nat /\ (u = 0 <=> v = 0)
          /\ \E q \in Int : u = v + 9 * q
          /\ program = "p5_1" => v = u
          /\ program # "p5_1" => v <= D
      BY <1>9, <2>1
    <2> HIDE DEF x, y, u, v
    <2> DEFINE k == i * D
    <2>6. PICK p \in Int : x = y + 9 * p
      BY <2>2
    <2>7. /\ x \in Nat /\ y \in Nat /\ u \in Nat /\ v \in Nat
           /\ (x = 0 <=> y = 0) /\ (u = 0 <=> v = 0)
      BY <2>2, <2>5
    <2>8. program # "p5_1" => y <= k /\ v <= D
      BY <2>2, <2>5
    <2>9. PICK q \in Int : u = v + 9 * q
      BY <2>5
    <2>10. x + u = (y + v) + 9 * (p + q) /\ p + q \in Int
      BY <2>6, <2>9, <2>7
    <2>11. \E o \in Int : x + u = (y + v) + 9 * o
      BY <2>10
    <2>12. (i + 1) * D = k + D /\ k \in Nat
      OBVIOUS
    <2> HIDE DEF k
    <2>13. program # "p5_1" => y + v <= (i + 1) * D
      BY <2>12, <2>7, <2>8
    <2>14. x + u \in Nat /\ y + v \in Nat /\ (x + u = 0 <=> y + v = 0)
      BY <2>7
    <2>15. Same(i + 1, x + u, y + v)
      BY <2>2, <2>5, <2>11, <2>13, <2>14
    <2> HIDE DEF Same
    <2>16. QED
      BY <2>3, <2>4, <2>15, Zenon
  <1> HIDE DEF S
  <1>15. Nat \subseteq S
    BY <1>13, <1>14, Induction
  <1>16. Same(K, P[n], Q[K])
    <2>1. K \in S /\ K <= K /\ displs[K] = n
      BY <1>1, <1>4, <1>15
    <2> HIDE DEF Same
    <2>2. Same(K, P[displs[K]], Q[K])
      BY <2>1 DEF S
    <2>3. QED
      BY <2>1, <2>2, Zenon
  <1>17. Q[K] <= MaxInt
    <2>1. CASE program = "p5_1"
      BY <1>3, <1>16, <2>1 DEF Fits
    <2>2. CASE program # "p5_1"
      <3>1. MaxRanks - K \in Nat
        BY <1>1, <1>7
      <3>2. (MaxRanks - K) * D \in Nat
        BY <3>1
      <3>3. MaxRanks * D = (K * D) + ((MaxRanks - K) * D) /\ K * D \in Nat
        BY <1>1, <1>7
      <3>4. Q[K] <= K * D /\ Q[K] \in Nat
        BY <1>16, <2>2
      <3>5. QED
        BY <1>7, <3>2, <3>3, <3>4
    <2>3. QED
      BY <2>1, <2>2
  <1>18. Sum(m) = Q[K] /\ Q[K] \in Ints
    <2>1. Len(m) \in Nat /\ \A i \in 1 .. Len(m) : m[i] \in Nat
      BY <1>1, <1>10, <1>11
    <2>2. Sum(m) = TrueSum(m) /\ TrueSum(m) \in 0 .. MaxInt
      BY <1>12, <1>17, <2>1, SumFits
    <2>3. QED
      BY <1>7, <1>12, <2>2, IntsAre
  <1> DEFINE x == P[n]
             y == Q[K]
             d == ultimate_collapse[y]
  <1>19. Same(K, x, y)
    BY <1>16
  <1> HIDE DEF x, y
  <1>20. y \in Ints /\ y \in Nat /\ y >= 0
    BY <1>18, <1>19 DEF y
  <1>21. /\ d \in Ints /\ 0 <= d /\ d <= 9 /\ d <= y /\ (y > 0 => d > 0)
         /\ \E q \in Int : y = d + 9 * q
    BY <1>20, UltimateFacts
  <1>22. Merge(m) = d
    BY <1>18 DEF Merge, y
  <1> HIDE DEF d
  <1>23. d \in Int
    BY <1>21, IntsAre
  <1>24. PICK p \in Int : x = y + 9 * p
    BY <1>19
  <1>25. PICK q \in Int : y = d + 9 * q
    BY <1>21
  <1>26. x = d + 9 * (p + q) /\ p + q \in Int
    BY <1>19, <1>23, <1>24, <1>25
  <1>27. x \in Nat /\ (x > 0 => d > 0) /\ (x = 0 => d = 0)
    BY <1>19, <1>20, <1>21, <1>23
  <1>28. d = IF x = 0 THEN 0 ELSE 1 + ((x - 1) % 9)
    <2>1. 0 <= d /\ d <= 9
      BY <1>21
    <2> DEFINE o == p + q
    <2>2. x = d + 9 * o /\ o \in Int
      BY <1>26
    <2> HIDE DEF o
    <2>3. QED
      BY <1>23, <1>27, <2>1, <2>2, DigitalRoot
  <1>29. TrueSum(input) = x
    BY <1>3 DEF x
  <1>30. QED
    BY <1>22, <1>28, <1>29 DEF m
-----------------------------------------------------------------------------
(***************************************************************************)
(* The image.                                                              *)
(***************************************************************************)
\* The place on the other side of a row of w pixels after base.
Opposite(base, w, k) == (2 * base + w + 1) - k

\* s has n places, and a row of w of them begins after base.
HasRow(s, n, base, w) ==
    /\ n \in Nat /\ base \in Nat /\ w \in Nat /\ base + w <= n
    /\ s = [k \in 1 .. n |-> s[k]]

\* g is s with that row turned around.
RowTurned(g, s, n, base, w) ==
    /\ g = [k \in 1 .. n |-> g[k]]
    /\ \A k \in base + 1 .. base + w : g[k] = s[Opposite(base, w, k)]
    /\ \A k \in 1 .. n \ (base + 1 .. base + w) : g[k] = s[k]

\* The swaps turn the row around and leave all else.
LEMMA MirrorIs ==
    ASSUME NEW s, NEW n, NEW base, NEW w
    PROVE  HasRow(s, n, base, w) => RowTurned(Mirror(s, base, w), s, n, base, w)
  <1> DEFINE g == Mirror(s, base, w)
  <1> SUFFICES ASSUME n \in Nat, base \in Nat, w \in Nat, base + w <= n,
                      HasRow(s, n, base, w)
               PROVE  RowTurned(g, s, n, base, w)
    BY DEF HasRow
  <1>1. s = [k \in 1 .. n |-> s[k]]
    BY DEF HasRow
  <1> HIDE DEF g
  <1> DEFINE half == w \div 2
             Turned(j, k) == /\ k \in base + 1 .. base + w
                             /\ k <= base + j \/ k >= (base + w + 1) - j
             H(j) == [k \in 1 .. n |-> IF Turned(j, k)
                                       THEN s[(2 * base + w + 1) - k] ELSE s[k]]
             h == [j \in 0 .. half |-> H(j)]
             Turn(t, j) == [t EXCEPT ![base + j] = t[base + w + 1 - j],
                                     ![base + w + 1 - j] = t[base + j]]
             Is(f) == f = [j \in 0 .. half |-> IF j = 0 THEN s ELSE Turn(f[j - 1], j)]
  <1>2. half \in Nat /\ 2 * half <= w /\ w <= (2 * half) + 1
    OBVIOUS
  <1> HIDE DEF half
  <1>3. H(0) = s
    <2>1. \A k \in 1 .. n : ~Turned(0, k)
      OBVIOUS
    <2> HIDE DEF Turned
    <2>2. QED
      BY <1>1, <2>1
  <1>4. ASSUME NEW j \in 1 .. half PROVE H(j) = Turn(H(j - 1), j)
    <2> DEFINE a == base + j
               b == (base + w + 1) - j
               t == H(j - 1)
    <2>1. /\ a \in base + 1 .. base + w /\ b \in base + 1 .. base + w /\ a < b
          /\ a \in 1 .. n /\ b \in 1 .. n /\ a \in Int /\ b \in Int
          /\ (2 * base + w + 1) - a = b /\ (2 * base + w + 1) - b = a
      BY <1>2
    <2>2. /\ Turned(j, a) /\ Turned(j, b) /\ ~Turned(j - 1, a) /\ ~Turned(j - 1, b)
      BY <1>2
    <2>3. ASSUME NEW k \in 1 .. n, k # a, k # b PROVE Turned(j, k) <=> Turned(j - 1, k)
      BY <1>2, <2>3
    <2>4. Turn(t, j) = [t EXCEPT ![a] = t[b], ![b] = t[a]]
      BY <1>2
    <2> HIDE DEF Turned, a, b, Turn
    <2>5. t[a] = s[a] /\ t[b] = s[b]
      BY <2>1, <2>2
    <2>6. H(j)[a] = s[b] /\ H(j)[b] = s[a]
      BY <2>1, <2>2
    <2>7. \A k \in 1 .. n : k # a /\ k # b => H(j)[k] = t[k]
      BY <2>3
    <2>8. DOMAIN t = 1 .. n /\ DOMAIN H(j) = 1 .. n
      OBVIOUS
    <2>9. t = [k \in 1 .. n |-> t[k]] /\ H(j) = [k \in 1 .. n |-> H(j)[k]]
      OBVIOUS
    <2> HIDE DEF t, H
    <2> DEFINE u == [t EXCEPT ![a] = t[b], ![b] = t[a]]
    <2>10. DOMAIN u = 1 .. n /\ u = [k \in 1 .. n |-> u[k]]
      BY <2>8, <2>9
    <2>11. \A k \in 1 .. n : u[k] = H(j)[k]
      <3> SUFFICES ASSUME NEW k \in 1 .. n PROVE u[k] = H(j)[k]
        OBVIOUS
      <3>1. CASE k = a
        BY <2>1, <2>5, <2>6, <2>8, <3>1
      <3>2. CASE k = b
        BY <2>1, <2>5, <2>6, <2>8, <3>2
      <3>3. CASE k # a /\ k # b
        BY <2>7, <2>8, <3>3
      <3>4. QED
        BY <3>1, <3>2, <3>3
    <2> HIDE DEF u
    <2>12. u = H(j)
      BY <2>9, <2>10, <2>11
    <2>13. QED
      BY <2>4, <2>12 DEF t, u
  <1> HIDE DEF H, Turn
  <1>5. Is(h)
    <2>1. \A j \in 0 .. half : h[j] = H(j)
      OBVIOUS
    <2>2. \A j \in 0 .. half : j # 0 => j \in 1 .. half /\ j - 1 \in 0 .. half
      BY <1>2
    <2>3. \A j \in 0 .. half : h[j] = IF j = 0 THEN s ELSE Turn(h[j - 1], j)
      BY <1>3, <1>4, <2>1, <2>2
    <2>4. h = [j \in 0 .. half |-> h[j]]
      OBVIOUS
    <2> HIDE DEF h
    <2>5. QED
      BY <2>3, <2>4
  <1> DEFINE f == CHOOSE f : Is(f)
  <1>6. Is(f)
    <2> HIDE DEF h
    <2>1. QED
      BY <1>5, Zenon
  <1>7. Mirror(s, base, w) = f[half]
    BY DEF Mirror, half, Turn
  <1> HIDE DEF f
  <1>8. f[0] = s /\ \A j \in 1 .. half : f[j] = Turn(f[j - 1], j)
    BY <1>2, <1>6
  <1> DEFINE S == {j \in Nat : j <= half => f[j] = H(j)}
  <1>9. 0 \in S
    BY <1>3, <1>8
  <1>10. ASSUME NEW j \in Nat, j \in S PROVE j + 1 \in S
    <2> SUFFICES ASSUME j + 1 <= half PROVE f[j + 1] = H(j + 1)
      OBVIOUS
    <2>1. j + 1 \in 1 .. half /\ (j + 1) - 1 = j /\ j <= half
      BY <1>2
    <2>2. f[j] = H(j)
      BY <1>10, <2>1
    <2>3. f[j + 1] = Turn(f[j], j + 1) /\ H(j + 1) = Turn(H(j), j + 1)
      <3>1. f[j + 1] = Turn(f[(j + 1) - 1], j + 1)
        BY <1>8, <2>1
      <3>2. H(j + 1) = Turn(H((j + 1) - 1), j + 1)
        BY <1>4, <2>1
      <3>3. QED
        BY <2>1, <3>1, <3>2
    <2>4. QED
      BY <2>2, <2>3
  <1> HIDE DEF S
  <1>11. Nat \subseteq S
    BY <1>9, <1>10, Induction
  <1>12. f[half] = H(half)
    <2>1. half \in S /\ half <= half
      BY <1>2, <1>11
    <2>2. QED
      BY <2>1 DEF S
  <1>13. H(half) = [k \in 1 .. n |-> IF k \in base + 1 .. base + w
                                     THEN s[(2 * base + w + 1) - k] ELSE s[k]]
    <2>1. ASSUME NEW k \in 1 .. n, k \in base + 1 .. base + w, ~Turned(half, k)
          PROVE  (2 * base + w + 1) - k = k
      BY <1>2, <2>1
    <2>2. \A k \in 1 .. n : Turned(half, k) => k \in base + 1 .. base + w
      OBVIOUS
    <2> HIDE DEF Turned
    <2>3. QED
      BY <2>1, <2>2 DEF H
  <1>14. g = H(half)
    BY <1>7, <1>12 DEF g
  <1>15. g = [k \in 1 .. n |-> g[k]]
    BY <1>13, <1>14
  <1> HIDE DEF g
  <1>16. \A k \in 1 .. n : g[k] = IF k \in base + 1 .. base + w
                                  THEN s[(2 * base + w + 1) - k] ELSE s[k]
    BY <1>13, <1>14
  <1>17. \A k \in base + 1 .. base + w : k \in 1 .. n
    OBVIOUS
  <1>18. \A k \in base + 1 .. base + w : g[k] = s[Opposite(base, w, k)]
    BY <1>16, <1>17 DEF Opposite
  <1>19. \A k \in 1 .. n \ (base + 1 .. base + w) : g[k] = s[k]
    BY <1>16
  <1>20. QED
    BY <1>15, <1>18, <1>19 DEF RowTurned
-----------------------------------------------------------------------------
\* A pixel has a row and a place in it.
LEMMA RowOf ==
    ASSUME NEW w \in Nat \ {0}, NEW n \in Nat, NEW k \in 1 .. n * w
    PROVE  \E p \in 0 .. n - 1 : \E c \in 0 .. w - 1 : k = (p * w) + (c + 1)
  <1> DEFINE p == (k - 1) \div w
             c == (k - 1) % w
  <1>1. k \in Nat \ {0} /\ k <= n * w /\ n * w \in Nat
    OBVIOUS
  <1>2. k - 1 = (w * p) + c /\ p \in Nat /\ c \in 0 .. w - 1
    <2> DEFINE m == k - 1
    <2>1. m \in Nat
      BY <1>1
    <2> HIDE DEF m
    <2>2. m = (w * (m \div w)) + (m % w) /\ m \div w \in Nat /\ m % w \in 0 .. w - 1
      BY <2>1
    <2>3. QED
      BY <2>2 DEF m
  <1> HIDE DEF p, c
  <1>3. k = (p * w) + (c + 1) /\ w * p = p * w /\ p * w \in Nat
    BY <1>1, <1>2
  <1>4. p < n
    <2> SUFFICES ASSUME ~(p < n) PROVE FALSE
      OBVIOUS
    <2>1. p - n \in Nat
      BY <1>2
    <2>2. (p - n) * w \in Nat /\ p * w = (n * w) + ((p - n) * w)
      BY <1>2, <2>1
    <2>3. QED
      BY <1>1, <1>2, <1>3, <2>2
  <1>5. QED
    BY <1>2, <1>3, <1>4

\* The other side of the row.
LEMMA MirroredIs ==
    ASSUME width \in Nat \ {0}, NEW p \in Nat, NEW c \in 0 .. width - 1
    PROVE  Mirrored((p * width) + (c + 1)) = (p * width) + (width - c)
  <1> DEFINE w == width
             k == (p * w) + (c + 1)
  <1>1. k - 1 = (p * w) + c /\ p * w \in Nat
    OBVIOUS
  <1>2. ((p * w) + c) \div w = p /\ ((p * w) + c) % w = c
    BY DivisionIs
  <1>3. Mirrored(k) = ((p * w) + w) - c
    BY <1>1, <1>2 DEF Mirrored
  <1> DEFINE x == p * w
  <1>4. x \in Nat /\ w \in Nat /\ c \in Nat
    OBVIOUS
  <1>5. (x + w) - c = x + (w - c)
    <2> HIDE DEF x, w
    <2>1. QED
      BY <1>4
  <1>6. QED
    BY <1>3, <1>5

\* It is in the same row, and so the rows up to the i-th stay among themselves.
LEMMA MirroredIn ==
    ASSUME width \in Nat \ {0}, NEW n \in Nat, NEW k \in 1 .. n * width
    PROVE  /\ Mirrored(k) \in 1 .. n * width
           /\ \A i \in Nat : k <= i * width <=> Mirrored(k) <= i * width
  <1> DEFINE w == width
  <1>1. PICK p \in 0 .. n - 1, c \in 0 .. w - 1 : k = (p * w) + (c + 1)
    BY RowOf
  <1> DEFINE m == Mirrored(k)
             x == p * w
  <1>2. m = x + (w - c) /\ x \in Nat
    <2>1. p \in Nat /\ x \in Nat
      BY <1>1
    <2>2. Mirrored((p * w) + (c + 1)) = (p * w) + (w - c)
      BY <1>1, <2>1, MirroredIs
    <2>3. QED
      BY <1>1, <2>1, <2>2
  <1>3. w \in Nat \ {0} /\ p \in Nat /\ k = x + (c + 1)
    BY <1>1
  <1> HIDE DEF w, m, x
  <1>4. m \in x + 1 .. x + w /\ k \in x + 1 .. x + w
    BY <1>2, <1>3
  <1>5. ASSUME NEW i \in Nat
        PROVE  /\ i > p => x + w <= i * w
               /\ i <= p => i * w <= x
    <2>1. CASE i > p
      <3>1. i - (p + 1) \in Nat
        BY <1>3, <2>1
      <3>2. (i - (p + 1)) * w \in Nat /\ i * w = ((p * w) + w) + ((i - (p + 1)) * w)
        BY <1>3, <3>1
      <3>3. QED
        BY <1>2, <1>3, <2>1, <3>2 DEF x
    <2>2. CASE i <= p
      <3>1. p - i \in Nat
        BY <1>3, <2>2
      <3>2. (p - i) * w \in Nat /\ i * w \in Nat /\ p * w = (i * w) + ((p - i) * w)
        BY <1>3, <3>1
      <3>3. QED
        BY <1>3, <2>2, <3>2 DEF x
    <2>3. QED
      BY <1>3, <2>1, <2>2
  <1>6. ASSUME NEW i \in Nat PROVE k <= i * w <=> m <= i * w
    <2> DEFINE y == i * w
    <2>1. y \in Nat /\ (i > p \/ i <= p)
      BY <1>3
    <2>2. (i > p => x + w <= y) /\ (i <= p => y <= x)
      BY <1>5
    <2> HIDE DEF y
    <2>3. k <= y <=> m <= y
      BY <1>2, <1>3, <1>4, <2>1, <2>2
    <2>4. QED
      BY <2>3 DEF y
  <1>7. m \in 1 .. n * w
    <2>1. x + w <= n * w
      BY <1>1, <1>5
    <2>2. n * w \in Nat
      BY <1>3
    <2>3. QED
      BY <1>2, <1>3, <1>4, <2>1, <2>2
  <1>8. QED
    BY <1>6, <1>7 DEF w, m

\* Of the m rows of t those from the i-th on are still as in s.
RowsLeft(t, s, m, i) ==
    /\ width \in Nat \ {0} /\ m \in Nat /\ i \in 1 .. m
    /\ t = [k \in 1 .. m * width |-> t[k]]
    /\ \A k \in 1 .. m * width : k > (i - 1) * width => t[k] = s[k]

\* g is t with its i-th row turned around, the rows behind it as in s.
RowFlipped(g, t, s, m, i) ==
    /\ g = [k \in 1 .. m * width |-> g[k]]
    /\ \A k \in 1 .. m * width :
           /\ k <= (i - 1) * width => g[k] = t[k]
           /\ k > (i - 1) * width /\ k <= i * width => g[k] = s[Mirrored(k)]
           /\ k > i * width => g[k] = s[k]

\* To mirror the i-th row, which is as it was, is to take the other side.
LEMMA FlipRow ==
    ASSUME NEW t, NEW s, NEW m, NEW i
    PROVE  RowsLeft(t, s, m, i) =>
               RowFlipped(Mirror(t, (i - 1) * width, width), t, s, m, i)
  <1> DEFINE w == width
             b == (i - 1) * w
             n == m * w
             g == Mirror(t, b, w)
  <1> SUFFICES ASSUME m \in Nat, i \in 1 .. m, RowsLeft(t, s, m, i)
               PROVE  RowFlipped(g, t, s, m, i)
    BY DEF RowsLeft
  <1>1. SUFFICES ASSUME w \in Nat \ {0}, t = [k \in 1 .. n |-> t[k]],
                        \A k \in 1 .. n : k > b => t[k] = s[k]
                 PROVE  /\ g = [k \in 1 .. n |-> g[k]]
                        /\ \A k \in 1 .. n :
                               /\ k <= b => g[k] = t[k]
                               /\ k > b /\ k <= i * w => g[k] = s[Mirrored(k)]
                               /\ k > i * w => g[k] = s[k]
    BY DEF RowsLeft, RowFlipped
  <1>2. b \in Nat /\ n \in Nat /\ w \in Nat \ {0} /\ i * w = b + w
    BY <1>1, SMT
  <1>3. b + w <= n
    <2>1. m - i \in Nat /\ m \in Nat /\ i \in Nat
      OBVIOUS
    <2> HIDE DEF b, w
    <2>2. (m - i) * w \in Nat /\ m * w = (i * w) + ((m - i) * w)
      BY <1>2, <2>1
    <2>3. QED
      BY <1>2, <2>2
  <1> HIDE DEF n, b, w, g
  <1>4. /\ g = [k \in 1 .. n |-> g[k]]
        /\ \A k \in b + 1 .. b + w : g[k] = t[Opposite(b, w, k)]
        /\ \A k \in 1 .. n \ (b + 1 .. b + w) : g[k] = t[k]
    <2>1. HasRow(t, n, b, w)
      BY <1>1, <1>2, <1>3 DEF HasRow
    <2>2. RowTurned(g, t, n, b, w)
      BY <2>1, MirrorIs DEF g
    <2>3. QED
      BY <2>2 DEF RowTurned
  <1>5. ASSUME NEW k \in 1 .. n, k > b, k <= i * w
        PROVE  g[k] = s[Mirrored(k)]
    <2> DEFINE c == (k - b) - 1
               z == b + (w - c)
    <2>1. c \in 0 .. w - 1 /\ k = b + (c + 1) /\ k \in b + 1 .. b + w
      BY <1>2, <1>5
    <2> HIDE DEF c
    <2>2. Opposite(b, w, k) = z /\ z > b /\ z \in 1 .. n
      BY <1>2, <1>3, <2>1 DEF Opposite
    <2>3. Mirrored(k) = z
      <3>1. i - 1 \in Nat /\ width \in Nat \ {0} /\ c \in 0 .. width - 1
        BY <1>1, <2>1 DEF w
      <3>2. Mirrored(((i - 1) * width) + (c + 1)) = ((i - 1) * width) + (width - c)
        BY <3>1, MirroredIs
      <3>3. QED
        BY <2>1, <3>2 DEF b, w
    <2> HIDE DEF z
    <2>4. t[z] = s[z]
      BY <1>1, <2>2
    <2>5. QED
      BY <1>4, <2>1, <2>2, <2>3, <2>4
  <1>6. ASSUME NEW k \in 1 .. n
        PROVE  /\ k <= b => g[k] = t[k]
               /\ k > i * w => g[k] = s[k]
    <2>1. k <= b => g[k] = t[k]
      BY <1>2, <1>4
    <2>2. k > i * w => g[k] = t[k] /\ k > b
      BY <1>2, <1>4
    <2>3. QED
      BY <1>1, <2>1, <2>2
  <1>7. QED
    BY <1>4, <1>5, <1>6
-----------------------------------------------------------------------------
\* s is m rows of pixels.
Image(s, m) ==
    /\ width \in Nat \ {0} /\ m \in Nat
    /\ s = [k \in 1 .. m * width |-> s[k]]

\* What process makes of the rows of a rank.
LEMMA ProcessedIs ==
    ASSUME NEW s, NEW m
    PROVE  Image(s, m) =>
               ProcessRows(s, m) = [k \in 1 .. m * width |-> Grey(s[Mirrored(k)])]
  <1> DEFINE n == m * width
             H(i) == [k \in 1 .. n |-> IF k <= i * width THEN Grey(s[Mirrored(k)]) ELSE s[k]]
             h == [i \in 0 .. m |-> H(i)]
             Row(t, i) ==
                LET flipped == Mirror(t, (i - 1) * width, width)
                IN  [k \in DOMAIN s |->
                        IF k \in (i - 1) * width + 1 .. i * width
                        THEN Grey(flipped[k]) ELSE flipped[k]]
             Is(f) == f = [i \in 0 .. m |-> IF i = 0 THEN s ELSE Row(f[i - 1], i)]
  <1>1. SUFFICES ASSUME width \in Nat \ {0}, m \in Nat, s = [k \in 1 .. n |-> s[k]]
                 PROVE  ProcessRows(s, m) = [k \in 1 .. n |-> Grey(s[Mirrored(k)])]
    BY DEF Image
  <1>2. H(0) = s
    <2>1. \A k \in 1 .. n : ~(k <= 0 * width)
      BY <1>1
    <2> HIDE DEF n
    <2>2. QED
      BY <1>1, <2>1
  <1>3. ASSUME NEW i \in 1 .. m PROVE H(i) = Row(H(i - 1), i)
    <2> DEFINE t == H(i - 1)
               g == Mirror(t, (i - 1) * width, width)
               a == (i - 1) * width
               b == i * width
    <2>1. a \in Nat /\ b \in Nat /\ a <= b /\ DOMAIN s = 1 .. n
      <3>1. i \in Nat /\ i - 1 \in Nat /\ width \in Nat
        BY <1>1
      <3>2. a \in Nat /\ b = a + width
        BY <3>1
      <3> HIDE DEF a, b, n
      <3>3. QED
        BY <1>1, <3>1, <3>2
    <2>2. \A k \in 1 .. n : t[k] = IF k <= a THEN Grey(s[Mirrored(k)]) ELSE s[k]
      OBVIOUS
    <2>3. t = [k \in 1 .. n |-> t[k]]
      OBVIOUS
    <2> HIDE DEF t, a, n
    <2>4. \A k \in 1 .. n : k > a => t[k] = s[k]
      BY <2>1, <2>2
    <2>5. RowsLeft(t, s, m, i)
      BY <1>1, <1>3, <2>3, <2>4 DEF RowsLeft, a, n
    <2>6. RowFlipped(g, t, s, m, i)
      BY <2>5, FlipRow
    <2> HIDE DEF g
    <2>7. \A k \in 1 .. n : /\ k <= a => g[k] = t[k]
                            /\ k > a /\ k <= b => g[k] = s[Mirrored(k)]
                            /\ k > b => g[k] = s[k]
      BY <2>6 DEF RowFlipped, a, n
    <2> HIDE DEF b
    <2>8. ASSUME NEW k \in 1 .. n
          PROVE  (IF k <= b THEN Grey(s[Mirrored(k)]) ELSE s[k])
                    = IF k \in a + 1 .. b THEN Grey(g[k]) ELSE g[k]
      BY <2>1, <2>2, <2>7
    <2>9. [k \in 1 .. n |-> IF k <= b THEN Grey(s[Mirrored(k)]) ELSE s[k]]
            = [k \in DOMAIN s |-> IF k \in a + 1 .. b THEN Grey(g[k]) ELSE g[k]]
      BY <2>1, <2>8
    <2>10. QED
      BY <2>9 DEF t, g, a, b
  <1> HIDE DEF H, Row
  <1>4. Is(h)
    <2>1. \A i \in 0 .. m : h[i] = H(i)
      OBVIOUS
    <2>2. \A i \in 0 .. m : i # 0 => i \in 1 .. m /\ i - 1 \in 0 .. m
      BY <1>1
    <2>3. \A i \in 0 .. m : h[i] = IF i = 0 THEN s ELSE Row(h[i - 1], i)
      BY <1>2, <1>3, <2>1, <2>2
    <2>4. h = [i \in 0 .. m |-> h[i]]
      OBVIOUS
    <2> HIDE DEF h
    <2>5. QED
      BY <2>3, <2>4
  <1> DEFINE f == CHOOSE f : Is(f)
  <1>5. Is(f)
    <2> HIDE DEF h
    <2>1. QED
      BY <1>4, Zenon
  <1>6. ProcessRows(s, m) = f[m]
    BY DEF ProcessRows, Row
  <1> HIDE DEF f
  <1>7. f[0] = s /\ \A i \in 1 .. m : f[i] = Row(f[i - 1], i)
    <2>1. 0 \in 0 .. m /\ \A i \in 1 .. m : i \in 0 .. m /\ i # 0
      BY <1>1
    <2>2. \A i \in 0 .. m : f[i] = IF i = 0 THEN s ELSE Row(f[i - 1], i)
      BY <1>5
    <2>3. QED
      BY <2>1, <2>2
  <1> DEFINE S == {i \in Nat : i <= m => f[i] = H(i)}
  <1>8. 0 \in S
    BY <1>2, <1>7
  <1>9. ASSUME NEW i \in Nat, i \in S PROVE i + 1 \in S
    <2> SUFFICES ASSUME i + 1 <= m PROVE f[i + 1] = H(i + 1)
      OBVIOUS
    <2>1. i + 1 \in 1 .. m /\ (i + 1) - 1 = i /\ i <= m
      BY <1>1
    <2>2. f[i] = H(i)
      BY <1>9, <2>1
    <2>3. f[i + 1] = Row(f[(i + 1) - 1], i + 1) /\ H(i + 1) = Row(H((i + 1) - 1), i + 1)
      BY <1>3, <1>7, <2>1
    <2>4. QED
      BY <2>1, <2>2, <2>3
  <1> HIDE DEF S
  <1>10. Nat \subseteq S
    BY <1>8, <1>9, Induction
  <1>11. f[m] = H(m)
    <2>1. m \in S /\ m <= m
      BY <1>1, <1>10
    <2>2. QED
      BY <2>1 DEF S
  <1>12. H(m) = [k \in 1 .. n |-> Grey(s[Mirrored(k)])]
    <2>1. \A k \in 1 .. n : k <= m * width
      BY <1>1
    <2>2. QED
      BY <2>1 DEF H
  <1>13. QED
    BY <1>6, <1>11, <1>12

\* And what sequential.c makes of the whole image.
LEMMA SequentialIs ==
    ASSUME NEW m
    PROVE  Image(input, m) =>
               SequentialImage = [k \in DOMAIN input |-> Grey(input[Mirrored(k)])]
  <1> DEFINE s == input
             n == m * width
             height == Len(input) \div width
             H(i) == [k \in 1 .. n |-> IF k <= i * width THEN s[Mirrored(k)] ELSE s[k]]
             h == [i \in 0 .. m |-> H(i)]
             Row(t, i) == Mirror(t, (i - 1) * width, width)
             Is(f) == f = [i \in 0 .. m |-> IF i = 0 THEN s ELSE Row(f[i - 1], i)]
  <1>1. SUFFICES ASSUME width \in Nat \ {0}, m \in Nat, s = [k \in 1 .. n |-> s[k]]
                 PROVE  SequentialImage = [k \in DOMAIN s |-> Grey(s[Mirrored(k)])]
    BY DEF Image
  <1> HIDE DEF s
  <1>2. H(0) = s
    <2>1. \A k \in 1 .. n : ~(k <= 0 * width)
      BY <1>1
    <2> HIDE DEF n
    <2>2. QED
      BY <1>1, <2>1
  <1>3. ASSUME NEW i \in 1 .. m PROVE H(i) = Row(H(i - 1), i)
    <2> DEFINE t == H(i - 1)
               g == Mirror(t, (i - 1) * width, width)
               a == (i - 1) * width
               b == i * width
    <2>1. a \in Nat /\ b \in Nat /\ a <= b
      <3>1. i \in Nat /\ i - 1 \in Nat /\ width \in Nat
        BY <1>1
      <3>2. a \in Nat /\ b = a + width
        BY <3>1
      <3> HIDE DEF a, b, n
      <3>3. QED
        BY <1>1, <3>1, <3>2
    <2>2. \A k \in 1 .. n : t[k] = IF k <= a THEN s[Mirrored(k)] ELSE s[k]
      OBVIOUS
    <2>3. t = [k \in 1 .. n |-> t[k]]
      OBVIOUS
    <2> HIDE DEF t, a, n
    <2>4. \A k \in 1 .. n : k > a => t[k] = s[k]
      BY <2>1, <2>2
    <2>5. RowsLeft(t, s, m, i)
      BY <1>1, <1>3, <2>3, <2>4 DEF RowsLeft, a, n
    <2>6. RowFlipped(g, t, s, m, i)
      BY <2>5, FlipRow
    <2> HIDE DEF g
    <2>7. \A k \in 1 .. n : /\ k <= a => g[k] = t[k]
                            /\ k > a /\ k <= b => g[k] = s[Mirrored(k)]
                            /\ k > b => g[k] = s[k]
      BY <2>6 DEF RowFlipped, a, n
    <2>8. g = [k \in 1 .. n |-> g[k]]
      BY <2>6 DEF RowFlipped, n
    <2> HIDE DEF b
    <2>9. \A k \in 1 .. n : g[k] = IF k <= b THEN s[Mirrored(k)] ELSE s[k]
      BY <2>1, <2>2, <2>7
    <2>10. g = [k \in 1 .. n |-> IF k <= b THEN s[Mirrored(k)] ELSE s[k]]
      BY <2>8, <2>9
    <2>11. QED
      BY <2>10 DEF t, g, a, b
  <1> HIDE DEF H, Row
  <1>4. Is(h)
    <2>1. \A i \in 0 .. m : h[i] = H(i)
      OBVIOUS
    <2>2. \A i \in 0 .. m : i # 0 => i \in 1 .. m /\ i - 1 \in 0 .. m
      BY <1>1
    <2>3. \A i \in 0 .. m : h[i] = IF i = 0 THEN s ELSE Row(h[i - 1], i)
      BY <1>2, <1>3, <2>1, <2>2
    <2>4. h = [i \in 0 .. m |-> h[i]]
      OBVIOUS
    <2> HIDE DEF h
    <2>5. QED
      BY <2>3, <2>4
  <1> DEFINE f == CHOOSE f : Is(f)
  <1>5. Is(f)
    <2> HIDE DEF h
    <2>1. QED
      BY <1>4, Zenon
  <1>6. height = m /\ DOMAIN s = 1 .. n
    <2>1. n \in Nat /\ DOMAIN s = 1 .. n
      BY <1>1
    <2>2. Len(s) = n
      <3> HIDE DEF n
      <3>1. s \in Seq({s[k] : k \in 1 .. n})
        BY <1>1, <2>1
      <3>2. QED
        BY <2>1, <3>1
    <2>3. ((m * width) + 0) \div width = m /\ (m * width) + 0 = m * width
      <3>1. 0 \in 0 .. width - 1
        BY <1>1
      <3>2. ((m * width) + 0) \div width = m
        BY <1>1, <3>1, DivisionIs
      <3>3. (m * width) + 0 = m * width
        BY <1>1
      <3>4. QED
        BY <3>2, <3>3
    <2>4. QED
      BY <2>1, <2>2, <2>3 DEF s
  <1>7. SequentialImage = [k \in DOMAIN s |-> Grey(f[m][k])]
    <2> DEFINE F(j) == CHOOSE g : g = [i \in 0 .. j |-> IF i = 0 THEN s ELSE Row(g[i - 1], i)]
               Made(j) == [k \in DOMAIN s |-> Grey(F(j)[j][k])]
    <2>1. SequentialImage = Made(height)
      BY DEF SequentialImage, Row, s
    <2>2. Made(m) = [k \in DOMAIN s |-> Grey(f[m][k])]
      OBVIOUS
    <2> HIDE DEF Made, height, f
    <2>3. QED
      BY <1>6, <2>1, <2>2, Zenon
  <1> HIDE DEF f
  <1>8. f[0] = s /\ \A i \in 1 .. m : f[i] = Row(f[i - 1], i)
    <2>1. 0 \in 0 .. m /\ \A i \in 1 .. m : i \in 0 .. m /\ i # 0
      BY <1>1
    <2>2. \A i \in 0 .. m : f[i] = IF i = 0 THEN s ELSE Row(f[i - 1], i)
      BY <1>5
    <2>3. QED
      BY <2>1, <2>2
  <1> DEFINE S == {i \in Nat : i <= m => f[i] = H(i)}
  <1>9. 0 \in S
    BY <1>2, <1>8
  <1>10. ASSUME NEW i \in Nat, i \in S PROVE i + 1 \in S
    <2> SUFFICES ASSUME i + 1 <= m PROVE f[i + 1] = H(i + 1)
      OBVIOUS
    <2>1. i + 1 \in 1 .. m /\ (i + 1) - 1 = i /\ i <= m
      BY <1>1
    <2>2. f[i] = H(i)
      BY <1>10, <2>1
    <2>3. f[i + 1] = Row(f[(i + 1) - 1], i + 1) /\ H(i + 1) = Row(H((i + 1) - 1), i + 1)
      BY <1>3, <1>8, <2>1
    <2>4. QED
      BY <2>1, <2>2, <2>3
  <1> HIDE DEF S
  <1>11. Nat \subseteq S
    BY <1>9, <1>10, Induction
  <1>12. f[m] = H(m)
    <2>1. m \in S /\ m <= m
      BY <1>1, <1>11
    <2>2. QED
      BY <2>1 DEF S
  <1>13. \A k \in DOMAIN s : H(m)[k] = s[Mirrored(k)]
    <2>1. \A k \in 1 .. n : k <= m * width
      BY <1>1
    <2>2. QED
      BY <1>6, <2>1 DEF H
  <1>14. QED
    BY <1>7, <1>12, <1>13
-----------------------------------------------------------------------------
\* What is to come of the image.
GreyMirror == [k \in DOMAIN input |-> Grey(input[Mirrored(k)])]

\* The file and the rows of a rank, as images.
LEMMA FileImage ==
    ASSUME FileOK
    PROVE  /\ Image(input, N[root]) /\ DOMAIN input = 1 .. N[root] * width
           /\ \A r \in Processes : Image(Rows(r), Count(N[root], r))
  <1> DEFINE n == N[root]
             m == n * width
             S == Item
  <1>1. input \in Seq(S) /\ Len(input) = m /\ width \in Nat \ {0} /\ n \in Nat
    BY ScatterGatherAssumption DEF FileOK
  <1>2. input = [k \in 1 .. m |-> input[k]] /\ DOMAIN input = 1 .. m
    <2> HIDE DEF m, S
    <2>1. QED
      BY <1>1
  <1>3. Image(input, n)
    BY <1>1, <1>2 DEF Image
  <1>4. ASSUME NEW r \in Processes PROVE Image(Rows(r), Count(n, r))
    <2> DEFINE c == Count(n, r)
               l == c * width
    <2>1. c \in Nat
      BY RowsFacts
    <2>2. Rows(r) = [i \in 1 .. l |-> input[displs[r] * width + i]]
      BY DEF Rows
    <2> HIDE DEF c
    <2>3. Rows(r) = [i \in 1 .. l |-> Rows(r)[i]]
      <3> HIDE DEF l
      <3>1. QED
        BY <2>2
    <2>4. QED
      BY <1>1, <2>1, <2>3 DEF Image, c
  <1>5. QED
    BY <1>2, <1>3, <1>4

\* A place in the rows of a rank and its other side, there and in the file.
LEMMA RowsMirrored ==
    ASSUME FileOK, NEW r \in Processes, NEW k \in 1 .. Count(N[root], r) * width
    PROVE  /\ Mirrored(k) \in 1 .. Count(N[root], r) * width
           /\ Mirrored(displs[r] * width + k) = displs[r] * width + Mirrored(k)
           /\ Rows(r)[Mirrored(k)] = input[Mirrored(displs[r] * width + k)]
  <1> DEFINE c == Count(N[root], r)
             d == displs[r]
             w == width
  <1>1. c \in Nat /\ d \in Nat /\ w \in Nat \ {0}
    BY RowsFacts
  <1>2. Mirrored(k) \in 1 .. c * w
    BY <1>1, MirroredIn
  <1>3. Mirrored(d * w + k) = d * w + Mirrored(k)
    <2>1. PICK p \in 0 .. c - 1, e \in 0 .. w - 1 : k = (p * w) + (e + 1)
      BY <1>1, RowOf
    <2>2. p \in Nat /\ d + p \in Nat
      BY <1>1, <2>1
    <2>3. Mirrored((p * w) + (e + 1)) = (p * w) + (w - e)
      BY <1>1, <2>1, <2>2, MirroredIs
    <2>4. Mirrored(((d + p) * w) + (e + 1)) = ((d + p) * w) + (w - e)
      BY <1>1, <2>1, <2>2, MirroredIs
    <2> HIDE DEF d, w
    <2> DEFINE x == p * w
               y == d * w
    <2>5. (d + p) * w = y + x /\ x \in Int /\ y \in Int /\ e \in Int /\ w \in Int
      BY <1>1, <2>1
    <2>6. Mirrored((y + x) + (e + 1)) = (y + x) + (w - e)
      BY <2>4, <2>5, Zenon
    <2> HIDE DEF x, y
    <2>7. y + k = (y + x) + (e + 1) /\ y + (x + (w - e)) = (y + x) + (w - e)
      BY <2>1, <2>5 DEF x
    <2>8. Mirrored(k) = x + (w - e)
      BY <2>1, <2>3 DEF x
    <2>9. Mirrored(y + k) = y + Mirrored(k)
      BY <2>6, <2>7, <2>8, Zenon
    <2>10. QED
      BY <2>9 DEF y
  <1>4. Rows(r) = [i \in 1 .. c * w |-> input[d * w + i]]
    BY DEF Rows
  <1>5. Rows(r)[Mirrored(k)] = input[d * w + Mirrored(k)]
    <2> HIDE DEF c, d, w
    <2>1. QED
      BY <1>2, <1>4
  <1>6. QED
    BY <1>2, <1>3, <1>5

\* The blocks, put back, are the mirrored image in grey.
LEMMA ImageGathered ==
    ASSUME FileOK, \A r \in Processes : data[r] = ProcessRows(Rows(r), Count(N[root], r))
    PROVE  Gatherv = GreyMirror
  <1> DEFINE n == N[root]
             w == width
             From(k) == {r \in Processes : /\ k > displs[r] * w
                                           /\ k <= (displs[r] + Count(n, r)) * w}
             Pixels(k) == IF From(k) = {} THEN input[k]
                          ELSE LET r == CHOOSE x \in From(k) : TRUE
                               IN  data[r][k - displs[r] * w]
  <1>1. DOMAIN input = 1 .. n * w /\ w \in Nat \ {0} /\ n \in Nat /\ K \in Nat \ {0}
    BY FileImage, ScatterGatherAssumption DEF FileOK
  <1>2. ASSUME NEW k \in 1 .. n * w PROVE From(k) # {}
    <2>1. PICK p \in 0 .. n - 1, c \in 0 .. w - 1 : k = (p * w) + (c + 1)
      BY <1>1, RowOf
    <2>2. p \in Nat /\ p + 1 \in 1 .. n
      BY <1>1, <2>1
    <2>3. PICK r \in Processes : p + 1 > displs[r] /\ p + 1 <= displs[r + 1]
      BY <1>1, <2>2, BlocksCover
    <2> DEFINE d == displs[r]
               e == d + Count(n, r)
    <2>4. d \in Nat /\ e \in Nat /\ p + 1 > d /\ p + 1 <= e
      <3>1. Count(n, r) \in Nat /\ d \in 0 .. n /\ displs[r + 1] = d + Count(n, r)
        BY <1>1, BlocksDivide
      <3>2. QED
        BY <1>1, <2>3, <3>1
    <2> HIDE DEF d, e, w
    <2>5. p - d \in Nat /\ e - (p + 1) \in Nat
      BY <2>2, <2>4
    <2>6. (p - d) * w \in Nat /\ (e - (p + 1)) * w \in Nat
      BY <1>1, <2>5
    <2>7. p * w = (d * w) + ((p - d) * w)
      BY <1>1, <2>2, <2>4
    <2>8. e * w = ((p * w) + w) + ((e - (p + 1)) * w)
      BY <1>1, <2>2, <2>4
    <2>9. d * w \in Nat /\ p * w \in Nat
      BY <1>1, <2>2, <2>4
    <2>10. k > d * w /\ k <= e * w
      BY <1>1, <2>1, <2>6, <2>7, <2>8, <2>9
    <2>11. r \in From(k)
      BY <2>10 DEF d, e, w
    <2>12. QED
      BY <2>11
  <1>3. ASSUME NEW k \in 1 .. n * w, NEW r \in From(k)
        PROVE  data[r][k - displs[r] * w] = Grey(input[Mirrored(k)])
    <2> DEFINE d == displs[r] * w
               c == Count(n, r)
               i == k - d
    <2>1. r \in Processes /\ k > d /\ k <= (displs[r] + c) * w
      OBVIOUS
    <2>2. c * w \in Nat /\ d \in Nat /\ d + c * w = (displs[r] + c) * w
      BY <2>1, RowsFacts
    <2> HIDE DEF d
    <2>3. i \in 1 .. c * w /\ d + i = k
      <3> DEFINE x == c * w
                 y == (displs[r] + c) * w
      <3>1. x \in Nat /\ d \in Nat /\ d + x = y /\ k > d /\ k <= y /\ k \in Int
        BY <2>1, <2>2
      <3> HIDE DEF x, y
      <3>2. i \in 1 .. x /\ d + i = k
        BY <3>1
      <3>3. QED
        BY <3>2 DEF x
    <2> HIDE DEF i
    <2>4. Image(Rows(r), c)
      BY <2>1, FileImage
    <2>5. data[r] = [j \in 1 .. c * w |-> Grey(Rows(r)[Mirrored(j)])]
      BY <2>1, <2>4, ProcessedIs
    <2>6. data[r][i] = Grey(Rows(r)[Mirrored(i)])
      BY <2>3, <2>5
    <2>7. Rows(r)[Mirrored(i)] = input[Mirrored(d + i)]
      BY <2>1, <2>3, RowsMirrored DEF d
    <2>8. data[r][i] = Grey(input[Mirrored(k)])
      BY <2>3, <2>6, <2>7
    <2>9. QED
      BY <2>8 DEF d, i
  <1>4. Gatherv = [k \in DOMAIN input |-> Pixels(k)]
    BY DEF Gatherv
  <1>5. ASSUME NEW k \in 1 .. n * w PROVE Pixels(k) = Grey(input[Mirrored(k)])
    <2> HIDE DEF From
    <2> DEFINE r == CHOOSE x \in From(k) : TRUE
    <2>1. From(k) # {} /\ r \in From(k)
      BY <1>2
    <2>2. Pixels(k) = data[r][k - displs[r] * w]
      BY <2>1
    <2> HIDE DEF r, Pixels
    <2>3. QED
      BY <1>3, <2>1, <2>2
  <1> HIDE DEF Pixels, n, w
  <1>6. QED
    BY <1>1, <1>4, <1>5 DEF GreyMirror

\* All are pixels.
LEMMA PixelsMade ==
    ASSUME FileOK, program = "p6"
    PROVE  /\ GreyMirror \in Seq(Pixel)
           /\ \A r \in Processes : ProcessRows(Rows(r), Count(N[root], r)) \in Seq(Pixel)
  <1>1. ASSUME NEW p \in Pixel PROVE Grey(p) \in Pixel
    <2>1. p[1] \in 0 .. 255 /\ p[2] \in 0 .. 255 /\ p[3] \in 0 .. 255
      BY DEF Pixel
    <2> DEFINE x == (p[1] + p[2] + p[3]) \div 3
    <2>2. x \in 0 .. 255
      <3> DEFINE a == p[1]
                 b == p[2]
                 e == p[3]
                 y == a + b + e
      <3> HIDE DEF a, b, e
      <3>1. y \in 0 .. 765
        <4>1. a \in 0 .. 255 /\ b \in 0 .. 255 /\ e \in 0 .. 255
          BY <2>1 DEF a, b, e
        <4>2. QED
          BY <4>1
      <3> HIDE DEF y
      <3>2. y \div 3 \in 0 .. 255
        BY <3>1
      <3>3. QED
        BY <3>2 DEF y, a, b, e
    <2> HIDE DEF x
    <2>3. [c \in 1 .. 3 |-> x] \in [1 .. 3 -> 0 .. 255]
      BY <2>2
    <2>4. QED
      BY <2>3 DEF Grey, Pixel, x
  <1>2. ASSUME NEW s, NEW m \in Nat, width \in Nat \ {0}, s \in Seq(Pixel), Len(s) = m * width
        PROVE  [k \in 1 .. m * width |-> Grey(s[Mirrored(k)])] \in Seq(Pixel)
    <2> DEFINE l == m * width
    <2>1. l \in Nat
      BY <1>2
    <2>2. \A k \in 1 .. l : Mirrored(k) \in 1 .. l
      BY <1>2, MirroredIn
    <2> HIDE DEF l
    <2>3. \A k \in 1 .. l : s[Mirrored(k)] \in Pixel
      BY <1>2, <2>2 DEF l
    <2>4. \A k \in 1 .. l : Grey(s[Mirrored(k)]) \in Pixel
      BY <1>1, <2>3
    <2>5. [k \in 1 .. l |-> Grey(s[Mirrored(k)])] \in Seq(Pixel)
      BY <2>1, <2>4
    <2>6. QED
      BY <2>5 DEF l
  <1>3. /\ width \in Nat \ {0} /\ N[root] \in Nat /\ input \in Seq(Pixel)
        /\ Len(input) = N[root] * width
    BY ScatterGatherAssumption DEF FileOK, Item
  <1>4. GreyMirror \in Seq(Pixel)
    <2>1. DOMAIN input = 1 .. N[root] * width
      BY FileImage
    <2>2. GreyMirror = [k \in 1 .. N[root] * width |-> Grey(input[Mirrored(k)])]
      BY <2>1 DEF GreyMirror
    <2>3. QED
      BY <1>2, <1>3, <2>2
  <1>5. ASSUME NEW r \in Processes
        PROVE  ProcessRows(Rows(r), Count(N[root], r)) \in Seq(Pixel)
    <2> DEFINE s == Rows(r)
               c == Count(N[root], r)
    <2>1. s \in Seq(Pixel) /\ Len(s) = c * width /\ c \in Nat
      BY RowsFacts DEF Item
    <2>2. Image(s, c)
      BY FileImage
    <2> HIDE DEF s, c
    <2>3. ProcessRows(s, c) = [k \in 1 .. c * width |-> Grey(s[Mirrored(k)])]
      BY <2>2, ProcessedIs
    <2>4. QED
      BY <1>2, <1>3, <2>1, <2>3 DEF s, c
  <1>6. QED
    BY <1>4, <1>5
-----------------------------------------------------------------------------
(***************************************************************************)
(* The invariant.                                                          *)
(***************************************************************************)
\* What a rank has made of its rows, and the root of what all have made.
Worked(r) == IF program = "p6" THEN ProcessRows(Rows(r), Count(N[root], r))
             ELSE <<Local(Rows(r))>>

Made == IF program = "p6" THEN GreyMirror
        ELSE <<Merge([i \in 1 .. K |-> Local(Rows(i - 1))])>>

\* A rank knows N once the root has told it, and has what it made of its rows.
RankOK(r) ==
    /\ place[r] # "bcast" => N[r] = N[root]
    /\ data[r] = IF place[r] \in {"bcast", "scatter"} THEN <<>> ELSE Worked(r)

ScatterInv ==
    /\ FileOK /\ program \in Programs
    /\ N \in [Processes -> 0 .. MaxItems \cup {Unknown}]
    /\ place \in [Processes -> {"bcast", "scatter", "gather", "done"}]
    /\ data = [r \in Processes |-> data[r]]
    /\ \A r \in Processes : RankOK(r)
    /\ output = IF place[root] = "done" THEN Made ELSE <<>>

\* A step that leaves the file, and what the root knows of its length.
SameFile ==
    program' = program /\ K' = K /\ width' = width /\ input' = input /\ N'[root] = N[root]

\* A step leaves the file, and how much of it is whose.
LEMMA FileStays ==
    ASSUME SameFile
    PROVE  /\ Processes' = Processes /\ Made' = Made
           /\ FileOK => FileOK'
           /\ \A r : Count(N[root], r)' = Count(N[root], r)
           /\ \A r : Worked(r)' = Worked(r)
  <1>1. program' = program /\ K' = K /\ width' = width /\ input' = input /\ N'[root] = N[root]
    BY DEF SameFile
  <1>2. Processes' = Processes
    BY <1>1, Zenon DEF Processes
  <1>3. ASSUME NEW n, NEW r PROVE Count(n, r)' = Count(n, r)
    BY <1>1, Zenon DEF Count
  <1>4. \A r : Count(N[root], r)' = Count(N[root], r)
    BY <1>1, Zenon DEF Count, root
  <1>5. displs' = displs
    BY <1>1, Zenon DEF displs, Count, root
  <1>6. ASSUME NEW r PROVE Rows(r)' = Rows(r)
    <2> DEFINE m == Count(N[root], r) * width
               R(l, d, w, f) == [i \in 1 .. l |-> f[d[r] * w + i]]
    <2>1. m' = m
      BY <1>1, <1>4, Zenon
    <2>2. Rows(r) = R(m, displs, width, input)
      BY DEF Rows
    <2>3. Rows(r)' = R(m', displs', width', input')
      BY DEF Rows
    <2> HIDE DEF m, R
    <2>4. QED
      BY <1>1, <1>5, <2>1, <2>2, <2>3, Zenon
  <1>7. ASSUME NEW s PROVE Local(s)' = Local(s)
    BY <1>1, Zenon DEF Local
  <1>8. ASSUME NEW r PROVE Local(Rows(r))' = Local(Rows(r))
    <2>1. Rows(r)' = Rows(r)
      BY <1>6
    <2>2. QED
      BY <1>1, <2>1, Zenon DEF Local
  <1>9. ASSUME NEW r
        PROVE  ProcessRows(Rows(r), Count(N[root], r))' =
                   ProcessRows(Rows(r), Count(N[root], r))
    <2>1. Rows(r)' = Rows(r)
      BY <1>6
    <2>2. Count(N[root], r)' = Count(N[root], r)
      BY <1>4
    <2>3. QED
      BY <1>1, <2>1, <2>2, Zenon DEF ProcessRows
  <1>10. ASSUME NEW r PROVE Worked(r)' = Worked(r)
    BY <1>1, <1>8, <1>9, Zenon DEF Worked
  <1>11. GreyMirror' = GreyMirror
    BY <1>1, Zenon DEF GreyMirror, Mirrored
  <1>12. Made' = Made
    <2>1. [i \in 1 .. K |-> Local(Rows(i - 1))]' = [i \in 1 .. K |-> Local(Rows(i - 1))]
      BY <1>1, <1>8
    <2>2. QED
      BY <1>1, <1>11, <2>1, Zenon DEF Made
  <1>13. FileOK => FileOK'
    BY <1>1, Zenon DEF FileOK, Item, root
  <1>14. QED
    BY <1>2, <1>4, <1>10, <1>12, <1>13
-----------------------------------------------------------------------------
\* The file is one that ScatterInit reads.
LEMMA FileRead == ScatterInit => FileOK /\ program \in Programs
  <1> SUFFICES ASSUME ScatterInit PROVE FileOK /\ program \in Programs
    OBVIOUS
  <1>1. /\ program \in Programs /\ K \in 1 .. MaxRanks
        /\ program \in {"p5_1", "p5_2", "p5_3", "p6"}
        /\ MaxWidth \in Nat \ {0} /\ MaxItems \in Nat
    BY ScatterGatherAssumption DEF ScatterInit
  <1>2. N[root] = Len(input) \div width
    <2>1. root \in Processes
      BY <1>1 DEF root, Processes
    <2>2. QED
      BY <2>1 DEF ScatterInit
  <1>3. CASE program = "p6"
    <2>1. width \in 1 .. MaxWidth /\ input \in Images(width)
      BY <1>3 DEF ScatterInit
    <2>2. PICK height \in 0 .. MaxItems : input = [k \in 1 .. width * height |-> Colours[k]]
      BY <2>1 DEF Images
    <2> DEFINE m == width * height
               S == Pixel
               M == Len(Colours)
    <2>3. width \in Nat \ {0} /\ height \in Nat /\ m \in Nat /\ m = height * width
      BY <1>1, <2>1
    <2>4. Colours \in Seq(S) /\ MaxWidth * MaxItems <= M
      BY ScatterGatherAssumption DEF Pixel
    <2>5. m <= MaxWidth * MaxItems
      <3>1. MaxWidth - width \in Nat /\ MaxItems - height \in Nat
        BY <1>1, <2>1
      <3>2. (MaxWidth - width) * MaxItems \in Nat /\ width * (MaxItems - height) \in Nat
        BY <1>1, <2>3, <3>1
      <3>3. MaxWidth * MaxItems = ((MaxWidth - width) * MaxItems) + (width * MaxItems)
        BY <1>1, <2>3
      <3>4. width * MaxItems = (width * (MaxItems - height)) + (width * height)
        BY <1>1, <2>3
      <3>5. width * MaxItems \in Nat /\ width * height \in Nat
        BY <1>1, <2>3
      <3> DEFINE a == (MaxWidth - width) * MaxItems
                 b == width * (MaxItems - height)
                 c == width * MaxItems
                 e == MaxWidth * MaxItems
      <3> HIDE DEF a, b, c, e, m
      <3>6. a \in Nat /\ b \in Nat /\ c \in Nat /\ m \in Nat /\ e = a + c /\ c = b + m
        BY <3>2, <3>3, <3>4, <3>5 DEF a, b, c, e, m
      <3>7. m <= e
        BY <3>6
      <3>8. QED
        BY <3>7 DEF e
    <2>6. M \in Nat /\ m <= M
      <3> DEFINE e == MaxWidth * MaxItems
      <3>1. e \in Nat /\ M \in Nat
        BY <1>1, <2>4
      <3> HIDE DEF e, m, M
      <3>2. m <= e /\ e <= M /\ m \in Nat
        BY <2>3, <2>4, <2>5 DEF e
      <3>3. QED
        BY <3>1, <3>2
    <2> HIDE DEF S
    <2>7. \A k \in 1 .. m : Colours[k] \in S
      <3> HIDE DEF m
      <3>1. \A k \in 1 .. m : k \in 1 .. M
        BY <2>3, <2>6
      <3>2. QED
        BY <2>4, <3>1
    <2>8. input \in Seq(S) /\ Len(input) = m
      <3>1. input = [k \in 1 .. m |-> Colours[k]]
        BY <2>2
      <3> HIDE DEF m
      <3>2. QED
        BY <2>3, <2>7, <3>1
    <2>9. N[root] = height
      <3>1. 0 \in 0 .. width - 1
        BY <2>3
      <3>2. ((height * width) + 0) \div width = height
        BY <2>3, <3>1, DivisionIs
      <3>3. (height * width) + 0 = m
        BY <2>3
      <3>4. QED
        BY <1>2, <2>8, <3>2, <3>3
    <2>10. QED
      BY <1>1, <1>3, <2>1, <2>2, <2>3, <2>8, <2>9 DEF FileOK, Item, S
  <1>4. CASE program # "p6"
    <2>1. width = 1 /\ input \in IntegerFiles
      BY <1>4 DEF ScatterInit
    <2>2. PICK n \in 0 .. MaxItems : input \in [1 .. n -> Values]
      BY <2>1 DEF IntegerFiles
    <2>3. n \in Nat /\ input \in Seq(Values) /\ Len(input) = n
      BY <1>1, <2>2
    <2>4. N[root] = n /\ n = n * 1
      BY <1>2, <2>1, <2>3
    <2>5. width \in 1 .. MaxWidth
      BY <1>1, <2>1
    <2>6. QED
      BY <1>1, <1>4, <2>1, <2>2, <2>3, <2>4, <2>5 DEF FileOK, Item
  <1>5. QED
    BY <1>3, <1>4

LEMMA ScatterStarts == ScatterInit => ScatterInv
  <1> SUFFICES ASSUME ScatterInit PROVE ScatterInv
    OBVIOUS
  <1>1. FileOK /\ program \in Programs
    BY FileRead
  <1>2. /\ N = [r \in Processes |-> IF r = root THEN Len(input) \div width ELSE Unknown]
        /\ place = [r \in Processes |-> "bcast"]
        /\ data = [r \in Processes |-> <<>>]
        /\ output = <<>>
    BY DEF ScatterInit
  <1>3. root \in Processes /\ N[root] \in 0 .. MaxItems
    BY <1>1, ScatterGatherAssumption DEF FileOK, root, Processes
  <1>4. N \in [Processes -> 0 .. MaxItems \cup {Unknown}]
    <2>1. N[root] = Len(input) \div width
      BY <1>2, <1>3
    <2>2. QED
      BY <1>2, <1>3, <2>1
  <1>5. /\ place \in [Processes -> {"bcast", "scatter", "gather", "done"}]
        /\ data = [r \in Processes |-> data[r]]
    BY <1>2
  <1>6. \A r \in Processes : RankOK(r)
    BY <1>2 DEF RankOK
  <1>7. place[root] = "bcast"
    BY <1>2, <1>3
  <1>8. QED
    BY <1>1, <1>2, <1>4, <1>5, <1>6, <1>7 DEF ScatterInv
-----------------------------------------------------------------------------
LEMMA BcastKeeps ==
    ASSUME ScatterInv, NEW r \in Processes, Bcast(r)
    PROVE  ScatterInv'
  <1>1. /\ FileOK /\ program \in Programs
        /\ N \in [Processes -> 0 .. MaxItems \cup {Unknown}]
        /\ place \in [Processes -> {"bcast", "scatter", "gather", "done"}]
        /\ data = [x \in Processes |-> data[x]]
        /\ \A x \in Processes : RankOK(x)
        /\ output = IF place[root] = "done" THEN Made ELSE <<>>
    BY DEF ScatterInv
  <1>2. /\ place[r] = "bcast" /\ N' = [N EXCEPT ![r] = N[root]]
        /\ place' = [place EXCEPT ![r] = "scatter"]
        /\ UNCHANGED <<program, K, width, input, data, output>>
    BY DEF Bcast
  <1>3. root \in Processes /\ N[root] \in 0 .. MaxItems
    BY <1>1, ScatterGatherAssumption DEF FileOK, root, Processes
  <1>4. N'[root] = N[root]
    BY <1>1, <1>2, <1>3
  <1>5. SameFile
    BY <1>2, <1>4 DEF SameFile
  <1>6. /\ Processes' = Processes /\ Made' = Made /\ FileOK'
        /\ \A x : Worked(x)' = Worked(x)
    BY <1>1, <1>5, FileStays
  <1>7. ASSUME NEW x \in Processes PROVE RankOK(x)'
    <2>1. RankOK(x)
      BY <1>1
    <2>2. /\ x # r => N'[x] = N[x] /\ place'[x] = place[x]
          /\ x = r => N'[x] = N[root] /\ place'[x] = "scatter"
      BY <1>1, <1>2
    <2>3. Worked(x)' = Worked(x) /\ data'[x] = data[x]
      BY <1>2, <1>6
    <2> DEFINE R(p, n, m, d, w) == /\ p # "bcast" => n = m
                                   /\ d = IF p \in {"bcast", "scatter"} THEN <<>> ELSE w
    <2>4. R(place[x], N[x], N[root], data[x], Worked(x))
      BY <2>1 DEF RankOK
    <2>5. R(place'[x], N'[x], N'[root], data'[x], Worked(x)')
      <3> HIDE DEF Worked
      <3>1. CASE x = r
        BY <1>2, <1>4, <2>2, <2>3, <2>4, <3>1
      <3>2. CASE x # r
        BY <1>4, <2>2, <2>3, <2>4, <3>2
      <3>3. QED
        BY <3>1, <3>2
    <2>6. QED
      BY <2>5 DEF RankOK, root
  <1>8. /\ N' \in [Processes -> 0 .. MaxItems \cup {Unknown}]
        /\ place' \in [Processes -> {"bcast", "scatter", "gather", "done"}]
    BY <1>1, <1>2, <1>3
  <1>9. place'[root] = "done" <=> place[root] = "done"
    BY <1>1, <1>2, <1>3
  <1>10. output' = IF place'[root] = "done" THEN Made' ELSE <<>>
    BY <1>1, <1>2, <1>6, <1>9
  <1>11. data' = [x \in Processes |-> data'[x]] /\ program' \in Programs
    BY <1>1, <1>2
  <1>12. QED
    BY <1>6, <1>7, <1>8, <1>10, <1>11 DEF ScatterInv, Unknown, root
-----------------------------------------------------------------------------
LEMMA ScatterKeeps ==
    ASSUME ScatterInv, NEW r \in Processes, Scatter(r)
    PROVE  ScatterInv'
  <1>1. /\ FileOK /\ program \in Programs
        /\ N \in [Processes -> 0 .. MaxItems \cup {Unknown}]
        /\ place \in [Processes -> {"bcast", "scatter", "gather", "done"}]
        /\ data = [x \in Processes |-> data[x]]
        /\ \A x \in Processes : RankOK(x)
        /\ output = IF place[root] = "done" THEN Made ELSE <<>>
    BY DEF ScatterInv
  <1>2. /\ place[r] = "scatter"
        /\ place' = [place EXCEPT ![r] = "gather"]
        /\ UNCHANGED <<program, K, width, input, N, output>>
    BY DEF Scatter
  <1>3. root \in Processes
    BY <1>1, ScatterGatherAssumption DEF FileOK, root, Processes
  <1>4. SameFile
    BY <1>2 DEF SameFile
  <1>5. /\ Processes' = Processes /\ Made' = Made /\ FileOK'
        /\ \A x : Worked(x)' = Worked(x)
    BY <1>1, <1>4, FileStays
  <1>6. N[r] = N[root]
    BY <1>1, <1>2 DEF RankOK
  <1>7. data' = [data EXCEPT ![r] = Worked(r)]
    <2> DEFINE sent  == SubSeq(input, displs[r] * width + 1,
                               (displs[r] + Count(N[root], r)) * width)
               cnt   == Count(N[r], r)
               block == SubSeq(sent, 1, cnt * width)
    <2>1. data' = [data EXCEPT ![r] = IF program = "p6" THEN ProcessRows(block, cnt)
                                      ELSE <<Local(block)>>]
      BY DEF Scatter
    <2>2. block = Rows(r) /\ cnt = Count(N[root], r)
      BY <1>1, <1>6, RowsScattered
    <2> HIDE DEF block, cnt
    <2>3. QED
      BY <2>1, <2>2, Zenon DEF Worked
  <1>8. ASSUME NEW x \in Processes PROVE RankOK(x)'
    <2>1. RankOK(x)
      BY <1>1
    <2>2. N'[x] = N[x] /\ N'[root] = N[root]
      BY <1>2
    <2>3. /\ x # r => data'[x] = data[x] /\ place'[x] = place[x]
          /\ x = r => data'[x] = Worked(r) /\ place'[x] = "gather"
      BY <1>1, <1>2, <1>7
    <2>4. Worked(x)' = Worked(x)
      BY <1>5
    <2> DEFINE R(p, n, m, d, w) == /\ p # "bcast" => n = m
                                   /\ d = IF p \in {"bcast", "scatter"} THEN <<>> ELSE w
    <2>5. R(place[x], N[x], N[root], data[x], Worked(x))
      BY <2>1 DEF RankOK
    <2>6. R(place'[x], N'[x], N'[root], data'[x], Worked(x)')
      <3> HIDE DEF Worked
      <3>1. CASE x = r
        BY <1>6, <2>2, <2>3, <2>4, <3>1
      <3>2. CASE x # r
        BY <2>2, <2>3, <2>4, <2>5, <3>2
      <3>3. QED
        BY <3>1, <3>2
    <2>7. QED
      BY <2>6 DEF RankOK, root
  <1>9. place' \in [Processes -> {"bcast", "scatter", "gather", "done"}]
    BY <1>1, <1>2
  <1>10. place'[root] = "done" <=> place[root] = "done"
    BY <1>1, <1>2, <1>3
  <1>11. output' = IF place'[root] = "done" THEN Made' ELSE <<>>
    BY <1>1, <1>2, <1>5, <1>10
  <1>12. data' = [x \in Processes |-> data'[x]]
    BY <1>1, <1>7
  <1>13. program' \in Programs /\ N' \in [Processes -> 0 .. MaxItems \cup {Unknown}]
    BY <1>1, <1>2
  <1>14. QED
    BY <1>5, <1>8, <1>9, <1>11, <1>12, <1>13 DEF ScatterInv, Unknown, root

LEMMA GatherKeeps ==
    ASSUME ScatterInv, NEW r \in Processes, GatherBlock(r)
    PROVE  ScatterInv'
  <1>1. /\ FileOK /\ program \in Programs
        /\ N \in [Processes -> 0 .. MaxItems \cup {Unknown}]
        /\ place \in [Processes -> {"bcast", "scatter", "gather", "done"}]
        /\ data = [x \in Processes |-> data[x]]
        /\ \A x \in Processes : RankOK(x)
        /\ output = IF place[root] = "done" THEN Made ELSE <<>>
    BY DEF ScatterInv
  <1>2. /\ place[r] = "gather" /\ r # root
        /\ place' = [place EXCEPT ![r] = "done"]
        /\ UNCHANGED <<program, K, width, input, N, data, output>>
    BY DEF GatherBlock
  <1>3. root \in Processes
    BY <1>1, ScatterGatherAssumption DEF FileOK, root, Processes
  <1>4. SameFile
    BY <1>2 DEF SameFile
  <1>5. /\ Processes' = Processes /\ Made' = Made /\ FileOK'
        /\ \A x : Worked(x)' = Worked(x)
    BY <1>1, <1>4, FileStays
  <1>6. ASSUME NEW x \in Processes PROVE RankOK(x)'
    <2>1. RankOK(x)
      BY <1>1
    <2>2. N'[x] = N[x] /\ N'[root] = N[root] /\ data'[x] = data[x]
      BY <1>2
    <2>3. /\ x # r => place'[x] = place[x]
          /\ x = r => place'[x] = "done" /\ place[x] = "gather"
      BY <1>1, <1>2
    <2>4. Worked(x)' = Worked(x)
      BY <1>5
    <2> DEFINE R(p, n, m, d, w) == /\ p # "bcast" => n = m
                                   /\ d = IF p \in {"bcast", "scatter"} THEN <<>> ELSE w
    <2>5. R(place[x], N[x], N[root], data[x], Worked(x))
      BY <2>1 DEF RankOK
    <2>6. R(place'[x], N'[x], N'[root], data'[x], Worked(x)')
      <3> HIDE DEF Worked
      <3>1. CASE x = r
        BY <2>2, <2>3, <2>4, <2>5, <3>1
      <3>2. CASE x # r
        BY <2>2, <2>3, <2>4, <2>5, <3>2
      <3>3. QED
        BY <3>1, <3>2
    <2>7. QED
      BY <2>6 DEF RankOK, root
  <1>7. place' \in [Processes -> {"bcast", "scatter", "gather", "done"}]
    BY <1>1, <1>2
  <1>8. place'[root] = "done" <=> place[root] = "done"
    BY <1>1, <1>2, <1>3
  <1>9. output' = IF place'[root] = "done" THEN Made' ELSE <<>>
    BY <1>1, <1>2, <1>5, <1>8
  <1>10. /\ data' = [x \in Processes |-> data'[x]]
         /\ program' \in Programs /\ N' \in [Processes -> 0 .. MaxItems \cup {Unknown}]
    BY <1>1, <1>2
  <1>11. QED
    BY <1>5, <1>6, <1>7, <1>9, <1>10 DEF ScatterInv, Unknown, root

\* When the root has gathered all, every rank has done its work.
LEMMA CollectKeeps ==
    ASSUME ScatterInv, Collect
    PROVE  ScatterInv'
  <1>1. /\ FileOK /\ program \in Programs
        /\ N \in [Processes -> 0 .. MaxItems \cup {Unknown}]
        /\ place \in [Processes -> {"bcast", "scatter", "gather", "done"}]
        /\ data = [x \in Processes |-> data[x]]
        /\ \A x \in Processes : RankOK(x)
        /\ output = IF place[root] = "done" THEN Made ELSE <<>>
    BY DEF ScatterInv
  <1>2. /\ place[root] = "gather" /\ Gathered
        /\ output' = IF program = "p6" THEN Gatherv
                     ELSE <<Merge([i \in 1 .. K |-> data[i - 1][1]])>>
        /\ place' = [place EXCEPT ![root] = "done"]
        /\ UNCHANGED <<program, K, width, input, N, data>>
    BY DEF Collect
  <1>3. root \in Processes
    BY <1>1, ScatterGatherAssumption DEF FileOK, root, Processes
  <1>4. SameFile
    BY <1>2 DEF SameFile
  <1>5. /\ Processes' = Processes /\ Made' = Made /\ FileOK'
        /\ \A x : Worked(x)' = Worked(x)
    BY <1>1, <1>4, FileStays
  <1>6. \A x \in Processes : data[x] = Worked(x)
    <2>1. \A x \in Processes : place[x] = "gather" \/ place[x] = "done"
      BY <1>2 DEF Gathered
    <2> HIDE DEF Worked
    <2>2. QED
      BY <1>1, <2>1 DEF RankOK
  <1>7. output' = Made
    <2>1. CASE program = "p6"
      <3>1. \A x \in Processes : data[x] = ProcessRows(Rows(x), Count(N[root], x))
        BY <1>6, <2>1 DEF Worked
      <3>2. Gatherv = GreyMirror
        BY <1>1, <3>1, ImageGathered
      <3>3. QED
        BY <1>2, <2>1, <3>2 DEF Made
    <2>2. CASE program # "p6"
      <3>1. \A i \in 1 .. K : i - 1 \in Processes
        BY <1>1, ScatterGatherAssumption DEF FileOK, Processes
      <3>2. \A i \in 1 .. K : data[i - 1] = <<Local(Rows(i - 1))>>
        BY <1>6, <2>2, <3>1 DEF Worked
      <3>3. \A i \in 1 .. K : data[i - 1][1] = Local(Rows(i - 1))
        BY <3>2
      <3>4. [i \in 1 .. K |-> data[i - 1][1]] = [i \in 1 .. K |-> Local(Rows(i - 1))]
        BY <3>3
      <3>5. QED
        BY <1>2, <2>2, <3>4, Zenon DEF Made
    <2>3. QED
      BY <2>1, <2>2
  <1>8. ASSUME NEW x \in Processes PROVE RankOK(x)'
    <2>1. RankOK(x)
      BY <1>1
    <2>2. N'[x] = N[x] /\ N'[root] = N[root] /\ data'[x] = data[x]
      BY <1>2
    <2>3. /\ x # root => place'[x] = place[x]
          /\ x = root => place'[x] = "done" /\ place[x] = "gather"
      BY <1>1, <1>2
    <2>4. Worked(x)' = Worked(x)
      BY <1>5
    <2> DEFINE R(p, n, m, d, w) == /\ p # "bcast" => n = m
                                   /\ d = IF p \in {"bcast", "scatter"} THEN <<>> ELSE w
    <2>5. R(place[x], N[x], N[root], data[x], Worked(x))
      BY <2>1 DEF RankOK
    <2>6. R(place'[x], N'[x], N'[root], data'[x], Worked(x)')
      <3> HIDE DEF Worked
      <3>1. CASE x = root
        BY <2>2, <2>3, <2>4, <2>5, <3>1
      <3>2. CASE x # root
        BY <2>2, <2>3, <2>4, <2>5, <3>2
      <3>3. QED
        BY <3>1, <3>2
    <2>7. QED
      BY <2>6 DEF RankOK, root
  <1>9. /\ place' \in [Processes -> {"bcast", "scatter", "gather", "done"}]
        /\ place'[root] = "done"
    BY <1>1, <1>2, <1>3
  <1>10. output' = IF place'[root] = "done" THEN Made' ELSE <<>>
    BY <1>5, <1>7, <1>9
  <1>11. /\ data' = [x \in Processes |-> data'[x]]
         /\ program' \in Programs /\ N' \in [Processes -> 0 .. MaxItems \cup {Unknown}]
    BY <1>1, <1>2
  <1>12. QED
    BY <1>5, <1>8, <1>9, <1>10, <1>11 DEF ScatterInv, Unknown, root

LEMMA ScatterStays ==
    ASSUME ScatterInv, UNCHANGED scatterVars
    PROVE  ScatterInv'
  <1>1. UNCHANGED <<program, K, width, input, N, place, data, output>>
    BY DEF scatterVars
  <1>2. SameFile
    BY <1>1 DEF SameFile
  <1>3. /\ Processes' = Processes /\ Made' = Made /\ FileOK'
        /\ \A x : Worked(x)' = Worked(x)
    BY <1>2, FileStays DEF ScatterInv
  <1>4. \A x \in Processes : RankOK(x)'
    <2> HIDE DEF Worked
    <2>1. QED
      BY <1>1, <1>3 DEF RankOK, ScatterInv, root
  <1>5. QED
    BY <1>1, <1>3, <1>4, Zenon DEF ScatterInv, Unknown, root

\* Each rank works on its own rows and no others, and when the root reports,
\* what it reports is made of the work of all.
THEOREM ScatterInvariant == ScatterSafety => []ScatterInv
  <1>1. ASSUME ScatterInv, [ScatterNext]_scatterVars PROVE ScatterInv'
    <2>1. ASSUME NEW r \in Processes, Bcast(r) PROVE ScatterInv'
      BY <1>1, <2>1, BcastKeeps
    <2>2. ASSUME NEW r \in Processes, Scatter(r) PROVE ScatterInv'
      BY <1>1, <2>2, ScatterKeeps
    <2>3. ASSUME NEW r \in Processes, GatherBlock(r) PROVE ScatterInv'
      BY <1>1, <2>3, GatherKeeps
    <2>4. CASE Collect
      BY <1>1, <2>4, CollectKeeps
    <2>5. CASE Exit \/ UNCHANGED scatterVars
      BY <1>1, <2>5, ScatterStays DEF Exit
    <2>6. QED
      BY <1>1, <2>1, <2>2, <2>3, <2>4, <2>5 DEF ScatterNext
  <1>2. QED
    BY <1>1, ScatterStarts, PTL DEF ScatterSafety
-----------------------------------------------------------------------------
\* All that a rank or the root makes of integers is in the range of an int.
LEMMA IntsMade ==
    ASSUME FileOK, program # "p6"
    PROVE  /\ \A r \in Processes : Local(Rows(r)) \in Ints
           /\ Merge([i \in 1 .. K |-> Local(Rows(i - 1))]) \in Ints
  <1>1. ASSUME NEW s, Len(s) \in Nat, \A i \in 1 .. Len(s) : s[i] \in Int
        PROVE  Local(s) \in Ints /\ Merge(s) \in Ints
    <2>1. Sum(s) \in Ints
      BY <1>1, SumTyped
    <2>2. collapse[Sum(s)] \in Ints /\ ultimate_collapse[Sum(s)] \in Ints
      BY <2>1, CollapseFacts, UltimateFacts
    <2>3. program \in {"p5_1", "p5_2", "p5_3"}
      BY DEF FileOK
    <2>4. QED
      BY <2>1, <2>2, <2>3 DEF Local, Merge
  <1>2. ASSUME NEW r \in Processes PROVE Local(Rows(r)) \in Ints
    <2> DEFINE s == Rows(r)
    <2>1. Len(s) \in Nat /\ \A i \in 1 .. Len(s) : s[i] \in Int
      BY BlockIs, RowsFacts
    <2> HIDE DEF s
    <2>2. Local(s) \in Ints
      BY <1>1, <2>1
    <2>3. QED
      BY <2>2 DEF s
  <1>3. Merge([i \in 1 .. K |-> Local(Rows(i - 1))]) \in Ints
    <2> DEFINE m == [i \in 1 .. K |-> Local(Rows(i - 1))]
    <2>1. \A i \in 1 .. K : i - 1 \in Processes
      BY ScatterGatherAssumption DEF FileOK, Processes
    <2>2. \A i \in 1 .. K : Local(Rows(i - 1)) \in Int
      BY <1>2, <2>1, IntsAre
    <2>3. K \in Nat
      BY ScatterGatherAssumption DEF FileOK
    <2>4. Len(m) \in Nat /\ \A i \in 1 .. Len(m) : m[i] \in Int
      BY <2>2, <2>3
    <2> HIDE DEF m
    <2>5. Merge(m) \in Ints
      BY <1>1, <2>4
    <2>6. QED
      BY <2>5 DEF m
  <1>4. QED
    BY <1>2, <1>3

LEMMA ScatterTyped == ScatterInv => ScatterTypeOK
  <1> SUFFICES ASSUME ScatterInv PROVE ScatterTypeOK
    OBVIOUS
  <1>1. /\ FileOK /\ program \in Programs
        /\ N \in [Processes -> 0 .. MaxItems \cup {Unknown}]
        /\ place \in [Processes -> {"bcast", "scatter", "gather", "done"}]
        /\ \A x \in Processes : RankOK(x)
        /\ output = IF place[root] = "done" THEN Made ELSE <<>>
    BY DEF ScatterInv
  <1>2. K \in 1 .. MaxRanks /\ width \in 1 .. MaxWidth
    BY <1>1 DEF FileOK
  <1>3. ASSUME NEW r \in Processes
        PROVE  IF program = "p6" THEN data[r] \in Seq(Pixel)
               ELSE data[r] \in Seq(Ints) /\ Len(data[r]) <= 1
    <2>1. data[r] = <<>> \/ data[r] = Worked(r)
      BY <1>1 DEF RankOK
    <2>2. program = "p6" => Worked(r) \in Seq(Pixel)
      BY <1>1, PixelsMade DEF Worked
    <2>3. ASSUME program # "p6" PROVE Worked(r) \in Seq(Ints) /\ Len(Worked(r)) = 1
      <3> DEFINE x == Local(Rows(r))
      <3>1. x \in Ints
        BY <1>1, <2>3, IntsMade
      <3>2. Worked(r) = <<x>>
        BY <2>3 DEF Worked
      <3> HIDE DEF x
      <3>3. QED
        BY <3>1, <3>2
    <2>4. CASE program = "p6"
      <3>1. <<>> \in Seq(Pixel)
        OBVIOUS
      <3>2. QED
        BY <2>1, <2>2, <2>4, <3>1
    <2>5. CASE program # "p6"
      <3>1. <<>> \in Seq(Ints) /\ Len(<<>>) <= 1
        OBVIOUS
      <3> DEFINE w == Worked(r)
      <3>2. w \in Seq(Ints) /\ Len(w) = 1
        BY <2>3, <2>5, Zenon
      <3> HIDE DEF w
      <3>3. w \in Seq(Ints) /\ Len(w) <= 1
        BY <3>2
      <3>4. data[r] = <<>> \/ data[r] = w
        BY <2>1 DEF w
      <3>5. QED
        BY <2>5, <3>1, <3>3, <3>4
    <2>6. QED
      BY <2>4, <2>5
  <1>4. IF program = "p6" THEN output \in Seq(Pixel)
        ELSE output \in Seq(Ints) /\ (Reported <=> Len(output) = 1)
    <2>1. CASE program = "p6"
      <3>1. Made \in Seq(Pixel)
        BY <1>1, <2>1, PixelsMade DEF Made
      <3>2. QED
        BY <1>1, <2>1, <3>1
    <2>2. CASE program # "p6"
      <3> DEFINE x == Merge([i \in 1 .. K |-> Local(Rows(i - 1))])
      <3>1. x \in Ints
        BY <1>1, <2>2, IntsMade
      <3>2. Made = <<x>>
        BY <2>2 DEF Made
      <3> HIDE DEF x
      <3>3. Made \in Seq(Ints) /\ Len(Made) = 1
        BY <3>1, <3>2
      <3>4. QED
        BY <1>1, <2>2, <3>3 DEF Reported
    <2>3. QED
      BY <2>1, <2>2
  <1>5. QED
    BY <1>1, <1>2, <1>3, <1>4 DEF ScatterTypeOK

\* Every version of p5 reports the digit of the whole sum, however many ranks
\* share however many integers, if what each adds up fits in an int.  What the
\* ranks report has to fit as well: D is the largest sum of the digits of an
\* int, 82 for 32 bits, so that this is so up to 26 million ranks.
THEOREM ResultRight ==
    ASSUME NEW D \in Nat, \A x \in 0 .. MaxInt : collapse[x] <= D, MaxRanks * D <= MaxInt
    PROVE  ScatterSafety => []ResultCorrect
  <1>1. ScatterInv => ResultCorrect
    <2> SUFFICES ASSUME ScatterInv PROVE ResultCorrect
      OBVIOUS
    <2>1. ScatterTypeOK
      BY ScatterTyped
    <2>2. ASSUME program # "p6", Reported, Fits
          PROVE  output[1] = IF TrueSum(input) = 0 THEN 0 ELSE 1 + ((TrueSum(input) - 1) % 9)
      <3> DEFINE x == Merge([i \in 1 .. K |-> Local(Rows(i - 1))])
                 y == IF TrueSum(input) = 0 THEN 0 ELSE 1 + ((TrueSum(input) - 1) % 9)
      <3>1. output = Made /\ FileOK
        BY <2>2 DEF ScatterInv, Reported
      <3>2. Made = <<x>>
        BY <2>2 DEF Made
      <3>3. x = y
        BY <2>2, <3>1, MergeRight
      <3> HIDE DEF x, y
      <3>4. output[1] = y
        BY <3>1, <3>2, <3>3
      <3>5. QED
        BY <3>4 DEF y
    <2>3. QED
      BY <2>1, <2>2 DEF ResultCorrect
  <1>2. QED
    BY <1>1, ScatterInvariant, PTL

\* p6 makes the image that sequential.c makes, and that is the mirrored one in
\* grey, for every number of ranks, rows and columns.
THEOREM ImageRight == ScatterSafety => []ImageSame
  <1>1. ScatterInv => ImageSame
    <2> SUFFICES ASSUME ScatterInv, program = "p6", Reported
                 PROVE  output = SequentialImage /\ output = GreyMirror
      BY DEF ImageSame, GreyMirror
    <2>1. output = Made /\ FileOK
      BY DEF ScatterInv, Reported
    <2>2. Made = GreyMirror
      BY DEF Made
    <2>3. Image(input, N[root])
      BY <2>1, FileImage
    <2>4. SequentialImage = GreyMirror
      BY <2>3, SequentialIs DEF GreyMirror
    <2>5. QED
      BY <2>1, <2>2, <2>4
  <1>2. QED
    BY <1>1, ScatterInvariant, PTL
=============================================================================
