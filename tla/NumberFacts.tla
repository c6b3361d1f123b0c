---------------------------- MODULE NumberFacts ----------------------------
(***************************************************************************)
(* What the proofs use of the natural numbers: quotients and remainders by *)
(* a divisor that is not a numeral, the least number of a set, induction   *)
(* and recursion, and the sequences that a loop puts together.  The        *)
(* library states induction and recursion for an operator P(_), which the  *)
(* provers at hand cannot instantiate; stated for a set and a function     *)
(* they are first-order.                                                   *)
(***************************************************************************)
EXTENDS Integers, Sequences, WellFoundedInduction, TLAPS

\* Quotient and remainder make up the number.
LEMMA DivisionParts ==
  ASSUME NEW n \in Int, NEW k \in Nat \ {0}
  PROVE  /\ n = k * (n \div k) + (n % k)
         /\ n \div k \in Int /\ n % k \in 0 .. k - 1
         /\ n >= 0 => n \div k \in Nat
OBVIOUS

\* Multiples lie at least k apart.
LEMMA MultiplesApart ==
  ASSUME NEW k \in Nat \ {0}, NEW p \in Int, NEW q \in Int, p < q
  PROVE  k * p + k <= k * q
<1>1. k * (q - p - 1) >= 0
  OBVIOUS
<1>2. k * (q - p - 1) = k * q - k * p - k
  OBVIOUS
<1> QED BY <1>1, <1>2

\* Only one quotient and one remainder make up a number.
LEMMA DivisionUnique ==
  ASSUME NEW k \in Nat \ {0}, NEW p \in Int, NEW q \in Int,
         NEW r \in 0 .. k - 1, NEW s \in 0 .. k - 1,
         k * p + r = k * q + s
  PROVE  p = q /\ r = s
<1> DEFINE a == k * p
           b == k * q
<1>1. a \in Int /\ b \in Int /\ a + r = b + s
  OBVIOUS
<1>2. p < q => a + k <= b
  BY MultiplesApart
<1>3. q < p => b + k <= a
  BY MultiplesApart
<1> HIDE DEF a, b
<1>4. p = q
  BY <1>1, <1>2, <1>3
<1>5. a = b
  BY <1>4 DEF a, b
<1> QED BY <1>1, <1>4, <1>5

\* What is made up of p times k and a remainder r has these as its parts.
LEMMA DivisionOf ==
  ASSUME NEW n \in Int, NEW k \in Nat \ {0}, NEW p \in Int, NEW r \in 0 .. k - 1,
         n = k * p + r
  PROVE  n \div k = p /\ n % k = r
<1>1. k * p + r = k * (n \div k) + (n % k)
  BY DivisionParts
<1>2. n \div k \in Int /\ n % k \in 0 .. k - 1
  BY DivisionParts
<1> QED BY <1>1, <1>2, DivisionUnique

\* The remainder of the next number is the next one, or comes round.
LEMMA RemainderOfNext ==
  ASSUME NEW n \in Nat, NEW k \in Nat \ {0}
  PROVE  (n + 1) % k = IF n % k = k - 1 THEN 0 ELSE (n % k) + 1
<1> DEFINE q == n \div k
           r == n % k
<1>1. q \in Int /\ r \in 0 .. k - 1 /\ n = k * q + r
  BY DivisionParts
<1> SUFFICES (n + 1) % k = IF r = k - 1 THEN 0 ELSE r + 1
  OBVIOUS
<1> HIDE DEF q, r
<1>2. CASE r = k - 1
  <2>1. k * (q + 1) = k * q + k
    BY <1>1
  <2>2. n + 1 = k * (q + 1) + 0
    BY <1>1, <1>2, <2>1
  <2> QED BY <1>1, <1>2, <2>2, DivisionOf
<1>3. CASE r # k - 1
  <2>1. n + 1 = k * q + (r + 1)
    BY <1>1
  <2>2. r + 1 \in 0 .. k - 1 /\ n + 1 \in Int
    BY <1>1, <1>3
  <2>3. (n + 1) % k = r + 1
    BY <1>1, <2>1, <2>2, DivisionOf
  <2> QED BY <1>3, <2>3
<1> QED BY <1>2, <1>3

\* A number below the divisor is its own remainder.
LEMMA RemainderOfSmall ==
  ASSUME NEW k \in Nat \ {0}, NEW n \in 0 .. k - 1
  PROVE  n % k = n /\ n \div k = 0
<1>1. n = k * 0 + n
  OBVIOUS
<1> QED BY <1>1, DivisionOf

-----------------------------------------------------------------------------
\* A set of numbers that is not empty has a least one.
LEMMA LeastNumber ==
  ASSUME NEW T, T \subseteq Nat, T # {}
  PROVE  \E x \in T : \A y \in T : x <= y
<1> DEFINE R == OpToRel(<, Nat)
<1>1. IsWellFoundedOn(R, Nat)
  BY NatLessThanWellFounded
<1> HIDE DEF R
<1>2. \E x \in T : \A y \in T : ~ (<<y, x>> \in R)
  BY <1>1, WFMin
<1>3. \A x \in Nat, y \in Nat : <<y, x>> \in R <=> y < x
  BY DEF R, OpToRel
<1>4. PICK x \in T : \A y \in T : ~ (<<y, x>> \in R)
  BY <1>2
<1>5. ASSUME NEW y \in T
      PROVE  x <= y
  <2>1. ~ (<<y, x>> \in R) /\ x \in Nat /\ y \in Nat
    BY <1>4
  <2>2. ~ (y < x)
    BY <2>1, <1>3
  <2> QED BY <2>1, <2>2
<1> QED BY <1>5

\* Induction, for a set and not for a predicate.
LEMMA SetInduction ==
  ASSUME NEW S, 0 \in S, \A n \in Nat : n \in S => n + 1 \in S
  PROVE  Nat \subseteq S
<1> DEFINE T == Nat \ S
<1> SUFFICES ASSUME T # {} PROVE FALSE
  OBVIOUS
<1>1. T \subseteq Nat
  OBVIOUS
<1>2. PICK x \in T : \A y \in T : x <= y
  BY <1>1, LeastNumber
<1>3. x # 0 /\ x - 1 \in Nat
  BY <1>2
<1>4. x - 1 \in S
  BY <1>2, <1>3
<1>5. (x - 1) + 1 \in S
  BY <1>3, <1>4
<1> QED BY <1>2, <1>5

\* The function on 0 .. n that begins with a and goes on by "step".
Unfolds(f, A, n, a, step) ==
    /\ f \in [0 .. n -> A] /\ f[0] = a
    /\ \A k \in 1 .. n : f[k] = step[<<k, f[k - 1]>>]

\* A function on the numbers up to a bound is defined by its value at zero and a
\* step.
LEMMA RecursionExists ==
  ASSUME NEW A, NEW a \in A, NEW step \in [Nat \X A -> A], NEW bound \in Nat
  PROVE  \E f : Unfolds(f, A, bound, a, step)
<1> DEFINE Good(n, f) == /\ f \in [0 .. n -> A] /\ f[0] = a
                         /\ \A k \in 1 .. n : f[k] = step[<<k, f[k - 1]>>]
           S == {n \in Nat : \E f : Good(n, f)}
<1>1. 0 \in S
  <2>1. Good(0, [k \in 0 .. 0 |-> a])
    OBVIOUS
  <2> QED BY <2>1
<1>2. ASSUME NEW n \in Nat, n \in S
      PROVE  n + 1 \in S
  <2>1. PICK f : Good(n, f)
    BY <1>2
  <2> DEFINE g == [k \in 0 .. n + 1 |-> IF k = n + 1 THEN step[<<n + 1, f[n]>>] ELSE f[k]]
  <2>2. f[n] \in A
    BY <2>1
  <2>3. step[<<n + 1, f[n]>>] \in A
    BY <2>2
  <2>4. g \in [0 .. n + 1 -> A]
    BY <2>1, <2>3
  <2>5. g[0] = a
    BY <2>1
  <2>6. ASSUME NEW k \in 1 .. n + 1
        PROVE  g[k] = step[<<k, g[k - 1]>>]
    <3>1. g[k - 1] = f[k - 1] /\ k - 1 \in 0 .. n
      OBVIOUS
    <3>2. CASE k = n + 1
      <4>1. k - 1 = n /\ g[k] = step[<<n + 1, f[n]>>] /\ g[k - 1] = f[n]
        BY <3>1, <3>2
      <4> QED BY <4>1, <3>2
    <3>3. CASE k # n + 1
      <4>1. k \in 1 .. n /\ g[k] = f[k]
        BY <3>3
      <4> QED BY <4>1, <3>1, <2>1
    <3> QED BY <3>2, <3>3
  <2> HIDE DEF g
  <2>7. Good(n + 1, g)
    BY <2>4, <2>5, <2>6
  <2> QED BY <2>7
<1>3. Nat \subseteq S
  <2> HIDE DEF S
  <2> QED BY <1>1, <1>2, SetInduction
<1>4. PICK f : Good(bound, f)
  BY <1>3
<1> QED BY <1>4 DEF Unfolds

-----------------------------------------------------------------------------
\* A loop that puts pieces together, and all that it has put together.
Joins(f, n, piece) == f = [i \in 0 .. n |-> IF i = 0 THEN <<>> ELSE f[i - 1] \o piece[i]]

LEMMA JoinsExist ==
  ASSUME NEW n \in Nat, NEW B, NEW piece \in [1 .. n -> Seq(B)]
  PROVE  \E f : Joins(f, n, piece)
<1> DEFINE A == Seq(B)
           step == [kx \in Nat \X A |-> IF kx[1] \in 1 .. n THEN kx[2] \o piece[kx[1]] ELSE kx[2]]
           Steps(f) == [i \in 0 .. n |-> IF i = 0 THEN <<>> ELSE f[i - 1] \o piece[i]]
<1>1. <<>> \in A /\ \A k \in 1 .. n : \A x \in A : x \o piece[k] \in A
  OBVIOUS
<1> HIDE DEF A
<1>2. step \in [Nat \X A -> A] /\ \A k \in 1 .. n, x \in A : step[<<k, x>>] = x \o piece[k]
  <2>1. \A kx \in Nat \X A : kx[2] \in A /\ (kx[1] \in 1 .. n => kx[2] \o piece[kx[1]] \in A)
    BY <1>1
  <2>2. step \in [Nat \X A -> A]
    BY <2>1
  <2>3. \A k \in 1 .. n, x \in A : <<k, x>> \in Nat \X A /\ <<k, x>>[1] = k /\ <<k, x>>[2] = x
    OBVIOUS
  <2>4. \A k \in 1 .. n, x \in A : step[<<k, x>>] = x \o piece[k]
    BY <2>3
  <2> QED BY <2>2, <2>4
<1> HIDE DEF step
<1>3. PICK f : Unfolds(f, A, n, <<>>, step)
  BY <1>1, <1>2, RecursionExists
<1>4. /\ f[0] = <<>> /\ f \in [0 .. n -> A]
      /\ \A k \in 1 .. n : f[k] = step[<<k, f[k - 1]>>]
  BY <1>3 DEF Unfolds
<1>5. \A k \in 1 .. n : f[k] = f[k - 1] \o piece[k]
  <2> SUFFICES ASSUME NEW k \in 1 .. n
               PROVE  f[k] = f[k - 1] \o piece[k]
    OBVIOUS
  <2>1. k - 1 \in 0 .. n
    OBVIOUS
  <2> QED BY <1>2, <1>4, <2>1
<1>6. f = Steps(f)
  <2>1. \A i \in 0 .. n : Steps(f)[i] = f[i]
    <3> SUFFICES ASSUME NEW i \in 0 .. n
                 PROVE  Steps(f)[i] = f[i]
      OBVIOUS
    <3>1. i # 0 => i \in 1 .. n
      OBVIOUS
    <3> QED BY <1>4, <1>5, <3>1
  <2>2. Steps(f) = [i \in 0 .. n |-> Steps(f)[i]] /\ f = [i \in 0 .. n |-> f[i]]
    BY <1>4
  <2> HIDE DEF Steps
  <2> QED BY <2>1, <2>2
<1> QED BY <1>6 DEF Joins

LEMMA JoinsTyped ==
  ASSUME NEW n \in Nat, NEW B, NEW piece \in [1 .. n -> Seq(B)], NEW w, Joins(w, n, piece)
  PROVE  w[n] \in Seq(B)
<1> DEFINE A == Seq(B)
           S == {k \in Nat : k <= n => w[k] \in A}
<1>1. w[0] = <<>> /\ \A i \in 1 .. n : w[i] = w[i - 1] \o piece[i]
  <2>1. 0 \in 0 .. n /\ \A i \in 1 .. n : i \in 0 .. n /\ i # 0
    OBVIOUS
  <2>2. \A i \in 0 .. n : w[i] = IF i = 0 THEN <<>> ELSE w[i - 1] \o piece[i]
    BY DEF Joins
  <2> QED BY <2>1, <2>2
<1>2. 0 \in S
  <2>1. w[0] \in A
    BY <1>1
  <2> QED BY <2>1
<1>3. ASSUME NEW k \in Nat, k \in S
      PROVE  k + 1 \in S
  <2> SUFFICES ASSUME k + 1 <= n
               PROVE  w[k + 1] \in A
    OBVIOUS
  <2>1. k + 1 \in 1 .. n /\ (k + 1) - 1 = k /\ k <= n
    OBVIOUS
  <2>2. w[k] \in A /\ w[k + 1] = w[k] \o piece[k + 1] /\ piece[k + 1] \in A
    BY <1>1, <1>3, <2>1
  <2> QED BY <2>2
<1> HIDE DEF S
<1>4. Nat \subseteq S
  BY <1>2, <1>3, SetInduction
<1> QED BY <1>4 DEF S

=============================================================================
